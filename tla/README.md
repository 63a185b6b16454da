# A TLA+ development of rpc_proxy

TLA+ specifications of the concurrent parts of `rpc_proxy`, model-checked with
TLC on small instances, and theorems proved with TLAPS for every value of the
constants: every safety property that the passing runs check is also proved.

## The system and its parts

`rpc_proxy` forwards thrift requests from clients to backend servers.

| Part | Source | What it does |
|---|---|---|
| client session | `proxy/session_proxy.go` | one goroutine reads frames and dispatches them, one writes the replies in order |
| router | `proxy/router_proxy.go` | follows the services in ZooKeeper, keeps a `BackService` for each |
| service | `proxy/backend_service_proxy.go` | follows the endpoints of a service, keeps a `BackendConn` for each, chooses one per request |
| connection | `proxy/backend_conn_proxy.go`, `heartbeat.go` | multiplexes requests over one socket, reconnects, fails requests |
| server, registration | `proxy/server_general_rpc.go`, `server_lb.go`, `endpoint.go` | accepts connections, registers an ephemeral endpoint, deletes it on exit |
| server session | `proxy/session_nonblock.go` | one goroutine per frame, replies in the order of completion |
| slice pool | `proxy/memory_alloc.go` | reuses buffers |
| load balancer | `proxy/backend_service_lb.go`, `backend_conn_lb.go` | accepts connections of workers and spreads requests over them |
| accept loops, sockets | `Run` of `server_general_rpc.go`, `server_lb.go`, `server_proxy.go`, `run` of `backend_service_lb.go`, `socket_server_unix_domain.go` | accept connections, start a session for each, exit when quiet |
| ZooKeeper access | `zk/topology.go`, `utils/zk.go` | watches, paths, retries |
| transport, codec | `proxy/buffered_framed_transport.go`, `memory_buffer.go`, `request.go`, `thrift_exception.go` | frames, sequence ids in thrift headers |
| statistics | `proxy/stats.go` | counters per operation |
| start-up, logging, utilities | `cmds/`, `utils/`, `proxy/rpc_command_line.go`, ... | configuration, text output |
| generated code | `gen-go/` | thrift |

A request goes from a session's reader through the router and
`BackService.NextBackendConn` into the input channel of a `BackendConn`; its
writer goroutine sends it under a new sequence id and registers it; the reader
of the socket completes it, or a failure does; the session's writer waits for
it and replies. A server answers with a `NonBlockSession`, whose dispatcher is
a thrift processor, or `BackServiceLB` in the load balancer.

## Modules

| Module | Models | State |
|---|---|---|
| `BackendConn` | one connection of the proxy | channel, `seqNum2Request`, flags, place of each goroutine, sockets, requests |
| `ActivePool` | `activeConns` of a `BackService` with all its callers | list, round-robin cursor, `Index`, flags and life of each connection |
| `BackService` | the endpoint watcher, `doWatch` and `Stop`, on top of `ActivePool` | ZooKeeper children and watch, `evtbus`, `addr2Conn`, place of watcher and of Stop |
| `Session` | a client session | socket, `tasks`, places of reader and writer, responses, replies |
| `NonBlockSession` | a server session, `ThriftRpcServer.Dispatch`, the slice pool | the same with a place per request, and who refers to which memory |
| `LoadBalancer` | `BackServiceLB` with its `BackendConnLB`s | pool, and for each connection channel, map, flags, places |
| `Discovery` | server registration and the router, over ZooKeeper | directories, endpoint node and its owner, processes, router map, `BackService`s |
| `Server` | the four accept loops, `TServerUnixDomain`, the exit goroutine | listener, `ch`, place of each goroutine, connections, age of requests |
| `ZkConn` | `connBuilder`, `safeConn`, `unsafeConn` | lock, connections built so far, place of each goroutine, one node of ZooKeeper |
| `Calls` | what a session may rely on, whichever backend serves it: the abstract specification of a request's `Wait` and `Response` | what became of each request |
| `BackendConnPool` | the refinement mappings from `BackendConn` to `ActivePool` and to `Calls` | |
| `MCBackendConn`, `MCBackService` | symmetry sets for TLC; in the second also a view and a constraint | |
| `BackendConnOwner_proofs`, `BackendConn_proofs` | theorems about `BackendConn`, the second module on top of the first | |
| `BackService_proofs` | theorems about `ActivePool` and `BackService` | |
| `Server_proofs` | theorems about `Server` and `NonBlockSession`, whose names differ so that one module can extend both | |
| `Session_proofs`, `LoadBalancer_proofs`, `Discovery_proofs`, `ZkConn_proofs` | theorems about the module of that name | |

A step is one access to state that goroutines share: an atomic flag, a channel
operation, a section under a lock, a socket or ZooKeeper call. A loop or call
that touches shared state several times is several steps, with a place (`wpc`,
`rpc`, `hbpc`, `opc`, `marking`, `stage`, ...) between them. The names of
operators are those of the code. A Go panic (send on or close of a closed
channel, index out of range) sets `panic`, and no step follows it.

How the modules fit together: `BackendConn` implements the connection that
`ActivePool` assumes (`ImplementsPool`, checked and proved); `BackService`
implements `ActivePool` (`ServiceImplementsPool`, proved), so what is proved of
the pool holds of the service. `Discovery` reduces a `BackService` to `Sync`,
which `Converges` justifies as long as reads of endpoints succeed, and shows that `Stop` is called once per
`BackService`, which `EvtbusNeverBlocks` assumes. `Session` reduces the backend
to `SetResponse`. `Calls` is what both sides of that agree on: a request is
refused with an exception or becomes pending, and a pending one gets an outcome
once, which stays. `BackendConn` and `LoadBalancer`, seen through `Wait` and
`Response`, make no other steps, and in `Session` a request goes through these
steps too, answered one at a time (`ImplementsCalls` of each module, proved for
all three, and checked by run `conn_reconnect`). That every request
gets a response at last is liveness and not part of `Calls`: `FailureReported`
says when it is so, and below is when it is not. `Server` takes the exit of a
server apart that `Discovery` does in one step (`ExitClose`), and reduces in
turn the registration to `Register` and `DeleteEndpoint`.

### Abstractions

- Data: a request is a model value or a number; a frame is its sequence id and
  request; a reply is data or an exception. Thrift encoding is left out.
- `BackendConn`: `Wait.Add` and the send of `PushBack` are one step; a reader
  fails the requests of its batch in one step; frames left in the bufio writer
  are dropped when the writer leaves its loop; replies that do not decode are
  left out; `ensureConn` with its retries is one step that succeeds or fails.
  Requests are not recycled while they are in flight.
- `BackService`: children stand for endpoint addresses; the ten seconds that
  `Stop` waits for quiet are one step that may happen at any time; a nil element
  read without the lock counts as the index panic.
- `LoadBalancer`: sequence ids and the bufio writer are left to `BackendConn`;
  any tick of the heartbeat may find the last answer too old, and any read
  or write may fail; swapping the map
  and failing its requests is one step, since one reader does both and nobody
  else holds those requests.
- `Discovery`: one frontend address; the `Exist` and `DeleteRecursive` of
  `DeleteServiceEndpoint` are one step; a failed `Listen` is a crash; writes to
  ZooKeeper do not fail; the five idle seconds before exit are one step. `Back`
  bounds how many `BackService`s the router ever makes: `Update` takes no step
  without an object for each new service (`NewBacks`).
- `Server`: `server` says which of the four programs runs; it is chosen in
  `Init` and never changes. Times are counted up to the first past the quiet
  time. A session has at most one call in progress. TCP sockets (`TServerSocket`
  of thrift) are taken to behave like `TServerUnixDomain`. Accept may fail at
  any time, as it does without file descriptors (`broke`). The exit goroutine of
  the listener for workers is left out: nobody sends to `exitEvt`.
- `ZkConn`: all operations are wrapped alike, so four kinds stand for them, on
  one node whose value is its version. A reset that finds no time has passed
  returns early as in the code; the answer of an operation may be lost after it
  was executed or before. `log.Fatal` sets `fatal`, and no step follows it.
- Objects are recycled: `Conn`, `ConnId` are the objects alive at a time, not
  all those ever created.

## Runs

| Run | Module | Checks | Distinct states |
|---|---|---|---|
| `conn_reconnect` | `MCBackendConn` | `OneOwner`, `AnswerMatches`, `DrainHasInput`, `ImplementsCalls`, `ImplementsPool` | 383,046 |
| `conn_offline` | `MCBackendConn` | `FailureReported` | 435,039 |
| `service_watch` | `MCBackService` | `OneConnPerAddr`, `EvtbusNeverBlocks`, `IndexInv`, `PooledWhenQuiet`, `EndedNotPooled`, `RoundRobin` | 1,766,314 |
| `service_converges` | `MCBackService` | `Converges` | 113,197 |
| `session` | `Session` | `InOrder`, `BoundedPipeline`, `RecycleAccounted`, `SessionEnds`, `RepliesArrive` | 55,182 |
| `nonblock` | `NonBlockSession` | `RequestIntact`, `TasksOpen`, `SessionEnds`, `RepliesArrive` | 213,661 |
| `lb` | `LoadBalancer` | `OneOwner`, `RemovedStaysOut`, `IndexRight` | 1,559,051 |
| `discovery` | `Discovery` | `EndpointIsOwn`, `NotRegisteredAfterExit`, `OneBackPerService`, `ServerFound`, `ServerForgotten`, `SignalEnds` | 130,667 |
| `server` | `Server` | `ListedIsServed`, `NotCutOff`, `AcceptedServed`, `ExitEnds` | 60,022 |
| `zkconn` | `ZkConn` | `OpenWhileUsed`, `RebuildRate`, `AppliedOnce`, `OpEnds`, `ResetRebuilds` | 167,429 |

No run spends a property on `TypeOK`, which states the types of a module's
variables for the reader, with the capacities of the channels: it is proved for
each of the nine modules that model code (the first nine under "Modules").

What the runs show:

- A request in the proxy has one owner at any time, and until the sequence ids
  wrap around it gets no answer but its own; its session is woken at most once,
  and the response is not rewritten after that. A request that is registered when
  a reader is about to swap the map, or queued when `loopWriter` has failed, is
  answered or failed at last, again until the ids wrap; one that is registered
  after the swap is not covered (see Observations).
- The pool and its back pointers agree whoever reports a connection, selection
  is round robin, an address has at most one live connection. The connections
  follow the endpoints, except for an address whose read failed in the last pass
  of the watcher: it has no connection until the next event.
- A session answers in order, bounds its pipeline, recycles every buffer (but at
  most the one of a reply that could not be written) and ends; a server session
  does not overwrite a request that is being read, and nothing sends on its
  closed channel.
- A request in the load balancer has one owner. Its pool is weaker than that of
  the proxy: the listed workers know their places, and a worker that was taken
  out does not come back, but a report with a stale `Index` can drop a healthy
  worker from the list or panic.
- A server that stays up is found (unless its session expires between `Create`
  and `WatchNode`), one that is gone is forgotten. From the time it listens, what
  is listed is served; between registration and `Listen` it is not. A connection
  that was accepted gets its session. The exit does not wait for heartbeats and
  comes to an end, by a panic in the load balancer (`DeferredClose`); it cuts off
  no request within the quiet time, but may cut off those that came in after it.
- The ZooKeeper connection is never closed under an operation and is replaced at
  most once a second; nobody waits for ever for the lock, and a reset of a
  connection that is a second old leads to a new one. A `Create`, or a `Set` that
  names a version, takes effect once although it is retried, unless the node is
  deleted; nothing of the kind holds for a `Set` of version -1. These runs are
  about code that is not in use: nothing in the repository calls
  `NewConnBuilder` of `utils/zk.go`, and `zk/topology.go`, which gets its
  connection from `zkhelper.ConnectToZk`, only writes with version -1.

Two more runs state what a comment of the code says, and TLC finds a
behaviour of the code that does otherwise:

- `conn_stop_returns`: "hbStop was added to help stopping" the heartbeat
  (`backend_conn_proxy.go:73`). After a heartbeat timeout nobody receives the
  deferred `hbStop <- true`, so `loopWriter` never returns and the connection
  neither drains nor reconnects.
- `nonblock_slice`: "if the transport reallocated memory, return the slice at
  once" (`server_general_rpc.go:148`). `getSlice(0, 1024)` gives a capacity of
  2048, so the test of the capacity always succeeds, and the slice is returned
  while the response in it still waits to be written.

Deadlock is not checked: every system here may stop (no more requests, a panic,
a session that is over), and what must not stop is stated as liveness.

### Bounds, and why they are enough

- `conn_reconnect`: two sockets are what it takes for the reader of an old
  socket to run while the new one is used; three requests and two ids let an
  id be used a second time (the code has 32-bit ids from
  `BACKEND_CONN_MIN_SEQ_ID` to `MAX`), fill a channel of two places, and allow
  a failed write, hence a reconnection, between two frames. No pings are sent
  (`MaxSends` is 0), since with them the connection fails any number of times.
- `conn_offline`: pings (none once `MaxSends` frames were written), one request,
  one socket that is opened again and again, one goroutine that marks the
  connection offline. Pings on two sockets are left to the proofs.
- `service_watch`: two connection objects, so that the removal swaps and an
  address can get a second one; an accepted and a refused address; the writer
  and two offliners report a connection. Reads of endpoints may fail. The objects
  are recycled, so any number of endpoint changes is covered, and the properties
  of the pool are proved for every instance, with readers among the callers. The
  states are compared without `unread` (`WatchView`), which no step depends on.
- `service_converges`: two objects for one address, so that the connection is
  taken offline by a failed read, or because the endpoint went, and replaced
  while the old object is still in use. Behaviours are followed up to Stop
  (`NotStopped`), since `Converges` is about services that are not stopped. With
  an accepted and a refused address (470,527 states) the result is the same; the
  run is kept small.
- `session`: five frames and two places in `tasks`: one more than `tasks` and
  the hands of both goroutines can hold, so that the bound on the pipeline
  could be exceeded and is not. `nonblock`: three requests, one place in
  `tasks` and in the slice pool, and more slices than can be in use.
- `lb`: two connections (a stale `Index` needs a second one appended in its
  place, which the next report then drops), a request and a ping competing for
  one place. A swap by a stale `Index` takes three connections and is left to the
  proofs, which are for any number of them.
- `discovery`: a process and its successor, one session expiry (of either side)
  and one change by hand, two services.
- `server`: two connections, one in the place of `ch` and one in the hands of
  Run; a quiet time of two ticks, so that a request may be younger, as old and
  older; three calls (`MaxRequests`) and any number of heartbeats.
- `zkconn`: a goroutine with a safe and one with an unsafe connection, one
  retry, three operations (`MaxCalls`) and a reset goroutine for each of them,
  and two seconds, in which two connections can be built.

### Fairness

Weak fairness of every goroutine: the Go scheduler runs what can run, and a
channel operation or a lock section that stays possible is taken. Clients,
networks, ZooKeeper and operators are not obliged to do anything, with these
exceptions: `BackService` assumes that `WatchChildren`, tried again and again,
succeeds (strong fairness), but not that a read of an endpoint ever does, and
`Converges` that the process can create a connection object; `Session` that a
request with a backend gets its response; `Discovery` that ZooKeeper ends the
session of a dead process, that a watch or listing that failed succeeds when it
is tried again, and that the watcher of a `BackService` sees a change; `Server`
that time passes, and that a connection waiting to be accepted is (strong
fairness: Accept returns between them when it is interrupted); `ZkConn` that an
operation returns, if only with an error.

## Proofs

All obligations are checked by TLAPS with Zenon, Z3 and LS4. Zenon is the
default, since most leaves are first-order; the leaves that need arithmetic or
function updates cite `SMTT`. The assumptions
are the `ASSUME`s of the modules: distinct model values, capacities and bounds
that are natural numbers, a non-empty id range.

- `BackendConnOwner_proofs`, `BackendConn_proofs`. `OwnerInv` strengthens
  `OneOwner`: besides the type, it fixes what the writer holds at each of its
  places (`WriterOK`) and that a request that was not pushed has no owner
  (`NotYetHandled`). `OneOwner` alone is not inductive, since a writer at
  "register" with no request in hand would break it. The steps that only give
  requests up share one lemma (`FewerOwned`); those that move a request from one
  place to another are proved for each part of `OneOwner` (`OwnerParts`). `MarkInv` (who may be in `MarkConnActiveFalse`, and that a closed
  input is an offline connection) gives `DrainHasInput` and, with the type,
  `ImplementsPool`. `SeqInv` (until the ids wrap, id MIN + n belongs to the n-th
  frame) gives `AnswerMatches`. `ResponseStable` follows from `OwnerInv`: a
  request whose wait is zero is nowhere, and only owners complete requests.
  `ImplementsCalls` follows the same way, step by step: a step leaves what the
  sessions see alone, or is `HandleRequest` of one request (`Dispatch` of
  `Calls`), or completes a set of requests that were pending (`Answer`): one by
  `setResponse` or the drain, a whole batch by `flushRequests`. That a completed
  request was pending is `OneOwner`. `PanicNeedsOffline`, which no run checks:
  the input is closed by `MarkOffline` only, and stays closed.
- `BackService_proofs`, the pool. `PoolInv` adds to `IndexInv` and
  `PooledWhenQuiet` that an offliner past its check has marked its target and that a connection is active
  only while its Run goes on. Two lemmas about sequences, for appending and for
  the swap-with-last removal, carry the rest. `RoundRobinCorrect` adds that the
  connections served in this round lie behind the cursor.
- `BackService_proofs`, the service. Each step of the service is a step of the pool or leaves
  it alone (`ServiceImplementsPool`), so `PoolInv` is kept. `ServiceInv` adds
  that a live connection is recorded in `addr2Conn`, which gives
  `OneConnPerAddr`, and a budget of events, which gives `EvtbusNeverBlocks`.
- `Session_proofs`. `SessionInv` counts the requests that
  were pushed and taken: `tasks` holds the requests between the two counts, in
  order (`TasksInOrder`); the number of replies follows the count of taken ones
  by the place of the writer (`WriterInStep`); so do the recycled requests
  (`RecycledInOrder`). None of the three properties is inductive without these:
  that the next reply is for the next request rests on what the channel holds.
  `SessionImplementsCalls` needs the types and that a request is not dispatched
  before it is read (`NotDispatched`).
- `Server_proofs`, the server session (`NonBlockSession`). `ClosedLast` gives `TasksOpen`: at
  the close every request is past its send. For `RequestIntact`, `Exclusive` says
  that the slice of a frame still to be read is not in the channel of slices, is
  not what `Dispatch` of any request writes to, and belongs to no other such
  frame, and the channel has no slice twice; `Refers` says what a request refers
  to at each place. The slice of a response is not part of `Exclusive`: it may be
  shared, which is what run `nonblock_slice` shows. `make` finds a slice that
  nobody refers to because there are at least twice as many as requests
  (`AnotherSlice`, a counting argument); that there are is part of
  `NonBlockAssumption`, and stands for a heap on which `make` does not fail.
- `LoadBalancer_proofs`. `ListInv`: the cells of the list agree with the Indexes
  of the connections in them, and a connection is either on its way into the
  list, or in it, or out for good; it gives `IndexRight` and `RemovedStaysOut`
  although a removal may use a stale Index. `OwnerInv`: the requests in the
  channel, in the writer's hand and in the map of a connection are disjoint, also
  between connections, and `Wait` is 1 for exactly these; it gives `OneOwner`,
  which counts the places, by the theorems about cardinalities. With
  `OwnerInv`, a step completes only requests that wait, which gives
  `ImplementsCalls`; `flushRequests` completes all requests of a map at once.
  `LBTypeCorrect` is proved after these, variable by variable; that the length of
  the list stays within the number of connections needs `ListInv` and a finite
  set of them (`LBAssumption`).
- `Discovery_proofs`. `ProcInv`: one process of the address is alive; from its
  first delete on, the node is its own or missing; the exit goroutine deletes the
  node only after the goroutine of `RegisterService` is done. This gives
  `EndpointIsOwn` and `NotRegisteredAfterExit`, which look at single places and
  need what leads there. `RouterInv`: `Router.services` and the running
  `BackService`s are inverse to each other, for `OneBackPerService`. The type
  invariant adds that the endpoint node is only ever under the directory of its
  service.
- `Server_proofs`, the accept loops. `SockInv` ties the listener to the place of the exit
  goroutine: it alone closes it, after the endpoint was deleted and the quiet
  time was over; this gives `ListedIsServed`, and, with the places at which the
  process panics, the first half of `NotCutOff`. `TimeInv` says that `quiet` is at
  most the age of every request, which the test for quiet turns into: every
  request from before is older than the quiet time. `NotCutOff` needs both, since
  Run returns, or panics, only after what the exit goroutine did, or by `broke`.
- `ZkConn_proofs`. `LockInv` is the exclusion of the lock (the builder runs only
  for the holder, a closed connection means that somebody builds) and gives
  `OpenWhileUsed`. `RateInv` adds that the connection is still old when the
  builder returns, for `RebuildRate`. `NodeInv` says what a write that took effect left behind (a node
  with a later version), for `AppliedOnce`, which alone is not inductive.

Only model-checked: the liveness properties (`FailureReported`, `Converges`,
`SessionEnds`, `RepliesArrive`, `ServerFound`, `ServerForgotten`, `SignalEnds`,
`AcceptedServed`, `ExitEnds`, `OpEnds`, `ResetRebuilds`),
since fairness and ENABLED are out of the prover's reach, and the two
counterexamples above.

## Observations

Behaviours the models reach that the properties above allow for:

- A session that picked a connection before `MarkOffline` (or, in the load
  balancer, before the reader's `close(bc.input)`) sends on a closed channel,
  which panics. Two callers of `MarkOffline` may both close the input.
- A request that is registered after the reader of a broken socket has swapped
  the map, and before the writer notices, waits until a later reader fails or for
  ever. After the sequence ids wrap around, a request may get another's answer.
- `MarkConnActiveOK` may put a connection back into the pool that is offline
  already; it leaves when its Run ends.
- A failed `GetServiceEndpoint` takes the live connection of a registered address
  offline, and nothing tries the read again before the next event of ZooKeeper
  (`unread` in `BackService`).
- A reply that is read between `FlushBuffer` and the registration of its request
  is dropped; the request waits until the socket breaks.
- The reader of the previous socket may mark a connection inactive after it
  reconnected; it stays out of the pool until the next reconnect.
- The drain of `Run` counts the channel once: a request pushed later stays there
  when `Run` returns.
- `BackService.Stop` reads `activeConns` without its lock, and does not reach
  connections that are reconnecting. A connection whose address does not resolve
  ends but stays recorded.
- Load balancer: a connection removed from the last place keeps its `Index`;
  the report of its other goroutine then removes another connection or indexes
  out of range. After a heartbeat timeout the socket is not closed.
- A server whose session expires after `Create` and before `WatchNode` has no
  endpoint and does not learn of it (`lost` in `Discovery`).
- Load balancer: a worker connection that fails between its start and its
  `append` is listed for good although it is inactive, while `nextBackendConn`
  is documented to get "the next BackendConn in the active state"
  (`backend_service_lb.go:184`).
- `server_lb.go` closes `ch` twice when `Accept` fails: every exit of the load
  balancer, the graceful one too, ends in a panic (`DeferredClose`).
- `TServerUnixDomain.Close` may set `listener` to nil between the test and the
  use in `Accept`, which then panics, at the end of the process anyway. Any
  failure of `Accept` ends a server at once, with its endpoint listed.
- The proxy ignores an error of `Listen` and then leaves its loop.
- `utils/zk.go`: `isConnectionError` counts a version conflict as an error of
  the connection. A `Set` with a version whose answer was lost is tried again,
  conflicts with itself, resets a healthy connection, and ends the process after
  the retries. Within a second of a rebuild all retries can be used up without a
  single rebuild, although the process is to end "if retry can not rebuild the
  connection" (`utils/zk.go:18`). A retried `Create` or `Delete` that had taken
  effect reports `NodeExists` or `NoNode`. `Seq2Str` reads the connection without
  the lock.
- A session that ends recycles the buffers of requests that are still in flight.

## Not modelled

Byte-level buffering and the flush policy of the transport, the thrift codec,
statistics, the rolling log, configuration, generated code. `PROJECT.json` gives
the reason for each.

## Plan

1. Operators for the pure parts: header rewriting in `request.go`
   (`ReplaceSeqId`, `RestoreSeqId`), `GetServiceIdentity`, `needFlush`.
2. `Session` with the slice pool and `BackendConn` composed, for the requests
   that are recycled in flight; the statistics map; the rolling log.
