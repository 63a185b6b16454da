---------------------------- MODULE LoadBalancer ----------------------------
(***************************************************************************)
(* The backend side of the load balancer: BackServiceLB                    *)
(* (proxy/backend_service_lb.go), which accepts the connections of the     *)
(* workers and spreads requests over them, and BackendConnLB               *)
(* (proxy/backend_conn_lb.go), one such connection.                        *)
(*                                                                         *)
(* Unlike the proxy's BackendConn, a connection has one socket, is active  *)
(* when it is created and never becomes active again; its input is closed  *)
(* by its reader.  The goroutines of a connection that report its state    *)
(* are W (Run) and R (loopReader).  Sequence ids and the bufio writer are  *)
(* the subject of module BackendConn: here seqNum2Request is the set of    *)
(* registered requests, and a frame that was written may be answered.      *)
(* Time is left out: any tick may find the last answer too old.  A worker  *)
(* or the network may go away at any time: any read or write may fail.     *)
(***************************************************************************)
EXTENDS Integers, Sequences, FiniteSets

CONSTANTS
    ConnId,             \* connections of workers, in this run of the process
    Request,            \* client requests, each dispatched once
    PING, Nil,
    InputCap,           \* capacity of the input channel (1024 in the code)
    MaxPings            \* bound: pings pushed by all heartbeats

W == "W"
R == "R"
INVALID_ARRAY_INDEX == -1

ASSUME LBAssumption ==
    /\ PING \notin Request /\ Nil \notin Request \cup ConnId /\ PING # Nil
    /\ IsFiniteSet(ConnId)
    /\ InputCap \in Nat \ {0} /\ MaxPings \in Nat

VARIABLES
    activeConns, currentConnIndex, Index,   \* under activeConnsLock
    accepted,                               \* connection created by the accept
                                            \* goroutine and not yet appended
    IsConnActive, marking,
    input, inputClosed, registered,         \* channel, seqNum2Request
    sock, wire,                             \* socket, frames to be answered
    wpc, hand, werr, left,                  \* Run, loopWriter
    rpc, hbpc,                              \* loopReader, Heartbeat
    pings,                                  \* pings pushed so far
    removed,                                \* history: StateChanged was called
                                            \* after the connection was listed
    stage, target, wait, resp,              \* requests: place in Dispatch,
                                            \* connection picked, Wait, Response
    panic

poolVars == <<activeConns, currentConnIndex, Index, accepted, removed>>
flagVars == <<IsConnActive, marking>>
chanVars == <<input, inputClosed, registered>>
netVars == <<sock, wire>>
writerVars == <<wpc, hand, werr, left>>
hbVars == <<hbpc, pings>>
reqVars == <<stage, target, wait, resp>>
vars == <<poolVars, flagVars, chanVars, netVars, writerVars, rpc, hbVars,
          reqVars, panic>>

-----------------------------------------------------------------------------
Item == Request \cup {PING}
Pooled == {activeConns[i] : i \in DOMAIN activeConns}
Queued(c) == {input[c][i] : i \in DOMAIN input[c]} \cap Request

TypeOK ==
    /\ activeConns \in Seq(ConnId)
    /\ currentConnIndex \in 0 .. Cardinality(ConnId)
    /\ Index \in [ConnId -> Int]
    /\ accepted \in ConnId \cup {Nil} /\ removed \subseteq ConnId
    /\ IsConnActive \in [ConnId -> BOOLEAN]
    /\ marking \in [ConnId -> [{W, R} -> {"idle", "set", "notify"}]]
    /\ input \in [ConnId -> Seq(Item)]
    /\ \A c \in ConnId : Len(input[c]) <= InputCap
    /\ inputClosed \in [ConnId -> BOOLEAN]
    /\ registered \in [ConnId -> SUBSET Request]
    /\ sock \in [ConnId -> {"none", "open", "closed"}]
    /\ wire \in [ConnId -> SUBSET Request]
    /\ wpc \in [ConnId -> {"off", "select", "write", "register", "stop",
                           "mark", "after", "drain"}]
    /\ hand \in [ConnId -> Item \cup {Nil}]
    /\ werr \in [ConnId -> BOOLEAN] /\ left \in [ConnId -> 0 .. InputCap]
    /\ rpc \in [ConnId -> {"off", "read", "swap", "close", "done"}]
    /\ hbpc \in [ConnId -> {"off", "loop", "ping", "timeout", "exit"}]
    /\ pings \in 0 .. MaxPings
    /\ stage \in [Request -> {"new", "picked", "wait"}]
    /\ target \in [Request -> ConnId \cup {Nil}]
    /\ wait \in [Request -> Int]
    /\ resp \in [Request -> {"none", "noworker", "err", "data"}]
    /\ panic \in {"no", "index", "send"}

Init ==
    /\ activeConns = <<>> /\ currentConnIndex = 0
    /\ Index = [c \in ConnId |-> INVALID_ARRAY_INDEX]
    /\ accepted = Nil /\ removed = {}
    /\ IsConnActive = [c \in ConnId |-> FALSE]
    /\ marking = [c \in ConnId |-> [t \in {W, R} |-> "idle"]]
    /\ input = [c \in ConnId |-> <<>>]
    /\ inputClosed = [c \in ConnId |-> FALSE]
    /\ registered = [c \in ConnId |-> {}]
    /\ sock = [c \in ConnId |-> "none"] /\ wire = [c \in ConnId |-> {}]
    /\ wpc = [c \in ConnId |-> "off"] /\ hand = [c \in ConnId |-> Nil]
    /\ werr = [c \in ConnId |-> FALSE] /\ left = [c \in ConnId |-> 0]
    /\ rpc = [c \in ConnId |-> "off"] /\ hbpc = [c \in ConnId |-> "off"]
    /\ pings = 0
    /\ stage = [r \in Request |-> "new"] /\ target = [r \in Request |-> Nil]
    /\ wait = [r \in Request |-> 0] /\ resp = [r \in Request |-> "none"]
    /\ panic = "no"

-----------------------------------------------------------------------------
(* BackServiceLB.                                                          *)

\* The accept goroutine: NewBackendConnLB, which starts Run, loopReader and
\* Heartbeat (what they do before their loops touches nothing shared),
NewBackendConnLB(c) ==
    /\ panic = "no"
    /\ accepted = Nil /\ sock[c] = "none"
    /\ accepted' = c
    /\ sock' = [sock EXCEPT ![c] = "open"]
    /\ IsConnActive' = [IsConnActive EXCEPT ![c] = TRUE]
    /\ wpc' = [wpc EXCEPT ![c] = "select"]
    /\ rpc' = [rpc EXCEPT ![c] = "read"]
    /\ hbpc' = [hbpc EXCEPT ![c] = "loop"]
    /\ UNCHANGED <<activeConns, currentConnIndex, Index, removed, marking, wire,
                   hand, werr, left, pings>>
    /\ UNCHANGED <<chanVars, reqVars, panic>>

\* ... and then, under the lock, the connection is listed.
AppendConn ==
    /\ panic = "no"
    /\ accepted # Nil
    /\ Index' = [Index EXCEPT ![accepted] = Len(activeConns)]
    /\ activeConns' = Append(activeConns, accepted)
    /\ accepted' = Nil
    /\ UNCHANGED <<currentConnIndex, removed>>
    /\ UNCHANGED <<flagVars, chanVars, netVars, writerVars, rpc, hbVars, reqVars,
                   panic>>

\* nextBackendConn: round robin.
Cursor == IF currentConnIndex >= Len(activeConns) THEN 0 ELSE currentConnIndex

\* Dispatch: nextBackendConn, or a WorkerNotFound exception.
Pick(r) ==
    /\ panic = "no"
    /\ stage[r] = "new"
    /\ IF activeConns = <<>>
       THEN /\ resp' = [resp EXCEPT ![r] = "noworker"]
            /\ stage' = [stage EXCEPT ![r] = "wait"]
            /\ UNCHANGED <<target, currentConnIndex>>
       ELSE /\ target' = [target EXCEPT ![r] = activeConns[Cursor + 1]]
            /\ currentConnIndex' = Cursor + 1
            /\ stage' = [stage EXCEPT ![r] = "picked"]
            /\ UNCHANGED resp
    /\ UNCHANGED <<wait, activeConns, Index, accepted, removed>>
    /\ UNCHANGED <<flagVars, chanVars, netVars, writerVars, rpc, hbVars, panic>>

\* input <- x, which blocks while the channel is full.
SendInput(c, x) ==
    /\ ~inputClosed[c]
    /\ Len(input[c]) < InputCap
    /\ input' = [input EXCEPT ![c] = Append(@, x)]
    /\ UNCHANGED <<inputClosed, registered>>

\* PushBack: Wait.Add(1); input <- r.  Dispatch then waits.
PushBack(r) ==
    /\ panic = "no"
    /\ stage[r] = "picked"
    /\ SendInput(target[r], r)
    /\ wait' = [wait EXCEPT ![r] = @ + 1]
    /\ stage' = [stage EXCEPT ![r] = "wait"]
    /\ target' = [target EXCEPT ![r] = Nil]
    /\ UNCHANGED resp
    /\ UNCHANGED <<poolVars, flagVars, netVars, writerVars, rpc, hbVars, panic>>

\* The channel was closed after the connection was picked.
PushBackPanics(r) ==
    /\ panic = "no"
    /\ stage[r] = "picked"
    /\ inputClosed[target[r]]
    /\ panic' = "send"
    /\ UNCHANGED <<poolVars, flagVars, chanVars, netVars, writerVars, rpc, hbVars,
                   reqVars>>

\* Mutant of RemoveConn: the moved connection keeps its old Index.
MutRemoveConn(c) ==
    LET lastIndex == Len(activeConns) - 1
        lastConn == activeConns[lastIndex + 1]
    IN  IF Index[c] = INVALID_ARRAY_INDEX
        THEN UNCHANGED <<activeConns, Index, panic>>
        ELSE IF lastIndex = Index[c]
        THEN /\ activeConns' = SubSeq(activeConns, 1, lastIndex)
             /\ UNCHANGED <<Index, panic>>
        ELSE IF lastIndex < 0 \/ Index[c] > lastIndex
        THEN panic' = "index" /\ UNCHANGED <<activeConns, Index>>
        ELSE /\ activeConns' = [i \in 1 .. lastIndex |->
                    IF i = Index[c] + 1 THEN lastConn ELSE activeConns[i]]
             /\ Index' = [Index EXCEPT ![c] = INVALID_ARRAY_INDEX]
             /\ UNCHANGED panic

\* Mutant of RemoveConn: the last connection is not copied into the free cell.
MutRemoveConnCell(c) ==
    LET lastIndex == Len(activeConns) - 1
        lastConn == activeConns[lastIndex + 1]
    IN  IF Index[c] = INVALID_ARRAY_INDEX
        THEN UNCHANGED <<activeConns, Index, panic>>
        ELSE IF lastIndex = Index[c]
        THEN /\ activeConns' = SubSeq(activeConns, 1, lastIndex)
             /\ UNCHANGED <<Index, panic>>
        ELSE IF lastIndex < 0 \/ Index[c] > lastIndex
        THEN panic' = "index" /\ UNCHANGED <<activeConns, Index>>
        ELSE /\ activeConns' = SubSeq(activeConns, 1, lastIndex)
             /\ Index' = [Index EXCEPT ![lastConn] = Index[c],
                                       ![c] = INVALID_ARRAY_INDEX]
             /\ UNCHANGED panic

\* The removal in StateChanged.  A connection in the last place keeps its
\* Index; called again with it, the removal is of another connection, or the
\* index is out of range.
RemoveConn(c) ==
    LET lastIndex == Len(activeConns) - 1
        lastConn == activeConns[lastIndex + 1]
    IN  IF Index[c] = INVALID_ARRAY_INDEX
        THEN UNCHANGED <<activeConns, Index, panic>>
        ELSE IF lastIndex = Index[c]
        THEN /\ activeConns' = SubSeq(activeConns, 1, lastIndex)
             /\ UNCHANGED <<Index, panic>>
        ELSE IF lastIndex < 0 \/ Index[c] > lastIndex
        THEN panic' = "index" /\ UNCHANGED <<activeConns, Index>>
        ELSE /\ activeConns' = [i \in 1 .. lastIndex |->
                    IF i = Index[c] + 1 THEN lastConn ELSE activeConns[i]]
             /\ Index' = [Index EXCEPT ![lastConn] = Index[c],
                                       ![c] = INVALID_ARRAY_INDEX]
             /\ UNCHANGED panic

\* StateChanged, called by goroutine t of connection c.
StateChanged(c, t) ==
    /\ panic = "no"
    /\ marking[c][t] = "notify"
    /\ marking' = [marking EXCEPT ![c][t] = "idle"]
    /\ RemoveConn(c)
    /\ removed' = IF accepted = c THEN removed ELSE removed \cup {c}
    /\ UNCHANGED <<currentConnIndex, accepted, IsConnActive>>
    /\ UNCHANGED <<chanVars, netVars, writerVars, rpc, hbVars, reqVars>>

-----------------------------------------------------------------------------
(* BackendConnLB.                                                          *)

\* MarkConnActiveFalse begins: IsConnActive is read,
MarkConnActiveFalse(c, t) ==
    marking' = IF IsConnActive[c] THEN [marking EXCEPT ![c][t] = "set"]
                                  ELSE marking

\* ... and is cleared; the delegate is told next.
SetInactive(c, t) ==
    /\ panic = "no"
    /\ marking[c][t] = "set"
    /\ IsConnActive' = [IsConnActive EXCEPT ![c] = FALSE]
    /\ marking' = [marking EXCEPT ![c][t] = "notify"]
    /\ UNCHANGED <<poolVars, chanVars, netVars, writerVars, rpc, hbVars, reqVars,
                   panic>>

\* The select of loopWriter: a request or a ping from input,
TakeInput(c) ==
    /\ panic = "no"
    /\ wpc[c] = "select" /\ input[c] # <<>>
    /\ input' = [input EXCEPT ![c] = Tail(@)]
    /\ hand' = [hand EXCEPT ![c] = Head(input[c])]
    /\ wpc' = [wpc EXCEPT ![c] = "write"]
    /\ UNCHANGED <<inputClosed, registered, werr, left>>
    /\ UNCHANGED <<poolVars, flagVars, netVars, rpc, hbVars, reqVars, panic>>

\* ... the end of input (return nil),
InputEnds(c) ==
    /\ panic = "no"
    /\ wpc[c] = "select" /\ input[c] = <<>> /\ inputClosed[c]
    /\ wpc' = [wpc EXCEPT ![c] = "stop"]
    /\ UNCHANGED <<hand, werr, left>>
    /\ UNCHANGED <<poolVars, flagVars, chanVars, netVars, rpc, hbVars, reqVars,
                   panic>>

\* ... or hbTimeout, after which the heartbeat leaves its loop.
TakeTimeout(c) ==
    /\ panic = "no"
    /\ wpc[c] = "select" /\ hbpc[c] = "timeout"
    /\ wpc' = [wpc EXCEPT ![c] = "stop"]
    /\ werr' = [werr EXCEPT ![c] = TRUE]
    /\ hbpc' = [hbpc EXCEPT ![c] = "exit"]
    /\ UNCHANGED <<hand, left, pings>>
    /\ UNCHANGED <<poolVars, flagVars, chanVars, netVars, rpc, reqVars, panic>>

\* A ping that waited more than four seconds is not sent; one that is sent has
\* an answer that only sets hbLastTime, and an entry in the map that nobody
\* waits for: both are left out.
PassPing(c) ==
    /\ panic = "no"
    /\ wpc[c] = "write" /\ hand[c] = PING
    /\ hand' = [hand EXCEPT ![c] = Nil]
    /\ wpc' = [wpc EXCEPT ![c] = "select"]
    /\ UNCHANGED <<werr, left>>
    /\ UNCHANGED <<poolVars, flagVars, chanVars, netVars, rpc, hbVars, reqVars,
                   panic>>

\* Write and FlushBuffer succeed.  What was sent may get lost: no step has to
\* answer it.
Write(c) ==
    /\ panic = "no"
    /\ wpc[c] = "write" /\ hand[c] # PING /\ sock[c] # "closed"
    /\ wire' = [wire EXCEPT ![c] = @ \cup {hand[c]}]
    /\ wpc' = [wpc EXCEPT ![c] = "register"]
    /\ UNCHANGED <<sock, hand, werr, left>>
    /\ UNCHANGED <<poolVars, flagVars, chanVars, rpc, hbVars, reqVars, panic>>

\* seqNum2Request[SeqId] = r, after the flush.
Register(c) ==
    /\ panic = "no"
    /\ wpc[c] = "register"
    /\ registered' = [registered EXCEPT ![c] = @ \cup {hand[c]}]
    /\ hand' = [hand EXCEPT ![c] = Nil]
    /\ wpc' = [wpc EXCEPT ![c] = "select"]
    /\ UNCHANGED <<input, inputClosed, werr, left>>
    /\ UNCHANGED <<poolVars, flagVars, netVars, rpc, hbVars, reqVars, panic>>

\* The end of setResponse and of flushRequests for the requests rs.
Complete(rs, v) ==
    /\ resp' = [r \in Request |-> IF r \in rs THEN v ELSE resp[r]]
    /\ wait' = [r \in Request |-> IF r \in rs THEN wait[r] - 1 ELSE wait[r]]
    /\ UNCHANGED <<stage, target>>

\* FlushBuffer fails: the request gets the error and loopWriter returns it.
WriteFails(c) ==
    /\ panic = "no"
    /\ wpc[c] = "write"
    /\ Complete({hand[c]} \ {PING}, "err")
    /\ wpc' = [wpc EXCEPT ![c] = "stop"]
    /\ werr' = [werr EXCEPT ![c] = TRUE]
    /\ hand' = [hand EXCEPT ![c] = Nil]
    /\ UNCHANGED left
    /\ UNCHANGED <<poolVars, flagVars, chanVars, netVars, rpc, hbVars, panic>>

\* The deferred hbStop <- true, a rendezvous with the loop of Heartbeat.
StopHeartbeat(c) ==
    /\ panic = "no"
    /\ wpc[c] = "stop" /\ hbpc[c] = "loop"
    /\ wpc' = [wpc EXCEPT ![c] = "mark"]
    /\ hbpc' = [hbpc EXCEPT ![c] = "exit"]
    /\ UNCHANGED <<hand, werr, left, pings>>
    /\ UNCHANGED <<poolVars, flagVars, chanVars, netVars, rpc, reqVars, panic>>

\* Run: MarkConnActiveFalse after loopWriter.
WriterMark(c) ==
    /\ panic = "no"
    /\ wpc[c] = "mark"
    /\ MarkConnActiveFalse(c, W)
    /\ wpc' = [wpc EXCEPT ![c] = "after"]
    /\ UNCHANGED <<IsConnActive, hand, werr, left>>
    /\ UNCHANGED <<poolVars, chanVars, netVars, rpc, hbVars, reqVars, panic>>

\* Run: the drain counts len(input) once, and only after an error.
AfterLoop(c) ==
    /\ panic = "no"
    /\ wpc[c] = "after" /\ marking[c][W] = "idle"
    /\ left' = [left EXCEPT ![c] = IF werr[c] THEN Len(input[c]) ELSE 0]
    /\ wpc' = [wpc EXCEPT ![c] = "drain"]
    /\ werr' = [werr EXCEPT ![c] = FALSE]
    /\ UNCHANGED hand
    /\ UNCHANGED <<poolVars, flagVars, chanVars, netVars, rpc, hbVars, reqVars,
                   panic>>

\* One turn of the drain: the request gets the error.  Run has returned when
\* none is left.
Drain(c) ==
    /\ panic = "no"
    /\ wpc[c] = "drain" /\ left[c] # 0 /\ input[c] # <<>>
    /\ input' = [input EXCEPT ![c] = Tail(@)]
    /\ Complete({Head(input[c])} \ {PING}, "err")
    /\ left' = [left EXCEPT ![c] = @ - 1]
    /\ UNCHANGED <<wpc, hand, werr, inputClosed, registered>>
    /\ UNCHANGED <<poolVars, flagVars, netVars, rpc, hbVars, panic>>

-----------------------------------------------------------------------------
(* loopReader and Heartbeat.                                               *)

\* Mutant of ReadReply: the entry is not deleted.
MutReadReply(c, r) ==
    /\ panic = "no"
    /\ rpc[c] = "read" /\ marking[c][R] = "idle"
    /\ r \in wire[c]
    /\ wire' = [wire EXCEPT ![c] = @ \ {r}]
    /\ Complete({r} \cap registered[c], "data")
    /\ UNCHANGED <<sock, registered, input, inputClosed>>
    /\ UNCHANGED <<poolVars, flagVars, writerVars, rpc, hbVars, panic>>

\* setResponse(nil, frame): the answer to r, which is dropped when r is not
\* registered.
ReadReply(c, r) ==
    /\ panic = "no"
    /\ rpc[c] = "read" /\ marking[c][R] = "idle"
    /\ r \in wire[c]
    /\ wire' = [wire EXCEPT ![c] = @ \ {r}]
    /\ Complete({r} \cap registered[c], "data")
    /\ registered' = [registered EXCEPT ![c] = @ \ {r}]
    /\ UNCHANGED <<sock, input, inputClosed>>
    /\ UNCHANGED <<poolVars, flagVars, writerVars, rpc, hbVars, panic>>

\* setResponse of a MESSAGE_TYPE_STOP, which a worker sends before it exits.
ReadStop(c) ==
    /\ panic = "no"
    /\ rpc[c] = "read" /\ marking[c][R] = "idle"
    /\ MarkConnActiveFalse(c, R)
    /\ UNCHANGED IsConnActive
    /\ UNCHANGED <<poolVars, chanVars, netVars, writerVars, rpc, hbVars, reqVars,
                   panic>>

\* ReadFrame fails: flushRequests begins with MarkConnActiveFalse,
ReadFails(c) ==
    /\ panic = "no"
    /\ rpc[c] = "read" /\ marking[c][R] = "idle"
    /\ MarkConnActiveFalse(c, R)
    /\ rpc' = [rpc EXCEPT ![c] = "swap"]
    /\ UNCHANGED IsConnActive
    /\ UNCHANGED <<poolVars, chanVars, netVars, writerVars, hbVars, reqVars, panic>>

\* ... takes the map and fails its requests,
FlushRequests(c) ==
    /\ panic = "no"
    /\ rpc[c] = "swap" /\ marking[c][R] = "idle"
    /\ Complete(registered[c], "err")
    /\ registered' = [registered EXCEPT ![c] = {}]
    /\ rpc' = [rpc EXCEPT ![c] = "close"]
    /\ UNCHANGED <<input, inputClosed>>
    /\ UNCHANGED <<poolVars, flagVars, netVars, writerVars, hbVars, panic>>

\* ... and closes the input; the deferred c.Close() follows.
CloseInput(c) ==
    /\ panic = "no"
    /\ rpc[c] = "close"
    /\ inputClosed' = [inputClosed EXCEPT ![c] = TRUE]
    /\ sock' = [sock EXCEPT ![c] = "closed"]
    /\ wire' = [wire EXCEPT ![c] = {}]
    /\ rpc' = [rpc EXCEPT ![c] = "done"]
    /\ UNCHANGED <<input, registered>>
    /\ UNCHANGED <<poolVars, flagVars, writerVars, hbVars, reqVars, panic>>

\* A tick: the last answer is too old, or a ping is due, or the connection is
\* inactive and the heartbeat leaves its loop.
HbTick(c) ==
    /\ panic = "no"
    /\ hbpc[c] = "loop"
    /\ \/ hbpc' = [hbpc EXCEPT ![c] = "timeout"] /\ UNCHANGED pings
       \/ /\ IsConnActive[c] /\ pings < MaxPings
          /\ hbpc' = [hbpc EXCEPT ![c] = "ping"] /\ pings' = pings + 1
       \/ /\ ~IsConnActive[c]
          /\ hbpc' = [hbpc EXCEPT ![c] = "exit"] /\ UNCHANGED pings
    /\ UNCHANGED <<poolVars, flagVars, chanVars, netVars, writerVars, rpc, reqVars,
                   panic>>

\* PushBack of the ping, which has no Wait; on a closed input it panics.
PushPing(c) ==
    /\ panic = "no"
    /\ hbpc[c] = "ping"
    /\ \/ /\ SendInput(c, PING)
          /\ hbpc' = [hbpc EXCEPT ![c] = "loop"]
          /\ UNCHANGED panic
       \/ /\ inputClosed[c]
          /\ panic' = "send"
          /\ UNCHANGED <<chanVars, hbpc>>
    /\ UNCHANGED <<poolVars, flagVars, netVars, writerVars, rpc, pings, reqVars>>

-----------------------------------------------------------------------------
Next ==
    \/ AppendConn
    \/ \E r \in Request : Pick(r) \/ PushBack(r) \/ PushBackPanics(r)
    \/ \E c \in ConnId :
          \/ NewBackendConnLB(c)
          \/ \E t \in {W, R} : SetInactive(c, t) \/ StateChanged(c, t)
          \/ TakeInput(c) \/ InputEnds(c) \/ TakeTimeout(c)
          \/ PassPing(c) \/ Write(c) \/ Register(c) \/ WriteFails(c)
          \/ StopHeartbeat(c) \/ WriterMark(c) \/ AfterLoop(c)
          \/ Drain(c)
          \/ \E r \in Request : ReadReply(c, r)
          \/ ReadStop(c) \/ ReadFails(c) \/ FlushRequests(c) \/ CloseInput(c)
          \/ HbTick(c) \/ PushPing(c)

Spec == Init /\ [][Next]_vars

-----------------------------------------------------------------------------
(* Properties.                                                             *)

\* Where a request is while it is with the backend.
Places(r) ==
    {<<c, "input">> : c \in {d \in ConnId : r \in Queued(d)}}
      \cup {<<c, "hand">> : c \in {d \in ConnId : hand[d] = r}}
      \cup {<<c, "map">> : c \in {d \in ConnId : r \in registered[d]}}

\* A request whose session waits is in exactly one place of one connection, and
\* one whose Wait is zero in none: setResponse by the writer, by the drain of
\* Run and by the reader, and flushRequests, never complete a request twice
\* (Wait.Done would panic) and never drop one.
OneOwner == \A r \in Request : Cardinality(Places(r)) = wait[r]

\* The listed connections know their places.  A removed connection may keep a
\* stale Index and be reported a second time by its other goroutine; StateChanged
\* then drops a healthy connection from the list, or panics, but the connections
\* that it leaves there still have the Index of their cell.
IndexRight ==
    panic = "no" =>
        \A i \in DOMAIN activeConns : Index[activeConns[i]] = i - 1

\* A connection that was reported to StateChanged when its append was done is
\* never picked again: no swap or late report brings it back into activeConns.
\* (One that was reported before its append is listed for good.)
RemovedStaysOut == panic = "no" => removed \cap Pooled = {}

-----------------------------------------------------------------------------
\* A session sees of its request whether Dispatch found a connection, whether
\* Wait holds it up and, if not, the Response.
Seen(r) ==
    IF stage[r] # "wait" THEN "none"
    ELSE IF wait[r] # 0 THEN "pending"
    ELSE IF resp[r] = "noworker" THEN "exception" ELSE resp[r]

SeenCalls == [r \in Request |-> Seen(r)]

Call == INSTANCE Calls WITH
    Outcome <- {"err", "data"},
    call <- SeenCalls

\* A session that waits for its request is woken once, by whichever connection
\* has it, with an answer or an error that is not written again.  A request
\* that finds no worker is never waited for.
ImplementsCalls == Call!CallSpec
=============================================================================
