----------------------------- MODULE BackService -----------------------------
(***************************************************************************)
(* The backends of one service as the proxy sees them                      *)
(* (proxy/backend_service_proxy.go): the goroutine that follows the        *)
(* service's endpoints in ZooKeeper, creating and retiring connections,    *)
(* and Stop, on top of the pool of module ActivePool.                      *)
(***************************************************************************)
EXTENDS ActivePool

CONSTANTS
    Addr,               \* addresses the service's endpoints may register
    Accepted            \* those with a ":", or all of them for product "test"

EvtbusCap == 2

ASSUME ServiceAssumption ==
    /\ Offliner = {"watch", "stop"}
    /\ None \notin Addr
    /\ Accepted \subseteq Addr

VARIABLES
    addrOf,                                 \* the address of a connection
    addr2Conn, wpc, todo, addressMap,       \* the watcher goroutine, with the
    retiring,                               \* address it is taking offline
    unread,                                 \* those whose read failed since the
                                            \* last listing (for Converges)
    children, armed, fired, evtbus,         \* zk: endpoints, watches, doWatch
                                            \* with an event, channel length
    stop, spc                               \* Stop

watchVars == <<addrOf, addr2Conn, wpc, todo, addressMap, retiring, unread>>
zkVars == <<children, armed, fired, evtbus>>
stopVars == <<stop, spc>>
vars == <<poolVars, watchVars, zkVars, stopVars>>

-----------------------------------------------------------------------------
TypeOK ==
    /\ PoolTypeOK
    /\ addrOf \in [ConnId -> Addr \cup {None}]
    /\ addr2Conn \in [Addr -> ConnId \cup {None}]
    /\ wpc \in {"loop", "list", "read", "create", "retire", "wait", "done"}
    /\ todo \subseteq Addr /\ addressMap \subseteq Addr /\ unread \subseteq Addr
    /\ retiring \in Addr \cup {None}
    /\ children \subseteq Addr
    /\ armed \in Nat
    /\ fired \in Nat /\ evtbus \in 0 .. EvtbusCap
    /\ stop \in BOOLEAN
    /\ spc \in {"idle", "notify", "quiet", "len", "first", "mark", "done"}

\* NewBackService: no connections; the watcher goroutine starts.
Init ==
    /\ PoolInit
    /\ life = [c \in ConnId |-> "none"]
    /\ addrOf = [c \in ConnId |-> None]
    /\ addr2Conn = [a \in Addr |-> None]
    /\ wpc = "loop" /\ todo = {} /\ addressMap = {} /\ retiring = None
    /\ unread = {}
    /\ children \in SUBSET Addr
    /\ armed = 0 /\ fired = 0 /\ evtbus = 0
    /\ stop = FALSE /\ spc = "idle"

-----------------------------------------------------------------------------
(* The watcher: WatchBackServiceNodes.                                     *)

\* for !s.stop.Get()
WatchLoop ==
    /\ panic = "no"
    /\ wpc = "loop"
    /\ wpc' = IF stop THEN "done" ELSE "list"
    /\ UNCHANGED <<addrOf, addr2Conn, todo, addressMap, retiring, unread>>
    /\ UNCHANGED <<poolVars, zkVars, stopVars>>

\* Mutant of WatchChildren: the endpoints are listed without a watch.
MutWatchChildren ==
    /\ panic = "no"
    /\ wpc = "list"
    /\ wpc' = "read"
    /\ todo' = children /\ addressMap' = {} /\ unread' = {}
    /\ UNCHANGED <<addrOf, addr2Conn, retiring, zkVars, poolVars, stopVars>>

\* topo.WatchChildren lists the endpoints and sets a watch (doWatch).
WatchChildren ==
    /\ panic = "no"
    /\ wpc = "list"
    /\ wpc' = "read"
    /\ todo' = children /\ addressMap' = {} /\ unread' = {}
    /\ armed' = armed + 1
    /\ UNCHANGED <<addrOf, addr2Conn, retiring, children, fired, evtbus>>
    /\ UNCHANGED <<poolVars, stopVars>>

\* Mutant of WatchChildrenFails: doWatch is started before err is tested.
MutWatchChildrenFails ==
    /\ panic = "no"
    /\ wpc = "list"
    /\ wpc' = "loop"
    /\ armed' = armed + 1
    /\ UNCHANGED <<addrOf, addr2Conn, todo, addressMap, retiring, unread,
                   children, fired, evtbus, poolVars, stopVars>>

\* It fails; the goroutine sleeps 5 s and tries again.
WatchChildrenFails ==
    /\ panic = "no"
    /\ wpc = "list"
    /\ wpc' = "loop"
    /\ UNCHANGED <<addrOf, addr2Conn, todo, addressMap, retiring, unread>>
    /\ UNCHANGED <<poolVars, zkVars, stopVars>>

\* GetServiceEndpoint for one child; an error (the node is gone, or the read
\* failed) is logged and the child left out.
ReadEndpoint(a) ==
    /\ panic = "no"
    /\ wpc = "read"
    /\ a \in todo
    /\ todo' = todo \ {a}
    /\ \/ /\ addressMap' = addressMap \cup ({a} \cap children \cap Accepted)
          /\ UNCHANGED unread
       \/ /\ unread' = unread \cup {a}
          /\ UNCHANGED addressMap
    /\ UNCHANGED <<addrOf, addr2Conn, wpc, retiring>>
    /\ UNCHANGED <<poolVars, zkVars, stopVars>>

ReadDone ==
    /\ panic = "no"
    /\ wpc = "read" /\ todo = {}
    /\ wpc' = "create"
    /\ todo' = addressMap
    /\ UNCHANGED <<addrOf, addr2Conn, addressMap, retiring, unread>>
    /\ UNCHANGED <<poolVars, zkVars, stopVars>>

\* Mutant of Connected: it asks for an active connection.
MutConnected(a) == addr2Conn[a] # None /\ IsConnActive[addr2Conn[a]]

Connected(a) == addr2Conn[a] # None /\ ~IsMarkOffline[addr2Conn[a]]

KeepConn(a) ==
    /\ panic = "no"
    /\ wpc = "create" /\ a \in todo
    /\ Connected(a)
    /\ todo' = todo \ {a}
    /\ UNCHANGED <<addrOf, addr2Conn, wpc, addressMap, retiring, unread>>
    /\ UNCHANGED <<poolVars, zkVars, stopVars>>

\* An object that is not in use.
Fresh(c) == Free(c) /\ \A b \in Addr : addr2Conn[b] # c

\* s.addr2Conn[addr] = NewBackendConn(...)
NewBackendConn(a, c) ==
    /\ wpc = "create" /\ a \in todo
    /\ ~Connected(a)
    /\ Fresh(c)
    /\ NewConn(c)
    /\ addr2Conn' = [addr2Conn EXCEPT ![a] = c]
    /\ addrOf' = [addrOf EXCEPT ![c] = a]
    /\ todo' = todo \ {a}
    /\ UNCHANGED <<wpc, addressMap, retiring, unread>>
    /\ UNCHANGED <<zkVars, stopVars>>

CreateDone ==
    /\ panic = "no"
    /\ wpc = "create" /\ todo = {}
    /\ wpc' = "retire"
    /\ UNCHANGED <<addrOf, addr2Conn, todo, addressMap, retiring, unread>>
    /\ UNCHANGED <<poolVars, zkVars, stopVars>>

\* A connection whose address was not listed: conn.MarkOffline()
\* begins,
Retire(a) ==
    /\ wpc = "retire" /\ retiring = None
    /\ addr2Conn[a] # None /\ a \notin addressMap
    /\ OfflineCheck("watch", addr2Conn[a])
    /\ retiring' = a
    /\ UNCHANGED <<addrOf, addr2Conn, wpc, todo, addressMap, unread>>
    /\ UNCHANGED <<zkVars, stopVars>>

\* ... then delete(s.addr2Conn, addr).
Retired ==
    /\ panic = "no"
    /\ retiring # None /\ opc["watch"] = "idle"
    /\ addr2Conn' = [addr2Conn EXCEPT ![retiring] = None]
    /\ retiring' = None
    /\ UNCHANGED <<addrOf, wpc, todo, addressMap, unread>>
    /\ UNCHANGED <<poolVars, zkVars, stopVars>>

RetireDone ==
    /\ panic = "no"
    /\ wpc = "retire" /\ retiring = None
    /\ \A a \in Addr : addr2Conn[a] # None => a \in addressMap
    /\ wpc' = "wait"
    /\ UNCHANGED <<addrOf, addr2Conn, todo, addressMap, retiring, unread>>
    /\ UNCHANGED <<poolVars, zkVars, stopVars>>

\* <-s.evtbus
WatchEvent ==
    /\ panic = "no"
    /\ wpc = "wait" /\ evtbus > 0
    /\ evtbus' = evtbus - 1
    /\ wpc' = "loop"
    /\ UNCHANGED <<addrOf, addr2Conn, todo, addressMap, retiring, unread, children,
                   armed, fired>>
    /\ UNCHANGED <<poolVars, stopVars>>

-----------------------------------------------------------------------------
(* ZooKeeper and doWatch (zk/topology.go).                                 *)

\* Endpoints come and go, or the session expires: the armed watches fire.
ZkEvent ==
    /\ panic = "no"
    /\ children' \in SUBSET Addr
    /\ armed' = 0
    /\ fired' = fired + armed
    /\ UNCHANGED evtbus
    /\ UNCHANGED <<poolVars, watchVars, stopVars>>

\* doWatch: evtbus <- e.
DoWatch ==
    /\ panic = "no"
    /\ fired > 0 /\ evtbus < EvtbusCap
    /\ fired' = fired - 1
    /\ evtbus' = evtbus + 1
    /\ UNCHANGED <<children, armed>>
    /\ UNCHANGED <<poolVars, watchVars, stopVars>>

-----------------------------------------------------------------------------
(* Stop, called once by the router, which holds its serviceLock.           *)

StopCall ==
    /\ panic = "no"
    /\ spc = "idle"
    /\ stop' = TRUE
    /\ spc' = "notify"
    /\ UNCHANGED <<poolVars, watchVars, zkVars>>

\* s.evtbus <- true
StopNotify ==
    /\ panic = "no"
    /\ spc = "notify" /\ evtbus < EvtbusCap
    /\ evtbus' = evtbus + 1
    /\ spc' = "quiet"
    /\ UNCHANGED <<stop, children, armed, fired>>
    /\ UNCHANGED <<poolVars, watchVars>>

\* Its goroutine goes on once there was no request for 10 s.
StopQuiet ==
    /\ panic = "no"
    /\ spc = "quiet"
    /\ spc' = "len"
    /\ UNCHANGED stop
    /\ UNCHANGED <<poolVars, watchVars, zkVars>>

\* for len(s.activeConns) > 0, read without the lock
StopLen ==
    /\ panic = "no"
    /\ spc = "len"
    /\ spc' = IF activeConns = <<>> THEN "done" ELSE "first"
    /\ UNCHANGED stop
    /\ UNCHANGED <<poolVars, watchVars, zkVars>>

\* s.activeConns[0].MarkOffline(), also without the lock: the pool may be empty
\* by now, and the index is out of range (or the element is already nil).
StopFirst ==
    /\ spc = "first"
    /\ IF activeConns = <<>>
       THEN FirstPanics /\ UNCHANGED spc
       ELSE OfflineCheck("stop", activeConns[1]) /\ spc' = "mark"
    /\ UNCHANGED stop
    /\ UNCHANGED <<watchVars, zkVars>>

StopMarked ==
    /\ panic = "no"
    /\ spc = "mark" /\ opc["stop"] = "idle"
    /\ spc' = "len"
    /\ UNCHANGED stop
    /\ UNCHANGED <<poolVars, watchVars, zkVars>>

-----------------------------------------------------------------------------
Watching ==
    \/ WatchLoop \/ WatchChildren \/ WatchChildrenFails
    \/ \E a \in Addr : ReadEndpoint(a) \/ KeepConn(a) \/ Retire(a)
    \/ \E a \in Addr, c \in ConnId : NewBackendConn(a, c)
    \/ ReadDone \/ CreateDone \/ Retired \/ RetireDone \/ WatchEvent

Stopping ==
    StopCall \/ StopNotify \/ StopQuiet \/ StopLen \/ StopFirst \/ StopMarked

\* The steps of the pool that the watcher and Stop do not take.
Pooling ==
    /\ \/ NextBackendConn
       \/ \E c \in ConnId : Marking(c) \/ ConnLife(c)
       \/ \E o \in Offliner : Offlining(o)
    /\ UNCHANGED <<watchVars, zkVars, stopVars>>

Next == Pooling \/ Watching \/ Stopping \/ ZkEvent \/ DoWatch

Spec == Init /\ [][Next]_vars

Elsewhere(A) == A /\ UNCHANGED <<watchVars, zkVars, stopVars>>

\* The Go scheduler runs every goroutine that can take a step, and zk answers
\* WatchChildren from time to time.  Nothing obliges a connection to come up
\* or to fail, zk to change or Stop to be called.
Fairness ==
    /\ WF_vars(Watching) /\ SF_vars(WatchChildren)
    /\ WF_vars(DoWatch)
    /\ \A o \in Offliner : WF_vars(Elsewhere(Offlining(o)))
    /\ \A c \in ConnId, w \in Caller :
        WF_vars(Elsewhere(SetInactive(c, w) \/ StateChanged(c, w)))

FairSpec == Spec /\ Fairness

-----------------------------------------------------------------------------
(* Properties.                                                             *)

\* An address has at most one connection that is not marked offline.
OneConnPerAddr ==
    \A c, d \in ConnId :
        (/\ addrOf[c] # None /\ addrOf[c] = addrOf[d]
         /\ ~IsMarkOffline[c] /\ ~IsMarkOffline[d]) => c = d

\* The two places of evtbus suffice: neither doWatch nor Stop, which runs
\* under the router's lock, ever waits for the watcher.
EvtbusNeverBlocks ==
    fired + evtbus + (IF spc = "notify" THEN 1 ELSE 0) <= EvtbusCap

\* The watcher holds a connection that is not offline to each accepted address
\* among the endpoints that it could read, and no other.
FollowsEndpoints ==
    \A a \in Addr : IF a \in (children \cap Accepted) \ unread
                    THEN Connected(a)
                    ELSE addr2Conn[a] = None

\* No endpoint change is missed: when the endpoints of the service stay as they
\* are, the watcher waits for an event again and again, or for ever, and from
\* some time on it follows them whenever it waits, whatever changed while it
\* was listing and reading.  An address whose GetServiceEndpoint failed in the
\* last pass is the exception: its connection is taken offline, and nothing
\* reads it again before the next event.  (The process has an object to create
\* when the watcher needs one.)
Converges ==
    /\ []~stop
    /\ <>[][UNCHANGED children]_vars
    /\ []<>(wpc = "create" => \E c \in ConnId : Fresh(c))
    => /\ []<>(wpc = "wait")
       /\ <>[](wpc = "wait" => FollowsEndpoints)

=============================================================================
