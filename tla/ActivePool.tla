----------------------------- MODULE ActivePool -----------------------------
(***************************************************************************)
(* The pool of usable connections of a BackService: activeConns with its   *)
(* round-robin cursor and the back pointers Index                          *)
(* (proxy/backend_service_proxy.go), and the calls that change it.         *)
(*                                                                         *)
(* A connection is seen through the calls it makes and receives:           *)
(* MarkConnActiveOK and MarkConnActiveFalse of its writer and of its       *)
(* readers, and MarkOffline of the goroutines in Offliner.  Module         *)
(* BackendConn has its inside; module BackService says who calls           *)
(* MarkOffline and creates connections, and when.                          *)
(***************************************************************************)
EXTENDS Integers, Sequences, FiniteSets

CONSTANTS
    ConnId,             \* BackendConn objects that may exist at the same time
    ConnCaller,         \* a connection's goroutines that report its state
    Writer,             \* the one of them that runs Run
    Offliner,           \* goroutines that call MarkOffline
    None

INVALID_ARRAY_INDEX == -1

ASSUME PoolAssumption ==
    /\ None \notin ConnId
    /\ Writer \in ConnCaller
    /\ ConnCaller \cap Offliner = {}

VARIABLES
    activeConns, currentConnIndex,          \* under activeConnsLock
    served,                                 \* history: picked since the pool
                                            \* changed, up to a full round
    Index,
    life,                                   \* the writer's place in Run
    IsConnActive, IsMarkOffline, inputClosed,
    marking,                                \* calls of MarkConnActiveFalse/OK
    target, opc,                            \* calls of MarkOffline
    panic

listVars == <<activeConns, currentConnIndex, served, Index>>
connVars == <<life, IsConnActive, IsMarkOffline, inputClosed, marking>>
offVars == <<target, opc>>
poolVars == <<listVars, connVars, offVars, panic>>

-----------------------------------------------------------------------------
Caller == ConnCaller \cup Offliner

Pooled == {activeConns[i] : i \in DOMAIN activeConns}

PoolTypeOK ==
    /\ activeConns \in Seq(ConnId)
    /\ currentConnIndex \in Nat
    /\ served \subseteq ConnId
    /\ Index \in [ConnId -> Int]
    /\ life \in [ConnId -> {"none", "run", "connect", "up", "end"}]
    /\ IsConnActive \in [ConnId -> BOOLEAN]
    /\ IsMarkOffline \in [ConnId -> BOOLEAN]
    /\ inputClosed \in [ConnId -> BOOLEAN]
    /\ marking \in [ConnId -> [Caller -> {"idle", "set", "notify"}]]
    /\ target \in [Offliner -> ConnId \cup {None}]
    /\ opc \in [Offliner -> {"idle", "set", "mark", "close"}]
    /\ \A o \in Offliner : opc[o] # "idle" => target[o] \in ConnId
    /\ panic \in {"no", "index", "close"}

\* Connections that exist already have just been created.
PoolInit ==
    /\ activeConns = <<>> /\ currentConnIndex = 0 /\ served = {}
    /\ Index = [c \in ConnId |-> INVALID_ARRAY_INDEX]
    /\ life \in [ConnId -> {"none", "run"}]
    /\ IsConnActive = [c \in ConnId |-> FALSE]
    /\ IsMarkOffline = [c \in ConnId |-> FALSE]
    /\ inputClosed = [c \in ConnId |-> FALSE]
    /\ marking = [c \in ConnId |-> [w \in Caller |-> "idle"]]
    /\ target = [o \in Offliner |-> None]
    /\ opc = [o \in Offliner |-> "idle"]
    /\ panic = "no"

-----------------------------------------------------------------------------
(* The pool, under activeConnsLock.                                        *)

\* The cursor of NextBackendConn, put back to 0 when it is past the end, and
\* the connection it is on.
Cursor == IF currentConnIndex >= Len(activeConns) THEN 0 ELSE currentConnIndex
Chosen == activeConns[Cursor + 1]

\* Mutant of NextBackendConn: the cursor does not move.
MutNextBackendConnStays ==
    /\ panic = "no"
    /\ activeConns # <<>>
    /\ currentConnIndex' = Cursor
    /\ served' = IF served \cup {Chosen} = Pooled THEN {} ELSE served \cup {Chosen}
    /\ UNCHANGED <<activeConns, Index, connVars, offVars, panic>>

\* NextBackendConn by some session; HandleRequest answers WorkerNotFound, and
\* changes nothing here, when the pool is empty.
NextBackendConn ==
    /\ panic = "no"
    /\ activeConns # <<>>
    /\ currentConnIndex' = Cursor + 1
    /\ served' = IF served \cup {Chosen} = Pooled THEN {} ELSE served \cup {Chosen}
    /\ UNCHANGED <<activeConns, Index>>
    /\ UNCHANGED <<connVars, offVars, panic>>

\* The branch of StateChanged for an active connection.
AddConn(c) ==
    IF Index[c] = INVALID_ARRAY_INDEX
    THEN /\ Index' = [Index EXCEPT ![c] = Len(activeConns)]
         /\ activeConns' = Append(activeConns, c)
         /\ served' = {}
    ELSE UNCHANGED <<Index, activeConns, served>>

\* Mutant of RemoveConn: the Index of the moved element is not updated.
MutRemoveConn(c) ==
    IF Index[c] # INVALID_ARRAY_INDEX
    THEN LET lastIndex == Len(activeConns) - 1
         IN  /\ Index' = [Index EXCEPT ![c] = INVALID_ARRAY_INDEX]
             /\ activeConns' =
                    [i \in 1 .. lastIndex |->
                        IF i = Index[c] + 1 THEN activeConns[lastIndex + 1]
                                            ELSE activeConns[i]]
             /\ served' = {}
    ELSE UNCHANGED <<Index, activeConns, served>>

\* The branch for an inactive one: the last element takes its place.
RemoveConn(c) ==
    IF Index[c] # INVALID_ARRAY_INDEX
    THEN LET lastIndex == Len(activeConns) - 1
             lastConn == activeConns[lastIndex + 1]
         IN  /\ Index' = [Index EXCEPT ![lastConn] = Index[c],
                                       ![c] = INVALID_ARRAY_INDEX]
             /\ activeConns' =
                    [i \in 1 .. lastIndex |->
                        IF i = Index[c] + 1 THEN lastConn ELSE activeConns[i]]
             /\ served' = {}
    ELSE UNCHANGED <<Index, activeConns, served>>

\* StateChanged, called by w after its store to IsConnActive.
StateChanged(c, w) ==
    /\ panic = "no"
    /\ marking[c][w] = "notify"
    /\ marking' = [marking EXCEPT ![c][w] = "idle"]
    /\ IF IsConnActive[c] THEN AddConn(c) ELSE RemoveConn(c)
    /\ UNCHANGED <<currentConnIndex, life, IsConnActive, IsMarkOffline,
                   inputClosed, offVars, panic>>

-----------------------------------------------------------------------------
(* A connection's own calls (backend_conn_proxy.go).                       *)

\* MarkConnActiveFalse by w: read IsConnActive; then store false.
MarkConnActiveFalse(c, w) ==
    marking' = [marking EXCEPT ![c][w] =
                    IF IsConnActive[c] THEN "set" ELSE "idle"]

\* Mutant of SetInactive: the delegate is not told.
MutSetInactive(c, w) ==
    /\ panic = "no"
    /\ marking[c][w] = "set"
    /\ IsConnActive' = [IsConnActive EXCEPT ![c] = FALSE]
    /\ marking' = [marking EXCEPT ![c][w] = "idle"]
    /\ UNCHANGED <<life, IsMarkOffline, inputClosed, listVars, offVars, panic>>

SetInactive(c, w) ==
    /\ panic = "no"
    /\ marking[c][w] = "set"
    /\ IsConnActive' = [IsConnActive EXCEPT ![c] = FALSE]
    /\ marking' = [marking EXCEPT ![c][w] = "notify"]
    /\ UNCHANGED <<life, IsMarkOffline, inputClosed>>
    /\ UNCHANGED <<listVars, offVars, panic>>

\* The writer has a socket: MarkConnActiveOK.
ConnUp(c) ==
    /\ panic = "no"
    /\ life[c] = "connect"
    /\ life' = [life EXCEPT ![c] = "up"]
    /\ IsConnActive' = [IsConnActive EXCEPT ![c] = TRUE]
    /\ marking' = [marking EXCEPT ![c][Writer] = "notify"]
    /\ UNCHANGED <<IsMarkOffline, inputClosed>>
    /\ UNCHANGED <<listVars, offVars, panic>>

\* Mutant of ConnDown: MarkConnActiveFalse is forgotten after loopWriter.
MutConnDown(c) ==
    /\ panic = "no"
    /\ life[c] = "up" /\ marking[c][Writer] = "idle"
    /\ life' = [life EXCEPT ![c] = "run"]
    /\ UNCHANGED <<IsConnActive, IsMarkOffline, inputClosed, marking>>
    /\ UNCHANGED <<listVars, offVars, panic>>

\* loopWriter returned: MarkConnActiveFalse.
ConnDown(c) ==
    /\ panic = "no"
    /\ life[c] = "up" /\ marking[c][Writer] = "idle"
    /\ life' = [life EXCEPT ![c] = "run"]
    /\ MarkConnActiveFalse(c, Writer)
    /\ UNCHANGED <<IsConnActive, IsMarkOffline, inputClosed>>
    /\ UNCHANGED <<listVars, offVars, panic>>

\* The loop of Run: connect, unless the connection is marked offline.
RunLoop(c) ==
    /\ panic = "no"
    /\ life[c] = "run" /\ marking[c][Writer] = "idle"
    /\ life' = [life EXCEPT ![c] = IF IsMarkOffline[c] THEN "end" ELSE "connect"]
    /\ UNCHANGED <<IsConnActive, IsMarkOffline, inputClosed, marking>>
    /\ UNCHANGED <<listVars, offVars, panic>>

\* ensureConn returns an error.
ConnFails(c) ==
    /\ panic = "no"
    /\ life[c] = "connect"
    /\ life' = [life EXCEPT ![c] = "end"]
    /\ UNCHANGED <<IsConnActive, IsMarkOffline, inputClosed, marking>>
    /\ UNCHANGED <<listVars, offVars, panic>>

\* A reader's flushRequests, of this socket or of an earlier one.
ReaderDown(c, w) ==
    /\ panic = "no"
    /\ IsConnActive[c] /\ marking[c][w] = "idle"
    /\ MarkConnActiveFalse(c, w)
    /\ UNCHANGED <<life, IsConnActive, IsMarkOffline, inputClosed>>
    /\ UNCHANGED <<listVars, offVars, panic>>

-----------------------------------------------------------------------------
(* MarkOffline, called by o.                                               *)

\* The call c.MarkOffline(), to the test of IsMarkOffline.
OfflineCheck(o, c) ==
    /\ panic = "no"
    /\ opc[o] = "idle" /\ life[c] # "none"
    /\ IF IsMarkOffline[c]
       THEN UNCHANGED offVars
       ELSE /\ target' = [target EXCEPT ![o] = c]
            /\ opc' = [opc EXCEPT ![o] = "set"]
    /\ UNCHANGED <<listVars, connVars, panic>>

OfflineSet(o) ==
    /\ panic = "no"
    /\ opc[o] = "set"
    /\ IsMarkOffline' = [IsMarkOffline EXCEPT ![target[o]] = TRUE]
    /\ opc' = [opc EXCEPT ![o] = "mark"]
    /\ UNCHANGED <<target, life, IsConnActive, inputClosed, marking>>
    /\ UNCHANGED <<listVars, panic>>

OfflineMark(o) ==
    /\ panic = "no"
    /\ opc[o] = "mark"
    /\ MarkConnActiveFalse(target[o], o)
    /\ opc' = [opc EXCEPT ![o] = "close"]
    /\ UNCHANGED <<target, life, IsConnActive, IsMarkOffline, inputClosed>>
    /\ UNCHANGED <<listVars, panic>>

OfflineClose(o) ==
    /\ panic = "no"
    /\ opc[o] = "close" /\ marking[target[o]][o] = "idle"
    /\ inputClosed' = [inputClosed EXCEPT ![target[o]] = TRUE]
    /\ panic' = IF inputClosed[target[o]] THEN "close" ELSE panic
    /\ opc' = [opc EXCEPT ![o] = "idle"]
    /\ target' = [target EXCEPT ![o] = None]
    /\ UNCHANGED <<life, IsConnActive, IsMarkOffline, marking>>
    /\ UNCHANGED listVars

-----------------------------------------------------------------------------
\* NewBackendConn.  The object is a fresh one, or one that nothing refers to
\* any more and whose goroutines have ended.
Free(c) ==
    \/ life[c] = "none"
    \/ /\ life[c] = "end" /\ inputClosed[c]
       /\ \A w \in Caller : marking[c][w] = "idle"
       /\ \A o \in Offliner : target[o] # c
       /\ c \notin Pooled

NewConn(c) ==
    /\ panic = "no"
    /\ Free(c)
    /\ life' = [life EXCEPT ![c] = "run"]
    /\ IsMarkOffline' = [IsMarkOffline EXCEPT ![c] = FALSE]
    /\ inputClosed' = [inputClosed EXCEPT ![c] = FALSE]
    /\ UNCHANGED <<IsConnActive, marking>>
    /\ UNCHANGED <<listVars, offVars, panic>>

-----------------------------------------------------------------------------
Marking(c) ==
    \E w \in Caller : SetInactive(c, w) \/ StateChanged(c, w)

ConnLife(c) ==
    \/ ConnUp(c) \/ ConnDown(c) \/ RunLoop(c) \/ ConnFails(c)
    \/ \E w \in ConnCaller \ {Writer} : ReaderDown(c, w)

Offlining(o) ==
    OfflineSet(o) \/ OfflineMark(o) \/ OfflineClose(o)

\* s.activeConns[0], read without the lock, when the pool is empty.
FirstPanics ==
    /\ panic = "no"
    /\ activeConns = <<>>
    /\ panic' = "index"
    /\ UNCHANGED <<listVars, connVars, offVars>>

\* Connections are created, and MarkOffline is called, at any time.
PoolNext ==
    \/ NextBackendConn \/ FirstPanics
    \/ \E c \in ConnId : Marking(c) \/ ConnLife(c) \/ NewConn(c)
    \/ \E o \in Offliner :
        Offlining(o) \/ \E c \in ConnId : OfflineCheck(o, c)

PoolSpec == PoolInit /\ [][PoolNext]_poolVars

-----------------------------------------------------------------------------
(* Properties.                                                             *)

\* activeConns and the back pointers Index agree: every element knows its
\* place, every connection with an Index is there, and so none is listed twice.
\* The swap-with-last removal in StateChanged relies on it.
IndexInv ==
    /\ \A i \in DOMAIN activeConns : Index[activeConns[i]] = i - 1
    /\ \A c \in ConnId :
        Index[c] # INVALID_ARRAY_INDEX =>
            Index[c] + 1 \in DOMAIN activeConns /\ activeConns[Index[c] + 1] = c

\* When no goroutine is between a store to a connection's IsConnActive and its
\* call of StateChanged, the pool holds the connection exactly if it is active.
PooledWhenQuiet ==
    \A c \in ConnId :
        (\A w \in Caller : marking[c][w] # "notify")
            => (c \in Pooled <=> IsConnActive[c])

\* A connection whose Run has returned is not served any more, once nobody is
\* about to call StateChanged for it: a request pushed on its input would
\* never be taken from there.
EndedNotPooled ==
    \A c \in ConnId :
        life[c] = "end" /\ (\A w \in Caller : marking[c][w] # "notify")
            => c \notin Pooled

\* Round robin: while the pool does not change, NextBackendConn serves every
\* connection once before it serves one again.
RoundRobin == activeConns # <<>> => Chosen \notin served
=============================================================================
