--------------------------- MODULE Server_proofs ----------------------------
(***************************************************************************)
(* Proofs about the servers, in two parts that are independent of each     *)
(* other: the accept loops and the exit (module Server), for any number of *)
(* connections and requests, any capacity of ch and any quiet time; and    *)
(* the session of one connection of a Go rpc server (NonBlockSession), for *)
(* any number of requests and slices and any capacity of the channels.     *)
(*                                                                         *)
(* SockInv ties the listener to the exit goroutine: nobody else closes it, *)
(* and it does so after the quiet time.  TimeInv says what the quiet time  *)
(* tells about the requests: lastRequestTime is never older than the       *)
(* youngest of them.                                                       *)
(*                                                                         *)
(* The session: tasks is open for whoever sends on it (QueueInv), and no   *)
(* slice is handed out that holds a request still to be read (MemInv).     *)
(***************************************************************************)
EXTENDS Server, NonBlockSession, FiniteSetTheorems, TLAPS

\* Zenon tries a leaf first; the leaves that need SMT cite it.
USE ZenonT(30), SMTT(30)

\* What Accept hands over is a connection.
HandInv == apc = "push" => hand \in Client

\* Where the goroutines are decides about the listener and the endpoint.
SockInv ==
    /\ interrupted => Gone
    /\ listener = "closed" => Gone
    /\ apc \in {"register", "listen"} => xpc = "off"
    /\ apc = "register" => server \in {"rpc", "lb"}
    /\ apc \notin {"register", "listen"} /\ server \in {"rpc", "lb"} /\ listener = "nil"
         => Gone
    /\ apc \in {"close", "deferred", "returned"} /\ server \in {"rpc", "lb"}
         => broke \/ Gone
    /\ panic = "close" => apc = "deferred"
    /\ panic = "nil" /\ server \in {"rpc", "lb"} => Gone
    /\ listed => xpc \in {"off", "wait", "delete"} /\ server \in {"rpc", "lb"}

\* quiet is no more than the age of any request, and once the exit goroutine has
\* found it long enough the requests from before are older than that.
TimeInv ==
    /\ \A c \in Client : age[c] # None => server \in {"rpc", "lb"} /\ quiet <= age[c]
    /\ Gone => \A c \in Client : age[c] # None => age[c] > Idle \/ c \in late

ServerInv == TypeOK /\ HandInv /\ SockInv /\ TimeInv

-----------------------------------------------------------------------------
\* Init establishes the invariant: no request, no listener, exit goroutine off.
LEMMA InitServer == Init => ServerInv
<1> SUFFICES ASSUME Init PROVE ServerInv
  OBVIOUS
<1>1. /\ interrupted \in BOOLEAN /\ chClosed \in BOOLEAN /\ signal \in BOOLEAN
      /\ listed \in BOOLEAN /\ broke \in BOOLEAN
  BY DEF Init
<1>2. TypeOK BY <1>1, ServerAssumption, SMTT(30) DEF Init, TypeOK
<1>3. HandInv BY DEF Init, HandInv
<1>4. SockInv BY DEF Init, SockInv, Gone
<1>5. TimeInv
  <2>1. /\ \A c \in Client : age[c] = None
        /\ ~Gone
    BY DEF Init, Gone
  <2> QED BY <2>1 DEF TimeInv
<1> QED BY <1>2, <1>3, <1>4, <1>5 DEF ServerInv

\* The steps of Run and of Accept keep the types, whatever the socket returns.
LEMMA RunningType == TypeOK /\ HandInv /\ Running => TypeOK' /\ HandInv'
<1> SUFFICES ASSUME TypeOK, HandInv, Running PROVE TypeOK' /\ HandInv'
  OBVIOUS
<1> USE DEF TypeOK, HandInv, AcceptError, acceptVars, sockVars, chanVars, exitVars,
            reqVars
<1>1. CASE Register BY <1>1, SMTT(30) DEF Register
<1>2. CASE Listen BY <1>2, SMTT(30) DEF Listen
<1>3. CASE ListenFails BY <1>3, SMTT(30) DEF ListenFails
<1>4. CASE AcceptCheck BY <1>4, SMTT(30) DEF AcceptCheck
<1>5. CASE AcceptNil BY <1>5, SMTT(30) DEF AcceptNil
<1>6. CASE AcceptCall BY <1>6, SMTT(30) DEF AcceptCall
<1>7. CASE AcceptFails BY <1>7, SMTT(30) DEF AcceptFails
<1>8. CASE PushConn BY <1>8, ServerAssumption, SMTT(30) DEF PushConn, Room
<1>9. CASE CloseCh BY <1>9, SMTT(30) DEF CloseCh
<1>10. CASE DeferredClose
  <2>1. chClosed' \in BOOLEAN BY <1>10 DEF DeferredClose
  <2> QED BY <1>10, <2>1, SMTT(30) DEF DeferredClose
<1>11. ASSUME NEW c \in Client, Accept(c) PROVE TypeOK' /\ HandInv'
  <2>1. client' \in [Client -> {"away", "backlog", "accepted", "session"}]
    BY <1>11 DEF Accept
  <2>2. hand' \in Client BY <1>11 DEF Accept
  <2> QED BY <1>11, <2>1, <2>2, SMTT(30) DEF Accept
<1> QED
  BY <1>1, <1>2, <1>3, <1>4, <1>5, <1>6, <1>7, <1>8, <1>9, <1>10,
     <1>11, ZenonT(30) DEF Running

\* So do the goroutine behind ch and the exit goroutine.
LEMMA GoroutineType ==
    TypeOK /\ HandInv /\ (StartSession \/ ChEnds \/ Exiting) => TypeOK' /\ HandInv'
<1> SUFFICES ASSUME TypeOK, HandInv, StartSession \/ ChEnds \/ Exiting
             PROVE  TypeOK' /\ HandInv'
  OBVIOUS
<1> USE DEF TypeOK, HandInv, acceptVars, sockVars, chanVars, exitVars, reqVars
<1>1. CASE StartSession
  <2>1. Head(ch) \in Client /\ Tail(ch) \in Seq(Client) /\ Len(Tail(ch)) <= ChCap
    BY <1>1, ServerAssumption, SMTT(30) DEF StartSession
  <2> QED BY <1>1, <2>1, SMTT(30) DEF StartSession
<1>2. CASE ChEnds BY <1>2, SMTT(30) DEF ChEnds
<1>3. CASE TakeSignal BY <1>3, SMTT(30) DEF TakeSignal
<1>4. CASE DeleteEndpoint
  <2>1. listed' \in BOOLEAN BY <1>4 DEF DeleteEndpoint
  <2> QED BY <1>4, <2>1, SMTT(30) DEF DeleteEndpoint
<1>5. CASE IdleOver BY <1>5, SMTT(30) DEF IdleOver
<1>6. CASE Interrupt BY <1>6, SMTT(30) DEF Interrupt
<1>7. CASE CloseListener BY <1>7, SMTT(30) DEF CloseListener
<1>8. CASE NilListener BY <1>8, SMTT(30) DEF NilListener
<1> QED
  BY <1>1, <1>2, <1>3, <1>4, <1>5, <1>6, <1>7, <1>8
  DEF Exiting

\* So do the requests, the clock and the rest of the outside.
LEMMA OutsideType == TypeOK /\ HandInv /\ Outside => TypeOK' /\ HandInv'
<1> SUFFICES ASSUME TypeOK, HandInv, Outside PROVE TypeOK' /\ HandInv'
  OBVIOUS
<1> USE DEF TypeOK, HandInv, acceptVars, sockVars, chanVars, exitVars, reqVars
<1>1. CASE Signal BY <1>1, SMTT(30) DEF Signal
<1>2. CASE Tick
  <2>1. \A t \in 0 .. Idle + 1 : Older(t) \in 0 .. Idle + 1
    BY ServerAssumption, SMTT(30) DEF Older
  <2>2. quiet' \in 0 .. Idle + 1
    BY <1>2, <2>1 DEF Tick
  <2>3. age' \in [Client -> (0 .. Idle + 1) \cup {None}]
    BY <1>2, <2>1 DEF Tick
  <2> QED BY <1>2, <2>2, <2>3, SMTT(30) DEF Tick
<1>3. ASSUME NEW c \in Client, Reply(c) PROVE TypeOK' /\ HandInv'
  BY <1>3, SMTT(30) DEF Reply
<1>4. ASSUME NEW c \in Client, Connect(c) PROVE TypeOK' /\ HandInv'
  BY <1>4, SMTT(30) DEF Connect
<1>5. ASSUME NEW c \in Client, Disconnect(c) PROVE TypeOK' /\ HandInv'
  BY <1>5, SMTT(30) DEF Disconnect
<1>6. ASSUME NEW c \in Client, NEW type \in {"call", "heartbeat"},
             HandleRequest(c, type)
      PROVE  TypeOK' /\ HandInv'
  <2>1. /\ quiet' \in 0 .. Idle + 1
        /\ age' \in [Client -> (0 .. Idle + 1) \cup {None}]
    BY <1>6, ServerAssumption, SMTT(30) DEF HandleRequest
  <2>2. late' \in {late, late \cup {c}} /\ requests' \in 0 .. MaxRequests
    <3>1. late' \in {late, late \cup {c}}
      BY <1>6 DEF HandleRequest
    <3>2. requests' = requests \/ (requests < MaxRequests /\ requests' = requests + 1)
      BY <1>6 DEF HandleRequest
    <3> QED BY <3>1, <3>2, ServerAssumption, SMTT(30)
  <2> QED BY <1>6, <2>1, <2>2, SMTT(30) DEF HandleRequest
<1> QED
  BY <1>1, <1>2, <1>3, <1>4, <1>5, <1>6 DEF Outside

-----------------------------------------------------------------------------
\* SockInv survives every step: only the exit goroutine touches an open
\* listener, and Accept fails on one that is closed or without a descriptor.
LEMMA SockStep == TypeOK /\ SockInv /\ Next => SockInv'
<1> SUFFICES ASSUME TypeOK, SockInv, Next PROVE SockInv'
  OBVIOUS
<1> USE DEF SockInv, Gone, Alive, AcceptError, acceptVars, sockVars, chanVars, exitVars
<1>1. CASE Register BY <1>1 DEF Register
<1>2. CASE Listen BY <1>2 DEF Listen
<1>3. CASE ListenFails BY <1>3 DEF ListenFails
<1>4. CASE AcceptCheck BY <1>4 DEF AcceptCheck
<1>5. CASE AcceptNil BY <1>5 DEF AcceptNil
<1>6. CASE AcceptCall BY <1>6 DEF AcceptCall
<1>7. CASE AcceptFails
  <2>1. listener \in {"nil", "open", "closed"} BY DEF TypeOK
  <2> QED BY <1>7, <2>1 DEF AcceptFails
<1>8. CASE PushConn BY <1>8 DEF PushConn
<1>9. CASE CloseCh BY <1>9 DEF CloseCh
<1>10. CASE DeferredClose BY <1>10 DEF DeferredClose
<1>11. ASSUME NEW c \in Client, Accept(c) PROVE SockInv'
  BY <1>11 DEF Accept
<1>12. CASE TakeSignal BY <1>12 DEF TakeSignal
<1>13. CASE DeleteEndpoint BY <1>13 DEF DeleteEndpoint
<1>14. CASE IdleOver BY <1>14 DEF IdleOver
<1>15. CASE Interrupt BY <1>15 DEF Interrupt
<1>16. CASE CloseListener BY <1>16 DEF CloseListener
<1>17. CASE NilListener BY <1>17 DEF NilListener
<1>18. ASSUME UNCHANGED <<server, apc, broke, sockVars, xpc, listed, panic>> PROVE SockInv'
  BY <1>18
<1>19. CASE StartSession \/ ChEnds \/ Outside
  BY <1>18, <1>19
  DEF StartSession, ChEnds, Outside, Signal, Tick, Reply, Connect,
     Disconnect, HandleRequest
<1> QED
  BY <1>1, <1>2, <1>3, <1>4, <1>5, <1>6, <1>7, <1>8, <1>9, <1>10, <1>11, <1>12,
     <1>13, <1>14, <1>15, <1>16, <1>17, <1>19, Zenon DEF Next, Running, Exiting

\* TimeInv survives every step.  A request sets quiet to 0, the clock adds the
\* same to quiet and to the ages, and IdleOver waits until quiet is past Idle.
LEMMA TimeStep == TypeOK /\ TimeInv /\ Next => TimeInv'
<1> SUFFICES ASSUME TypeOK, TimeInv, Next PROVE TimeInv'
  OBVIOUS
<1> USE DEF TimeInv, Gone, acceptVars, sockVars, chanVars, exitVars, reqVars
<1>0. /\ quiet \in 0 .. Idle + 1 /\ Idle \in Nat
      /\ \A c \in Client : age[c] # None => age[c] \in 0 .. Idle + 1
  BY ServerAssumption DEF TypeOK
<1>1. ASSUME UNCHANGED <<server, reqVars>>, Gone' => Gone PROVE TimeInv'
  BY <1>1
<1>2. CASE Running
  <2>1. UNCHANGED <<server, reqVars>>
    BY <1>2 DEF Running, Register, Listen, ListenFails, AcceptCheck, AcceptNil,
       AcceptCall, AcceptFails, PushConn, CloseCh, DeferredClose, Accept
  <2>2. Gone' => Gone
    BY <1>2 DEF Running, Register, Listen, ListenFails, AcceptCheck, AcceptNil,
       AcceptCall, AcceptFails, PushConn, CloseCh, DeferredClose, Accept
  <2> QED BY <1>1, <2>1, <2>2
<1>3. CASE StartSession \/ ChEnds
  BY <1>1, <1>3 DEF StartSession, ChEnds
<1>4. CASE TakeSignal \/ DeleteEndpoint \/ Interrupt \/ CloseListener \/ NilListener
  BY <1>1, <1>4 DEF TakeSignal, DeleteEndpoint, Interrupt, CloseListener, NilListener
<1>5. CASE IdleOver
  BY <1>5, <1>0, SMTT(30) DEF IdleOver, Quiet
<1>6. CASE Signal BY <1>1, <1>6 DEF Signal
<1>7. CASE Tick
  <2>1. \A s, t \in 0 .. Idle + 1 :
           (s <= t => Older(s) <= Older(t)) /\ (t > Idle => Older(t) > Idle)
    BY <1>0, SMTT(30) DEF Older
  <2>2. /\ quiet' = Older(quiet) /\ server' = server /\ xpc' = xpc /\ late' = late
        /\ \A c \in Client :
              age'[c] = IF age[c] = None THEN None ELSE Older(age[c])
    BY <1>7 DEF Tick
  <2> QED BY <1>0, <2>1, <2>2
<1>8. ASSUME NEW c \in Client, Reply(c) PROVE TimeInv'
  BY <1>8, <1>0 DEF Reply, TypeOK
<1>9. ASSUME NEW c \in Client, Connect(c) \/ Disconnect(c) PROVE TimeInv'
  BY <1>1, <1>9 DEF Connect, Disconnect
<1>10. ASSUME NEW c \in Client, NEW type \in {"call", "heartbeat"},
              HandleRequest(c, type)
       PROVE  TimeInv'
  <2>1. CASE type = "heartbeat"
    BY <1>1, <1>10, <2>1 DEF HandleRequest, Counts
  <2>2. CASE type # "heartbeat"
    BY <1>10, <1>0, <2>2, SMTT(30) DEF HandleRequest, Counts, TypeOK
  <2> QED BY <2>1, <2>2
<1> QED
  BY <1>2, <1>3, <1>4, <1>5, <1>6, <1>7, <1>8, <1>9, <1>10
  DEF Next, Exiting, Outside

-----------------------------------------------------------------------------
\* The invariant holds in every reachable state.
THEOREM ServerInvariant == Spec => []ServerInv
<1>1. ServerInv /\ [Next]_vars => ServerInv'
  <2>1. ASSUME ServerInv, Next PROVE ServerInv'
    BY <2>1, RunningType, GoroutineType, OutsideType, SockStep, TimeStep
    DEF ServerInv, Next
  <2>2. ASSUME ServerInv, UNCHANGED vars PROVE ServerInv'
    BY <2>2, SMTT(30) DEF ServerInv, TypeOK, HandInv, SockInv, TimeInv, Gone, vars, acceptVars,
       sockVars, chanVars, exitVars, reqVars
  <2> QED BY <2>1, <2>2
<1> QED BY InitServer, <1>1, PTL DEF Spec

\* The variables of a server keep their types; ch is never over its capacity.
THEOREM ServerTypeCorrect == Spec => []TypeOK
<1>1. ServerInv => TypeOK BY DEF ServerInv
<1> QED BY <1>1, ServerInvariant, PTL

\* A listed endpoint that has started to listen has an open listener, because
\* the exit goroutine deletes the endpoint before it closes the listener.
THEOREM ListedCorrect == Spec => []ListedIsServed
<1>1. ServerInv => ListedIsServed
  BY DEF ServerInv, TypeOK, SockInv, ListedIsServed, Gone
<1> QED BY <1>1, ServerInvariant, PTL

\* The exit of a server, by a return of Run or by a panic, cuts off no request
\* that is within the quiet time.
THEOREM NotCutOffCorrect == Spec => []NotCutOff
<1>1. ServerInv => NotCutOff
  BY DEF ServerInv, TypeOK, SockInv, TimeInv, NotCutOff, Alive
<1> QED BY <1>1, ServerInvariant, PTL

-----------------------------------------------------------------------------
(* The server session: its inductive invariant.                            *)

\* The goroutines of the requests, and the hands of the writer.  What is in tasks
\* was handled.
QueueType ==
    /\ stage \in [Req -> {"none", "handle", "process", "push", "queued", "over"}]
    /\ got \in 0 .. Frames
    /\ tasks \in Seq(Req)
    /\ \A i \in DOMAIN tasks : stage[tasks[i]] \in {"queued", "over"}
    /\ wpc = "write" => task \in Req /\ stage[task] \in {"queued", "over"}
    /\ \A r \in Req : got < r => stage[r] = "none"

\* tasks is closed by the reader, after the goroutines.
ClosedLast ==
    tasksClosed =>
        rpc = "done" /\ \A r \in Req : stage[r] \in {"none", "queued", "over"}

\* The memory that a request refers to at each of its places.
MemType ==
    /\ frame \in [Req -> Slice \cup {Own}]
    /\ out \in [Req -> Slice \cup {Own}]
    /\ data \in [Req -> Slice \cup {Own}]
    /\ pool \in Seq(Slice)

Refers ==
    \A r \in Req :
        /\ stage[r] = "none" => frame[r] = Own
        /\ stage[r] \in {"none", "handle", "process"} => data[r] = Own
        /\ stage[r] # "process" <=> out[r] = Own
        /\ stage[r] \notin {"none", "handle", "process"} => frame[r] \in {Own, data[r]}

\* The slices in the channel, each of them there once.
Cells(s) == {s[i] : i \in DOMAIN s}
CellsOnce(s) == \A i, j \in DOMAIN s : s[i] = s[j] => i = j

\* The frame of a request that is still to be read.
Unread(r) == stage[r] \in {"handle", "process"} /\ frame[r] # Own

\* The slice of a frame that is still to be read and the slice that Dispatch
\* works with are neither in the channel nor anybody else's.
Exclusive ==
    /\ CellsOnce(pool)
    /\ \A r \in Req : Unread(r) =>
           /\ frame[r] \notin Cells(pool)
           /\ \A q \in Req : frame[r] # out[q]
           /\ \A q \in Req \ {r} : Unread(q) => frame[q] # frame[r]
    /\ \A r \in Req : out[r] # Own =>
           /\ out[r] \notin Cells(pool)
           /\ \A q \in Req \ {r} : out[q] # out[r]

Intact ==
    \A r \in clobbered : r \in Req /\ stage[r] \notin {"none", "handle", "process"}

QueueInv == QueueType /\ ClosedLast
MemInv == MemType /\ Refers /\ Exclusive /\ Intact

-----------------------------------------------------------------------------
(* The goroutines of the server session.                                   *)

\* A request moves on while its goroutine runs, or is pushed.
LEMMA StageStep ==
    ASSUME QueueInv, NEW r \in Req, stage[r] \in {"handle", "process", "push"},
           NEW v \in {"process", "push", "queued"},
           stage' = [stage EXCEPT ![r] = v],
           \/ tasks' = tasks
           \/ v = "queued" /\ tasks' = Append(tasks, r),
           UNCHANGED <<got, rpc, tasksClosed, wpc, task>>
    PROVE  QueueInv'
  <1>1. QueueType /\ ~tasksClosed
    BY DEF QueueInv, ClosedLast
  <1>2. /\ stage' \in [Req -> {"none", "handle", "process", "push", "queued", "over"}]
        /\ stage'[r] = v /\ \A q \in Req \ {r} : stage'[q] = stage[q]
    BY <1>1 DEF QueueType
  <1>3. /\ tasks \in Seq(Req)
        /\ \A i \in DOMAIN tasks : tasks[i] \in Req \ {r} /\ stage[tasks[i]] \in {"queued", "over"}
    BY <1>1, SMTT(30) DEF QueueType
  <1>4. tasks' \in Seq(Req) /\ \A i \in DOMAIN tasks' : stage'[tasks'[i]] \in {"queued", "over"}
    <2>1. CASE tasks' = tasks
      BY <1>2, <1>3, <2>1
    <2>2. CASE v = "queued" /\ tasks' = Append(tasks, r)
      BY <1>2, <1>3, <2>2, SMTT(30)
    <2> QED
      BY <2>1, <2>2
  <1>5. wpc = "write" => task \in Req \ {r} /\ stage[task] \in {"queued", "over"}
    BY <1>1 DEF QueueType
  <1>6. \A q \in Req : got < q => stage'[q] = "none"
    BY <1>1, <1>2 DEF QueueType
  <1>7. QueueType'
    BY <1>1, <1>2, <1>4, <1>5, <1>6 DEF QueueType
  <1> QED
    BY <1>1, <1>7 DEF QueueInv, ClosedLast

\* The writer is done with request t.
LEMMA OverStep ==
    ASSUME QueueInv, NEW t \in Req, stage[t] \in {"queued", "over"},
           stage' = [stage EXCEPT ![t] = "over"],
           \/ tasks' = tasks
           \/ tasks # <<>> /\ tasks' = Tail(tasks),
           \/ wpc' # "write"
           \/ wpc' = wpc /\ task' = task,
           UNCHANGED <<got, rpc, tasksClosed>>
    PROVE  QueueInv'
  <1>1. QueueType
    BY DEF QueueInv
  <1>2. /\ stage' \in [Req -> {"none", "handle", "process", "push", "queued", "over"}]
        /\ stage'[t] = "over" /\ \A q \in Req \ {t} : stage'[q] = stage[q]
    BY <1>1 DEF QueueType
  <1>3. \A q \in Req : stage[q] \in {"queued", "over"} => stage'[q] \in {"queued", "over"}
    BY <1>2
  <1>4. /\ tasks \in Seq(Req)
        /\ \A i \in DOMAIN tasks : tasks[i] \in Req /\ stage[tasks[i]] \in {"queued", "over"}
    BY <1>1, SMTT(30) DEF QueueType
  <1>5. tasks' \in Seq(Req) /\ \A i \in DOMAIN tasks' : stage'[tasks'[i]] \in {"queued", "over"}
    <2>1. CASE tasks' = tasks
      BY <1>3, <1>4, <2>1
    <2>2. CASE tasks # <<>> /\ tasks' = Tail(tasks)
      BY <1>3, <1>4, <2>2, SMTT(30)
    <2> QED
      BY <2>1, <2>2
  <1>6. wpc' = "write" => task' \in Req /\ stage'[task'] \in {"queued", "over"}
    BY <1>1, <1>3 DEF QueueType
  <1>7. \A q \in Req : got < q => stage'[q] = "none"
    BY <1>1, <1>2 DEF QueueType
  <1>8. QueueType'
    BY <1>1, <1>2, <1>5, <1>6, <1>7 DEF QueueType
  <1>9. ClosedLast'
    BY <1>2 DEF QueueInv, ClosedLast
  <1> QED
    BY <1>8, <1>9 DEF QueueInv

\* The reader starts the goroutine of the next request.
LEMMA ServerReadStep ==
    ASSUME QueueInv, ReadFrame
    PROVE  QueueInv' /\ got + 1 \in Req /\ stage[got + 1] = "none"
  <1>1. /\ rpc = "read" /\ got < Frames /\ got' = got + 1
        /\ stage' = [stage EXCEPT ![got + 1] = "handle"]
        /\ UNCHANGED <<rpc, tasks, tasksClosed, wpc, task>>
    BY DEF ReadFrame, taskVars, writerVars
  <1>2. QueueType /\ ~tasksClosed
    BY <1>1 DEF QueueInv, ClosedLast
  <1>3. got + 1 \in Req /\ got \in Nat /\ stage[got + 1] = "none"
    BY <1>1, <1>2, NonBlockAssumption, SMTT(30) DEF QueueType, Req
  <1>4. /\ stage' \in [Req -> {"none", "handle", "process", "push", "queued", "over"}]
        /\ \A q \in Req \ {got + 1} : stage'[q] = stage[q]
    BY <1>1, <1>2, <1>3 DEF QueueType
  <1>5. \A q \in Req : stage[q] \in {"queued", "over"} => stage'[q] \in {"queued", "over"}
    BY <1>3, <1>4
  <1>6. \A i \in DOMAIN tasks : tasks[i] \in Req
    BY <1>2, SMTT(30) DEF QueueType
  <1>7. got' \in 0 .. Frames /\ \A q \in Req : got' < q => got < q /\ q # got + 1
    BY <1>1, <1>3, NonBlockAssumption, SMTT(30) DEF Req
  <1>8. QueueType'
    BY <1>1, <1>2, <1>4, <1>5, <1>6, <1>7 DEF QueueType
  <1> QED
    BY <1>1, <1>2, <1>3, <1>8 DEF QueueInv, ClosedLast

\* The steps that move no request.
LEMMA ServerSideStep ==
    ASSUME QueueInv,
           \/ ReadFails \/ ServeEnds \/ TakeTask \/ TasksEnd \/ Close
           \/ WriterEnds \/ PeerGone \/ UNCHANGED sessionVars
    PROVE  QueueInv' /\ UNCHANGED <<stage, got, frame, out, data, clobbered, pool>>
  <1> USE DEF sessionVars, memVars, taskVars, readerVars, writerVars
  <1>1. UNCHANGED <<stage, got, frame, out, data, clobbered, pool>>
    BY
       DEF ReadFails, ServeEnds, TakeTask, TasksEnd, Close, WriterEnds,
           PeerGone
  <1>2. QueueType /\ ClosedLast
    BY DEF QueueInv
  <1>3. CASE TakeTask
    <2>1. /\ tasks # <<>> /\ task' = Head(tasks) /\ tasks' = Tail(tasks)
          /\ UNCHANGED <<rpc, tasksClosed>>
      BY <1>3 DEF TakeTask
    <2>2. /\ tasks' \in Seq(Req) /\ task' \in Req /\ stage[task'] \in {"queued", "over"}
          /\ \A i \in DOMAIN tasks' : stage[tasks'[i]] \in {"queued", "over"}
      BY <1>2, <2>1, SMTT(30) DEF QueueType
    <2>3. QueueType'
      BY <1>1, <1>2, <2>2 DEF QueueType
    <2> QED
      BY <1>1, <1>2, <2>1, <2>3 DEF QueueInv, ClosedLast
  <1>4. CASE ReadFails \/ ServeEnds
    <2>1. /\ UNCHANGED <<tasks, wpc, task>> /\ rpc \in {"read", "wait"}
          /\ \/ tasksClosed' = tasksClosed
             \/ /\ rpc' = "done"
                /\ \A r \in Req : stage[r] \in {"none", "queued", "over"}
      BY <1>4 DEF ReadFails, ServeEnds, Req
    <2> QED
      BY <1>1, <1>2, <2>1, SMTT(30) DEF QueueInv, QueueType, ClosedLast
  <1>5. CASE \/ TasksEnd \/ Close \/ WriterEnds \/ PeerGone \/ UNCHANGED sessionVars
    <2>1. UNCHANGED <<rpc, tasks, tasksClosed, task>> /\ (wpc' = wpc \/ wpc' # "write")
      BY <1>5 DEF TasksEnd, Close, WriterEnds, PeerGone
    <2> QED
      BY <1>1, <1>2, <2>1 DEF QueueInv, QueueType, ClosedLast
  <1> QED
    BY <1>1, <1>3, <1>4, <1>5

\* The steps of the goroutine of a request.
LEMMA HandlingStep ==
    ASSUME QueueInv, NEW r \in Req, Handling(r)
    PROVE  QueueInv'
  <1> USE DEF taskVars, readerVars, writerVars, memVars
  <1>1. CASE HandlePing(r) \/ Process(r)
    <2>1. /\ stage[r] \in {"handle", "process", "push"}
          /\ stage' = [stage EXCEPT ![r] = "push"]
          /\ UNCHANGED <<got, rpc, tasks, tasksClosed, wpc, task>>
      BY <1>1 DEF HandlePing, Process
    <2> QED
      BY <2>1, StageStep
  <1>2. CASE GetOut(r)
    <2>1. /\ stage[r] \in {"handle", "process", "push"}
          /\ stage' = [stage EXCEPT ![r] = "process"]
          /\ UNCHANGED <<got, rpc, tasks, tasksClosed, wpc, task>>
      BY <1>2 DEF GetOut
    <2> QED
      BY <2>1, StageStep
  <1>3. CASE PushTask(r)
    <2>1. /\ stage[r] \in {"handle", "process", "push"}
          /\ stage' = [stage EXCEPT ![r] = "queued"] /\ tasks' = Append(tasks, r)
          /\ UNCHANGED <<got, rpc, tasksClosed, wpc, task>>
      BY <1>3 DEF PushTask
    <2> QED
      BY <2>1, StageStep
  <1> QED
    BY <1>1, <1>2, <1>3 DEF Handling

\* The writer answers a request or drops it; nobody reads its memory any more.
LEMMA ForgetStep ==
    ASSUME QueueInv, WriteReply \/ WriteFails \/ Drop
    PROVE  /\ QueueInv' /\ UNCHANGED got
           /\ \E t \in Req : /\ stage[t] \in {"queued", "over"}
                             /\ stage' = [stage EXCEPT ![t] = "over"]
                             /\ Forget(t)
  <1> USE DEF taskVars, readerVars, writerVars
  <1>1. QueueType
    BY DEF QueueInv
  <1>2. CASE WriteReply \/ WriteFails
    <2>1. /\ wpc = "write" /\ stage' = [stage EXCEPT ![task] = "over"] /\ Forget(task)
          /\ wpc' \in {"take", "close"} /\ UNCHANGED <<got, rpc, tasks, tasksClosed>>
      BY <1>2 DEF WriteReply, WriteFails
    <2>2. task \in Req /\ stage[task] \in {"queued", "over"} /\ wpc' # "write"
      BY <1>1, <2>1 DEF QueueType
    <2>3. QueueInv'
      BY <2>1, <2>2, OverStep
    <2> QED
      BY <2>1, <2>2, <2>3
  <1>3. CASE Drop
    <2>1. /\ tasks # <<>> /\ tasks' = Tail(tasks) /\ Forget(Head(tasks))
          /\ stage' = [stage EXCEPT ![Head(tasks)] = "over"]
          /\ UNCHANGED <<got, rpc, tasksClosed, wpc, task>>
      BY <1>3 DEF Drop
    <2>2. Head(tasks) \in Req /\ stage[Head(tasks)] \in {"queued", "over"}
      BY <1>1, <2>1, SMTT(30) DEF QueueType
    <2>3. QueueInv'
      BY <2>1, <2>2, OverStep
    <2> QED
      BY <2>1, <2>2, <2>3
  <1> QED
    BY <1>2, <1>3

-----------------------------------------------------------------------------
(* The slices of the server session.                                       *)

\* The requests refer to at most two slices each, and one that is about to take
\* its next slice to at most one: Slice has another one for make.
LEMMA AnotherSlice ==
    ASSUME NEW f \in [Req -> Slice \cup {Own}], NEW g \in [Req -> Slice \cup {Own}],
           NEW r \in Req, g[r] = Own
    PROVE  \E s \in Slice : \A q \in Req : f[q] # s /\ g[q] # s
  <1> DEFINE A == {f[q] : q \in Req}
             B == {g[q] : q \in Req \ {r}}
             h == [q \in Req \ {r} |-> g[q]]
  <1>1. /\ Frames \in Nat /\ IsFiniteSet(Slice) /\ Cardinality(Slice) >= 2 * Frames
        /\ Own \notin Slice
    BY NonBlockAssumption
  <1>2. IsFiniteSet(Req) /\ Cardinality(Req) = Frames
    <2>1. 1 \in Int /\ Frames \in Int
      BY <1>1, SMTT(30)
    <2>2. IsFiniteSet(1 .. Frames) /\ Cardinality(1 .. Frames) = IF 1 > Frames THEN 0 ELSE Frames - 1 + 1
      BY <2>1, FS_Interval
    <2> QED
      BY <1>1, <2>2, SMTT(30) DEF Req
  <1>3. IsFiniteSet(Req \ {r}) /\ Cardinality(Req \ {r}) = Frames - 1
    BY <1>2, FS_RemoveElement
  <1>4. f \in Surjection(Req, A) /\ h \in Surjection(Req \ {r}, B)
    <2>1. f \in [Req -> A] /\ \A a \in A : \E q \in Req : f[q] = a
      OBVIOUS
    <2>2. /\ h \in [Req \ {r} -> B]
          /\ \A b \in B : \E q \in Req \ {r} : h[q] = b
      OBVIOUS
    <2> HIDE DEF A, B, h
    <2> QED
      BY <2>1, <2>2 DEF Surjection
  <1>5. IsFiniteSet(A) /\ Cardinality(A) <= Frames
    <2> HIDE DEF A
    <2> QED
      BY <1>2, <1>4, FS_Surjection
  <1>6. IsFiniteSet(B) /\ Cardinality(B) <= Frames - 1
    <2> HIDE DEF B, h
    <2> QED
      BY <1>3, <1>4, FS_Surjection, SMTT(30)
  <1>7. /\ IsFiniteSet(A \cup B)
        /\ Cardinality(A \cup B) = Cardinality(A) + Cardinality(B) - Cardinality(A \cap B)
    <2> HIDE DEF A, B
    <2> QED
      BY <1>5, <1>6, FS_Union
  <1>8. /\ Cardinality(A) \in Nat /\ Cardinality(B) \in Nat
        /\ Cardinality(A \cap B) \in Nat
    <2> HIDE DEF A, B
    <2>1. IsFiniteSet(A \cap B)
      BY <1>5, FS_Subset
    <2> QED
      BY <1>5, <1>6, <2>1, FS_CardinalityType
  <1>9. PICK s \in Slice : s \notin A \cup B
    <2> HIDE DEF A, B
    <2> SUFFICES ASSUME Slice \subseteq A \cup B PROVE FALSE
      OBVIOUS
    <2>1. Cardinality(Slice) <= Cardinality(A \cup B)
      BY <1>7, FS_Subset
    <2>2. Cardinality(Slice) \in Nat /\ Cardinality(A \cup B) \in Nat
      BY <1>1, <1>7, FS_CardinalityType
    <2> QED
      BY <1>1, <1>5, <1>6, <1>7, <1>8, <2>1, <2>2, SMTT(30)
  <1>10. \A q \in Req : f[q] # s /\ g[q] # s
    BY <1>1, <1>9
  <1> QED
    BY <1>10

\* What a receive from the channel of slices leaves there.
LEMMA TakeCell ==
    ASSUME NEW s \in Seq(Slice), s # <<>>, CellsOnce(s)
    PROVE  /\ Tail(s) \in Seq(Slice) /\ Head(s) \in Slice /\ Head(s) \in Cells(s)
           /\ Cells(Tail(s)) \subseteq Cells(s) /\ Head(s) \notin Cells(Tail(s))
           /\ CellsOnce(Tail(s))
  <1> DEFINE n == Len(s)
             t == Tail(s)
             h == Head(s)
  <1>1. /\ n \in Nat \ {0} /\ DOMAIN s = 1 .. n
        /\ t \in Seq(Slice) /\ DOMAIN t = 1 .. n - 1
        /\ h = s[1] /\ h \in Slice
        /\ \A i \in 1 .. n - 1 : t[i] = s[i + 1]
    BY SMTT(30)
  <1> HIDE DEF n, t, h
  <1>2. /\ 1 \in DOMAIN s
        /\ \A i \in DOMAIN t : i + 1 \in DOMAIN s /\ t[i] = s[i + 1] /\ i + 1 # 1
    BY <1>1, SMTT(30)
  <1>3. h \in Cells(s) /\ Cells(t) \subseteq Cells(s)
    BY <1>1, <1>2 DEF Cells
  <1>4. h \notin Cells(t)
    <2> SUFFICES ASSUME NEW i \in DOMAIN t, h = t[i] PROVE FALSE
      BY DEF Cells
    <2> QED
      BY <1>1, <1>2 DEF CellsOnce
  <1>5. CellsOnce(t)
    <2> SUFFICES ASSUME NEW i \in DOMAIN t, NEW j \in DOMAIN t, t[i] = t[j]
                 PROVE  i = j
      BY DEF CellsOnce
    <2>1. i + 1 = j + 1
      BY <1>2 DEF CellsOnce
    <2> QED
      BY <1>1, <2>1, SMTT(30)
  <1> QED
    BY <1>1, <1>3, <1>4, <1>5 DEF t, h

\* What a send of another slice leaves there.
LEMMA ReturnCell ==
    ASSUME NEW s \in Seq(Slice), NEW x \in Slice, x \notin Cells(s), CellsOnce(s)
    PROVE  /\ Append(s, x) \in Seq(Slice)
           /\ Cells(Append(s, x)) = Cells(s) \cup {x}
           /\ CellsOnce(Append(s, x))
  <1> DEFINE n == Len(s)
             t == Append(s, x)
  <1>1. /\ n \in Nat /\ DOMAIN s = 1 .. n
        /\ t \in Seq(Slice) /\ DOMAIN t = 1 .. n + 1
        /\ t[n + 1] = x /\ \A i \in 1 .. n : t[i] = s[i]
    BY SMTT(30)
  <1> HIDE DEF n, t
  <1>2. Cells(t) = Cells(s) \cup {x}
    BY <1>1, SMTT(30) DEF Cells
  <1>3. \A i \in 1 .. n : s[i] # x
    BY <1>1 DEF Cells
  <1>4. CellsOnce(t)
    BY <1>1, <1>3, SMTT(30) DEF CellsOnce
  <1> QED
    BY <1>1, <1>2, <1>4 DEF t

\* When the channel is empty, make finds a slice that nothing refers to.
LEMMA MakeSlice ==
    ASSUME QueueType, MemType, Refers,
           NEW r \in Req, stage[r] \in {"none", "handle"}, pool = <<>>
    PROVE  NewSlice \in Slice /\ Unused(NewSlice)
  <1> DEFINE f == [q \in Req |-> IF stage[q] \in {"none", "handle", "process"}
                                 THEN frame[q] ELSE data[q]]
  <1>1. f \in [Req -> Slice \cup {Own}] /\ out \in [Req -> Slice \cup {Own}]
    BY DEF MemType
  <1>2. out[r] = Own
    BY DEF Refers
  <1>3. \A q \in Req : /\ frame[q] \in {Own, f[q]}
                       /\ data[q] \in {Own, f[q]}
    BY DEF Refers
  <1> HIDE DEF f
  <1>4. PICK s \in Slice : \A q \in Req : f[q] # s /\ out[q] # s
    BY <1>1, <1>2, AnotherSlice
  <1>5. Own \notin Slice
    BY NonBlockAssumption
  <1>6. \A q \in Req : s \notin {frame[q], out[q], data[q]}
    BY <1>3, <1>4, <1>5
  <1>7. \A i \in DOMAIN pool : pool[i] # s
    BY SMTT(30)
  <1>8. \E x \in Slice : Unused(x)
    BY <1>6, <1>7 DEF Unused, Req
  <1> QED
    BY <1>8 DEF NewSlice

\* A slice that is neither in the channel nor in use.
FreeSlice(s) ==
    /\ s \in Slice
    /\ \A q \in Req : (Unread(q) => frame[q] # s) /\ out[q] # s

\* getSlice returns a free slice and takes it out of the channel.
LEMMA GetSliceLemma ==
    ASSUME QueueType, MemInv,
           NEW r \in Req, stage[r] \in {"none", "handle"}, GetSlice
    PROVE  \E s : /\ s = NextSlice /\ FreeSlice(s)
                  /\ s \notin Cells(pool') /\ Cells(pool') \subseteq Cells(pool)
                  /\ pool' \in Seq(Slice) /\ CellsOnce(pool')
  <1>1. MemType /\ Refers /\ Exclusive /\ pool \in Seq(Slice) /\ CellsOnce(pool)
    BY DEF MemInv, MemType, Exclusive
  <1>2. Own \notin Slice
    BY NonBlockAssumption
  <1>3. CASE pool = <<>>
    <2>1. NextSlice = NewSlice /\ pool' = pool
      BY <1>3 DEF GetSlice, NextSlice
    <2>2. NewSlice \in Slice /\ Unused(NewSlice)
      BY <1>1, <1>3, MakeSlice
    <2>3. FreeSlice(NewSlice) /\ NewSlice \notin Cells(pool)
      BY <2>2 DEF Unused, FreeSlice, Cells, Req
    <2> QED
      BY <1>1, <2>1, <2>3
  <1>4. CASE pool # <<>>
    <2>1. NextSlice = Head(pool) /\ pool' = Tail(pool)
      BY <1>4 DEF GetSlice, NextSlice
    <2>2. /\ Tail(pool) \in Seq(Slice) /\ Head(pool) \in Slice /\ Head(pool) \in Cells(pool)
          /\ Cells(Tail(pool)) \subseteq Cells(pool) /\ Head(pool) \notin Cells(Tail(pool))
          /\ CellsOnce(Tail(pool))
      BY <1>1, <1>4, TakeCell
    <2>3. FreeSlice(Head(pool))
      BY <1>1, <1>2, <2>2 DEF FreeSlice, Exclusive
    <2> QED
      BY <2>1, <2>2, <2>3
  <1> QED
    BY <1>3, <1>4

\* What a write to memory s may overwrite.
LEMMA WriteLemma ==
    ASSUME NEW r \in Req, NEW s, Write(r, s), NEW q \in clobbered'
    PROVE  q \in clobbered \/ (q \in Req \ {r} /\ s # Own /\ frame[q] = s)
  BY DEF Write, Req

\* A function with one new value.
LEMMA UpdateType ==
    ASSUME NEW S, NEW T, NEW f \in [S -> T], NEW x \in S, NEW v \in T
    PROVE  [f EXCEPT ![x] = v] \in [S -> T]
  OBVIOUS

\* Requests move on, or are forgotten, and no slice changes hands.
LEMMA LessMemory ==
    ASSUME MemInv, MemType', Refers',
           UNCHANGED <<out, pool>>,
           \A q \in Req : Unread(q)' => Unread(q) /\ frame'[q] = frame[q],
           clobbered' \subseteq clobbered,
           \A q \in clobbered' : stage'[q] \notin {"none", "handle", "process"}
    PROVE  MemInv'
  <1>1. Exclusive'
    BY DEF MemInv, Exclusive
  <1> QED
    BY <1>1 DEF MemInv, Intact

\* A request that was handled is answered or dropped.
LEMMA ForgetMemStep ==
    ASSUME QueueType, MemInv, NEW t \in Req, stage[t] \in {"queued", "over"},
           stage' = [stage EXCEPT ![t] = "over"], Forget(t)
    PROVE  MemInv'
  <1>1. MemType /\ Refers /\ Intact
    BY DEF MemInv
  <1>2. /\ frame' = [frame EXCEPT ![t] = Own] /\ data' = [data EXCEPT ![t] = Own]
        /\ clobbered' = clobbered \ {t} /\ UNCHANGED <<out, pool>>
    BY DEF Forget
  <1>3. /\ stage'[t] = "over" /\ frame'[t] = Own /\ data'[t] = Own
        /\ \A q \in Req \ {t} :
               stage'[q] = stage[q] /\ frame'[q] = frame[q] /\ data'[q] = data[q]
    BY <1>1, <1>2 DEF QueueType, MemType
  <1>4. MemType'
    BY <1>1, <1>2 DEF MemType
  <1>5. Refers'
    BY <1>1, <1>2, <1>3 DEF Refers
  <1>6. \A q \in Req : Unread(q)' => Unread(q) /\ frame'[q] = frame[q]
    BY <1>3 DEF Unread
  <1>7. \A q \in clobbered' : stage'[q] \notin {"none", "handle", "process"}
    BY <1>1, <1>2, <1>3 DEF Intact
  <1> QED
    BY <1>2, <1>4, <1>5, <1>6, <1>7, LessMemory

\* A heartbeat is answered with its frame; a request that was handled is pushed.
LEMMA PushMemStep ==
    ASSUME QueueType, MemInv, NEW r \in Req, HandlePing(r) \/ PushTask(r)
    PROVE  MemInv'
  <1>1. MemType /\ Refers /\ Intact
    BY DEF MemInv
  <1>2. /\ UNCHANGED <<frame, out, clobbered, pool>>
        /\ \/ /\ stage[r] = "handle" /\ stage' = [stage EXCEPT ![r] = "push"]
              /\ data' = [data EXCEPT ![r] = frame[r]]
           \/ /\ stage[r] = "push" /\ stage' = [stage EXCEPT ![r] = "queued"]
              /\ data' = data
    BY DEF HandlePing, PushTask, memVars
  <1>3. /\ stage'[r] \in {"push", "queued"} /\ stage[r] \in {"handle", "push"}
        /\ \A q \in Req \ {r} : stage'[q] = stage[q] /\ data'[q] = data[q]
        /\ \/ stage[r] = "handle" /\ data'[r] = frame[r]
           \/ stage[r] = "push" /\ data'[r] = data[r]
    BY <1>1, <1>2 DEF QueueType, MemType
  <1>4. MemType'
    <2>1. frame[r] \in Slice \cup {Own}
      BY <1>1 DEF MemType
    <2> QED
      BY <1>1, <1>2, <2>1, UpdateType DEF MemType
  <1>5. Refers'
    BY <1>1, <1>2, <1>3 DEF Refers
  <1>6. \A q \in Req : Unread(q)' => Unread(q) /\ frame'[q] = frame[q]
    BY <1>2, <1>3 DEF Unread
  <1>7. \A q \in clobbered' : stage'[q] \notin {"none", "handle", "process"}
    BY <1>1, <1>2, <1>3 DEF Intact
  <1> QED
    BY <1>2, <1>4, <1>5, <1>6, <1>7, LessMemory

\* Dispatch takes a slice for its response.
LEMMA GetOutMemStep ==
    ASSUME QueueType, MemInv, NEW r \in Req, GetOut(r)
    PROVE  MemInv'
  <1>1. MemType /\ Refers /\ Exclusive /\ Intact
    BY DEF MemInv
  <1>2. /\ stage[r] = "handle" /\ GetSlice
        /\ out' = [out EXCEPT ![r] = NextSlice]
        /\ stage' = [stage EXCEPT ![r] = "process"]
        /\ UNCHANGED <<frame, data, clobbered>>
    BY DEF GetOut
  <1>3. PICK s : /\ s = NextSlice /\ FreeSlice(s)
                 /\ s \notin Cells(pool') /\ Cells(pool') \subseteq Cells(pool)
                 /\ pool' \in Seq(Slice) /\ CellsOnce(pool')
    BY <1>2, GetSliceLemma
  <1>4. /\ s \in Slice
        /\ \A q \in Req : Unread(q) => frame[q] # s
        /\ \A q \in Req : out[q] # s
    BY <1>3 DEF FreeSlice
  <1>5. out \in [Req -> Slice \cup {Own}] /\ out' = [out EXCEPT ![r] = s]
    BY <1>1, <1>2, <1>3 DEF MemType
  <1>6. /\ out'[r] = s /\ stage'[r] = "process"
        /\ \A q \in Req \ {r} : out'[q] = out[q] /\ stage'[q] = stage[q]
    BY <1>2, <1>5 DEF QueueType
  <1>7. MemType'
    <2>1. out' \in [Req -> Slice \cup {Own}]
      BY <1>4, <1>5, UpdateType
    <2> QED
      BY <1>1, <1>2, <1>3, <2>1 DEF MemType
  <1>8. Refers'
    <2>1. s # Own
      BY <1>4, NonBlockAssumption
    <2> QED
      BY <1>1, <1>2, <1>6, <2>1 DEF Refers
  <1>9. \A q \in Req : Unread(q)' <=> Unread(q)
    BY <1>2, <1>6 DEF Unread
  <1>10. ASSUME NEW q \in Req, Unread(q)
         PROVE  /\ frame[q] \notin Cells(pool')
                /\ \A p \in Req : frame[q] # out'[p]
                /\ \A p \in Req \ {q} : Unread(p) => frame[p] # frame[q]
    <2>1. /\ frame[q] \notin Cells(pool)
          /\ \A p \in Req : frame[q] # out[p]
          /\ \A p \in Req \ {q} : Unread(p) => frame[p] # frame[q]
      BY <1>1, <1>10 DEF Exclusive
    <2>2. frame[q] # s
      BY <1>4, <1>10
    <2>3. \A p \in Req : frame[q] # out'[p]
      BY <1>6, <2>1, <2>2
    <2> QED
      BY <1>3, <2>1, <2>3
  <1>11. ASSUME NEW q \in Req, out'[q] # Own
         PROVE  /\ out'[q] \notin Cells(pool')
                /\ \A p \in Req \ {q} : out'[p] # out'[q]
    <2>1. CASE q = r
      BY <1>3, <1>4, <1>6, <2>1
    <2>2. CASE q # r
      <3>1. /\ out[q] \notin Cells(pool) /\ out'[q] = out[q]
            /\ \A p \in Req \ {q} : out[p] # out[q]
        BY <1>1, <1>6, <1>11, <2>2 DEF Exclusive
      <3> QED
        BY <1>3, <1>4, <1>6, <3>1
    <2> QED
      BY <2>1, <2>2
  <1>12. Exclusive'
    BY <1>2, <1>3, <1>9, <1>10, <1>11 DEF Exclusive
  <1>13. Intact'
    BY <1>1, <1>2, <1>6 DEF Intact
  <1> QED
    BY <1>7, <1>8, <1>12, <1>13 DEF MemInv

\* Process writes the response and returns the slice.
LEMMA ProcessMemStep ==
    ASSUME QueueType, MemInv, NEW r \in Req, Process(r)
    PROVE  MemInv'
  <1>1. MemType /\ Refers /\ Exclusive /\ Intact
    BY DEF MemInv
  <1>2. /\ stage[r] = "process" /\ Write(r, out[r]) /\ ReturnSlice(out[r])
        /\ \E s \in {out[r], Own} : data' = [data EXCEPT ![r] = s]
        /\ out' = [out EXCEPT ![r] = Own] /\ frame' = [frame EXCEPT ![r] = Own]
        /\ stage' = [stage EXCEPT ![r] = "push"]
    BY DEF Process
  <1>3. /\ out'[r] = Own /\ frame'[r] = Own /\ stage'[r] = "push"
        /\ \A q \in Req \ {r} : /\ out'[q] = out[q] /\ frame'[q] = frame[q]
                                /\ stage'[q] = stage[q] /\ data'[q] = data[q]
    BY <1>1, <1>2 DEF QueueType, MemType
  <1>4. /\ pool' \in Seq(Slice) /\ CellsOnce(pool')
        /\ Cells(pool') \subseteq Cells(pool) \cup {out[r]}
    <2>1. pool \in Seq(Slice) /\ CellsOnce(pool) /\ out[r] \in Slice \cup {Own}
      BY <1>1 DEF MemType, Exclusive
    <2>2. CASE pool' = pool
      BY <2>1, <2>2
    <2>3. CASE pool' = Append(pool, out[r])
      <3>1. out[r] # Own
        BY <1>1, <1>2 DEF Refers
      <3>2. out[r] \in Slice /\ out[r] \notin Cells(pool)
        BY <1>1, <2>1, <3>1 DEF Exclusive
      <3> QED
        BY <2>1, <2>3, <3>2, ReturnCell
    <2> QED
      BY <1>2, <2>2, <2>3 DEF ReturnSlice
  <1>5. MemType'
    <2>1. /\ frame \in [Req -> Slice \cup {Own}] /\ out \in [Req -> Slice \cup {Own}]
          /\ data \in [Req -> Slice \cup {Own}]
      BY <1>1 DEF MemType
    <2>2. Own \in Slice \cup {Own} /\ out[r] \in Slice \cup {Own}
      BY <2>1
    <2>3. data' \in [Req -> Slice \cup {Own}]
      BY <1>2, <2>1, <2>2, UpdateType
    <2>4. frame' \in [Req -> Slice \cup {Own}]
      BY <1>2, <2>1, <2>2, UpdateType
    <2>5. out' \in [Req -> Slice \cup {Own}]
      BY <1>2, <2>1, <2>2, UpdateType
    <2> QED
      BY <1>4, <2>3, <2>4, <2>5 DEF MemType
  <1>6. Refers'
    BY <1>1, <1>3 DEF Refers
  <1>7. \A q \in Req : Unread(q)' => q # r /\ Unread(q) /\ frame'[q] = frame[q]
    BY <1>3 DEF Unread
  <1>8. ASSUME NEW q \in Req, Unread(q)'
        PROVE  /\ frame'[q] \notin Cells(pool')
               /\ \A p \in Req : frame'[q] # out'[p]
               /\ \A p \in Req \ {q} : Unread(p)' => frame'[p] # frame'[q]
    <2>1. /\ Unread(q) /\ frame'[q] = frame[q] /\ frame[q] # Own /\ q # r
          /\ frame[q] \notin Cells(pool)
          /\ \A p \in Req : frame[q] # out[p]
          /\ \A p \in Req \ {q} : Unread(p) => frame[p] # frame[q]
      BY <1>1, <1>7, <1>8 DEF Exclusive, Unread
    <2>2. frame'[q] \notin Cells(pool')
      BY <1>4, <2>1
    <2>3. \A p \in Req : frame'[q] # out'[p]
      BY <1>3, <2>1
    <2>4. \A p \in Req \ {q} : Unread(p)' => frame'[p] # frame'[q]
      BY <1>7, <2>1
    <2> QED
      BY <2>2, <2>3, <2>4
  <1>9. ASSUME NEW q \in Req, out'[q] # Own
        PROVE  /\ out'[q] \notin Cells(pool')
               /\ \A p \in Req \ {q} : out'[p] # out'[q]
    <2>1. /\ q # r /\ out'[q] = out[q] /\ out[q] # Own
          /\ out[q] \notin Cells(pool)
          /\ \A p \in Req \ {q} : out[p] # out[q]
      BY <1>1, <1>3, <1>9 DEF Exclusive
    <2> QED
      BY <1>3, <1>4, <2>1
  <1>10. Exclusive'
    BY <1>4, <1>8, <1>9 DEF Exclusive
  <1>11. Intact'
    <2> SUFFICES ASSUME NEW q \in clobbered'
                 PROVE  q \in Req /\ stage'[q] \notin {"none", "handle", "process"}
      BY DEF Intact
    <2>1. q \in clobbered \/ (q \in Req \ {r} /\ out[r] # Own /\ frame[q] = out[r])
      <3>1. Write(r, out[r])
        BY <1>2
      <3> QED
        BY <3>1, WriteLemma
    <2>2. CASE q \in clobbered
      BY <1>1, <1>3, <2>2 DEF Intact
    <2>3. CASE q \in Req \ {r} /\ out[r] # Own /\ frame[q] = out[r]
      <3>1. ~Unread(q) /\ stage[q] # "none"
        BY <1>1, <2>3 DEF Exclusive, Refers
      <3> QED
        BY <1>3, <2>3, <3>1 DEF Unread
    <2> QED
      BY <2>1, <2>2, <2>3
  <1> QED
    BY <1>5, <1>6, <1>10, <1>11 DEF MemInv

\* The reader takes a slice for the next frame, or has one made for it alone.
LEMMA ReadMemStep ==
    ASSUME QueueInv, MemInv, ReadFrame
    PROVE  MemInv'
  <1>1. MemType /\ Refers /\ Exclusive /\ Intact /\ QueueType
    BY DEF MemInv, QueueInv
  <1>2. PICK r \in Req : r = got + 1 /\ stage[r] = "none"
    BY ServerReadStep
  <1>3. /\ stage' = [stage EXCEPT ![r] = "handle"]
        /\ UNCHANGED <<out, data>>
        /\ \/ /\ frame' = [frame EXCEPT ![r] = Own]
              /\ UNCHANGED <<clobbered, pool>>
           \/ /\ GetSlice
              /\ frame' = [frame EXCEPT ![r] = NextSlice]
              /\ Write(r, NextSlice)
    BY <1>2 DEF ReadFrame
  <1>4. /\ stage'[r] = "handle" /\ frame[r] = Own
        /\ \A q \in Req \ {r} : stage'[q] = stage[q]
    BY <1>1, <1>2, <1>3 DEF QueueType, Refers
  <1>5. CASE frame' = [frame EXCEPT ![r] = Own] /\ UNCHANGED <<clobbered, pool>>
    <2>1. frame'[r] = Own /\ \A q \in Req \ {r} : frame'[q] = frame[q]
      BY <1>1, <1>5 DEF MemType
    <2>2. MemType'
      <3>1. frame \in [Req -> Slice \cup {Own}] /\ Own \in Slice \cup {Own}
        BY <1>1 DEF MemType
      <3>2. frame' \in [Req -> Slice \cup {Own}]
        BY <1>5, <3>1, UpdateType
      <3> QED
        BY <1>1, <1>3, <1>5, <3>2 DEF MemType
    <2>3. Refers'
      BY <1>1, <1>2, <1>3, <1>4, <2>1 DEF Refers
    <2>4. \A q \in Req : Unread(q)' => Unread(q) /\ frame'[q] = frame[q]
      BY <1>4, <2>1 DEF Unread
    <2>5. \A q \in clobbered' : stage'[q] \notin {"none", "handle", "process"}
      BY <1>1, <1>2, <1>4, <1>5 DEF Intact
    <2> QED
      BY <1>3, <1>5, <2>2, <2>3, <2>4, <2>5, LessMemory
  <1>6. CASE /\ GetSlice
             /\ frame' = [frame EXCEPT ![r] = NextSlice]
             /\ Write(r, NextSlice)
    <2>1. PICK s : /\ s = NextSlice /\ FreeSlice(s)
                   /\ s \notin Cells(pool') /\ Cells(pool') \subseteq Cells(pool)
                   /\ pool' \in Seq(Slice) /\ CellsOnce(pool')
      BY <1>1, <1>2, <1>6, GetSliceLemma
    <2>2. s \in Slice /\ s # Own
      BY <2>1, NonBlockAssumption DEF FreeSlice
    <2>3. frame'[r] = s /\ \A q \in Req \ {r} : frame'[q] = frame[q]
      BY <1>1, <1>6, <2>1 DEF MemType
    <2>4. MemType'
      <3>1. frame \in [Req -> Slice \cup {Own}] /\ s \in Slice \cup {Own}
        BY <1>1, <2>2 DEF MemType
      <3>2. frame' \in [Req -> Slice \cup {Own}]
        BY <1>6, <2>1, <3>1, UpdateType
      <3> QED
        BY <1>1, <1>3, <2>1, <3>2 DEF MemType
    <2>5. Refers'
      BY <1>1, <1>2, <1>3, <1>4, <2>3, SMTT(30) DEF Refers
    <2>6. /\ \A q \in Req : Unread(q) => q # r
          /\ \A q \in Req \ {r} : Unread(q)' <=> Unread(q)
      BY <1>4, <2>3 DEF Unread
    <2>7. ASSUME NEW q \in Req, Unread(q)'
          PROVE  /\ frame'[q] \notin Cells(pool')
                 /\ \A p \in Req : frame'[q] # out'[p]
                 /\ \A p \in Req \ {q} : Unread(p)' => frame'[p] # frame'[q]
      <3>1. (\A p \in Req : Unread(p) => frame[p] # s) /\ \A p \in Req : out[p] # s
        BY <2>1 DEF FreeSlice
      <3>2. CASE q = r
        <4>1. \A p \in Req : s # out'[p]
          BY <1>3, <3>1
        <4>2. \A p \in Req \ {r} : Unread(p)' => frame'[p] # s
          BY <2>3, <2>6, <3>1
        <4> QED
          BY <2>1, <2>3, <3>2, <4>1, <4>2
      <3>3. CASE q # r
        <4>1. Unread(q) /\ frame'[q] = frame[q]
          BY <2>3, <2>6, <2>7, <3>3
        <4>2. /\ frame[q] \notin Cells(pool)
              /\ \A p \in Req : frame[q] # out[p]
              /\ \A p \in Req \ {q} : Unread(p) => frame[p] # frame[q]
          BY <1>1, <4>1 DEF Exclusive
        <4>3. frame'[q] \notin Cells(pool') /\ \A p \in Req : frame'[q] # out'[p]
          BY <1>3, <2>1, <4>1, <4>2
        <4>4. ASSUME NEW p \in Req \ {q}, Unread(p)'
              PROVE  frame'[p] # frame'[q]
          <5>1. CASE p = r
            BY <2>3, <3>1, <4>1, <5>1
          <5>2. CASE p # r
            BY <2>3, <2>6, <4>1, <4>2, <4>4, <5>2
          <5> QED
            BY <5>1, <5>2
        <4> QED
          BY <4>3, <4>4
      <3> QED
        BY <3>2, <3>3
    <2>8. ASSUME NEW q \in Req, out'[q] # Own
          PROVE  /\ out'[q] \notin Cells(pool')
                 /\ \A p \in Req \ {q} : out'[p] # out'[q]
      BY <1>1, <1>3, <2>1, <2>8 DEF Exclusive
    <2>9. Exclusive'
      BY <2>1, <2>7, <2>8 DEF Exclusive
    <2>10. Intact'
      <3> SUFFICES ASSUME NEW q \in clobbered'
                   PROVE  q \in Req /\ stage'[q] \notin {"none", "handle", "process"}
        BY DEF Intact
      <3>1. q \in clobbered \/ (q \in Req \ {r} /\ frame[q] = s)
        BY <1>6, <2>1, WriteLemma
      <3>2. CASE q \in clobbered
        BY <1>1, <1>2, <1>4, <3>2 DEF Intact
      <3>3. CASE q \in Req \ {r} /\ frame[q] = s
        <4>1. ~Unread(q) /\ stage[q] # "none"
          BY <1>1, <2>1, <2>2, <3>3 DEF FreeSlice, Refers
        <4> QED
          BY <1>4, <2>2, <3>3, <4>1 DEF Unread
      <3> QED
        BY <3>1, <3>2, <3>3
    <2> QED
      BY <2>4, <2>5, <2>9, <2>10 DEF MemInv
  <1> QED
    BY <1>3, <1>5, <1>6

-----------------------------------------------------------------------------
(* The theorems about the server session.                                  *)

\* The invariants hold of a session that has just begun.
LEMMA ServerInit ==
    ASSUME SessionInit
    PROVE  QueueInv /\ MemInv
  <1> USE NonBlockAssumption DEF SessionInit, Req
  <1>1. QueueType /\ ClosedLast
    BY SMTT(30) DEF QueueType, ClosedLast, Req
  <1>2. MemType /\ Refers
    BY SMTT(30) DEF MemType, Refers, Req
  <1>3. Exclusive
    BY SMTT(30) DEF Exclusive, Unread, Cells, CellsOnce, Req
  <1>4. Intact
    BY DEF Intact
  <1> QED
    BY <1>1, <1>2, <1>3, <1>4 DEF QueueInv, MemInv

\* Every step of a server session keeps the invariant of its goroutines.
LEMMA NextQueueInv ==
    ASSUME QueueInv, [SessionNext]_sessionVars
    PROVE  QueueInv'
  BY ServerReadStep, ServerSideStep, HandlingStep, ForgetStep
     DEF SessionNext, Writing, Req

\* ... and that of its memory, if there are slices enough.
LEMMA NextMemInv ==
    ASSUME QueueInv, MemInv, [SessionNext]_sessionVars
    PROVE  MemInv'
  <1>1. QueueType
    BY DEF QueueInv
  <1>2. CASE ReadFrame
    BY <1>2, ReadMemStep
  <1>3. CASE \E r \in Req : Handling(r)
    BY <1>1, <1>3, PushMemStep, GetOutMemStep, ProcessMemStep DEF Handling
  <1>4. CASE WriteReply \/ WriteFails \/ Drop
    BY <1>1, <1>4, ForgetStep, ForgetMemStep
  <1>5. CASE \/ ReadFails \/ ServeEnds \/ TakeTask \/ TasksEnd \/ Close
             \/ WriterEnds \/ PeerGone \/ UNCHANGED sessionVars
    <2>1. UNCHANGED <<stage, got, frame, out, data, clobbered, pool>>
      BY <1>5, ServerSideStep
    <2> QED
      BY <2>1 DEF MemInv, MemType, Refers, Exclusive, Unread, Intact
  <1> QED
    BY <1>2, <1>3, <1>4, <1>5 DEF SessionNext, Writing, Req

\* The places of the reader and of the writer, and the channels, which hold no
\* more than their capacity.
ChannelType ==
    /\ sock \in {"open", "broken", "closed"} /\ rpc \in {"read", "wait", "done"}
    /\ wpc \in {"take", "write", "close", "drain", "done"}
    /\ task \in 0 .. Frames /\ replied \subseteq Req /\ tasksClosed \in BOOLEAN
    /\ Len(pool) <= PoolCap /\ Len(tasks) <= MaxPipeline

\* Every step of a server session keeps the channels within their capacity.
LEMMA NextChannelType ==
    ASSUME QueueType, MemType, ChannelType, [SessionNext]_sessionVars
    PROVE  ChannelType'
  <1>1. Frames \in Nat /\ MaxPipeline \in Nat /\ PoolCap \in Nat
    BY NonBlockAssumption
  <1>2. /\ tasks \in Seq(Req) /\ pool \in Seq(Slice)
        /\ Len(pool) <= PoolCap /\ Len(tasks) <= MaxPipeline
    BY DEF QueueType, MemType, ChannelType
  <1>3. Len(pool') <= PoolCap
    <2>1. ASSUME GetSlice PROVE Len(pool') <= PoolCap
      BY <1>1, <1>2, <2>1, SMTT(30) DEF GetSlice
    <2>2. ASSUME NEW s \in Slice \cup {Own}, ReturnSlice(s) PROVE Len(pool') <= PoolCap
      BY <1>1, <1>2, <2>2, SMTT(30) DEF ReturnSlice
    <2>3. ASSUME NEW r \in Req, Handling(r) PROVE Len(pool') <= PoolCap
      <3>1. out[r] \in Slice \cup {Own}
        BY DEF MemType
      <3> QED
        BY <1>2, <2>1, <2>2, <2>3, <3>1
           DEF Handling, HandlePing, GetOut, Process, PushTask, memVars
    <2>4. CASE ReadFrame
      BY <1>2, <2>1, <2>4 DEF ReadFrame
    <2>5. CASE \/ ReadFails \/ ServeEnds \/ Writing \/ PeerGone \/ UNCHANGED sessionVars
      <3>1. UNCHANGED pool
        BY <2>5
           DEF ReadFails, ServeEnds, Writing, TakeTask, TasksEnd, WriteReply, WriteFails,
               Close, Drop, WriterEnds, Forget, PeerGone, sessionVars, memVars
      <3> QED
        BY <1>2, <3>1
    <2> QED
      BY <2>3, <2>4, <2>5 DEF SessionNext
  <1>4. Len(tasks') <= MaxPipeline
    <2>1. \/ UNCHANGED tasks
          \/ tasks # <<>> /\ tasks' = Tail(tasks)
          \/ \E r \in Req : Len(tasks) < MaxPipeline /\ tasks' = Append(tasks, r)
      BY
         DEF SessionNext, ReadFrame, ReadFails, ServeEnds, Handling, HandlePing, GetOut,
             Process, PushTask, Writing, TakeTask, TasksEnd, WriteReply, WriteFails,
             Close, Drop, WriterEnds, PeerGone, sessionVars, taskVars
    <2> QED
      BY <1>1, <1>2, <2>1, SMTT(30)
  <1>5. /\ sock' \in {sock, "broken", "closed"} /\ rpc' \in {rpc, "wait", "done"}
        /\ wpc' \in {wpc, "take", "write", "close", "drain", "done"}
        /\ tasksClosed' \in {tasksClosed, TRUE}
        /\ \/ task' \in {task, 0}
           \/ tasks # <<>> /\ task' = Head(tasks)
        /\ \/ replied' = replied
           \/ wpc = "write" /\ replied' = replied \cup {task}
    BY
       DEF SessionNext, ReadFrame, ReadFails, ServeEnds, Handling, HandlePing, GetOut,
           Process, PushTask, Writing, TakeTask, TasksEnd, WriteReply, WriteFails,
           Close, Drop, WriterEnds, PeerGone, sessionVars, taskVars, readerVars,
           writerVars
  <1>6. task' \in 0 .. Frames
    BY <1>1, <1>2, <1>5, SMTT(30) DEF ChannelType, Req
  <1>7. replied' \subseteq Req
    BY <1>5 DEF ChannelType, QueueType
  <1>8. /\ sock' \in {"open", "broken", "closed"} /\ rpc' \in {"read", "wait", "done"}
        /\ wpc' \in {"take", "write", "close", "drain", "done"}
        /\ tasksClosed' \in BOOLEAN
    BY <1>5 DEF ChannelType
  <1> QED
    BY <1>3, <1>4, <1>6, <1>7, <1>8 DEF ChannelType, Req

\* Property TasksOpen: Serve closes tasks only after the goroutines of all
\* requests have sent on it.
THEOREM TasksOpenCorrect == SessionSpec => []TasksOpen
  <1>1. SessionInit => QueueInv
    BY ServerInit
  <1>2. QueueInv /\ [SessionNext]_sessionVars => QueueInv'
    BY NextQueueInv
  <1>3. QueueInv => TasksOpen
    BY DEF QueueInv, ClosedLast, TasksOpen, Req
  <1> QED
    BY <1>1, <1>2, <1>3, PTL DEF SessionSpec

\* Property RequestIntact: for any number of requests and slices, and any
\* capacity of the channel of slices, getSlice does not hand out the slice of a
\* request that is still to be read.
THEOREM RequestIntactCorrect == SessionSpec => []RequestIntact
  <1>1. SessionInit => QueueInv /\ MemInv
    BY ServerInit
  <1>2. QueueInv /\ MemInv /\ [SessionNext]_sessionVars => QueueInv' /\ MemInv'
    BY NextQueueInv, NextMemInv
  <1>3. MemInv => RequestIntact
    BY DEF MemInv, Intact, RequestIntact
  <1> QED
    BY <1>1, <1>2, <1>3, PTL DEF SessionSpec

\* The state of a server session is of its type; tasks and the channel of slices
\* never hold more than their capacity.
THEOREM NonBlockTypeCorrect == SessionSpec => []SessionTypeOK
  <1>1. SessionInit => QueueInv /\ MemInv /\ ChannelType
    <2> SUFFICES ASSUME SessionInit PROVE QueueInv /\ MemInv /\ ChannelType
      OBVIOUS
    <2>1. Frames \in Nat /\ MaxPipeline \in Nat /\ PoolCap \in Nat
      BY NonBlockAssumption
    <2>2. tasksClosed \in BOOLEAN
      BY DEF SessionInit
    <2>3. /\ sock \in {"open", "broken", "closed"} /\ rpc \in {"read", "wait", "done"}
          /\ wpc \in {"take", "write", "close", "drain", "done"}
          /\ replied \subseteq Req
      BY DEF SessionInit
    <2>4. task \in 0 .. Frames /\ Len(pool) <= PoolCap /\ Len(tasks) <= MaxPipeline
      BY <2>1, SMTT(30) DEF SessionInit
    <2> QED
      BY <2>2, <2>3, <2>4, ServerInit DEF ChannelType
  <1>2. QueueInv /\ MemInv /\ ChannelType /\ [SessionNext]_sessionVars
            => QueueInv' /\ MemInv' /\ ChannelType'
    BY NextQueueInv, NextMemInv, NextChannelType DEF QueueInv, MemInv
  <1>3. QueueInv /\ MemInv /\ ChannelType => SessionTypeOK
    BY DEF QueueInv, QueueType, MemInv, MemType, Intact, ChannelType,
                 SessionTypeOK, Memory
  <1> QED
    BY <1>1, <1>2, <1>3, PTL DEF SessionSpec
=============================================================================
