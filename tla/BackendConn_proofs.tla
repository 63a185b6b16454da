------------------------- MODULE BackendConn_proofs -------------------------
(* Proofs about one connection, on top of the ownership of requests: the   *)
(* drain finds what it counted, a request gets its own answer and keeps    *)
(* it (module Calls), a panic needs MarkOffline, and the connection is one *)
(* of those that ActivePool is about.                                      *)
EXTENDS BackendConnPool, BackendConnOwner_proofs

\* Zenon tries a leaf first; the leaves that need SMT cite it.
USE ZenonT(30), SMTT(30)

-----------------------------------------------------------------------------
(* Where goroutines mark the connection, and who closes its input.         *)

\* A goroutine is in MarkConnActiveFalse or -OK only where it calls them; a new
\* socket has no reader yet.
MarkingOK ==
    /\ wpc \in {"activate", "start"} => rpc[cur] = "off"
    /\ wpc \notin {"start", "after"} => marking[Writer] = "idle"
    /\ \A c \in Conn : rpc[c] # "swap" => marking[c] = "idle"

\* The input is closed, and loopWriter returns nil, only once the connection is
\* marked offline.
ClosedIsOffline ==
    /\ inputClosed => IsMarkOffline
    /\ \A o \in Offliner : opc[o] \in {"mark", "close"} => IsMarkOffline
    /\ wpc \in {"stop", "mark", "after"} /\ ~werr => IsMarkOffline

MarkInv == MarkingOK /\ ClosedIsOffline /\ DrainHasInput

\* The steps of sessions, heartbeat and environment.
LEMMA OutsideMarkStep ==
    ASSUME TypeOK, MarkInv,
           \/ \E r \in Request : Session(r)
           \/ \E c \in Conn : Break(c)
           \/ Heartbeat \/ Elapse \/ UNCHANGED vars
    PROVE  MarkInv'
  <1> USE DEF chanVars, mapVars, flagVars, writerVars, netVars, hbVars, reqVars
  <1>1. /\ UNCHANGED <<marking, wpc, cur, rpc, inputClosed, IsMarkOffline, opc, werr, left>>
        /\ input' = input \/ \E x \in Item : input' = Append(input, x)
    <2>1. ASSUME NEW r \in Request, Session(r) PROVE <1>1!1 /\ <1>1!2
      BY <2>1 DEF Session, Pick, PushBack, PushBackPanics, SendInput, Item
    <2>2. ASSUME NEW c \in Conn, Break(c) PROVE <1>1!1 /\ <1>1!2
      BY <2>2 DEF Break
    <2>3. CASE Heartbeat
      BY <2>3 DEF Heartbeat, HbTick, HbPush, HbPushPanics, SendInput, Item
    <2>4. CASE Elapse
      BY <2>4 DEF Elapse
    <2>5. CASE UNCHANGED vars
      BY <2>5 DEF vars
    <2> QED
      BY <2>1, <2>2, <2>3, <2>4, <2>5
  <1>2. Len(input') >= Len(input)
    BY <1>1, SMTT(30) DEF TypeOK, ChanType
  <1>3. MarkingOK' /\ ClosedIsOffline'
    BY <1>1 DEF MarkInv, MarkingOK, ClosedIsOffline
  <1>4. DrainHasInput'
    BY <1>1, <1>2, SMTT(30) DEF MarkInv, DrainHasInput, TypeOK, ChanType, WriterType
  <1> QED
    BY <1>3, <1>4 DEF MarkInv

\* MarkConnActiveFalse, StateChanged and MarkOffline.
LEMMA FlagMarkStep ==
    ASSUME TypeOK, MarkInv,
           \/ \E t \in Thread : Marking(t)
           \/ \E o \in Offliner : Offlining(o)
    PROVE  MarkInv'
  <1> USE ConstantsAssumption
  <1> USE DEF chanVars, mapVars, flagVars, writerVars, netVars, hbVars, reqVars
  <1>1. ASSUME NEW t \in Thread, Marking(t) PROVE MarkInv'
    <2>1. /\ marking[t] # "idle"
          /\ \E m \in {"idle", "notify"} : marking' = [marking EXCEPT ![t] = m]
          /\ UNCHANGED <<wpc, cur, rpc, inputClosed, IsMarkOffline, opc, werr, left, input>>
      BY <1>1 DEF Marking, SetInactive, StateChanged
    <2>2. MarkingOK'
      BY <2>1 DEF MarkInv, MarkingOK, TypeOK, FlagType, Thread
    <2> QED
      BY <2>1, <2>2 DEF MarkInv, ClosedIsOffline, DrainHasInput
  <1>2. ASSUME NEW o \in Offliner, Offlining(o) PROVE MarkInv'
    <2>1. /\ UNCHANGED <<wpc, cur, rpc, werr, left, input>>
          /\ marking' = marking \/ \E m \in {"idle", "set"} : marking' = [marking EXCEPT ![o] = m]
      BY <1>2 DEF Offlining, OfflineCheck, OfflineSet, OfflineMark, OfflineClose,
                  MarkConnActiveFalse
    <2>2. MarkingOK'
      BY <2>1 DEF MarkInv, MarkingOK, TypeOK, FlagType, Thread
    <2>3. ClosedIsOffline'
      <3> USE DEF MarkInv, ClosedIsOffline, TypeOK
      <3>1. CASE OfflineCheck(o)
        BY <2>1, <3>1, SMTT(30) DEF OfflineCheck
      <3>2. CASE OfflineSet(o)
        BY <2>1, <3>2 DEF OfflineSet
      <3>3. CASE OfflineMark(o)
        BY <2>1, <3>3 DEF OfflineMark, MarkConnActiveFalse
      <3>4. CASE OfflineClose(o)
        BY <2>1, <3>4 DEF OfflineClose
      <3> QED
        BY <1>2, <3>1, <3>2, <3>3, <3>4 DEF Offlining
    <2> QED
      BY <2>1, <2>2, <2>3 DEF MarkInv, DrainHasInput
  <1> QED
    BY <1>1, <1>2

\* The readers.
LEMMA ReaderMarkStep ==
    ASSUME TypeOK, WriterOK, MarkInv, NEW c \in Conn, Reading(c)
    PROVE  MarkInv'
  <1> USE ConstantsAssumption
  <1> USE DEF chanVars, mapVars, flagVars, writerVars, netVars, hbVars, reqVars
  <1>1. UNCHANGED <<wpc, cur, inputClosed, IsMarkOffline, opc, werr, left, input>>
    BY DEF Reading, ReadReply, ReadFails, SwapMap, FlushBatch, MarkConnActiveFalse
  <1>2. MarkingOK'
    <2> USE DEF MarkInv, MarkingOK, TypeOK, FlagType, NetType, WriterOK, Thread
    <2>1. CASE ReadReply(c)
      BY <1>1, <2>1 DEF ReadReply
    <2>2. CASE ReadFails(c)
      BY <1>1, <2>2, SMTT(30) DEF ReadFails, MarkConnActiveFalse
    <2>3. CASE SwapMap(c)
      BY <1>1, <2>3, SMTT(30) DEF SwapMap
    <2>4. CASE FlushBatch(c)
      BY <1>1, <2>4, SMTT(30) DEF FlushBatch
    <2> QED
      BY <2>1, <2>2, <2>3, <2>4 DEF Reading
  <1> QED
    BY <1>1, <1>2 DEF MarkInv, ClosedIsOffline, DrainHasInput

\* The writer.
LEMMA WriterMarkStep ==
    ASSUME TypeOK, WriterOK, MarkInv, Writing
    PROVE  MarkInv'
  <1> USE ConstantsAssumption
  <1> USE DEF chanVars, mapVars, flagVars, writerVars, netVars, hbVars, reqVars
  <1>1. CASE RunLoop \/ EnsureConnFails \/ (\E c \in Conn : EnsureConn(c))
    <2>1. /\ wpc \in {"run", "connect"} /\ wpc' \in {"done", "connect", "activate"}
          /\ wpc' = "activate" => rpc[cur'] = "off"
          /\ UNCHANGED <<marking, rpc, inputClosed, IsMarkOffline, opc, input>>
      BY <1>1 DEF RunLoop, EnsureConnFails, EnsureConn
    <2> QED
      BY <2>1 DEF MarkInv, MarkingOK, ClosedIsOffline, DrainHasInput
  <1>2. CASE MarkConnActiveOK
    <2>1. /\ wpc = "activate" /\ wpc' = "start"
          /\ marking' = [marking EXCEPT ![Writer] = "notify"]
          /\ UNCHANGED <<cur, rpc, inputClosed, IsMarkOffline, opc, input>>
      BY <1>2 DEF MarkConnActiveOK
    <2>2. MarkingOK'
      BY <2>1 DEF MarkInv, MarkingOK, TypeOK, FlagType, Thread
    <2> QED
      BY <2>1, <2>2 DEF MarkInv, ClosedIsOffline, DrainHasInput
  <1>3. CASE StartLoops
    <2>1. /\ wpc = "start" /\ wpc' = "select" /\ marking[Writer] = "idle"
          /\ rpc' = [rpc EXCEPT ![cur] = "read"]
          /\ UNCHANGED <<marking, inputClosed, IsMarkOffline, opc, input>>
      BY <1>3 DEF StartLoops
    <2>2. MarkingOK'
      BY <2>1 DEF MarkInv, MarkingOK, TypeOK, NetType, WriterOK
    <2> QED
      BY <2>1, <2>2 DEF MarkInv, ClosedIsOffline, DrainHasInput
  <1>4. CASE TakeInput \/ DropStalePing \/ WriteFrame \/ Register
    <2>1. /\ wpc \in {"select", "write", "register"}
          /\ wpc' \in {"select", "write", "register"}
          /\ UNCHANGED <<marking, rpc, inputClosed, IsMarkOffline, opc>>
      BY <1>4 DEF TakeInput, DropStalePing, WriteFrame, Register
    <2> QED
      BY <2>1 DEF MarkInv, MarkingOK, ClosedIsOffline, DrainHasInput
  <1>5. CASE InputEnds \/ HbTimesOut \/ WriteFails \/ StopHeartbeat
    <2>1. /\ wpc \in {"select", "write", "stop"} /\ wpc' \in {"stop", "mark"}
          /\ \/ werr' = TRUE
             \/ inputClosed
             \/ wpc = "stop" /\ werr' = werr
          /\ UNCHANGED <<marking, rpc, inputClosed, IsMarkOffline, opc>>
      BY <1>5 DEF InputEnds, HbTimesOut, WriteFails, StopHeartbeat
    <2>2. MarkingOK'
      BY <2>1 DEF MarkInv, MarkingOK
    <2>3. ClosedIsOffline'
      BY <2>1, SMTT(30) DEF MarkInv, ClosedIsOffline
    <2>4. DrainHasInput'
      BY <2>1 DEF MarkInv, DrainHasInput
    <2> QED
      BY <2>2, <2>3, <2>4 DEF MarkInv
  <1>6. CASE WriterMark
    <2>1. /\ wpc = "mark" /\ wpc' = "after"
          /\ \E m \in {"idle", "set"} : marking' = [marking EXCEPT ![Writer] = m]
          /\ UNCHANGED <<rpc, inputClosed, IsMarkOffline, opc, werr, input>>
      BY <1>6 DEF WriterMark, MarkConnActiveFalse
    <2>2. MarkingOK'
      BY <2>1 DEF MarkInv, MarkingOK, TypeOK, FlagType, Thread
    <2> QED
      BY <2>1, <2>2 DEF MarkInv, ClosedIsOffline, DrainHasInput
  <1>7. CASE AfterLoop
    <2>1. /\ wpc' \in {"drain", "done"} /\ marking[Writer] = "idle"
          /\ wpc' = "drain" => left' = Len(input)
          /\ Len(input) \in Nat
          /\ UNCHANGED <<marking, rpc, inputClosed, IsMarkOffline, opc, input>>
      BY <1>7, SMTT(30) DEF AfterLoop, TypeOK, ChanType
    <2>2. MarkingOK'
      BY <2>1 DEF MarkInv, MarkingOK
    <2>3. ClosedIsOffline'
      BY <2>1 DEF MarkInv, ClosedIsOffline
    <2>4. DrainHasInput'
      BY <2>1, SMTT(30) DEF MarkInv, DrainHasInput
    <2> QED
      BY <2>2, <2>3, <2>4 DEF MarkInv
  <1>8. CASE DrainOne
    <2>1. /\ wpc = "drain" /\ wpc' = "drain"
          /\ left' = left - 1 /\ input # <<>> /\ input' = Tail(input)
          /\ UNCHANGED <<marking, rpc, inputClosed, IsMarkOffline, opc>>
      BY <1>8 DEF DrainOne
    <2>2. DrainHasInput'
      BY <2>1, SMTT(30) DEF MarkInv, DrainHasInput, TypeOK, ChanType, WriterType
    <2> QED
      BY <2>1, <2>2 DEF MarkInv, MarkingOK, ClosedIsOffline
  <1>9. CASE Drained
    <2>1. /\ wpc = "drain" /\ wpc' = "run"
          /\ UNCHANGED <<marking, rpc, inputClosed, IsMarkOffline, opc>>
      BY <1>9 DEF Drained
    <2>2. MarkingOK'
      BY <2>1 DEF MarkInv, MarkingOK
    <2>3. ClosedIsOffline'
      BY <2>1 DEF MarkInv, ClosedIsOffline
    <2>4. DrainHasInput'
      BY <2>1 DEF MarkInv, DrainHasInput
    <2> QED
      BY <2>2, <2>3, <2>4 DEF MarkInv
  <1> QED
    BY <1>1, <1>2, <1>3, <1>4, <1>5, <1>6, <1>7, <1>8, <1>9 DEF Writing

\* Every step preserves it.
LEMMA NextMarkInv == TypeOK /\ WriterOK /\ MarkInv /\ [Next]_vars => MarkInv'
  BY OutsideMarkStep, FlagMarkStep, ReaderMarkStep, WriterMarkStep DEF Next

\* It holds when the connection is created.
LEMMA InitMarkInv == Init => MarkInv
  BY ConstantsAssumption, SMTT(30)
     DEF Init, MarkInv, MarkingOK, ClosedIsOffline, DrainHasInput, Thread

\* The invariant holds of every behaviour of the connection.
THEOREM MarkInvariant == Spec => []MarkInv
  <1>1. OwnerInv => TypeOK /\ WriterOK
    BY DEF OwnerInv
  <1> QED
    BY <1>1, OwnerInvariant, InitMarkInv, NextMarkInv, PTL DEF Spec

\* The drain loop of Run finds every request that len(bc.input) counted.
THEOREM DrainCorrect == Spec => []DrainHasInput
  <1>1. MarkInv => DrainHasInput
    BY DEF MarkInv
  <1> QED
    BY <1>1, MarkInvariant, PTL

\* The input stays closed, and only what meets a closed input panics.
LEMMA PanicStep ==
    ASSUME [Next]_vars
    PROVE  /\ inputClosed' = inputClosed \/ inputClosed' = TRUE
           /\ panic' = panic \/ inputClosed
  <1> USE DEF chanVars, mapVars, flagVars, writerVars, netVars, hbVars, reqVars
  <1> DEFINE Goal == /\ inputClosed' = inputClosed \/ inputClosed' = TRUE
                     /\ panic' = panic \/ inputClosed
  <1>1. ASSUME NEW r \in Request, Session(r) PROVE Goal
    BY <1>1 DEF Session, Pick, PushBack, PushBackPanics, SendInput
  <1>2. ASSUME NEW c \in Conn, Break(c) PROVE Goal
    BY <1>2 DEF Break
  <1>3. CASE Heartbeat \/ Elapse
    BY <1>3 DEF Heartbeat, HbTick, HbPush, HbPushPanics, SendInput, Elapse
  <1>4. ASSUME NEW t \in Thread, Marking(t) PROVE Goal
    BY <1>4 DEF Marking, SetInactive, StateChanged
  <1>5. ASSUME NEW o \in Offliner, Offlining(o) PROVE Goal
    BY <1>5 DEF Offlining, OfflineCheck, OfflineSet, OfflineMark, OfflineClose,
                       MarkConnActiveFalse
  <1>6. ASSUME NEW c \in Conn, Reading(c) PROVE Goal
    BY <1>6 DEF Reading, ReadReply, ReadFails, SwapMap, FlushBatch,
                       MarkConnActiveFalse
  <1>7. CASE Writing
    BY <1>7
       DEF Writing, RunLoop, EnsureConn, EnsureConnFails, MarkConnActiveOK, StartLoops,
           TakeInput, InputEnds, HbTimesOut, DropStalePing, WriteFrame, WriteFails,
           Register, StopHeartbeat, WriterMark, AfterLoop, DrainOne, Drained
  <1>8. CASE UNCHANGED vars
    BY <1>8 DEF vars
  <1> QED
    BY <1>1, <1>2, <1>3, <1>4, <1>5, <1>6, <1>7, <1>8 DEF Next

\* A connection that nobody marked offline ends no process, whatever its sockets,
\* its heartbeat and the sessions do.
THEOREM PanicCorrect == Spec => []PanicNeedsOffline
  <1> DEFINE PanicInv == panic # "no" => inputClosed
  <1>1. Init => PanicInv
    BY DEF Init
  <1>2. PanicInv /\ [Next]_vars => PanicInv'
    BY PanicStep
  <1>3. PanicInv /\ MarkInv => PanicNeedsOffline
    BY DEF MarkInv, ClosedIsOffline, PanicNeedsOffline
  <1> HIDE DEF PanicInv
  <1> QED
    BY <1>1, <1>2, <1>3, MarkInvariant, PTL DEF Spec

-----------------------------------------------------------------------------
(* Sequence ids.                                                           *)

\* Until the ids wrap around, id MIN + n belongs to the frame written n-th, and
\* the request registered under an id is the one of the frames with that id.
Sent == IF wpc = "register" THEN sends - 1 ELSE sends

SeqInv ==
    sends <= SeqIds =>
        /\ Sent < SeqIds => currentSeqId = BACKEND_CONN_MIN_SEQ_ID + Sent
        /\ wpc = "register" => Sent \in Nat
        /\ \A s \in SeqId : seqNum2Request[s] # Nil => s < BACKEND_CONN_MIN_SEQ_ID + Sent
        /\ \A c \in Conn : \A f \in out[c] \cup wire[c] :
            /\ f.seq < BACKEND_CONN_MIN_SEQ_ID + sends
            /\ seqNum2Request[f.seq] \in {Nil, f.req}
            /\ wpc = "register" /\ f.seq = currentSeqId => f.req = hand
        /\ \A r \in Request : resp[r] # "other"

\* Steps that write no frame and register no request.
LEMMA SeqQuiet ==
    ASSUME TypeOK, SeqInv,
           UNCHANGED <<currentSeqId, sends>>,
           wpc' = "register" <=> wpc = "register",
           wpc = "register" => hand' = hand,
           \A s \in SeqId : seqNum2Request'[s] \in {Nil, seqNum2Request[s]},
           \A c \in Conn : out'[c] \subseteq out[c] /\ wire'[c] \subseteq wire[c],
           sends <= SeqIds => \A r \in Request : resp'[r] # "other"
    PROVE  SeqInv'
  <1>1. SUFFICES ASSUME sends <= SeqIds PROVE SeqInv'
    BY DEF SeqInv
  <1>2. Sent' = Sent
    BY DEF Sent
  <1>3. \A c \in Conn : \A f \in out'[c] \cup wire'[c] :
            /\ f \in out[c] \cup wire[c]
            /\ f.seq \in SeqId
    BY SMTT(60) DEF TypeOK, NetType, Frame
  <1>4. \A c \in Conn : \A f \in out'[c] \cup wire'[c] :
            /\ f.seq < BACKEND_CONN_MIN_SEQ_ID + sends'
            /\ seqNum2Request'[f.seq] \in {Nil, f.req}
            /\ wpc' = "register" /\ f.seq = currentSeqId' => f.req = hand'
    BY <1>1, <1>3 DEF SeqInv
  <1>5. \A s \in SeqId : seqNum2Request'[s] # Nil => s < BACKEND_CONN_MIN_SEQ_ID + Sent'
    BY <1>1, <1>2 DEF SeqInv
  <1> QED
    BY <1>1, <1>2, <1>4, <1>5 DEF SeqInv

\* A frame gets an id that no entry and no other frame has.
LEMMA WriteFrameSeq ==
    ASSUME TypeOK, WriterOK, SeqInv, WriteFrame
    PROVE  SeqInv'
  <1> USE ConstantsAssumption
  <1>0. /\ wpc = "write" /\ wpc' = "register" /\ sends' = sends + 1
        /\ UNCHANGED <<seqNum2Request, currentSeqId, hand, resp>>
    BY DEF WriteFrame, reqVars
  <1>1. SUFFICES ASSUME sends + 1 <= SeqIds PROVE SeqInv'
    BY <1>0 DEF SeqInv
  <1>2. /\ sends \in Nat /\ SeqIds \in Nat /\ Sent = sends /\ Sent' = sends
        /\ currentSeqId = BACKEND_CONN_MIN_SEQ_ID + sends
        /\ BACKEND_CONN_MIN_SEQ_ID \in Nat
    BY <1>0, <1>1, SMTT(30) DEF TypeOK, MapType, SeqInv, Sent, SeqIds
  <1>3. \A c \in Conn : \A f \in out'[c] \cup wire'[c] :
            f \in out[c] \cup wire[c] \/ f = [seq |-> currentSeqId, req |-> hand]
    <2> DEFINE F == [seq |-> currentSeqId, req |-> hand]
    <2>1. cur \in Conn
      BY <1>0 DEF WriterOK
    <2>2. \/ out' = [out EXCEPT ![cur] = out[cur] \cup {F}] /\ wire' = wire
          \/ out' = [out EXCEPT ![cur] = {}] /\ wire' = wire
          \/ /\ out' = [out EXCEPT ![cur] = {}]
             /\ wire' = [wire EXCEPT ![cur] = wire[cur] \cup out[cur] \cup {F}]
      BY DEF WriteFrame
    <2> HIDE DEF F
    <2>3. \A c \in Conn : \A f \in out'[c] \cup wire'[c] : f \in out[c] \cup wire[c] \/ f = F
      <3>1. DOMAIN out = Conn /\ DOMAIN wire = Conn
        BY DEF TypeOK, NetType
      <3>2. \/ /\ \A c \in Conn : out'[c] = IF c = cur THEN out[cur] \cup {F} ELSE out[c]
               /\ wire' = wire
            \/ /\ \A c \in Conn : out'[c] = IF c = cur THEN {} ELSE out[c]
               /\ \/ wire' = wire
                  \/ \A c \in Conn : wire'[c] = IF c = cur THEN wire[cur] \cup out[cur] \cup {F}
                                               ELSE wire[c]
        BY <2>1, <2>2, <3>1
      <3>3. ASSUME NEW c \in Conn, NEW f \in out'[c] \cup wire'[c]
            PROVE  f \in out[c] \cup wire[c] \/ f = F
        <4>1. CASE c = cur
          BY <3>2, <3>3, <4>1, SMTT(30)
        <4>2. CASE c # cur
          BY <3>2, <3>3, <4>2
        <4> QED
          BY <4>1, <4>2
      <3> QED
        BY <3>3
    <2> QED
      BY <2>3 DEF F
  <1>4. ASSUME NEW c \in Conn, NEW f \in out'[c] \cup wire'[c]
        PROVE  /\ f.seq < BACKEND_CONN_MIN_SEQ_ID + sends'
               /\ seqNum2Request'[f.seq] \in {Nil, f.req}
               /\ wpc' = "register" /\ f.seq = currentSeqId' => f.req = hand'
    <2>1. CASE f \in out[c] \cup wire[c]
      <3>1. f.seq \in SeqId /\ f.seq < BACKEND_CONN_MIN_SEQ_ID + sends
            /\ seqNum2Request[f.seq] \in {Nil, f.req}
        BY <1>1, <1>2, <2>1, SMTT(30) DEF SeqInv, TypeOK, NetType, Frame
      <3>2. f.seq \in Int
        BY <3>1, SMTT(30) DEF SeqId
      <3> QED
        BY <1>0, <1>2, <3>1, <3>2, SMTT(60)
    <2>2. CASE f = [seq |-> currentSeqId, req |-> hand]
      <3>1. f.seq = currentSeqId /\ f.req = hand
        BY <2>2
      <3>2. currentSeqId \in SeqId /\ (seqNum2Request[currentSeqId] # Nil => currentSeqId < BACKEND_CONN_MIN_SEQ_ID + Sent)
        BY <1>1, <1>2, SMTT(60) DEF SeqInv, TypeOK, MapType
      <3>3. seqNum2Request[currentSeqId] = Nil
        BY <1>2, <3>2, SMTT(30)
      <3> QED
        BY <1>0, <1>2, <3>1, <3>3, SMTT(30)
    <2> QED
      BY <1>3, <2>1, <2>2
  <1>5. /\ \A s \in SeqId : seqNum2Request'[s] # Nil => s < BACKEND_CONN_MIN_SEQ_ID + Sent'
        /\ \A r \in Request : resp'[r] # "other"
    BY <1>0, <1>1, <1>2, SMTT(30) DEF SeqInv
  <1>6. currentSeqId' = BACKEND_CONN_MIN_SEQ_ID + Sent' /\ Sent' \in Nat
    BY <1>0, <1>2
  <1> QED
    BY <1>4, <1>5, <1>6 DEF SeqInv

\* The entry made is the one of the frame just written.
LEMMA RegisterSeq ==
    ASSUME TypeOK, WriterOK, SeqInv, Register
    PROVE  SeqInv'
  <1> USE ConstantsAssumption
  <1>0. /\ wpc = "register" /\ wpc' = "select"
        /\ seqNum2Request' = [seqNum2Request EXCEPT ![currentSeqId] = hand]
        /\ currentSeqId' = IF currentSeqId + 1 > BACKEND_CONN_MAX_SEQ_ID
                           THEN BACKEND_CONN_MIN_SEQ_ID ELSE currentSeqId + 1
        /\ UNCHANGED <<out, wire, resp, sends>>
    BY DEF Register, IncreaseCurrentSeqId, netVars, reqVars
  <1>1. SUFFICES ASSUME sends <= SeqIds PROVE SeqInv'
    BY <1>0 DEF SeqInv
  <1>2. /\ Sent = sends - 1 /\ Sent' = sends /\ Sent \in Nat /\ sends \in Nat
        /\ currentSeqId = BACKEND_CONN_MIN_SEQ_ID + sends - 1
        /\ SeqIds = BACKEND_CONN_MAX_SEQ_ID - BACKEND_CONN_MIN_SEQ_ID + 1
    <2>1. Sent = sends - 1 /\ Sent' = sends /\ sends \in Nat
      BY <1>0 DEF Sent, TypeOK, MapType
    <2> QED
      BY <1>0, <1>1, <2>1, SMTT(30) DEF SeqInv, SeqIds
  <1>3. sends < SeqIds => currentSeqId' = BACKEND_CONN_MIN_SEQ_ID + Sent'
    BY <1>0, <1>2, SMTT(30)
  <1>4. \A s \in SeqId : /\ s \in Int
                         /\ seqNum2Request'[s] = IF s = currentSeqId THEN hand
                                                 ELSE seqNum2Request[s]
    BY <1>0, SMTT(30) DEF TypeOK, MapType, SeqId
  <1>5. \A s \in SeqId : seqNum2Request'[s] # Nil => s < BACKEND_CONN_MIN_SEQ_ID + Sent'
    <2>1. \A s \in SeqId : seqNum2Request[s] # Nil => s < BACKEND_CONN_MIN_SEQ_ID + Sent
      BY <1>1 DEF SeqInv
    <2> QED
      BY <1>2, <1>4, <2>1, SMTT(30)
  <1>6. ASSUME NEW c \in Conn, NEW f \in out'[c] \cup wire'[c]
        PROVE  /\ f.seq < BACKEND_CONN_MIN_SEQ_ID + sends'
               /\ seqNum2Request'[f.seq] \in {Nil, f.req}
    <2>1. /\ f \in out[c] \cup wire[c] /\ f.seq \in SeqId
      BY <1>0, SMTT(30) DEF TypeOK, NetType, Frame
    <2> QED
      BY <1>0, <1>1, <1>4, <2>1 DEF SeqInv
  <1>7. \A r \in Request : resp'[r] # "other"
    BY <1>0, <1>1 DEF SeqInv
  <1> QED
    BY <1>0, <1>2, <1>3, <1>5, <1>6, <1>7 DEF SeqInv

\* A reply finds no entry or the entry of its own request.
LEMMA ReadReplySeq ==
    ASSUME TypeOK, SeqInv, NEW c \in Conn, ReadReply(c)
    PROVE  SeqInv'
  <1> USE ConstantsAssumption
  <1> USE DEF writerVars
  <1>1. PICK f \in wire[c] :
            /\ wire' = [wire EXCEPT ![c] = wire[c] \ {f}]
            /\ seqNum2Request' = [seqNum2Request EXCEPT ![f.seq] = Nil]
            /\ IF f.req = PING
               THEN UNCHANGED reqVars
               ELSE Complete({seqNum2Request[f.seq]} \cap Request,
                             IF seqNum2Request[f.seq] = f.req
                             THEN "own" ELSE "other")
    BY DEF ReadReply
  <1>2. f.seq \in SeqId
    BY SMTT(30) DEF TypeOK, NetType, Frame
  <1>3. sends <= SeqIds => \A r \in Request : resp'[r] # "other"
    <2>1. SUFFICES ASSUME sends <= SeqIds, NEW r \in Request PROVE resp'[r] # "other"
      OBVIOUS
    <2>2. resp[r] # "other" /\ seqNum2Request[f.seq] \in {Nil, f.req}
      BY <2>1 DEF SeqInv
    <2>3. CASE UNCHANGED reqVars
      BY <2>2, <2>3 DEF reqVars
    <2>4. CASE Complete({seqNum2Request[f.seq]} \cap Request,
                        IF seqNum2Request[f.seq] = f.req THEN "own" ELSE "other")
      BY <2>2, <2>4 DEF Complete
    <2> QED
      BY <1>1, <2>3, <2>4
  <1>4. \A s \in SeqId : seqNum2Request'[s] \in {Nil, seqNum2Request[s]}
    BY <1>1 DEF TypeOK, MapType
  <1>5. \A d \in Conn : out'[d] \subseteq out[d] /\ wire'[d] \subseteq wire[d]
    <2>1. out' = out
      BY DEF ReadReply
    <2> QED
      BY <1>1, <2>1 DEF TypeOK, NetType
  <1>6. UNCHANGED <<currentSeqId, sends, wpc, hand>>
    BY DEF ReadReply
  <1> QED
    BY <1>3, <1>4, <1>5, <1>6, SeqQuiet

\* Requests that are failed get an error, not an answer.
LEMMA FailedResponse ==
    ASSUME SeqInv, NEW S, Complete(S, "err")
    PROVE  sends <= SeqIds => \A r \in Request : resp'[r] # "other"
  BY DEF Complete, SeqInv

\* Every step preserves the invariant of the sequence ids.
LEMMA NextSeqInv == OwnerInv /\ SeqInv /\ [Next]_vars => SeqInv'
  <1> SUFFICES ASSUME OwnerInv, SeqInv, [Next]_vars PROVE SeqInv'
    OBVIOUS
  <1> USE ConstantsAssumption
  <1> USE DEF chanVars, mapVars, flagVars, writerVars, netVars, hbVars, reqVars
  <1>0. TypeOK /\ WriterOK
    BY DEF OwnerInv
  <1>a. sends <= SeqIds => \A r \in Request : resp[r] # "other"
    BY DEF SeqInv
  <1>b. ASSUME UNCHANGED <<seqNum2Request, currentSeqId, sends, out, wire, hand>>,
               wpc' = "register" <=> wpc = "register",
               sends <= SeqIds => \A r \in Request : resp'[r] # "other"
        PROVE  SeqInv'
    BY <1>0, <1>b, SeqQuiet
  <1>c. ASSUME UNCHANGED <<seqNum2Request, currentSeqId, sends, out, wire, hand, resp>>,
               wpc' = "register" <=> wpc = "register"
        PROVE  SeqInv'
    <2>1. sends <= SeqIds => \A r \in Request : resp'[r] # "other"
      BY <1>a, <1>c
    <2> QED
      BY <1>b, <1>c, <2>1
  <1>1. ASSUME NEW r \in Request, Session(r) PROVE SeqInv'
    <2>1. CASE Pick(r)
      <3>1. \A q \in Request : resp'[q] = "other" => resp[q] = "other"
        BY <1>0, <2>1 DEF Pick, TypeOK, ReqType
      <3> QED
        BY <1>a, <1>b, <2>1, <3>1 DEF Pick
    <2>2. CASE PushBack(r) \/ PushBackPanics(r)
      BY <1>c, <2>2 DEF PushBack, PushBackPanics
    <2> QED
      BY <1>1, <2>1, <2>2 DEF Session
  <1>2. ASSUME NEW t \in Thread, Marking(t) PROVE SeqInv'
    BY <1>c, <1>2 DEF Marking, SetInactive, StateChanged
  <1>3. ASSUME NEW o \in Offliner, Offlining(o) PROVE SeqInv'
    BY <1>c, <1>3 DEF Offlining, OfflineCheck, OfflineSet, OfflineMark, OfflineClose
  <1>4. CASE Writing
    <2>1. CASE \E c \in Conn : EnsureConn(c)
      <3>1. \A c \in Conn : out'[c] \subseteq out[c] /\ wire'[c] \subseteq wire[c]
        BY <1>0, <2>1, SMTT(60) DEF EnsureConn, TypeOK, NetType
      <3>2. /\ UNCHANGED <<seqNum2Request, currentSeqId, sends, hand, resp>>
            /\ wpc = "connect" /\ wpc' = "activate"
        BY <2>1 DEF EnsureConn
      <3>3. \A s \in SeqId : seqNum2Request'[s] \in {Nil, seqNum2Request[s]}
        BY <3>2
      <3>4. sends <= SeqIds => \A r \in Request : resp'[r] # "other"
        BY <1>a, <3>2
      <3> QED
        BY <1>0, <3>1, <3>2, <3>3, <3>4, SeqQuiet
    <2>2. CASE WriterMark
      <3>1. \A c \in Conn : out'[c] \subseteq out[c] /\ wire'[c] \subseteq wire[c]
        BY <1>0, <2>2 DEF WriterMark, TypeOK, NetType
      <3>2. /\ UNCHANGED <<seqNum2Request, currentSeqId, sends, hand, resp>>
            /\ wpc = "mark" /\ wpc' = "after"
        BY <2>2 DEF WriterMark
      <3>3. \A s \in SeqId : seqNum2Request'[s] \in {Nil, seqNum2Request[s]}
        BY <3>2
      <3>4. sends <= SeqIds => \A r \in Request : resp'[r] # "other"
        BY <1>a, <3>2
      <3> QED
        BY <1>0, <3>1, <3>2, <3>3, <3>4, SeqQuiet
    <2>3. CASE RunLoop \/ EnsureConnFails \/ MarkConnActiveOK \/ StartLoops
               \/ InputEnds \/ HbTimesOut \/ StopHeartbeat \/ AfterLoop \/ Drained
      BY <1>c, <2>3 DEF RunLoop, EnsureConnFails, MarkConnActiveOK, StartLoops,
         InputEnds, HbTimesOut, StopHeartbeat, AfterLoop, Drained
    <2>4. CASE TakeInput \/ DropStalePing \/ WriteFails
      <3>1. /\ UNCHANGED <<seqNum2Request, currentSeqId, sends, out, wire>>
            /\ wpc # "register" /\ wpc' # "register"
        BY <2>4 DEF TakeInput, DropStalePing, WriteFails
      <3>2. sends <= SeqIds => \A r \in Request : resp'[r] # "other"
        BY <1>a, <2>4, FailedResponse DEF TakeInput, DropStalePing, WriteFails
      <3>3. \A s \in SeqId : seqNum2Request'[s] \in {Nil, seqNum2Request[s]}
        BY <3>1
      <3> QED
        BY <1>0, <3>1, <3>2, <3>3, SeqQuiet
    <2>5. CASE DrainOne
      BY <1>b, <2>5, FailedResponse DEF DrainOne
    <2> QED
      BY <1>0, <1>4, <2>1, <2>2, <2>3, <2>4, <2>5, WriteFrameSeq, RegisterSeq
         DEF Writing
  <1>5. ASSUME NEW c \in Conn, Reading(c) \/ Break(c) PROVE SeqInv'
    <2>1. CASE ReadReply(c)
      BY <1>0, <2>1, ReadReplySeq
    <2>2. CASE ReadFails(c) \/ Break(c)
      BY <1>c, <2>2 DEF ReadFails, Break
    <2>3. CASE SwapMap(c)
      <3>1. \A s \in SeqId : seqNum2Request'[s] \in {Nil, seqNum2Request[s]}
        BY <2>3 DEF SwapMap, NoEntries
      <3>2. UNCHANGED <<currentSeqId, sends, out, wire, wpc, hand, resp>>
        BY <2>3 DEF SwapMap
      <3>3. sends <= SeqIds => \A r \in Request : resp'[r] # "other"
        BY <1>a, <3>2
      <3> QED
        BY <1>0, <3>1, <3>2, <3>3, SeqQuiet
    <2>4. CASE FlushBatch(c)
      <3>1. \A d \in Conn : out'[d] \subseteq out[d] /\ wire'[d] \subseteq wire[d]
        BY <1>0, <2>4 DEF FlushBatch, TypeOK, NetType
      <3>2. UNCHANGED <<seqNum2Request, currentSeqId, sends, wpc, hand>>
        BY <2>4 DEF FlushBatch
      <3>3. \A s \in SeqId : seqNum2Request'[s] \in {Nil, seqNum2Request[s]}
        BY <3>2
      <3>4. sends <= SeqIds => \A r \in Request : resp'[r] # "other"
        BY <2>4, FailedResponse DEF FlushBatch
      <3> QED
        BY <1>0, <3>1, <3>2, <3>3, <3>4, SeqQuiet
    <2> QED
      BY <1>5, <2>1, <2>2, <2>3, <2>4 DEF Reading
  <1>6. CASE Heartbeat \/ Elapse \/ UNCHANGED vars
    BY <1>c, <1>6 DEF Heartbeat, HbTick, HbPush, HbPushPanics, Elapse, vars
  <1> QED
    BY <1>1, <1>2, <1>3, <1>4, <1>5, <1>6 DEF Next

\* It holds when the connection is created.
LEMMA InitSeqInv == Init => SeqInv
  BY ConstantsAssumption, SMTT(30) DEF Init, SeqInv, Sent, NoEntries

\* A client gets the answer of its own request until the ids wrap around.
THEOREM AnswerCorrect == Spec => []AnswerMatches
  <1>1. SeqInv => AnswerMatches
    BY DEF SeqInv, AnswerMatches
  <1> QED
    BY <1>1, OwnerInvariant, InitSeqInv, NextSeqInv, PTL DEF Spec

-----------------------------------------------------------------------------
(* Responses.                                                              *)

\* A step completes requests that their sessions wait for, with one outcome.
Completion ==
    \E S \in SUBSET Request, how \in {"err", "own", "other"} :
        /\ Complete(S, how)
        /\ \A r \in S : wait[r] = 1

\* What a step does with Wait and Response: a session gets its connection or
\* pushes its request, or requests that are waited for are completed.
LEMMA RequestStep ==
    ASSUME OwnerInv, [Next]_vars
    PROVE  \/ UNCHANGED reqVars
           \/ \E r \in Request : Pick(r) \/ PushBack(r)
           \/ Completion
  <1> DEFINE Same == UNCHANGED reqVars
  <1> USE ConstantsAssumption
  <1> USE DEF chanVars, mapVars, flagVars, writerVars, netVars, hbVars
  <1>0. TypeOK /\ WriterOK /\ OneOwner
    BY DEF OwnerInv
  <1>1. ASSUME NEW r \in Request, Session(r) PROVE Same \/ Pick(r) \/ PushBack(r)
    BY <1>1 DEF Session, PushBackPanics
  <1>2. ASSUME NEW t \in Thread, Marking(t) PROVE Same
    BY <1>2 DEF Marking, SetInactive, StateChanged
  <1>3. ASSUME NEW o \in Offliner, Offlining(o) PROVE Same
    BY <1>3 DEF Offlining, OfflineCheck, OfflineSet, OfflineMark, OfflineClose
  <1>4. ASSUME Writing PROVE Same \/ Completion
    <2>1. CASE WriteFails
      <3>1. \A r \in {hand} \cap Request : wait[r] = 1
        BY <1>0 DEF OneOwner
      <3>2. Complete({hand} \cap Request, "err") /\ {hand} \cap Request \in SUBSET Request
        BY <2>1 DEF WriteFails
      <3> QED
        BY <3>1, <3>2 DEF Completion
    <2>2. CASE DrainOne
      <3>1. input # <<>> /\ Complete({Head(input)} \cap Request, "err")
        BY <2>2 DEF DrainOne
      <3>2. {Head(input)} \cap Request \subseteq Queued
        BY <1>0, <3>1 DEF TypeOK, ChanType, Queued
      <3>3. \A r \in {Head(input)} \cap Request : wait[r] = 1
        BY <1>0, <3>2 DEF OneOwner
      <3>4. {Head(input)} \cap Request \in SUBSET Request
        OBVIOUS
      <3> QED
        BY <3>1, <3>3, <3>4 DEF Completion
    <2>3. CASE ~(WriteFails \/ DrainOne)
      BY <1>4, <2>3 DEF Writing, RunLoop, EnsureConn, EnsureConnFails,
         MarkConnActiveOK, StartLoops, TakeInput, InputEnds, HbTimesOut,
         DropStalePing, WriteFrame, Register, StopHeartbeat, WriterMark,
         AfterLoop, Drained
    <2> QED
      BY <2>1, <2>2, <2>3
  <1>5. ASSUME NEW c \in Conn, Reading(c) \/ Break(c) PROVE Same \/ Completion
    <2>1. CASE ReadReply(c)
      <3>1. PICK f \in wire[c] :
                IF f.req = PING
                THEN UNCHANGED reqVars
                ELSE Complete({seqNum2Request[f.seq]} \cap Request,
                              IF seqNum2Request[f.seq] = f.req
                              THEN "own" ELSE "other")
        BY <2>1 DEF ReadReply
      <3>2. f.seq \in SeqId
        BY <1>0, SMTT(30) DEF TypeOK, NetType, Frame
      <3> DEFINE S == {seqNum2Request[f.seq]} \cap Request
                 how == IF seqNum2Request[f.seq] = f.req THEN "own" ELSE "other"
      <3>3. S \subseteq Registered /\ S \in SUBSET Request
        BY <3>2 DEF Registered
      <3>4. \A r \in S : wait[r] = 1
        BY <1>0, <3>3 DEF OneOwner
      <3>5. how \in {"err", "own", "other"} /\ (UNCHANGED reqVars \/ Complete(S, how))
        BY <3>1
      <3> QED
        BY <3>3, <3>4, <3>5 DEF Completion
    <2>2. CASE FlushBatch(c)
      <3>1. batch[c] \in SUBSET Request /\ \A r \in batch[c] : wait[r] = 1
        BY <1>0 DEF OneOwner, TypeOK, NetType
      <3>2. Complete(batch[c], "err")
        BY <2>2 DEF FlushBatch
      <3> QED
        BY <3>1, <3>2 DEF Completion
    <2>3. CASE ReadFails(c) \/ SwapMap(c) \/ Break(c)
      BY <2>3 DEF ReadFails, SwapMap, Break
    <2> QED
      BY <1>5, <2>1, <2>2, <2>3 DEF Reading
  <1>6. CASE Heartbeat \/ Elapse \/ UNCHANGED vars
    BY <1>6 DEF Heartbeat, HbTick, HbPush, HbPushPanics, Elapse, vars
  <1> QED
    BY <1>1, <1>2, <1>3, <1>4, <1>5, <1>6 DEF Next

\* A step writes only the response of a request that is not picked yet or that
\* is waited for.
LEMMA ResponseStep ==
    ASSUME OwnerInv, [Next]_vars
    PROVE  \A r \in Request :
               stage[r] = "handled" /\ wait[r] = 0 => resp'[r] = resp[r]
  <1>1. CASE UNCHANGED reqVars
    BY <1>1 DEF reqVars
  <1>2. ASSUME NEW q \in Request, Pick(q) \/ PushBack(q)
        PROVE  \A r \in Request :
                   stage[r] = "handled" /\ wait[r] = 0 => resp'[r] = resp[r]
    BY <1>2 DEF Pick, PushBack, OwnerInv, TypeOK, ReqType
  <1>3. CASE Completion
    <2>1. PICK S \in SUBSET Request, how \in {"err", "own", "other"} :
              Complete(S, how) /\ \A r \in S : wait[r] = 1
      BY <1>3 DEF Completion
    <2> QED
      BY <2>1, SMTT(30) DEF Complete
  <1> QED
    BY RequestStep, <1>1, <1>2, <1>3

\* Nobody writes the response of a request whose session was woken.
THEOREM ResponseCorrect == Spec => ResponseStable
  <1>1. OwnerInv /\ [Next]_vars
            => [\A r \in Request :
                  stage[r] = "handled" /\ wait[r] = 0 => resp'[r] = resp[r]]_vars
    BY ResponseStep
  <1> QED
    BY <1>1, OwnerInvariant, PTL DEF Spec, ResponseStable

-----------------------------------------------------------------------------
(* The requests as the sessions see them.                                  *)

\* No request was dispatched when the connection is created.
LEMMA InitCalls == Init => Call!CallInit
  BY DEF Init, Seen, SeenCalls, Call!CallInit

\* Picking a connection and pushing the request are the Dispatch of a session.
LEMMA DispatchCalls ==
    ASSUME OwnerInv, NEW r \in Request, Pick(r) \/ PushBack(r)
    PROVE  [Call!CallNext]_SeenCalls
  <1>0. /\ stage \in [Request -> {"new", "picked", "handled"}]
        /\ wait \in [Request -> Int]
        /\ resp \in [Request -> {"none", "noworker", "err", "own", "other"}]
        /\ \A q \in Request : stage[q] # "handled" => wait[q] = 0
    BY DEF OwnerInv, TypeOK, ReqType, NotYetHandled
  <1>1. /\ \A q \in Request \ {r} : Seen(q)' = Seen(q)
        /\ stage[r] # "handled" /\ Seen(r) = "none"
        /\ Seen(r)' \in {"none", "pending", "exception"}
    <2>1. CASE Pick(r)
      BY <1>0, <2>1 DEF Pick, Seen
    <2>2. CASE PushBack(r)
      BY <1>0, <2>2, SMTT(30) DEF PushBack, Seen
    <2> QED
      BY <2>1, <2>2
  <1>2. SeenCalls' = [SeenCalls EXCEPT ![r] = Seen(r)']
    BY <1>1 DEF SeenCalls
  <1>3. SeenCalls[r] = "none"
    BY <1>1 DEF SeenCalls
  <1>4. CASE Seen(r)' = "none"
    <2>1. SeenCalls' = SeenCalls
      BY <1>1, <1>4 DEF SeenCalls
    <2> QED
      BY <2>1
  <1>5. CASE Seen(r)' \in {"pending", "exception"}
    <2>1. Call!Dispatch(r)
      BY <1>2, <1>3, <1>5 DEF Call!Dispatch
    <2> QED
      BY <2>1 DEF Call!CallNext
  <1> QED
    BY <1>1, <1>4, <1>5

\* Completing requests that are waited for wakes their sessions.
LEMMA CompletionCalls ==
    ASSUME OwnerInv, Completion
    PROVE  Call!CallNext
  <1>1. PICK S \in SUBSET Request, how \in {"err", "own", "other"} :
            Complete(S, how) /\ \A r \in S : wait[r] = 1
    BY DEF Completion
  <1>2. \A r \in S : stage[r] = "handled"
    BY <1>1, SMTT(30) DEF OwnerInv, NotYetHandled
  <1>3. \A r \in S : Seen(r) = "pending" /\ Seen(r)' = how
    BY <1>1, <1>2, SMTT(30) DEF Seen, Complete
  <1>4. \A r \in Request \ S : Seen(r)' = Seen(r)
    BY <1>1 DEF Seen, Complete
  <1>5. Call!Answer(S, how)
    BY <1>3, <1>4 DEF SeenCalls, Call!Answer
  <1> QED
    BY <1>5 DEF Call!CallNext

\* Property ImplementsCalls: a session whose request has a connection is woken
\* once, with an outcome that stays.
THEOREM ConnImplementsCalls == Spec => ImplementsCalls
  <1>1. OwnerInv /\ [Next]_vars => [Call!CallNext]_SeenCalls
    <2> SUFFICES ASSUME OwnerInv, [Next]_vars
                 PROVE  [Call!CallNext]_SeenCalls
      OBVIOUS
    <2>1. CASE UNCHANGED reqVars
      BY <2>1 DEF reqVars, Seen, SeenCalls
    <2> QED
      BY <2>1, RequestStep, DispatchCalls, CompletionCalls
  <1> QED
    BY <1>1, OwnerInvariant, InitCalls, PTL DEF Spec, ImplementsCalls, Call!CallSpec

-----------------------------------------------------------------------------
(* The connection is one of those that ActivePool is about.                *)

\* A new connection is a connection of the pool that just started.
LEMMA InitPool == Init => Pool!PoolInit
  <1> SUFFICES ASSUME Init PROVE Pool!PoolInit
    OBVIOUS
  <1>1. PoolLife = "run"
    BY DEF Init, PoolLife
  <1> QED
    BY <1>1, ConstantsAssumption DEF Init, Pool!PoolInit, Pool!Caller,
       Pool!INVALID_ARRAY_INDEX, Thread

\* Steps that the pool does not see.
LEMMA PoolStutter ==
    ASSUME UNCHANGED <<IsMarkOffline, IsConnActive, listed, marking, inputClosed, opc>>,
           PoolLife' = PoolLife,
           panic' = "close" <=> panic = "close"
    PROVE  UNCHANGED Pool!poolVars
  BY DEF Pool!poolVars, Pool!listVars, Pool!connVars, Pool!offVars

\* The place of the writer as the pool sees it.
LEMMA PoolLifeValue ==
    /\ wpc \in {"after", "drain", "run"} => PoolLife = "run"
    /\ wpc \in {"connect", "activate"} => PoolLife = "connect"
    /\ wpc \in {"start", "select", "write", "register", "stop", "mark"}
            => PoolLife = "up"
    /\ wpc = "done" => PoolLife = "end"
  BY DEF PoolLife

\* The same in the next state.
LEMMA PoolLifeNext ==
    /\ wpc' \in {"after", "drain", "run"} => PoolLife' = "run"
    /\ wpc' \in {"connect", "activate"} => PoolLife' = "connect"
    /\ wpc' \in {"start", "select", "write", "register", "stop", "mark"}
            => PoolLife' = "up"
    /\ wpc' = "done" => PoolLife' = "end"
  BY DEF PoolLife

\* Steps of sessions, heartbeat and environment.
LEMMA OutsidePoolStep ==
    ASSUME TypeOK,
           \/ \E r \in Request : Session(r)
           \/ \E c \in Conn : Break(c)
           \/ Heartbeat \/ Elapse \/ UNCHANGED vars
    PROVE  UNCHANGED Pool!poolVars
  <1> USE DEF chanVars, mapVars, flagVars, writerVars, netVars, hbVars, reqVars
  <1> DEFINE Unseen == /\ UNCHANGED <<IsMarkOffline, IsConnActive, listed, marking,
                                      inputClosed, opc, wpc>>
                       /\ panic' = panic \/ (panic = "no" /\ panic' = "send")
  <1>1. ASSUME NEW r \in Request, Session(r) PROVE Unseen
    BY <1>1 DEF Session, Pick, PushBack, PushBackPanics, SendInput
  <1>2. ASSUME NEW c \in Conn, Break(c) PROVE Unseen
    BY <1>2 DEF Break
  <1>3. ASSUME Heartbeat PROVE Unseen
    BY <1>3 DEF Heartbeat, HbTick, HbPush, HbPushPanics, SendInput
  <1>4. ASSUME Elapse \/ UNCHANGED vars PROVE Unseen
    BY <1>4 DEF Elapse, vars
  <1> HIDE DEF Unseen
  <1>5. Unseen
    BY <1>1, <1>2, <1>3, <1>4
  <1>6. PoolLife' = PoolLife /\ (panic' = "close" <=> panic = "close")
    BY <1>5 DEF PoolLife, Unseen
  <1> QED
    BY <1>5, <1>6, PoolStutter DEF Unseen

\* The readers: the pool sees that one marks the connection inactive.
LEMMA ReaderPoolStep ==
    ASSUME TypeOK, MarkInv, NEW c \in Conn, Reading(c)
    PROVE  [Pool!PoolNext]_(Pool!poolVars)
  <1> USE ConstantsAssumption
  <1> USE DEF chanVars, mapVars, flagVars, writerVars, netVars, hbVars, reqVars
  <1>1. UNCHANGED <<wpc, IsMarkOffline, IsConnActive, listed, inputClosed, opc, panic>>
        /\ PoolLife' = PoolLife
    BY DEF Reading, ReadReply, ReadFails, SwapMap, FlushBatch, MarkConnActiveFalse,
           PoolLife
  <1>2. CASE marking' = marking
    BY <1>1, <1>2, PoolStutter
  <1>3. CASE marking' # marking
    <2>1. /\ ReadFails(c) /\ panic = "no" /\ rpc[c] = "read"
          /\ marking' = [marking EXCEPT ![c] = IF IsConnActive THEN "set" ELSE "idle"]
      BY <1>3 DEF Reading, ReadReply, ReadFails, SwapMap, FlushBatch,
                  MarkConnActiveFalse
    <2>2. marking[c] = "idle"
      BY <2>1 DEF MarkInv, MarkingOK
    <2>3. IsConnActive
      BY <1>3, <2>1, <2>2 DEF TypeOK, FlagType, Thread
    <2>4. Pool!ReaderDown(Writer, c)
      BY <1>1, <2>1, <2>2, <2>3
         DEF Pool!ReaderDown, Pool!MarkConnActiveFalse, Pool!listVars, Pool!offVars
    <2>5. c \in ({Writer} \cup Conn) \ {Writer}
      OBVIOUS
    <2> QED
      BY <2>4, <2>5 DEF Pool!PoolNext, Pool!ConnLife
  <1> QED
    BY <1>2, <1>3

\* MarkConnActiveFalse, StateChanged and MarkOffline.
LEMMA FlagPoolStep ==
    ASSUME TypeOK, MarkInv,
           \/ \E t \in Thread : Marking(t)
           \/ \E o \in Offliner : Offlining(o)
    PROVE  Pool!PoolNext
  <1> USE ConstantsAssumption
  <1> USE DEF chanVars, mapVars, flagVars, writerVars, netVars, hbVars, reqVars
  <1> USE DEF Pool!listVars, Pool!connVars, Pool!offVars
  <1>1. ASSUME NEW t \in Thread, SetInactive(t) PROVE Pool!PoolNext
    <2>1. PoolLife' = PoolLife
      BY <1>1 DEF SetInactive, PoolLife
    <2>2. Pool!SetInactive(Writer, t)
      BY <1>1, <2>1 DEF SetInactive, Pool!SetInactive
    <2> QED
      BY <2>2 DEF Pool!PoolNext, Pool!Marking, Pool!Caller, Thread
  <1>2. ASSUME NEW t \in Thread, StateChanged(t) PROVE Pool!PoolNext
    <2>1. PoolLife' = PoolLife
      BY <1>2 DEF StateChanged, PoolLife
    <2>2. CASE IsConnActive
      <3>1. Pool!AddConn(Writer)
        BY <1>2, <2>2, SMTT(60)
           DEF StateChanged, Pool!AddConn, Pool!INVALID_ARRAY_INDEX, TypeOK, FlagType
      <3>2. Pool!StateChanged(Writer, t)
        BY <1>2, <2>1, <2>2, <3>1 DEF StateChanged, Pool!StateChanged
      <3> QED
        BY <3>2 DEF Pool!PoolNext, Pool!Marking, Pool!Caller, Thread
    <2>3. CASE ~IsConnActive
      <3>1. Pool!RemoveConn(Writer)
        BY <1>2, <2>3, SMTT(60)
           DEF StateChanged, Pool!RemoveConn, Pool!INVALID_ARRAY_INDEX, TypeOK, FlagType
      <3>2. Pool!StateChanged(Writer, t)
        BY <1>2, <2>1, <2>3, <3>1 DEF StateChanged, Pool!StateChanged
      <3> QED
        BY <3>2 DEF Pool!PoolNext, Pool!Marking, Pool!Caller, Thread
    <2> QED
      BY <2>2, <2>3
  <1> DEFINE Place(p) == [q \in Offliner |-> IF p[q] = "done" THEN "idle" ELSE p[q]]
             Target(p) == [q \in Offliner |->
                             IF p[q] \in {"set", "mark", "close"} THEN Writer ELSE Nil]
  <1>a. ASSUME NEW o \in Offliner, NEW m \in {"set", "mark", "close", "done"},
               opc' = [opc EXCEPT ![o] = m]
        PROVE  /\ Place(opc') = [Place(opc) EXCEPT ![o] = IF m = "done" THEN "idle" ELSE m]
               /\ Target(opc') = [Target(opc) EXCEPT ![o] = IF m = "done" THEN Nil ELSE Writer]
    BY <1>a DEF TypeOK
  <1>b. ASSUME NEW o \in Offliner, NEW m \in {"set", "mark", "close"}, opc[o] = m
        PROVE  Place(opc)[o] = m /\ Target(opc)[o] = Writer
    BY <1>b
  <1>c. \A o \in Offliner : /\ [Target(opc) EXCEPT ![o] = Target(opc)[o]] = Target(opc)
                            /\ [Place(opc) EXCEPT ![o] = Place(opc)[o]] = Place(opc)
    OBVIOUS
  <1>3. ASSUME NEW o \in Offliner, OfflineCheck(o) PROVE Pool!PoolNext
    <2>1. PoolLife' = PoolLife /\ PoolLife # "none"
      BY <1>3 DEF OfflineCheck, PoolLife, TypeOK, WriterType
    <2>2. /\ panic = "no" /\ opc[o] = "idle"
          /\ UNCHANGED <<IsMarkOffline, IsConnActive, listed, marking, inputClosed, panic>>
          /\ opc' = [opc EXCEPT ![o] = IF IsMarkOffline THEN "done" ELSE "set"]
      BY <1>3 DEF OfflineCheck
    <2>3. Place(opc)[o] = "idle" /\ Target(opc)[o] = Nil
      BY <2>2
    <2>4. CASE IsMarkOffline
      <3>1. Place(opc') = Place(opc) /\ Target(opc') = Target(opc)
        <4>1. /\ opc' = [opc EXCEPT ![o] = "done"]
              /\ opc \in [Offliner -> {"idle", "set", "mark", "close", "done"}]
          BY <2>2, <2>4 DEF TypeOK
        <4> QED
          BY <2>2, <4>1
      <3>2. Pool!OfflineCheck(o, Writer)
        BY <2>1, <2>2, <2>3, <2>4, <3>1 DEF Pool!OfflineCheck
      <3> QED
        BY <3>2 DEF Pool!PoolNext
    <2>5. CASE ~IsMarkOffline
      <3>1. /\ Place(opc') = [Place(opc) EXCEPT ![o] = "set"]
            /\ Target(opc') = [Target(opc) EXCEPT ![o] = Writer]
        BY <1>a, <2>2, <2>5
      <3>2. Pool!OfflineCheck(o, Writer)
        BY <2>1, <2>2, <2>3, <2>5, <3>1 DEF Pool!OfflineCheck
      <3> QED
        BY <3>2 DEF Pool!PoolNext
    <2> QED
      BY <2>4, <2>5
  <1>4. ASSUME NEW o \in Offliner, OfflineSet(o) PROVE Pool!PoolNext
    <2>1. PoolLife' = PoolLife
      BY <1>4 DEF OfflineSet, PoolLife
    <2>2. /\ Place(opc') = [Place(opc) EXCEPT ![o] = "mark"] /\ Target(opc') = Target(opc)
          /\ Place(opc)[o] = "set" /\ Target(opc)[o] = Writer
      BY <1>4, <1>a, <1>b, <1>c DEF OfflineSet
    <2>3. Pool!OfflineSet(o)
      BY <1>4, <2>1, <2>2 DEF OfflineSet, Pool!OfflineSet
    <2> QED
      BY <2>3 DEF Pool!PoolNext, Pool!Offlining
  <1>5. ASSUME NEW o \in Offliner, OfflineMark(o) PROVE Pool!PoolNext
    <2>1. PoolLife' = PoolLife
      BY <1>5 DEF OfflineMark, MarkConnActiveFalse, PoolLife
    <2>2. /\ Place(opc') = [Place(opc) EXCEPT ![o] = "close"] /\ Target(opc') = Target(opc)
          /\ Place(opc)[o] = "mark" /\ Target(opc)[o] = Writer
      BY <1>5, <1>a, <1>b, <1>c DEF OfflineMark
    <2>3. Pool!OfflineMark(o)
      BY <1>5, <2>1, <2>2 DEF OfflineMark, MarkConnActiveFalse, Pool!OfflineMark,
                              Pool!MarkConnActiveFalse
    <2> QED
      BY <2>3 DEF Pool!PoolNext, Pool!Offlining
  <1>6. ASSUME NEW o \in Offliner, OfflineClose(o) PROVE Pool!PoolNext
    <2>1. PoolLife' = PoolLife
      BY <1>6 DEF OfflineClose, PoolLife
    <2>2. /\ Place(opc') = [Place(opc) EXCEPT ![o] = "idle"]
          /\ Target(opc') = [Target(opc) EXCEPT ![o] = Nil]
          /\ Place(opc)[o] = "close" /\ Target(opc)[o] = Writer
      BY <1>6, <1>a, <1>b DEF OfflineClose
    <2>3. Pool!OfflineClose(o)
      BY <1>6, <2>1, <2>2 DEF OfflineClose, Pool!OfflineClose
    <2> QED
      BY <2>3 DEF Pool!PoolNext, Pool!Offlining
  <1> QED
    BY <1>1, <1>2, <1>3, <1>4, <1>5, <1>6 DEF Marking, Offlining

\* The writer.
LEMMA WriterPoolStep ==
    ASSUME TypeOK, WriterOK, MarkInv, Writing
    PROVE  [Pool!PoolNext]_(Pool!poolVars)
  <1> USE ConstantsAssumption
  <1> USE DEF chanVars, mapVars, flagVars, writerVars, netVars, hbVars, reqVars
  <1> USE DEF Pool!listVars, Pool!connVars, Pool!offVars
  <1>1. CASE RunLoop
    <2>1. /\ PoolLife = "run" /\ marking[Writer] = "idle"
          /\ PoolLife' = IF IsMarkOffline THEN "end" ELSE "connect"
      BY <1>1, PoolLifeValue, PoolLifeNext DEF RunLoop, MarkInv, MarkingOK
    <2>2. Pool!RunLoop(Writer)
      BY <1>1, <2>1 DEF RunLoop, Pool!RunLoop
    <2> QED
      BY <2>2 DEF Pool!PoolNext, Pool!ConnLife
  <1>2. CASE EnsureConnFails
    <2>1. PoolLife = "connect" /\ PoolLife' = "end"
      BY <1>2, PoolLifeValue, PoolLifeNext DEF EnsureConnFails
    <2>2. Pool!ConnFails(Writer)
      BY <1>2, <2>1 DEF EnsureConnFails, Pool!ConnFails
    <2> QED
      BY <2>2 DEF Pool!PoolNext, Pool!ConnLife
  <1>3. CASE MarkConnActiveOK
    <2>1. PoolLife = "connect" /\ PoolLife' = "up"
      BY <1>3, PoolLifeValue, PoolLifeNext DEF MarkConnActiveOK
    <2>2. Pool!ConnUp(Writer)
      BY <1>3, <2>1 DEF MarkConnActiveOK, Pool!ConnUp
    <2> QED
      BY <2>2 DEF Pool!PoolNext, Pool!ConnLife
  <1>4. CASE WriterMark
    <2>1. PoolLife = "up" /\ PoolLife' = "run" /\ marking[Writer] = "idle"
      BY <1>4, PoolLifeValue, PoolLifeNext DEF WriterMark, MarkInv, MarkingOK
    <2>2. Pool!ConnDown(Writer)
      BY <1>4, <2>1 DEF WriterMark, MarkConnActiveFalse, Pool!ConnDown,
                        Pool!MarkConnActiveFalse
    <2> QED
      BY <2>2 DEF Pool!PoolNext, Pool!ConnLife
  <1>5. CASE AfterLoop /\ ~werr
    <2>1. /\ PoolLife = "run" /\ PoolLife' = "end" /\ marking[Writer] = "idle"
          /\ IsMarkOffline
      BY <1>5, PoolLifeValue, PoolLifeNext DEF AfterLoop, MarkInv, ClosedIsOffline
    <2>2. Pool!RunLoop(Writer)
      BY <1>5, <2>1 DEF AfterLoop, Pool!RunLoop
    <2> QED
      BY <2>2 DEF Pool!PoolNext, Pool!ConnLife
  <1>6. CASE (\E c \in Conn : EnsureConn(c)) \/ StartLoops \/ TakeInput \/ InputEnds
             \/ HbTimesOut \/ DropStalePing \/ WriteFrame \/ WriteFails \/ Register
             \/ StopHeartbeat \/ (AfterLoop /\ werr) \/ DrainOne \/ Drained
    <2>1. UNCHANGED <<IsMarkOffline, IsConnActive, listed, marking, inputClosed, opc,
                      panic>>
      BY <1>6 DEF EnsureConn, StartLoops, TakeInput, InputEnds, HbTimesOut,
         DropStalePing, WriteFrame, WriteFails, Register, StopHeartbeat, AfterLoop,
         DrainOne, Drained
    <2> DEFINE U == {"start", "select", "write", "register", "stop", "mark"}
    <2>2. \/ wpc \in U /\ wpc' \in U
          \/ wpc = "connect" /\ wpc' = "activate"
          \/ wpc \in {"after", "drain"} /\ wpc' \in {"drain", "run"}
      <3>1. CASE \E c \in Conn : EnsureConn(c)
        BY <3>1 DEF EnsureConn
      <3>2. CASE StartLoops \/ TakeInput \/ InputEnds \/ HbTimesOut \/ DropStalePing
        BY <3>2 DEF StartLoops, TakeInput, InputEnds, HbTimesOut, DropStalePing
      <3>3. CASE WriteFrame \/ WriteFails \/ Register \/ StopHeartbeat
        BY <3>3 DEF WriteFrame, WriteFails, Register, StopHeartbeat
      <3>4. CASE (AfterLoop /\ werr) \/ DrainOne \/ Drained
        BY <3>4 DEF AfterLoop, DrainOne, Drained
      <3> QED
        BY <1>6, <3>1, <3>2, <3>3, <3>4
    <2>3. PoolLife' = PoolLife
      BY <2>2, PoolLifeValue, PoolLifeNext, SMTT(30)
    <2> QED
      BY <2>1, <2>3, PoolStutter
  <1> QED
    BY <1>1, <1>2, <1>3, <1>4, <1>5, <1>6 DEF Writing

\* Every step of the connection is a step of the pool or is not seen by it.
LEMMA NextPool == TypeOK /\ WriterOK /\ MarkInv /\ [Next]_vars
                      => [Pool!PoolNext]_(Pool!poolVars)
  BY OutsidePoolStep, FlagPoolStep, ReaderPoolStep, WriterPoolStep DEF Next

\* For any requests, sockets and offliners, the connection is a connection of
\* the pool: what is proved of ActivePool for any number of connections rests
\* on this.
THEOREM ConnImplementsPool == Spec => ImplementsPool
  <1>1. OwnerInv => TypeOK /\ WriterOK
    BY DEF OwnerInv
  <1> QED
    BY <1>1, OwnerInvariant, MarkInvariant, InitPool, NextPool, PTL
       DEF Spec, ImplementsPool, Pool!PoolSpec

=============================================================================
