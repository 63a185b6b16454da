---------------------- MODULE BackendConnOwner_proofs ----------------------
(* Proofs about one connection, for any requests, sockets, offliners,      *)
(* channel capacity and range of sequence ids: its variables keep their    *)
(* types and a request has one owner.                                      *)
EXTENDS BackendConn, TLAPS

\* Zenon tries a leaf first; the leaves that need SMT cite it.
USE ZenonT(30), SMTT(30)

-----------------------------------------------------------------------------
(* The inductive invariant.                                                *)

\* The writer has a socket in loopWriter and a request in its hand while it
\* forwards one.
WriterOK ==
    /\ wpc \in {"activate", "start", "select", "write", "register", "stop", "mark"}
            => cur \in Conn
    /\ hand # Nil <=> wpc \in {"write", "register"}

\* Nothing was done yet for a request that is still with its session.
NotYetHandled == \A r \in Request : stage[r] # "handled" => wait[r] = 0

OwnerInv == TypeOK /\ WriterOK /\ NotYetHandled /\ OneOwner

\* What the proofs use most of the assumption on the constants.
LEMMA Distinct == PING \notin Request /\ Nil \notin Request /\ PING # Nil /\ Nil \notin Conn
  BY ConstantsAssumption

\* The channel capacity and the heartbeat's limit are numbers.
LEMMA Bounds == InputCap \in Nat \ {0} /\ HB_TIMEOUT \in Nat
  BY ConstantsAssumption

-----------------------------------------------------------------------------
(* The input channel.                                                      *)

\* No request is in the channel twice.
QueueOnce ==
    \A i, j \in DOMAIN input : input[i] = input[j] /\ input[i] # PING => i = j

\* A send adds its request to the channel, behind the others.
LEMMA SendLemma ==
    ASSUME ChanType, QueueOnce, NEW x \in Item, x \notin Queued, SendInput(x)
    PROVE  /\ ChanType'
           /\ QueueOnce'
           /\ Queued' = Queued \cup ({x} \cap Request)
  <1> DEFINE n == Len(input)
  <1>1. /\ input' = Append(input, x) /\ n < InputCap
        /\ n \in Nat /\ DOMAIN input = 1 .. n /\ InputCap \in Nat
        /\ input \in Seq(Item)
        /\ inputClosed' = inputClosed /\ inputClosed \in BOOLEAN
    BY Bounds, SMTT(30) DEF SendInput, ChanType
  <1>2. /\ input' \in Seq(Item) /\ Len(input') = n + 1
        /\ DOMAIN input' = 1 .. n + 1
        /\ input'[n + 1] = x
        /\ \A i \in 1 .. n : input'[i] = input[i]
    BY <1>1, SMTT(30)
  <1>3. \A i \in 1 .. n : input[i] \in Item /\ (input[i] = x => x = PING)
    BY <1>1, SMTT(30) DEF Queued, Item
  <1>4. QueueOnce'
    BY <1>1, <1>2, <1>3, SMTT(30) DEF QueueOnce
  <1>5. Queued' = Queued \cup ({x} \cap Request)
    BY <1>1, <1>2, SMTT(30) DEF Queued
  <1> QED
    BY <1>1, <1>2, <1>4, <1>5, SMTT(30) DEF ChanType

\* A receive takes the first request out of the channel.
LEMMA ReceiveLemma ==
    ASSUME ChanType, QueueOnce, input # <<>>, input' = Tail(input), UNCHANGED inputClosed
    PROVE  /\ ChanType'
           /\ Len(input') = Len(input) - 1
           /\ QueueOnce'
           /\ Queued' \subseteq Queued
           /\ Head(input) \in Item
           /\ Head(input) \in Request => Head(input) \in Queued \ Queued'
  <1> DEFINE n == Len(input)
  <1>1. /\ n \in Nat \ {0} /\ n <= InputCap /\ DOMAIN input = 1 .. n
        /\ input \in Seq(Item) /\ Head(input) = input[1]
    BY SMTT(30) DEF ChanType
  <1>2. /\ input' \in Seq(Item) /\ Len(input') = n - 1
        /\ DOMAIN input' = 1 .. n - 1
        /\ \A i \in 1 .. n - 1 : input'[i] = input[i + 1]
    BY <1>1, SMTT(30)
  <1>3. QueueOnce'
    BY <1>1, <1>2, SMTT(30) DEF QueueOnce
  <1>4. Queued' \subseteq Queued
    BY <1>1, <1>2 DEF Queued
  <1>5. Head(input) \in Item
    BY <1>1, SMTT(30)
  <1>6. ASSUME Head(input) \in Request
        PROVE  Head(input) \in Queued \ Queued'
    <2>1. Head(input) # PING
      BY <1>6, Distinct
    <2> QED
      BY <1>1, <1>2, <1>6, <2>1, SMTT(30) DEF Queued, QueueOnce
  <1>7. ChanType'
    BY <1>1, <1>2, Bounds, SMTT(30) DEF ChanType
  <1> QED
    BY <1>2, <1>3, <1>4, <1>5, <1>6, <1>7

-----------------------------------------------------------------------------
(* Types.                                                                  *)

\* A step keeps the types of the variables that it does not change.
LEMMA TypesKept ==
    /\ ChanType /\ UNCHANGED chanVars => ChanType'
    /\ MapType /\ UNCHANGED mapVars => MapType'
    /\ FlagType /\ UNCHANGED flagVars => FlagType'
    /\ WriterType /\ UNCHANGED writerVars => WriterType'
    /\ NetType /\ UNCHANGED netVars => NetType'
    /\ HbType /\ UNCHANGED hbVars => HbType'
    /\ ReqType /\ UNCHANGED reqVars => ReqType'
  <1>1. ChanType /\ UNCHANGED chanVars => ChanType'
    BY DEF ChanType, chanVars
  <1>2. MapType /\ UNCHANGED mapVars => MapType'
    BY DEF MapType, mapVars
  <1>3. FlagType /\ UNCHANGED flagVars => FlagType'
    BY DEF FlagType, flagVars
  <1>4. WriterType /\ UNCHANGED writerVars => WriterType'
    BY DEF WriterType, writerVars
  <1>5. NetType /\ UNCHANGED netVars => NetType'
    BY DEF NetType, netVars
  <1>6. HbType /\ UNCHANGED hbVars => HbType'
    BY DEF HbType, hbVars
  <1>7. ReqType /\ UNCHANGED reqVars => ReqType'
    BY DEF ReqType, reqVars
  <1> QED
    BY <1>1, <1>2, <1>3, <1>4, <1>5, <1>6, <1>7

\* A step of another goroutine keeps the writer's invariant.
LEMMA WriterKept == WriterOK /\ UNCHANGED writerVars => WriterOK'
  BY DEF WriterOK, writerVars

\* The types and the writer's invariant hold initially.
LEMMA InitTypeOK == Init => TypeOK /\ WriterOK
  <1> SUFFICES ASSUME Init PROVE TypeOK /\ WriterOK
    OBVIOUS
  <1> USE ConstantsAssumption DEF Init
  <1>1. ChanType /\ MapType
    <2>1. inputClosed \in BOOLEAN
      OBVIOUS
    <2> QED
      BY <2>1, SMTT(30) DEF ChanType, MapType, NoEntries, SeqId
  <1>2. FlagType /\ werr \in BOOLEAN
    BY DEF FlagType
  <1>3. WriterType /\ WriterOK
    BY <1>2, SMTT(30) DEF WriterType, WriterOK
  <1>4. NetType
    BY DEF NetType
  <1>5. HbType /\ ReqType /\ opc \in [Offliner -> {"idle", "set", "mark", "close", "done"}]
    BY SMTT(30) DEF HbType, ReqType
  <1> QED
    BY <1>1, <1>2, <1>3, <1>4, <1>5 DEF TypeOK

\* MarkConnActiveFalse leaves its caller in "set" or "idle".
LEMMA MarkingType ==
    ASSUME FlagType, NEW t \in Thread, MarkConnActiveFalse(t)
    PROVE  FlagType'
  BY DEF FlagType, MarkConnActiveFalse

\* Steps that do not touch the requests: every step of the writer that keeps
\* its hand, the flags, MarkOffline, the loss of a socket and the heartbeat's
\* timers.
Quiet ==
    \/ \E r \in Request : Pick(r) \/ PushBackPanics(r)
    \/ \E t \in Thread : SetInactive(t) \/ StateChanged(t)
    \/ \E o \in Offliner : Offlining(o)
    \/ RunLoop \/ EnsureConnFails \/ MarkConnActiveOK \/ StartLoops
    \/ InputEnds \/ HbTimesOut \/ StopHeartbeat
    \/ WriterMark \/ AfterLoop \/ Drained
    \/ \E c \in Conn : EnsureConn(c) \/ ReadFails(c) \/ Break(c)
    \/ HbTick \/ HbPushPanics \/ Elapse

\* They keep the types.
LEMMA QuietTypeOK ==
    ASSUME TypeOK, WriterOK, Quiet
    PROVE  TypeOK' /\ WriterOK'
  <1> USE TypesKept, WriterKept DEF TypeOK
  <1>1. ASSUME NEW r \in Request, Pick(r) \/ PushBackPanics(r)
        PROVE  TypeOK' /\ WriterOK'
    <2>1. CASE Pick(r)
      BY <2>1 DEF Pick, ReqType
    <2>2. CASE PushBackPanics(r)
      BY <2>2 DEF PushBackPanics
    <2> QED
      BY <1>1, <2>1, <2>2
  <1>2. ASSUME NEW t \in Thread, SetInactive(t) \/ StateChanged(t)
        PROVE  TypeOK' /\ WriterOK'
    <2>1. FlagType'
      <3>1. marking' \in [Thread -> {"idle", "set", "notify"}]
        BY <1>2 DEF SetInactive, StateChanged, FlagType
      <3>2. IsMarkOffline' \in BOOLEAN /\ IsConnActive' \in BOOLEAN /\ listed' \in BOOLEAN
        BY <1>2 DEF SetInactive, StateChanged, FlagType
      <3> QED
        BY <3>1, <3>2 DEF FlagType
    <2> QED
      BY <1>2, <2>1 DEF SetInactive, StateChanged
  <1>3. ASSUME NEW o \in Offliner, Offlining(o)
        PROVE  TypeOK' /\ WriterOK'
    <2>1. CASE OfflineCheck(o)
      BY <2>1 DEF OfflineCheck
    <2>2. CASE OfflineSet(o)
      <3>1. FlagType'
        BY <2>2 DEF OfflineSet, FlagType
      <3> QED
        BY <2>2, <3>1 DEF OfflineSet
    <2>3. CASE OfflineMark(o)
      BY <2>3, MarkingType DEF OfflineMark, Thread
    <2>4. CASE OfflineClose(o)
      <3>1. ChanType'
        BY <2>4 DEF OfflineClose, ChanType
      <3> QED
        BY <2>4, <3>1 DEF OfflineClose
    <2> QED
      BY <1>3, <2>1, <2>2, <2>3, <2>4 DEF Offlining
  <1>4. CASE RunLoop \/ EnsureConnFails \/ Drained
    BY <1>4 DEF RunLoop, EnsureConnFails, Drained, WriterType, WriterOK
  <1>5. CASE MarkConnActiveOK
    <2>1. FlagType'
      BY <1>5 DEF MarkConnActiveOK, FlagType
    <2> QED
      BY <1>5, <2>1 DEF MarkConnActiveOK, WriterType, WriterOK
  <1>6. CASE StartLoops
    BY <1>6, Bounds, SMTT(30) DEF StartLoops, WriterType, WriterOK, NetType, HbType
  <1>7. CASE InputEnds \/ HbTimesOut \/ StopHeartbeat
    <2>1. werr' \in BOOLEAN
      BY <1>7 DEF InputEnds, HbTimesOut, StopHeartbeat, WriterType
    <2> QED
      BY <1>7, <2>1, Distinct, Bounds, SMTT(30)
         DEF InputEnds, HbTimesOut, StopHeartbeat, WriterType, WriterOK, HbType
  <1>8. CASE WriterMark
    BY <1>8, MarkingType DEF WriterMark, WriterType, WriterOK, NetType, Thread
  <1>9. CASE AfterLoop
    <2>1. werr' \in BOOLEAN
      BY <1>9 DEF AfterLoop
    <2>2. left' \in 0 .. InputCap
      BY <1>9, Bounds, SMTT(30) DEF AfterLoop, ChanType
    <2> QED
      BY <1>9, <2>1, <2>2 DEF AfterLoop, WriterType, WriterOK
  <1>10. ASSUME NEW c \in Conn, EnsureConn(c)
         PROVE  TypeOK' /\ WriterOK'
    BY <1>10 DEF EnsureConn, WriterType, WriterOK, NetType
  <1>11. ASSUME NEW c \in Conn, ReadFails(c) \/ Break(c)
         PROVE  TypeOK' /\ WriterOK'
    <2>1. CASE ReadFails(c)
      BY <2>1, MarkingType DEF ReadFails, NetType, Thread
    <2>2. CASE Break(c)
      BY <2>2 DEF Break, NetType
    <2> QED
      BY <1>11, <2>1, <2>2
  <1>12. CASE HbTick \/ HbPushPanics
    BY <1>12 DEF HbTick, HbPushPanics, HbType
  <1>13. CASE Elapse
    BY <1>13, Bounds, SMTT(30) DEF Elapse, HbType
  <1> QED
    BY <1>1, <1>2, <1>3, <1>4, <1>5, <1>6, <1>7, <1>8, <1>9, <1>10, <1>11,
       <1>12, <1>13, Zenon DEF Quiet

-----------------------------------------------------------------------------
(* Who owns a request.                                                     *)

\* Every request that is registered has one id.
MapOnce ==
    \A s, u \in SeqId :
        seqNum2Request[s] = seqNum2Request[u] /\ seqNum2Request[s] \in Request => s = u

\* The readers' batches share no request with one another and none with the
\* other places.
BatchesApart ==
    /\ \A c, d \in Conn : \A r \in batch[c] : r \in batch[d] => c = d
    /\ \A c \in Conn : \A r \in batch[c] : r \notin Queued /\ r \notin Registered /\ r # hand

\* The channel, the map and the writer's hand share no request.
PlacesApart ==
    /\ \A r \in Queued : r \notin Registered
    /\ hand \notin Queued /\ hand \notin Registered

\* Somebody waits for every request that is held.
HeldAwaited ==
    /\ \A r \in Queued : wait[r] = 1
    /\ \A r \in Registered : wait[r] = 1
    /\ hand \in Request => wait[hand] = 1
    /\ \A c \in Conn : \A r \in batch[c] : wait[r] = 1

\* A request is waited for at most once.
WaitOnce == \A r \in Request : wait[r] \in {0, 1}

\* OneOwner is these parts, before a step ...
LEMMA OwnerParts ==
    OneOwner <=> QueueOnce /\ MapOnce /\ BatchesApart /\ PlacesApart /\ HeldAwaited /\ WaitOnce
  <1>1. OneOwner => QueueOnce /\ MapOnce /\ WaitOnce
    BY DEF OneOwner, QueueOnce, MapOnce, WaitOnce
  <1>2. OneOwner => BatchesApart /\ PlacesApart
    BY DEF OneOwner, BatchesApart, PlacesApart
  <1>3. OneOwner => HeldAwaited
    BY DEF OneOwner, HeldAwaited
  <1>4. ASSUME QueueOnce, MapOnce, BatchesApart, PlacesApart, HeldAwaited, WaitOnce
        PROVE  OneOwner
    BY <1>4, SMTT(30)
       DEF OneOwner, QueueOnce, MapOnce, BatchesApart, PlacesApart, HeldAwaited, WaitOnce
  <1> QED
    BY <1>1, <1>2, <1>3, <1>4

\* ... and after it.
LEMMA OwnerPartsNext ==
    ASSUME QueueOnce', MapOnce', BatchesApart', PlacesApart', HeldAwaited', WaitOnce'
    PROVE  OneOwner'
  BY SMTT(30) DEF OneOwner, QueueOnce, MapOnce, BatchesApart, PlacesApart, HeldAwaited, WaitOnce

\* A step that gives no request to anybody, and that completes only requests
\* nobody has after it, keeps OneOwner.
LEMMA FewerOwned ==
    ASSUME OneOwner, QueueOnce', MapOnce', Nil \notin Queued, Nil \notin Registered,
           Queued' \subseteq Queued, Registered' \subseteq Registered,
           hand' = hand \/ hand' = Nil,
           \A c \in Conn : batch'[c] \subseteq batch[c],
           \A c \in Conn : Nil \notin batch[c],
           \A r \in Queued' \cup Registered' : wait'[r] = wait[r],
           hand' \in Request => wait'[hand'] = wait[hand'],
           \A c \in Conn : \A r \in batch'[c] : wait'[r] = wait[r],
           \A r \in Request : wait'[r] = wait[r] \/ wait'[r] = 0,
           Nil \notin Request
    PROVE  OneOwner'
  <1>1. QueueOnce /\ MapOnce /\ BatchesApart /\ PlacesApart /\ HeldAwaited /\ WaitOnce
    BY OwnerParts
  <1>2. BatchesApart'
    BY <1>1, SMTT(30) DEF BatchesApart
  <1>3. PlacesApart'
    BY <1>1 DEF PlacesApart
  <1>4. HeldAwaited'
    BY <1>1 DEF HeldAwaited
  <1>5. WaitOnce'
    BY <1>1 DEF WaitOnce
  <1> QED
    BY <1>2, <1>3, <1>4, <1>5, OwnerPartsNext

\* A step that moves no request keeps OneOwner.
LEMMA OwnerUnchanged ==
    ASSUME OneOwner, UNCHANGED <<input, seqNum2Request, batch, hand, wait>>
    PROVE  OneOwner'
  <1>1. Queued' = Queued /\ Registered' = Registered
    BY DEF Queued, Registered
  <1> QED
    BY <1>1, SMTT(30) DEF OneOwner

\* Only requests are owned.
LEMMA OwnedAreRequests ==
    ASSUME OwnerInv
    PROVE  /\ OneOwner /\ QueueOnce /\ MapOnce
           /\ Queued \subseteq Request /\ Registered \subseteq Request
           /\ \A c \in Conn : batch[c] \subseteq Request
           /\ Nil \notin Request /\ Nil \notin Queued /\ Nil \notin Registered
           /\ \A c \in Conn : Nil \notin batch[c]
  <1>1. NetType /\ OneOwner /\ QueueOnce /\ MapOnce
    BY OwnerParts DEF OwnerInv, TypeOK
  <1>2. /\ Queued \subseteq Request /\ Registered \subseteq Request
        /\ \A c \in Conn : batch[c] \subseteq Request
    BY <1>1 DEF Queued, Registered, NetType
  <1> QED
    BY <1>1, <1>2, Distinct

\* The quiet steps move no request.
LEMMA QuietStep ==
    ASSUME OwnerInv, Quiet
    PROVE  /\ OwnerInv'
           /\ UNCHANGED <<input, seqNum2Request, batch, hand, wait, currentSeqId, sends>>
  <1> USE DEF chanVars, mapVars, writerVars, netVars, reqVars
  <1>1. TypeOK' /\ WriterOK'
    BY QuietTypeOK DEF OwnerInv
  <1>2. ASSUME NEW r \in Request, Pick(r)
        PROVE  /\ NotYetHandled'
               /\ UNCHANGED <<input, seqNum2Request, batch, hand, wait,
                              currentSeqId, sends>>
    BY <1>2 DEF Pick, OwnerInv, NotYetHandled, TypeOK, ReqType
  <1>3. ASSUME ~ \E r \in Request : Pick(r)
        PROVE  UNCHANGED <<input, seqNum2Request, batch, hand, wait, stage,
                           currentSeqId, sends>>
    BY <1>3
       DEF Quiet, PushBackPanics, SetInactive, StateChanged, Offlining, OfflineCheck,
           OfflineSet, OfflineMark, OfflineClose, RunLoop, EnsureConnFails,
           MarkConnActiveOK, StartLoops, InputEnds, HbTimesOut, StopHeartbeat,
           WriterMark, AfterLoop, Drained, EnsureConn, ReadFails, Break, HbTick,
           HbPushPanics, Elapse
  <1>4. /\ NotYetHandled'
        /\ UNCHANGED <<input, seqNum2Request, batch, hand, wait, currentSeqId, sends>>
    BY <1>2, <1>3 DEF OwnerInv, NotYetHandled
  <1>5. OneOwner'
    BY <1>4, OwnerUnchanged DEF OwnerInv
  <1> QED
    BY <1>1, <1>4, <1>5 DEF OwnerInv

\* A session pushes its request, which nobody else has.
LEMMA PushBackStep ==
    ASSUME OwnerInv, NEW r \in Request, PushBack(r)
    PROVE  OwnerInv'
  <1>1. /\ SendInput(r)
        /\ wait' = [wait EXCEPT ![r] = @ + 1]
        /\ stage' = [stage EXCEPT ![r] = "handled"]
        /\ stage[r] = "picked"
        /\ UNCHANGED <<resp, mapVars, flagVars, writerVars, netVars, hbVars, opc, panic>>
    BY DEF PushBack
  <1>2. wait[r] = 0
    BY <1>1 DEF OwnerInv, NotYetHandled
  <1>3. r \notin Queued \cup Registered /\ hand # r /\ \A c \in Conn : r \notin batch[c]
    <2>1. HeldAwaited
      BY OwnerParts DEF OwnerInv
    <2> QED
      BY <1>2, <2>1, SMTT(30) DEF HeldAwaited
  <1>4. QueueOnce
    BY OwnedAreRequests
  <1>5. ChanType' /\ QueueOnce' /\ Queued' = Queued \cup {r}
    <2>1. ChanType /\ r \in Item
      BY DEF OwnerInv, TypeOK, Item
    <2>2. ChanType' /\ QueueOnce' /\ Queued' = Queued \cup ({r} \cap Request)
      BY <1>1, <1>3, <1>4, <2>1, SendLemma
    <2> QED
      BY <2>2
  <1>6. UNCHANGED <<seqNum2Request, batch, hand>> /\ Registered' = Registered
    BY <1>1 DEF mapVars, netVars, writerVars, Registered
  <1>7. /\ ReqType'
        /\ \A q \in Request : wait'[q] = IF q = r THEN 1 ELSE wait[q]
        /\ \A q \in Request : stage'[q] = IF q = r THEN "handled" ELSE stage[q]
    <2>1. ReqType
      BY DEF OwnerInv, TypeOK
    <2> QED
      BY <1>1, <1>2, <2>1, SMTT(30) DEF ReqType
  <1>8. TypeOK' /\ WriterOK'
    BY <1>1, <1>5, <1>7, TypesKept, WriterKept DEF OwnerInv, TypeOK
  <1>9. NotYetHandled'
    BY <1>7 DEF OwnerInv, NotYetHandled
  <1>10. OneOwner'
    <2>1. MapOnce /\ BatchesApart /\ PlacesApart /\ HeldAwaited /\ WaitOnce
      BY OwnerParts DEF OwnerInv
    <2>2. BatchesApart'
      BY <1>3, <1>5, <1>6, <2>1 DEF BatchesApart
    <2>3. PlacesApart'
      BY <1>3, <1>5, <1>6, <2>1 DEF PlacesApart
    <2>4. HeldAwaited'
      BY <1>3, <1>5, <1>6, <1>7, <2>1, OwnedAreRequests DEF HeldAwaited
    <2>5. MapOnce' /\ WaitOnce'
      BY <1>6, <1>7, <2>1 DEF MapOnce, WaitOnce
    <2> QED
      BY <1>5, <2>2, <2>3, <2>4, <2>5, OwnerPartsNext
  <1> QED
    BY <1>8, <1>9, <1>10 DEF OwnerInv

\* The heartbeat pushes a ping, which nobody waits for.
LEMMA HbPushStep ==
    ASSUME OwnerInv, HbPush
    PROVE  OwnerInv'
  <1>1. /\ SendInput(PING)
        /\ hbpc' = "loop"
        /\ UNCHANGED <<hbAge, mapVars, flagVars, writerVars, netVars, opc, reqVars, panic>>
    BY DEF HbPush
  <1>2. QueueOnce
    BY OwnedAreRequests
  <1>3. ChanType' /\ QueueOnce' /\ Queued' = Queued
    <2>1. ChanType /\ PING \in Item /\ PING \notin Queued /\ {PING} \cap Request = {}
      BY Distinct DEF OwnerInv, TypeOK, Item, Queued
    <2>2. ChanType' /\ QueueOnce' /\ Queued' = Queued \cup ({PING} \cap Request)
      BY <1>1, <1>2, <2>1, SendLemma
    <2> QED
      BY <2>1, <2>2
  <1>4. UNCHANGED <<seqNum2Request, batch, hand, wait, stage>> /\ Registered' = Registered
    BY <1>1 DEF mapVars, netVars, writerVars, reqVars, Registered
  <1>5. HbType'
    BY <1>1 DEF OwnerInv, TypeOK, HbType
  <1>6. TypeOK' /\ WriterOK'
    BY <1>1, <1>3, <1>5, TypesKept, WriterKept DEF OwnerInv, TypeOK
  <1>7. NotYetHandled'
    BY <1>4 DEF OwnerInv, NotYetHandled
  <1>8. OneOwner'
    <2>1. MapOnce'
      BY <1>4, OwnedAreRequests DEF MapOnce
    <2> QED
      BY <1>3, <1>4, <2>1, OwnedAreRequests, FewerOwned
  <1> QED
    BY <1>6, <1>7, <1>8 DEF OwnerInv

\* What Complete does to the requests of S, which are waited for.
LEMMA CompleteLemma ==
    ASSUME ReqType, NEW S \in SUBSET Request, NEW how \in {"err", "own", "other"},
           Complete(S, how), NotYetHandled, \A r \in S : wait[r] = 1
    PROVE  /\ ReqType'
           /\ \A r \in Request : wait'[r] = IF r \in S THEN 0 ELSE wait[r]
           /\ NotYetHandled'
  <1>1. \A r \in Request : wait'[r] = IF r \in S THEN wait[r] - 1 ELSE wait[r]
    BY DEF Complete
  <1>2. ReqType' /\ stage' = stage
    BY SMTT(30) DEF Complete, ReqType
  <1>3. \A r \in Request : wait'[r] = IF r \in S THEN 0 ELSE wait[r]
    BY <1>1, SMTT(30)
  <1>4. NotYetHandled'
    BY <1>2, <1>3 DEF NotYetHandled
  <1> QED
    BY <1>2, <1>3, <1>4

\* The writer takes a request from the channel.
LEMMA TakeInputStep ==
    ASSUME OwnerInv, TakeInput
    PROVE  OwnerInv'
  <1>1. /\ input # <<>> /\ hand' = Head(input) /\ input' = Tail(input)
        /\ wpc = "select" /\ wpc' = "write"
        /\ UNCHANGED <<cur, werr, left, inputClosed>>
        /\ UNCHANGED <<mapVars, flagVars, netVars, hbVars, opc, reqVars, panic>>
    BY DEF TakeInput
  <1>2. QueueOnce
    BY OwnedAreRequests
  <1>3. /\ ChanType' /\ QueueOnce'
        /\ Queued' \subseteq Queued
        /\ hand' \in Item
        /\ hand' \in Request => hand' \in Queued \ Queued'
    <2>1. ChanType
      BY DEF OwnerInv, TypeOK
    <2> QED
      BY <1>1, <1>2, <2>1, ReceiveLemma
  <1>4. UNCHANGED <<seqNum2Request, batch, wait, stage>> /\ Registered' = Registered
    BY <1>1 DEF mapVars, netVars, reqVars, Registered
  <1>5. WriterType' /\ WriterOK'
    <2>1. WriterType /\ WriterOK
      BY DEF OwnerInv, TypeOK
    <2>2. hand' # Nil
      BY <1>3, Distinct DEF Item
    <2> QED
      BY <1>1, <1>3, <2>1, <2>2 DEF WriterType, WriterOK
  <1>6. TypeOK'
    BY <1>1, <1>3, <1>5, TypesKept DEF OwnerInv, TypeOK
  <1>7. NotYetHandled'
    BY <1>4 DEF OwnerInv, NotYetHandled
  <1>8. OneOwner'
    <2>1. QueueOnce /\ MapOnce /\ BatchesApart /\ PlacesApart /\ HeldAwaited /\ WaitOnce
      BY OwnerParts DEF OwnerInv
    <2>2. hand' = PING \/ hand' \in Queued \ Queued'
      BY <1>3 DEF Item
    <2>3. BatchesApart'
      BY <1>3, <1>4, <2>1, <2>2, OwnedAreRequests, Distinct DEF BatchesApart
    <2>4. PlacesApart'
      BY <1>3, <1>4, <2>1, <2>2, OwnedAreRequests, Distinct DEF PlacesApart
    <2>5. HeldAwaited'
      BY <1>3, <1>4, <2>1, <2>2, Distinct DEF HeldAwaited
    <2>6. MapOnce' /\ WaitOnce'
      BY <1>4, <2>1 DEF MapOnce, WaitOnce
    <2> QED
      BY <1>3, <2>3, <2>4, <2>5, <2>6, OwnerPartsNext
  <1> QED
    BY <1>5, <1>6, <1>7, <1>8 DEF OwnerInv

\* The writer drops a stale ping.
LEMMA DropStalePingStep ==
    ASSUME OwnerInv, DropStalePing
    PROVE  OwnerInv'
  <1>1. /\ wpc = "write" /\ hand = PING /\ hand' = Nil /\ wpc' = "select"
        /\ UNCHANGED <<cur, werr, left>>
        /\ UNCHANGED <<chanVars, mapVars, flagVars, netVars, hbVars, opc, reqVars, panic>>
    BY DEF DropStalePing
  <1>2. WriterType' /\ WriterOK'
    <2>1. WriterType /\ WriterOK
      BY DEF OwnerInv, TypeOK
    <2> QED
      BY <1>1, <2>1 DEF WriterType, WriterOK
  <1>3. TypeOK'
    BY <1>1, <1>2, TypesKept DEF OwnerInv, TypeOK
  <1>4. /\ UNCHANGED <<input, seqNum2Request, batch, wait, stage>>
        /\ Queued' = Queued /\ Registered' = Registered
    BY <1>1 DEF chanVars, mapVars, netVars, reqVars, Queued, Registered
  <1>5. NotYetHandled'
    BY <1>4 DEF OwnerInv, NotYetHandled
  <1>6. OneOwner'
    <2>1. QueueOnce' /\ MapOnce'
      BY <1>4, OwnedAreRequests DEF QueueOnce, MapOnce
    <2> QED
      BY <1>1, <1>4, <2>1, OwnedAreRequests, FewerOwned
  <1> QED
    BY <1>2, <1>3, <1>5, <1>6 DEF OwnerInv

\* The writer has written its request, which stays in its hand.
LEMMA WriteFrameStep ==
    ASSUME OwnerInv, WriteFrame
    PROVE  OwnerInv'
  <1> DEFINE frames == out[cur] \cup {[seq |-> currentSeqId, req |-> hand]}
  <1>1. /\ out' = [out EXCEPT ![cur] = frames] \/ out' = [out EXCEPT ![cur] = {}]
        /\ wire' = [wire EXCEPT ![cur] = @ \cup frames] \/ wire' = wire
        /\ wpc = "write" /\ wpc' = "register" /\ sends' = sends + 1
        /\ UNCHANGED <<cur, hand, werr, left, rpc, batch, sock, seqNum2Request,
                       currentSeqId>>
        /\ UNCHANGED <<chanVars, flagVars, hbVars, opc, reqVars, panic>>
    BY DEF WriteFrame
  <1>2. cur \in Conn /\ hand \in Item
    <2>1. WriterType /\ WriterOK
      BY DEF OwnerInv, TypeOK
    <2> QED
      BY <1>1, <2>1 DEF WriterType, WriterOK
  <1>3. frames \in SUBSET Frame
    <2>1. out \in [Conn -> SUBSET Frame] /\ currentSeqId \in SeqId
      BY DEF OwnerInv, TypeOK, NetType, MapType
    <2> QED
      BY <1>2, <2>1, SMTT(30) DEF Frame
  <1> HIDE DEF frames
  <1>4. NetType'
    <2>1. NetType
      BY DEF OwnerInv, TypeOK
    <2>2. out' \in [Conn -> SUBSET Frame] /\ wire' \in [Conn -> SUBSET Frame]
      BY <1>1, <1>2, <1>3, <2>1, SMTT(30) DEF NetType
    <2> QED
      BY <1>1, <2>1, <2>2 DEF NetType
  <1>5. MapType' /\ WriterType' /\ WriterOK'
    <2>1. MapType /\ WriterType /\ WriterOK
      BY DEF OwnerInv, TypeOK
    <2>2. MapType'
      BY <1>1, <2>1, SMTT(30) DEF MapType
    <2> QED
      BY <1>1, <2>1, <2>2 DEF WriterType, WriterOK
  <1>6. TypeOK'
    BY <1>1, <1>4, <1>5, TypesKept DEF OwnerInv, TypeOK
  <1>7. UNCHANGED <<input, seqNum2Request, batch, hand, wait, stage>>
    BY <1>1 DEF chanVars, reqVars
  <1>8. NotYetHandled' /\ OneOwner'
    BY <1>7, OwnerUnchanged DEF OwnerInv, NotYetHandled
  <1> QED
    BY <1>5, <1>6, <1>8 DEF OwnerInv

\* A write error: the request in the hand is answered.
LEMMA WriteFailsStep ==
    ASSUME OwnerInv, WriteFails
    PROVE  OwnerInv'
  <1> DEFINE S == {hand} \cap Request
  <1>1. /\ Complete(S, "err")
        /\ wpc = "write" /\ hand' = Nil /\ wpc' = "stop" /\ werr' = TRUE
        /\ UNCHANGED <<cur, left>>
        /\ UNCHANGED <<chanVars, mapVars, flagVars, netVars, hbVars, opc, panic>>
    BY DEF WriteFails
  <1>2. \A r \in S : wait[r] = 1
    BY OwnerParts DEF OwnerInv, HeldAwaited
  <1>3. /\ ReqType'
        /\ \A r \in Request : wait'[r] = IF r \in S THEN 0 ELSE wait[r]
        /\ NotYetHandled'
    <2>1. ReqType /\ NotYetHandled /\ S \in SUBSET Request
      BY DEF OwnerInv, TypeOK
    <2> QED
      BY <1>1, <1>2, <2>1, CompleteLemma
  <1>4. WriterType' /\ WriterOK'
    <2>1. werr' \in BOOLEAN
      BY <1>1
    <2>2. WriterType /\ WriterOK
      BY DEF OwnerInv, TypeOK
    <2> QED
      BY <1>1, <2>1, <2>2 DEF WriterType, WriterOK
  <1>5. TypeOK'
    BY <1>1, <1>3, <1>4, TypesKept DEF OwnerInv, TypeOK
  <1>6. /\ UNCHANGED <<input, seqNum2Request, batch>>
        /\ Queued' = Queued /\ Registered' = Registered /\ hand' = Nil
    BY <1>1 DEF chanVars, mapVars, netVars, Queued, Registered
  <1>7. OneOwner'
    <2>1. QueueOnce' /\ MapOnce'
      BY <1>6, OwnedAreRequests DEF QueueOnce, MapOnce
    <2>2. PlacesApart /\ BatchesApart
      BY OwnerParts DEF OwnerInv
    <2>3. \A r \in S : /\ r \notin Queued /\ r \notin Registered
                     /\ \A c \in Conn : r \notin batch[c]
      BY <2>2 DEF PlacesApart, BatchesApart
    <2> HIDE DEF S
    <2> QED
      BY <1>3, <1>6, <2>1, <2>3, OwnedAreRequests, FewerOwned
  <1> QED
    BY <1>3, <1>4, <1>5, <1>7 DEF OwnerInv

-----------------------------------------------------------------------------
(* Steps that register and complete requests.                              *)

\* What a change of one entry does to the registered requests.
LEMMA EntryLemma ==
    ASSUME seqNum2Request \in [SeqId -> Item \cup {Nil}], MapOnce,
           NEW s \in SeqId, NEW x \in Item \cup {Nil}, x \notin Registered,
           seqNum2Request' = [seqNum2Request EXCEPT ![s] = x]
    PROVE  /\ seqNum2Request' \in [SeqId -> Item \cup {Nil}]
           /\ Registered' \subseteq Registered \cup ({x} \cap Request)
           /\ seqNum2Request[s] \in Request \ {x} => seqNum2Request[s] \notin Registered'
           /\ MapOnce'
  <1>1. /\ seqNum2Request' \in [SeqId -> Item \cup {Nil}]
        /\ \A u \in SeqId : seqNum2Request'[u] = IF u = s THEN x ELSE seqNum2Request[u]
    OBVIOUS
  <1>2. Registered' \subseteq Registered \cup ({x} \cap Request)
    BY <1>1 DEF Registered
  <1>3. \A u \in SeqId : seqNum2Request[u] \in Request => seqNum2Request[u] \in Registered
    BY DEF Registered
  <1>4. ASSUME seqNum2Request[s] \in Request \ {x}
        PROVE  seqNum2Request[s] \notin Registered'
    BY <1>1, <1>4 DEF Registered, MapOnce
  <1>5. MapOnce'
    BY <1>1, <1>3, SMTT(30) DEF MapOnce
  <1> QED
    BY <1>1, <1>2, <1>4, <1>5

\* The request in the hand enters the map.
LEMMA RegisterStep ==
    ASSUME OwnerInv, Register
    PROVE  OwnerInv'
  <1>1. /\ seqNum2Request' = [seqNum2Request EXCEPT ![currentSeqId] = hand]
        /\ IncreaseCurrentSeqId
        /\ wpc = "register" /\ hand' = Nil /\ wpc' = "select"
        /\ UNCHANGED <<cur, werr, left, sends>>
        /\ UNCHANGED <<chanVars, flagVars, netVars, hbVars, opc, reqVars, panic>>
    BY DEF Register
  <1>2. /\ hand \in Item /\ hand \notin Registered
        /\ currentSeqId \in SeqId /\ seqNum2Request \in [SeqId -> Item \cup {Nil}]
    <2>1. WriterType /\ WriterOK /\ MapType /\ PlacesApart
      BY OwnerParts DEF OwnerInv, TypeOK
    <2>2. hand \in Item
      BY <1>1, <2>1 DEF WriterType, WriterOK
    <2> QED
      BY <2>1, <2>2 DEF MapType, PlacesApart
  <1>3. /\ seqNum2Request' \in [SeqId -> Item \cup {Nil}]
        /\ Registered' \subseteq Registered \cup ({hand} \cap Request)
        /\ MapOnce'
    <2>1. MapOnce /\ hand \in Item \cup {Nil}
      BY <1>2, OwnedAreRequests
    <2> QED
      BY <1>1, <1>2, <2>1, EntryLemma
  <1>4. currentSeqId' \in SeqId
    BY <1>1, <1>2, ConstantsAssumption, SMTT(30) DEF IncreaseCurrentSeqId, SeqId
  <1>5. WriterType' /\ WriterOK' /\ MapType'
    <2>1. WriterType /\ WriterOK /\ MapType
      BY DEF OwnerInv, TypeOK
    <2>2. MapType'
      BY <1>1, <1>3, <1>4, <2>1 DEF MapType
    <2> QED
      BY <1>1, <2>1, <2>2 DEF WriterType, WriterOK
  <1>6. TypeOK'
    BY <1>1, <1>5, TypesKept DEF OwnerInv, TypeOK
  <1>7. UNCHANGED <<input, batch, wait, stage>> /\ Queued' = Queued
    BY <1>1 DEF chanVars, netVars, reqVars, Queued
  <1>8. NotYetHandled'
    BY <1>7 DEF OwnerInv, NotYetHandled
  <1>9. OneOwner'
    <2>1. Registered' \subseteq Request /\ hand' = Nil
      BY <1>1 DEF Registered
    <2>2. QueueOnce /\ MapOnce /\ BatchesApart /\ PlacesApart /\ HeldAwaited /\ WaitOnce
      BY OwnerParts DEF OwnerInv
    <2>3. BatchesApart'
      BY <1>3, <1>7, <2>1, <2>2, OwnedAreRequests DEF BatchesApart
    <2>4. PlacesApart'
      BY <1>3, <1>7, <2>1, <2>2, OwnedAreRequests DEF PlacesApart
    <2>5. HeldAwaited'
      BY <1>3, <1>7, <2>1, <2>2, Distinct DEF HeldAwaited
    <2>6. QueueOnce' /\ WaitOnce'
      BY <1>7, <2>2 DEF QueueOnce, WaitOnce
    <2> QED
      BY <1>3, <2>3, <2>4, <2>5, <2>6, OwnerPartsNext
  <1> QED
    BY <1>5, <1>6, <1>8, <1>9 DEF OwnerInv

\* The drain loop answers the first request of the channel.
LEMMA DrainOneStep ==
    ASSUME OwnerInv, DrainOne
    PROVE  OwnerInv'
  <1> DEFINE S == {Head(input)} \cap Request
  <1>1. /\ left # 0 /\ input # <<>> /\ input' = Tail(input) /\ left' = left - 1
        /\ Complete(S, "err")
        /\ UNCHANGED <<wpc, cur, hand, werr, inputClosed>>
        /\ UNCHANGED <<mapVars, flagVars, netVars, hbVars, opc, panic>>
    BY DEF DrainOne
  <1>2. QueueOnce
    BY OwnedAreRequests
  <1>3. /\ ChanType' /\ QueueOnce'
        /\ Queued' \subseteq Queued
        /\ Head(input) \in Request => Head(input) \in Queued \ Queued'
    <2>1. ChanType
      BY DEF OwnerInv, TypeOK
    <2> QED
      BY <1>1, <1>2, <2>1, ReceiveLemma
  <1>4. S \subseteq Queued /\ S \cap Queued' = {}
    BY <1>3
  <1>5. \A r \in S : wait[r] = 1
    BY <1>4, OwnerParts DEF OwnerInv, HeldAwaited
  <1>6. /\ ReqType'
        /\ \A r \in Request : wait'[r] = IF r \in S THEN 0 ELSE wait[r]
        /\ NotYetHandled'
    <2>1. ReqType /\ NotYetHandled /\ S \in SUBSET Request
      BY DEF OwnerInv, TypeOK
    <2> HIDE DEF S
    <2> QED
      BY <1>1, <1>5, <2>1, CompleteLemma
  <1> HIDE DEF S
  <1>7. WriterType' /\ WriterOK'
    <2>1. WriterType /\ WriterOK
      BY DEF OwnerInv, TypeOK
    <2> QED
      BY <1>1, <2>1, Bounds, SMTT(30) DEF WriterType, WriterOK
  <1>8. TypeOK'
    BY <1>1, <1>3, <1>6, <1>7, TypesKept DEF OwnerInv, TypeOK
  <1>9. UNCHANGED <<seqNum2Request, batch, hand>> /\ Registered' = Registered
    BY <1>1 DEF mapVars, netVars, Registered
  <1>10. OneOwner'
    <2>1. PlacesApart /\ BatchesApart
      BY OwnerParts DEF OwnerInv
    <2>2. \A r \in S : r \notin Registered /\ r # hand /\ \A c \in Conn : r \notin batch[c]
      BY <1>4, <2>1 DEF PlacesApart, BatchesApart
    <2>3. MapOnce'
      BY <1>9, OwnedAreRequests DEF MapOnce
    <2> QED
      BY <1>3, <1>4, <1>6, <1>9, <2>2, <2>3, OwnedAreRequests, FewerOwned
  <1> QED
    BY <1>6, <1>7, <1>8, <1>10 DEF OwnerInv

\* An answer takes the request of its id out of the map.
LEMMA ReadReplyStep ==
    ASSUME OwnerInv, NEW c \in Conn, ReadReply(c)
    PROVE  OwnerInv'
  <1>1. PICK f \in wire[c] :
        /\ wire' = [wire EXCEPT ![c] = @ \ {f}]
        /\ seqNum2Request' = [seqNum2Request EXCEPT ![f.seq] = Nil]
        /\ IF f.req = PING
           THEN hbAge' = 0 /\ UNCHANGED reqVars
           ELSE /\ Complete({seqNum2Request[f.seq]} \cap Request,
                            IF seqNum2Request[f.seq] = f.req
                            THEN "own" ELSE "other")
                /\ UNCHANGED hbAge
    BY DEF ReadReply
  <1>2. UNCHANGED <<rpc, batch, sock, out, hbpc, currentSeqId, sends, chanVars,
                    flagVars, writerVars, opc, panic>>
    BY DEF ReadReply
  <1> DEFINE S == {seqNum2Request[f.seq]} \cap Request
  <1>3. /\ f.seq \in SeqId /\ Nil \notin Registered /\ Nil \notin Request
        /\ seqNum2Request \in [SeqId -> Item \cup {Nil}]
    <2>1. wire \in [Conn -> SUBSET Frame] /\ seqNum2Request \in [SeqId -> Item \cup {Nil}]
      BY DEF OwnerInv, TypeOK, NetType, MapType
    <2>2. f.seq \in SeqId
      BY <2>1, SMTT(30) DEF Frame
    <2> QED
      BY <2>1, <2>2, OwnedAreRequests
  <1>4. /\ seqNum2Request' \in [SeqId -> Item \cup {Nil}]
        /\ Registered' \subseteq Registered \cup ({Nil} \cap Request)
        /\ seqNum2Request[f.seq] \in Request \ {Nil} =>
                seqNum2Request[f.seq] \notin Registered'
        /\ MapOnce'
    <2>1. MapOnce /\ Nil \in Item \cup {Nil}
      BY OwnedAreRequests
    <2> QED
      BY <1>1, <1>3, <2>1, EntryLemma
  <1>5. S \subseteq Registered /\ \A r \in S : wait[r] = 1
    <2>1. S \subseteq Registered
      BY <1>3 DEF Registered
    <2>2. HeldAwaited
      BY OwnerParts DEF OwnerInv
    <2> QED
      BY <2>1, <2>2 DEF HeldAwaited
  <1>6. /\ ReqType'
        /\ \A r \in Request : wait'[r] = wait[r] \/ (r \in S /\ wait'[r] = 0)
        /\ NotYetHandled'
    <2>1. CASE f.req = PING
      <3>1. UNCHANGED <<stage, wait, reqVars>>
        BY <1>1, <2>1 DEF reqVars
      <3> QED
        BY <3>1, TypesKept DEF OwnerInv, TypeOK, NotYetHandled
    <2>2. CASE f.req # PING
      <3> DEFINE how == IF seqNum2Request[f.seq] = f.req THEN "own" ELSE "other"
      <3>1. Complete(S, how) /\ how \in {"err", "own", "other"} /\ S \in SUBSET Request
        BY <1>1, <2>2
      <3>2. ReqType /\ NotYetHandled
        BY DEF OwnerInv, TypeOK
      <3> HIDE DEF S, how
      <3> QED
        BY <1>5, <3>1, <3>2, CompleteLemma
    <2> QED
      BY <2>1, <2>2
  <1>7. HbType' /\ MapType' /\ NetType'
    <2>1. HbType /\ MapType /\ NetType
      BY DEF OwnerInv, TypeOK
    <2>2. hbAge' \in {0, hbAge} /\ UNCHANGED <<hbpc, rpc, batch, sock, out, currentSeqId, sends>>
      BY <1>1, <1>2
    <2>3. HbType'
      BY <2>1, <2>2, Bounds, SMTT(30) DEF HbType
    <2>4. wire' \in [Conn -> SUBSET Frame]
      BY <1>1, <2>1 DEF NetType
    <2> QED
      BY <1>4, <2>1, <2>2, <2>3, <2>4 DEF MapType, NetType
  <1>8. TypeOK' /\ WriterOK'
    <2>1. ChanType' /\ FlagType' /\ WriterType' /\ WriterOK'
      BY <1>2, TypesKept, WriterKept DEF OwnerInv, TypeOK
    <2> QED
      BY <1>2, <1>6, <1>7, <2>1 DEF OwnerInv, TypeOK
  <1>9. /\ UNCHANGED <<input, batch, hand>> /\ Queued' = Queued
        /\ Registered' \subseteq Registered \ S
    <2>1. UNCHANGED <<input, batch, hand>> /\ Queued' = Queued
      BY <1>2 DEF chanVars, writerVars, Queued
    <2> QED
      BY <1>3, <1>4, <2>1
  <1> HIDE DEF S
  <1>10. OneOwner'
    <2>1. PlacesApart /\ BatchesApart
      BY OwnerParts DEF OwnerInv
    <2>2. \A r \in S : r \notin Queued /\ r # hand /\ \A d \in Conn : r \notin batch[d]
      BY <1>5, <2>1 DEF PlacesApart, BatchesApart
    <2>3. QueueOnce'
      BY <1>9, OwnedAreRequests DEF QueueOnce
    <2> QED
      BY <1>4, <1>6, <1>9, <2>2, <2>3, OwnedAreRequests, FewerOwned
  <1> QED
    BY <1>6, <1>8, <1>10 DEF OwnerInv

\* A reader takes all registered requests.
LEMMA SwapMapStep ==
    ASSUME OwnerInv, NEW c \in Conn, SwapMap(c)
    PROVE  OwnerInv'
  <1>1. /\ batch' = [batch EXCEPT ![c] = Registered]
        /\ seqNum2Request' = NoEntries
        /\ rpc' = [rpc EXCEPT ![c] = "flush"]
        /\ UNCHANGED <<sock, out, wire, currentSeqId, sends>>
        /\ UNCHANGED <<chanVars, flagVars, writerVars, hbVars, opc, reqVars, panic>>
    BY DEF SwapMap
  <1>2. /\ NetType' /\ MapType'
        /\ \A s \in SeqId : seqNum2Request'[s] = Nil
        /\ \A d \in Conn : batch'[d] = IF d = c THEN Registered ELSE batch[d]
    <2>1. NetType /\ MapType /\ Registered \in SUBSET Request
      BY OwnedAreRequests DEF OwnerInv, TypeOK
    <2>2. NetType' /\ \A d \in Conn : batch'[d] = IF d = c THEN Registered ELSE batch[d]
      BY <1>1, <2>1 DEF NetType
    <2> QED
      BY <1>1, <2>1, <2>2 DEF MapType, NoEntries
  <1>3. TypeOK' /\ WriterOK'
    <2>1. ChanType' /\ FlagType' /\ WriterType' /\ HbType' /\ ReqType' /\ WriterOK'
      BY <1>1, TypesKept, WriterKept DEF OwnerInv, TypeOK
    <2> QED
      BY <1>1, <1>2, <2>1 DEF OwnerInv, TypeOK
  <1>4. Registered' = {} /\ Queued' = Queued /\ UNCHANGED <<input, hand, wait, stage>>
    <2>1. Registered' = {}
      BY <1>2, Distinct DEF Registered
    <2> QED
      BY <1>1, <2>1 DEF chanVars, writerVars, reqVars, Queued
  <1>5. NotYetHandled'
    BY <1>4 DEF OwnerInv, NotYetHandled
  <1>6. OneOwner'
    <2>1. QueueOnce /\ MapOnce /\ BatchesApart /\ PlacesApart /\ HeldAwaited /\ WaitOnce
      BY OwnerParts DEF OwnerInv
    <2>2. BatchesApart'
      BY <1>2, <1>4, <2>1 DEF BatchesApart, PlacesApart
    <2>3. PlacesApart'
      BY <1>4, <2>1 DEF PlacesApart
    <2>4. HeldAwaited'
      BY <1>2, <1>4, <2>1 DEF HeldAwaited
    <2>5. QueueOnce' /\ WaitOnce'
      BY <1>4, <2>1 DEF QueueOnce, WaitOnce
    <2>6. MapOnce'
      BY <1>2, Distinct DEF MapOnce
    <2> QED
      BY <2>2, <2>3, <2>4, <2>5, <2>6, OwnerPartsNext
  <1> QED
    BY <1>3, <1>5, <1>6 DEF OwnerInv

\* ... and answers those it took.
LEMMA FlushBatchStep ==
    ASSUME OwnerInv, NEW c \in Conn, FlushBatch(c)
    PROVE  OwnerInv'
  <1>1. /\ Complete(batch[c], "err")
        /\ batch' = [batch EXCEPT ![c] = {}]
        /\ rpc' = [rpc EXCEPT ![c] = "off"]
        /\ sock' = [sock EXCEPT ![c] = "closed"]
        /\ wire' = [wire EXCEPT ![c] = {}]
        /\ UNCHANGED out
        /\ UNCHANGED <<chanVars, mapVars, flagVars, writerVars, hbVars, opc, panic>>
    BY DEF FlushBatch
  <1>2. batch[c] \in SUBSET Request /\ \A r \in batch[c] : wait[r] = 1
    <2>1. NetType /\ HeldAwaited
      BY OwnerParts DEF OwnerInv, TypeOK
    <2> QED
      BY <2>1 DEF NetType, HeldAwaited
  <1>3. /\ ReqType'
        /\ \A r \in Request : wait'[r] = IF r \in batch[c] THEN 0 ELSE wait[r]
        /\ NotYetHandled'
    <2>1. ReqType /\ NotYetHandled
      BY DEF OwnerInv, TypeOK
    <2> QED
      BY <1>1, <1>2, <2>1, CompleteLemma
  <1>4. NetType' /\ \A d \in Conn : batch'[d] = IF d = c THEN {} ELSE batch[d]
    <2>1. NetType
      BY DEF OwnerInv, TypeOK
    <2> QED
      BY <1>1, <2>1 DEF NetType
  <1>5. TypeOK' /\ WriterOK'
    BY <1>1, <1>3, <1>4, TypesKept, WriterKept DEF OwnerInv, TypeOK
  <1>6. /\ UNCHANGED <<input, hand, seqNum2Request>>
        /\ Registered' = Registered /\ Queued' = Queued
    BY <1>1 DEF chanVars, mapVars, writerVars, Registered, Queued
  <1>7. OneOwner'
    <2>1. BatchesApart
      BY OwnerParts DEF OwnerInv
    <2>2. \A r \in batch[c] : /\ r \notin Queued /\ r \notin Registered /\ r # hand
                            /\ \A d \in Conn \ {c} : r \notin batch[d]
      BY <2>1 DEF BatchesApart
    <2>3. QueueOnce' /\ MapOnce'
      BY <1>6, OwnedAreRequests DEF QueueOnce, MapOnce
    <2> QED
      BY <1>3, <1>4, <1>6, <2>2, <2>3, OwnedAreRequests, FewerOwned
  <1> QED
    BY <1>3, <1>5, <1>7 DEF OwnerInv

\* Every step preserves the types and the ownership of requests.
LEMMA NextOwnerInv == OwnerInv /\ [Next]_vars => OwnerInv'
  <1> SUFFICES ASSUME OwnerInv, [Next]_vars PROVE OwnerInv'
    OBVIOUS
  <1>1. ASSUME NEW r \in Request, Session(r)
        PROVE  OwnerInv'
    BY <1>1, QuietStep, PushBackStep DEF Session, Quiet
  <1>2. ASSUME NEW t \in Thread, Marking(t)
        PROVE  OwnerInv'
    BY <1>2, QuietStep DEF Marking, Quiet
  <1>3. ASSUME NEW o \in Offliner, Offlining(o)
        PROVE  OwnerInv'
    BY <1>3, QuietStep DEF Quiet
  <1>4. CASE Writing
    BY <1>4, QuietStep, TakeInputStep, DropStalePingStep, WriteFrameStep,
       WriteFailsStep, RegisterStep, DrainOneStep DEF Writing, Quiet
  <1>5. ASSUME NEW c \in Conn, Reading(c) \/ Break(c)
        PROVE  OwnerInv'
    BY <1>5, QuietStep, ReadReplyStep, SwapMapStep, FlushBatchStep DEF Reading, Quiet
  <1>6. CASE Heartbeat \/ Elapse
    BY <1>6, QuietStep, HbPushStep DEF Heartbeat, Quiet
  <1>7. CASE UNCHANGED vars
    <2>1. UNCHANGED <<chanVars, mapVars, flagVars, writerVars, netVars, hbVars, opc,
                      reqVars, panic>>
      BY <1>7 DEF vars
    <2>2. TypeOK' /\ WriterOK'
      BY <2>1, TypesKept, WriterKept DEF OwnerInv, TypeOK
    <2>3. UNCHANGED <<input, seqNum2Request, batch, hand, wait, stage>>
      BY <2>1 DEF chanVars, mapVars, writerVars, netVars, reqVars
    <2>4. NotYetHandled' /\ OneOwner'
      BY <2>3, OwnerUnchanged DEF OwnerInv, NotYetHandled
    <2> QED
      BY <2>2, <2>4 DEF OwnerInv
  <1> QED
    BY <1>1, <1>2, <1>3, <1>4, <1>5, <1>6, <1>7 DEF Next

\* No request is anywhere when the connection is created.
LEMMA InitOwnerInv == Init => OwnerInv
  <1> SUFFICES ASSUME Init PROVE OwnerInv
    OBVIOUS
  <1>1. TypeOK /\ WriterOK
    BY InitTypeOK
  <1>2. NotYetHandled /\ \A r \in Request : wait[r] = 0
    BY DEF Init, NotYetHandled
  <1>3. /\ input = <<>> /\ hand = Nil /\ \A c \in Conn : batch[c] = {}
        /\ \A s \in SeqId : seqNum2Request[s] = Nil
    BY DEF Init, NoEntries
  <1>4. Queued = {} /\ Registered = {}
    BY <1>3, ConstantsAssumption, SMTT(30) DEF Queued, Registered
  <1>5. OneOwner
    BY <1>2, <1>3, <1>4, ConstantsAssumption, SMTT(30) DEF OneOwner
  <1> QED
    BY <1>1, <1>2, <1>5 DEF OwnerInv

-----------------------------------------------------------------------------
(* The theorems about ownership.                                           *)

\* The invariant holds of every behaviour of the connection.
THEOREM OwnerInvariant == Spec => []OwnerInv
  BY InitOwnerInv, NextOwnerInv, PTL DEF Spec

\* The variables of the connection keep their types.
THEOREM ConnTypeCorrect == Spec => []TypeOK
  <1>1. OwnerInv => TypeOK
    BY DEF OwnerInv
  <1> QED
    BY <1>1, OwnerInvariant, PTL

\* Whatever sockets fail and whoever marks the connection offline, a request
\* is held in one place and Wait.Done is called at most once for it.
THEOREM OneOwnerCorrect == Spec => []OneOwner
  <1>1. OwnerInv => OneOwner
    BY DEF OwnerInv
  <1> QED
    BY <1>1, OwnerInvariant, PTL

=============================================================================
