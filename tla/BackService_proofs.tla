------------------------- MODULE BackService_proofs -------------------------
(* Proofs about the pool of a service, for any connections, callers and    *)
(* offliners, and about the watcher and Stop, for any addresses.           *)
EXTENDS BackService, TLAPS

\* Zenon tries a leaf first; the leaves that need SMT cite it.
USE ZenonT(30), SMTT(30)


-----------------------------------------------------------------------------
(* The inductive invariant.                                                *)

\* A goroutine in MarkOffline reports on its target only, and only after it
\* has set IsMarkOffline.
OfflineMarksTarget ==
    \A o \in Offliner, c \in ConnId :
        opc[o] # "close" \/ target[o] # c => marking[c][o] = "idle"

\* Only a connection whose loopWriter runs stays active; Run clears the flag
\* before it goes on, and has reported that when it connects again or ends.
ActiveWhileUp ==
    \A c \in ConnId :
        /\ life[c] # "up" /\ IsConnActive[c] => marking[c][Writer] = "set"
        /\ life[c] \in {"none", "connect", "end"} => marking[c][Writer] = "idle"

PoolInv ==
    /\ PoolTypeOK
    /\ IndexInv
    /\ PooledWhenQuiet
    /\ OfflineMarksTarget
    /\ ActiveWhileUp

-----------------------------------------------------------------------------
(* The two branches of StateChanged.                                       *)

\* Appending a connection whose Index is invalid keeps activeConns and the back
\* pointers in agreement, and puts it in the pool.
LEMMA AddConnLemma ==
    ASSUME PoolTypeOK, IndexInv, NEW c \in ConnId, AddConn(c)
    PROVE  /\ activeConns' \in Seq(ConnId)
           /\ Index' \in [ConnId -> Int]
           /\ served' \subseteq ConnId
           /\ IndexInv'
           /\ Pooled' = Pooled \cup {c}
  <1>1. CASE Index[c] = INVALID_ARRAY_INDEX
    <2>1. /\ Index' = [Index EXCEPT ![c] = Len(activeConns)]
          /\ activeConns' = Append(activeConns, c)
          /\ served' = {}
      BY <1>1 DEF AddConn
    <2>2. /\ activeConns' \in Seq(ConnId)
          /\ Len(activeConns') = Len(activeConns) + 1
          /\ DOMAIN activeConns' = 1 .. Len(activeConns) + 1
          /\ DOMAIN activeConns = 1 .. Len(activeConns)
          /\ Len(activeConns) \in Nat
          /\ \A i \in 1 .. Len(activeConns) : activeConns'[i] = activeConns[i]
          /\ activeConns'[Len(activeConns) + 1] = c
      BY <2>1, SMTT(30) DEF PoolTypeOK
    <2>3. Index' \in [ConnId -> Int]
      BY <2>1, <2>2, SMTT(30) DEF PoolTypeOK
    <2>4. ASSUME NEW i \in 1 .. Len(activeConns)
          PROVE  activeConns[i] # c /\ activeConns[i] \in ConnId
      <3>1. activeConns[i] \in ConnId
        BY SMTT(30) DEF PoolTypeOK
      <3>2. Index[activeConns[i]] = i - 1
        BY <2>2 DEF IndexInv
      <3> QED
        BY <1>1, <2>2, <3>1, <3>2, SMTT(30) DEF INVALID_ARRAY_INDEX
    <2>5. \A i \in DOMAIN activeConns' : Index'[activeConns'[i]] = i - 1
      BY <2>1, <2>2, <2>4, SMTT(30) DEF PoolTypeOK, IndexInv
    <2>6. \A d \in ConnId : Index'[d] # INVALID_ARRAY_INDEX =>
              Index'[d] + 1 \in DOMAIN activeConns' /\ activeConns'[Index'[d] + 1] = d
      BY <2>1, <2>2, <2>4, SMTT(30) DEF PoolTypeOK, IndexInv, INVALID_ARRAY_INDEX
    <2>7. Pooled' = Pooled \cup {c}
      BY <2>2, SMTT(30) DEF Pooled
    <2> QED
      BY <2>1, <2>2, <2>3, <2>5, <2>6, <2>7 DEF IndexInv
  <1>2. CASE Index[c] # INVALID_ARRAY_INDEX
    <2>1. UNCHANGED <<Index, activeConns, served>>
      BY <1>2 DEF AddConn
    <2>2. c \in Pooled
      BY <1>2 DEF IndexInv, Pooled
    <2> QED
      BY <2>1, <2>2, SMTT(30) DEF PoolTypeOK, IndexInv, Pooled
  <1> QED
    BY <1>1, <1>2

\* Removing a connection by moving the last element to its place does too, and
\* takes it, and nothing else, out of the pool.
LEMMA RemoveConnLemma ==
    ASSUME PoolTypeOK, IndexInv, NEW c \in ConnId, RemoveConn(c)
    PROVE  /\ activeConns' \in Seq(ConnId)
           /\ Index' \in [ConnId -> Int]
           /\ served' \subseteq ConnId
           /\ IndexInv'
           /\ Pooled' = Pooled \ {c}
  <1>1. CASE Index[c] # INVALID_ARRAY_INDEX
    <2> DEFINE n == Len(activeConns)
               k == Index[c] + 1
               lastConn == activeConns[n]
    <2>1. /\ n \in Nat /\ DOMAIN activeConns = 1 .. n
          /\ k \in 1 .. n /\ activeConns[k] = c
          /\ \A i \in 1 .. n : activeConns[i] \in ConnId
          /\ \A i \in 1 .. n : Index[activeConns[i]] = i - 1
      BY <1>1, SMTT(30) DEF PoolTypeOK, IndexInv
    <2>2. /\ Index' = [Index EXCEPT ![lastConn] = Index[c],
                                    ![c] = INVALID_ARRAY_INDEX]
          /\ activeConns' = [i \in 1 .. n - 1 |->
                                IF i = k THEN lastConn ELSE activeConns[i]]
          /\ served' = {}
      BY <1>1, <2>1, SMTT(30) DEF RemoveConn
    <2> lastConn \in ConnId /\ n # 0
      BY <2>1, SMTT(30)
    <2>3. \A i, j \in 1 .. n : activeConns[i] = activeConns[j] => i = j
      BY <2>1, SMTT(30)
    <2> HIDE DEF n, k, lastConn
    <2>4. activeConns' \in Seq(ConnId) /\ DOMAIN activeConns' = 1 .. n - 1
      BY <2>1, <2>2, SMTT(30)
    <2>5. Index' \in [ConnId -> Int]
      BY <2>2, SMTT(30) DEF PoolTypeOK, INVALID_ARRAY_INDEX
    <2>6. ASSUME NEW i \in DOMAIN activeConns'
          PROVE  Index'[activeConns'[i]] = i - 1
      BY <2>1, <2>2, <2>3, <2>4, SMTT(30) DEF PoolTypeOK, n, k, lastConn
    <2>7. ASSUME NEW d \in ConnId, Index'[d] # INVALID_ARRAY_INDEX
          PROVE  Index'[d] + 1 \in DOMAIN activeConns' /\ activeConns'[Index'[d] + 1] = d
      BY <2>1, <2>2, <2>3, <2>4, <2>7, SMTT(30)
         DEF PoolTypeOK, IndexInv, INVALID_ARRAY_INDEX, n, k, lastConn
    <2>8. Pooled' = Pooled \ {c}
      <3>1. ASSUME NEW i \in DOMAIN activeConns'
            PROVE  activeConns'[i] \in Pooled \ {c}
        BY <2>1, <2>2, <2>3, <2>4, SMTT(30) DEF Pooled, lastConn
      <3>2. ASSUME NEW i \in 1 .. n, activeConns[i] # c
            PROVE  \E j \in DOMAIN activeConns' : activeConns'[j] = activeConns[i]
        <4>1. CASE i = n
          BY <2>1, <2>2, <2>4, <3>2, <4>1, SMTT(30) DEF lastConn
        <4>2. CASE i # n
          BY <2>1, <2>2, <2>4, <3>2, <4>2, SMTT(30)
        <4> QED
          BY <4>1, <4>2
      <3> QED
        BY <2>1, <3>1, <3>2, SMTT(30) DEF Pooled
    <2> QED
      BY <2>2, <2>4, <2>5, <2>6, <2>7, <2>8 DEF IndexInv
  <1>2. CASE Index[c] = INVALID_ARRAY_INDEX
    <2>1. UNCHANGED <<Index, activeConns, served>>
      BY <1>2 DEF RemoveConn
    <2>2. c \notin Pooled
      BY <1>2, SMTT(30) DEF IndexInv, Pooled, PoolTypeOK, INVALID_ARRAY_INDEX
    <2> QED
      BY <2>1, <2>2, SMTT(30) DEF PoolTypeOK, IndexInv, Pooled
  <1> QED
    BY <1>1, <1>2

-----------------------------------------------------------------------------
(* Initially, and after every step.                                        *)

\* The invariant holds when the pool is created empty.
LEMMA InitPoolInv == PoolInit => PoolInv
  <1> SUFFICES ASSUME PoolInit PROVE PoolInv
    OBVIOUS
  <1> USE DEF PoolInit, INVALID_ARRAY_INDEX
  <1>1. PoolTypeOK
    BY SMTT(30) DEF PoolTypeOK
  <1>2. IndexInv
    BY SMTT(30) DEF IndexInv
  <1>3. PooledWhenQuiet
    BY SMTT(30) DEF PooledWhenQuiet, Pooled
  <1>4. OfflineMarksTarget
    BY DEF OfflineMarksTarget, Caller
  <1>5. ActiveWhileUp
    BY PoolAssumption DEF ActiveWhileUp, Caller
  <1> QED
    BY <1>1, <1>2, <1>3, <1>4, <1>5 DEF PoolInv

\* A step that leaves the list alone keeps what only the list decides.
LEMMA ListUnchanged ==
    ASSUME UNCHANGED listVars
    PROVE  /\ IndexInv => IndexInv'
           /\ Pooled' = Pooled
           /\ activeConns' = activeConns /\ Index' = Index
           /\ currentConnIndex' = currentConnIndex /\ served' = served
  BY DEF listVars, IndexInv, Pooled

\* NextBackendConn moves the cursor only.
LEMMA NextBackendConnStep == PoolInv /\ NextBackendConn => PoolInv'
  <1> SUFFICES ASSUME PoolInv, NextBackendConn PROVE PoolInv'
    OBVIOUS
  <1> USE DEF NextBackendConn, PoolInv, connVars, offVars
  <1>1. Cursor + 1 \in Nat /\ Chosen \in ConnId
    <2>1. Len(activeConns) \in Nat \ {0} /\ Cursor \in 0 .. Len(activeConns) - 1
      BY SMTT(30) DEF PoolTypeOK, Cursor
    <2> QED
      BY <2>1, SMTT(30) DEF PoolTypeOK, Chosen
  <1>2. PoolTypeOK'
    BY <1>1 DEF PoolTypeOK
  <1>3. IndexInv' /\ Pooled' = Pooled
    BY DEF IndexInv, Pooled
  <1>4. PooledWhenQuiet' /\ OfflineMarksTarget' /\ ActiveWhileUp'
    BY <1>3 DEF PooledWhenQuiet, OfflineMarksTarget, ActiveWhileUp
  <1> QED
    BY <1>2, <1>3, <1>4

\* After StateChanged the pool holds the connection exactly if it is active.
LEMMA StateChangedStep ==
    ASSUME PoolInv, NEW c \in ConnId, NEW w \in Caller, StateChanged(c, w)
    PROVE  PoolInv'
  <1> USE DEF StateChanged, PoolInv, offVars
  <1>1. /\ activeConns' \in Seq(ConnId)
        /\ Index' \in [ConnId -> Int]
        /\ served' \subseteq ConnId
        /\ IndexInv'
        /\ Pooled' = IF IsConnActive[c] THEN Pooled \cup {c} ELSE Pooled \ {c}
    <2>1. CASE IsConnActive[c]
      BY <2>1, AddConnLemma
    <2>2. CASE ~IsConnActive[c]
      BY <2>2, RemoveConnLemma
    <2> QED
      BY <2>1, <2>2
  <1>2. marking' \in [ConnId -> [Caller -> {"idle", "set", "notify"}]]
    BY DEF PoolTypeOK
  <1>3. PoolTypeOK'
    BY <1>1, <1>2 DEF PoolTypeOK
  <1>4. \A d \in ConnId, v \in Caller :
            marking'[d][v] = IF d = c /\ v = w THEN "idle" ELSE marking[d][v]
    BY DEF PoolTypeOK
  <1>5. PooledWhenQuiet'
    BY <1>1, <1>4, SMTT(30) DEF PooledWhenQuiet, PoolTypeOK
  <1>6. OfflineMarksTarget'
    BY <1>4, SMTT(30) DEF OfflineMarksTarget, Caller
  <1>7. ActiveWhileUp'
    BY <1>4, PoolAssumption, SMTT(30) DEF ActiveWhileUp, Caller
  <1> QED
    BY <1>1, <1>3, <1>5, <1>6, <1>7

\* A goroutine stores false to IsConnActive and is then about to report it.
LEMMA SetInactiveStep ==
    ASSUME PoolInv, NEW c \in ConnId, NEW w \in Caller, SetInactive(c, w)
    PROVE  PoolInv'
  <1> USE DEF SetInactive, PoolInv, offVars
  <1>1. PoolTypeOK'
    BY DEF PoolTypeOK, listVars
  <1>2. IndexInv' /\ Pooled' = Pooled
    BY ListUnchanged
  <1>3. \A d \in ConnId, v \in Caller :
            marking'[d][v] = IF d = c /\ v = w THEN "notify" ELSE marking[d][v]
    BY DEF PoolTypeOK
  <1>4. PooledWhenQuiet'
    BY <1>2, <1>3, SMTT(30) DEF PooledWhenQuiet, PoolTypeOK
  <1>5. OfflineMarksTarget'
    BY <1>3, SMTT(30) DEF OfflineMarksTarget, Caller
  <1>6. ActiveWhileUp'
    BY <1>3, PoolAssumption, SMTT(30) DEF ActiveWhileUp, Caller, PoolTypeOK
  <1> QED
    BY <1>1, <1>2, <1>4, <1>5, <1>6

\* A connection that comes up, goes down, reconnects or ends, and its readers.
LEMMA ConnLifeStep ==
    ASSUME PoolInv, NEW c \in ConnId, ConnLife(c)
    PROVE  PoolInv'
  <1> USE DEF PoolInv, offVars
  <1> USE PoolAssumption
  <1>1. CASE ConnUp(c)
    <2> USE <1>1 DEF ConnUp
    <2>1. PoolTypeOK'
      BY DEF PoolTypeOK, listVars
    <2>2. IndexInv' /\ Pooled' = Pooled
      BY ListUnchanged
    <2>3. \A d \in ConnId, v \in Caller :
              marking'[d][v] = IF d = c /\ v = Writer THEN "notify" ELSE marking[d][v]
      BY DEF PoolTypeOK, Caller
    <2>4. PooledWhenQuiet'
      BY <2>2, <2>3, SMTT(30) DEF PooledWhenQuiet, PoolTypeOK, Caller
    <2>5. OfflineMarksTarget'
      BY <2>3, SMTT(30) DEF OfflineMarksTarget, Caller
    <2>6. ActiveWhileUp'
      BY <2>3 DEF ActiveWhileUp, Caller, PoolTypeOK
    <2> QED
      BY <2>1, <2>2, <2>4, <2>5, <2>6
  <1>2. CASE ConnDown(c)
    <2> USE <1>2 DEF ConnDown, MarkConnActiveFalse
    <2>1. PoolTypeOK'
      BY DEF PoolTypeOK, listVars
    <2>2. IndexInv' /\ Pooled' = Pooled
      BY ListUnchanged
    <2>3. \A d \in ConnId, v \in Caller :
              marking'[d][v] = IF d = c /\ v = Writer
                               THEN IF IsConnActive[c] THEN "set" ELSE "idle"
                               ELSE marking[d][v]
      BY DEF PoolTypeOK, Caller
    <2>4. PooledWhenQuiet'
      BY <2>2, <2>3, SMTT(30) DEF PooledWhenQuiet, PoolTypeOK, Caller
    <2>5. OfflineMarksTarget'
      BY <2>3, SMTT(30) DEF OfflineMarksTarget, Caller
    <2>6. ActiveWhileUp'
      BY <2>3, SMTT(30) DEF ActiveWhileUp, Caller, PoolTypeOK
    <2> QED
      BY <2>1, <2>2, <2>4, <2>5, <2>6
  <1>3. CASE RunLoop(c) \/ ConnFails(c)
    <2> USE <1>3 DEF RunLoop, ConnFails
    <2>1. PoolTypeOK'
      BY DEF PoolTypeOK, listVars
    <2>2. IndexInv' /\ Pooled' = Pooled
      BY ListUnchanged
    <2>3. PooledWhenQuiet' /\ OfflineMarksTarget'
      BY <2>2, SMTT(30) DEF PooledWhenQuiet, OfflineMarksTarget
    <2>4. ActiveWhileUp'
      BY SMTT(30) DEF ActiveWhileUp, PoolTypeOK
    <2> QED
      BY <2>1, <2>2, <2>3, <2>4
  <1>4. ASSUME NEW w \in ConnCaller \ {Writer}, ReaderDown(c, w)
        PROVE  PoolInv'
    <2> USE <1>4 DEF ReaderDown, MarkConnActiveFalse
    <2>1. PoolTypeOK'
      BY DEF PoolTypeOK, listVars
    <2>2. IndexInv' /\ Pooled' = Pooled
      BY ListUnchanged
    <2>3. \A d \in ConnId, v \in Caller :
              marking'[d][v] = IF d = c /\ v = w THEN "set" ELSE marking[d][v]
      BY SMTT(30) DEF PoolTypeOK, Caller
    <2>4. PooledWhenQuiet'
      BY <2>2, <2>3, SMTT(30) DEF PooledWhenQuiet, PoolTypeOK, Caller
    <2>5. OfflineMarksTarget'
      BY <2>3, SMTT(30) DEF OfflineMarksTarget, Caller
    <2>6. ActiveWhileUp'
      BY <2>3, SMTT(30) DEF ActiveWhileUp, Caller, PoolTypeOK
    <2> QED
      BY <2>1, <2>2, <2>4, <2>5, <2>6
  <1> QED
    BY <1>1, <1>2, <1>3, <1>4 DEF ConnLife

\* The watcher creates a connection.
LEMMA NewConnStep ==
    ASSUME PoolInv, NEW c \in ConnId, NewConn(c)
    PROVE  PoolInv'
  <1> USE PoolAssumption DEF NewConn, PoolInv, offVars
  <1>1. PoolTypeOK'
    BY DEF PoolTypeOK, listVars
  <1>2. IndexInv' /\ Pooled' = Pooled
    BY ListUnchanged
  <1>3. PooledWhenQuiet' /\ OfflineMarksTarget'
    BY <1>2 DEF PooledWhenQuiet, OfflineMarksTarget
  <1>4. ActiveWhileUp'
    BY DEF ActiveWhileUp, PoolTypeOK, Free, Caller
  <1> QED
    BY <1>1, <1>2, <1>3, <1>4

\* MarkOffline, whose MarkConnActiveFalse overwrites no pending report.
LEMMA OfflineStep ==
    ASSUME PoolInv, NEW o \in Offliner,
           Offlining(o) \/ \E c \in ConnId : OfflineCheck(o, c)
    PROVE  PoolInv'
  <1> USE PoolAssumption DEF PoolInv, offVars, connVars
  <1>1. ASSUME NEW c \in ConnId, OfflineCheck(o, c)
        PROVE  PoolInv'
    <2> USE <1>1 DEF OfflineCheck
    <2>1. PoolTypeOK'
      <3>1. CASE IsMarkOffline[c]
        BY <3>1 DEF PoolTypeOK, listVars
      <3>2. CASE ~IsMarkOffline[c]
        <4>1. /\ target' = [target EXCEPT ![o] = c]
              /\ opc' = [opc EXCEPT ![o] = "set"]
          BY <3>2
        <4>2. /\ target' \in [Offliner -> ConnId \cup {None}]
              /\ opc' \in [Offliner -> {"idle", "set", "mark", "close"}]
          BY <4>1 DEF PoolTypeOK
        <4>3. \A p \in Offliner : opc'[p] # "idle" => target'[p] \in ConnId
          BY <4>1 DEF PoolTypeOK
        <4> QED
          BY <4>2, <4>3 DEF PoolTypeOK, listVars
      <3> QED
        BY <3>1, <3>2
    <2>2. IndexInv' /\ Pooled' = Pooled
      BY ListUnchanged
    <2>3. PooledWhenQuiet' /\ ActiveWhileUp'
      BY <2>2 DEF PooledWhenQuiet, ActiveWhileUp
    <2>4. OfflineMarksTarget'
      BY SMTT(30) DEF OfflineMarksTarget, PoolTypeOK
    <2> QED
      BY <2>1, <2>2, <2>3, <2>4
  <1>2. CASE OfflineSet(o)
    <2> USE <1>2 DEF OfflineSet
    <2>1. PoolTypeOK'
      BY DEF PoolTypeOK, listVars
    <2>2. IndexInv' /\ Pooled' = Pooled
      BY ListUnchanged
    <2>3. PooledWhenQuiet' /\ ActiveWhileUp'
      BY <2>2 DEF PooledWhenQuiet, ActiveWhileUp
    <2>4. OfflineMarksTarget'
      BY DEF OfflineMarksTarget, PoolTypeOK
    <2> QED
      BY <2>1, <2>2, <2>3, <2>4
  <1>3. CASE OfflineMark(o)
    <2> USE <1>3 DEF OfflineMark, MarkConnActiveFalse
    <2> DEFINE c == target[o]
    <2>1. c \in ConnId /\ o \in Caller /\ o # Writer
      BY DEF PoolTypeOK, Caller
    <2>2. \A d \in ConnId, v \in Caller :
              marking'[d][v] = IF d = c /\ v = o
                               THEN IF IsConnActive[c] THEN "set" ELSE "idle"
                               ELSE marking[d][v]
      BY <2>1 DEF PoolTypeOK
    <2>3. PoolTypeOK'
      BY <2>1 DEF PoolTypeOK, listVars
    <2>4. IndexInv' /\ Pooled' = Pooled
      BY ListUnchanged
    <2>5. marking[c][o] = "idle"
      BY <2>1 DEF OfflineMarksTarget
    <2>6. PooledWhenQuiet'
      BY <2>1, <2>2, <2>4, <2>5, SMTT(30) DEF PooledWhenQuiet
    <2>7. OfflineMarksTarget'
      BY <2>1, <2>2, SMTT(30) DEF OfflineMarksTarget, PoolTypeOK, Caller
    <2>8. ActiveWhileUp'
      BY <2>1, <2>2, SMTT(30) DEF ActiveWhileUp, Caller
    <2> QED
      BY <2>3, <2>4, <2>6, <2>7, <2>8
  <1>4. CASE OfflineClose(o)
    <2> USE <1>4 DEF OfflineClose
    <2>1. PoolTypeOK'
      BY DEF PoolTypeOK, listVars
    <2>2. IndexInv' /\ Pooled' = Pooled
      BY ListUnchanged
    <2>3. PooledWhenQuiet' /\ ActiveWhileUp'
      BY <2>2 DEF PooledWhenQuiet, ActiveWhileUp
    <2>4. OfflineMarksTarget'
      BY DEF OfflineMarksTarget, PoolTypeOK
    <2> QED
      BY <2>1, <2>2, <2>3, <2>4
  <1> QED
    BY <1>1, <1>2, <1>3, <1>4 DEF Offlining

\* Every step of the pool preserves the invariant.
LEMMA NextPoolInv == PoolInv /\ [PoolNext]_poolVars => PoolInv'
  <1> SUFFICES ASSUME PoolInv, [PoolNext]_poolVars PROVE PoolInv'
    OBVIOUS
  <1>1. CASE NextBackendConn
    BY <1>1, NextBackendConnStep
  <1>2. CASE FirstPanics
    <2> USE <1>2 DEF FirstPanics, PoolInv, connVars, offVars
    <2>1. PoolTypeOK'
      BY DEF PoolTypeOK, listVars
    <2>2. IndexInv' /\ Pooled' = Pooled
      BY ListUnchanged
    <2> QED
      BY <2>1, <2>2 DEF PooledWhenQuiet, OfflineMarksTarget, ActiveWhileUp
  <1>3. ASSUME NEW c \in ConnId, Marking(c)
        PROVE  PoolInv'
    BY <1>3, SetInactiveStep, StateChangedStep DEF Marking
  <1>4. ASSUME NEW c \in ConnId, ConnLife(c)
        PROVE  PoolInv'
    BY <1>4, ConnLifeStep
  <1>5. ASSUME NEW c \in ConnId, NewConn(c)
        PROVE  PoolInv'
    BY <1>5, NewConnStep
  <1>6. ASSUME NEW o \in Offliner,
               Offlining(o) \/ \E c \in ConnId : OfflineCheck(o, c)
        PROVE  PoolInv'
    BY <1>6, OfflineStep
  <1>7. CASE UNCHANGED poolVars
    <2> USE <1>7 DEF poolVars, PoolInv, connVars, offVars
    <2>1. PoolTypeOK'
      BY DEF PoolTypeOK, listVars
    <2>2. IndexInv' /\ Pooled' = Pooled
      BY ListUnchanged
    <2> QED
      BY <2>1, <2>2 DEF PooledWhenQuiet, OfflineMarksTarget, ActiveWhileUp
  <1> QED
    BY <1>1, <1>2, <1>3, <1>4, <1>5, <1>6, <1>7 DEF PoolNext

-----------------------------------------------------------------------------
(* The theorems.                                                           *)

\* The invariant holds of every behaviour of the pool.
THEOREM PoolInvariant == PoolSpec => []PoolInv
  BY InitPoolInv, NextPoolInv, PTL DEF PoolSpec

\* The variables of the pool keep their types.
THEOREM PoolTypeCorrect == PoolSpec => []PoolTypeOK
  <1>1. PoolInv => PoolTypeOK
    BY DEF PoolInv
  <1> QED
    BY <1>1, PoolInvariant, PTL

\* However many goroutines call StateChanged for however many connections, in
\* whatever order, activeConns and the Index fields agree.
THEOREM IndexCorrect == PoolSpec => []IndexInv
  <1>1. PoolInv => IndexInv
    BY DEF PoolInv
  <1> QED
    BY <1>1, PoolInvariant, PTL

\* The pool holds exactly the active connections whenever nobody is about to
\* report a change.
THEOREM PooledCorrect == PoolSpec => []PooledWhenQuiet
  <1>1. PoolInv => PooledWhenQuiet
    BY DEF PoolInv
  <1> QED
    BY <1>1, PoolInvariant, PTL

\* A connection whose Run has returned leaves the pool.
THEOREM EndedCorrect == PoolSpec => []EndedNotPooled
  <1>1. PoolInv => EndedNotPooled
    BY PoolAssumption
       DEF PoolInv, EndedNotPooled, PooledWhenQuiet, ActiveWhileUp, PoolTypeOK, Caller
  <1> QED
    BY <1>1, PoolInvariant, PTL

-----------------------------------------------------------------------------
(* Round robin.                                                            *)

\* The k positions of activeConns that NextBackendConn served last, the cursor
\* going round.
Behind(k) ==
    {i \in 1 .. Len(activeConns) :
        \/ i <= Cursor /\ Cursor - i < k
        \/ i > Cursor /\ Cursor + Len(activeConns) - i < k}

\* What was served since the pool changed is what lies behind the cursor.
ServedBehind ==
    activeConns # <<>> =>
        \E k \in 0 .. Len(activeConns) - 1 :
            served = {activeConns[i] : i \in Behind(k)}

\* Nothing was served since a change of the pool.
LEMMA NothingServed ==
    ASSUME PoolTypeOK', served' = {}
    PROVE  ServedBehind'
  <1> SUFFICES ASSUME activeConns' # <<>>
               PROVE  \E k \in 0 .. Len(activeConns') - 1 :
                          served' = {activeConns'[i] : i \in Behind(k)'}
    BY DEF ServedBehind
  <1>1. Len(activeConns') \in Nat \ {0} /\ Cursor' \in 0 .. Len(activeConns') - 1
    BY SMTT(30) DEF PoolTypeOK, Cursor
  <1>2. Behind(0)' = {}
    BY <1>1, SMTT(30) DEF Behind
  <1> QED
    BY <1>1, <1>2, SMTT(30)

\* NextBackendConn adds the position of its cursor to those behind it.
LEMMA ServedBehindNext ==
    ASSUME PoolInv, ServedBehind, NextBackendConn
    PROVE  ServedBehind'
  <1> DEFINE n == Len(activeConns)
  <1> USE DEF NextBackendConn
  <1>1. /\ n \in Nat \ {0} /\ Cursor \in 0 .. n - 1
        /\ n' = n /\ Pooled' = Pooled
        /\ Cursor' = IF Cursor + 1 >= n THEN 0 ELSE Cursor + 1
    BY SMTT(30) DEF PoolInv, PoolTypeOK, Cursor, Pooled
  <1>2. PoolTypeOK'
    BY NextBackendConnStep DEF PoolInv
  <1>3. CASE served \cup {Chosen} = Pooled
    <2>1. served' = {}
      BY <1>3
    <2> QED
      BY <1>2, <2>1, NothingServed
  <1>4. CASE served \cup {Chosen} # Pooled
    <2>1. PICK k \in 0 .. n - 1 : served = {activeConns[i] : i \in Behind(k)}
      BY DEF ServedBehind
    <2>2. Behind(k + 1)' = Behind(k) \cup {Cursor + 1}
      <3>1. CASE Cursor + 1 >= n
        BY <1>1, <3>1, SMTT(30) DEF Behind
      <3>2. CASE Cursor + 1 < n
        BY <1>1, <3>2, SMTT(30) DEF Behind
      <3> QED
        BY <1>1, <3>1, <3>2, SMTT(30)
    <2>3. served' = {activeConns'[i] : i \in Behind(k + 1)'}
      BY <1>4, <2>1, <2>2 DEF Chosen
    <2>4. k + 1 # n
      <3> SUFFICES ASSUME k + 1 = n PROVE FALSE
        OBVIOUS
      <3>1. Behind(k + 1)' = 1 .. n
        BY <1>1, SMTT(30) DEF Behind
      <3>2. DOMAIN activeConns = 1 .. n
        BY SMTT(30) DEF PoolInv, PoolTypeOK
      <3> QED
        BY <1>4, <2>3, <3>1, <3>2 DEF Pooled
    <2>5. k + 1 \in 0 .. n' - 1
      BY <1>1, <2>4, SMTT(30)
    <2> QED
      BY <2>3, <2>5 DEF ServedBehind
  <1> QED
    BY <1>3, <1>4

\* Every other step leaves the list alone or empties served.
LEMMA ServedBehindStep ==
    PoolInv /\ ServedBehind /\ [PoolNext]_poolVars => ServedBehind'
  <1> SUFFICES ASSUME PoolInv, ServedBehind, [PoolNext]_poolVars
               PROVE  ServedBehind'
    OBVIOUS
  <1>1. CASE NextBackendConn
    BY <1>1, ServedBehindNext
  <1>2. CASE UNCHANGED listVars
    BY <1>2, SMTT(30) DEF listVars, ServedBehind, Behind, Cursor
  <1>3. ASSUME NEW c \in ConnId, NEW w \in Caller, StateChanged(c, w)
        PROVE  ServedBehind'
    <2>1. served' = {} \/ UNCHANGED listVars
      <3>1. CASE IsConnActive[c]
        BY <1>3, <3>1 DEF StateChanged, AddConn, listVars
      <3>2. CASE ~IsConnActive[c]
        <4>1. RemoveConn(c) /\ UNCHANGED currentConnIndex
          BY <1>3, <3>2 DEF StateChanged
        <4>2. CASE Index[c] # INVALID_ARRAY_INDEX
          BY <4>1, <4>2 DEF RemoveConn
        <4>3. CASE Index[c] = INVALID_ARRAY_INDEX
          BY <4>1, <4>3 DEF RemoveConn, listVars
        <4> QED
          BY <4>2, <4>3
      <3> QED
        BY <3>1, <3>2
    <2>2. PoolTypeOK'
      BY <1>3, StateChangedStep DEF PoolInv
    <2> QED
      BY <1>2, <2>1, <2>2, NothingServed
  <1>4. ASSUME NEW c \in ConnId, ConnLife(c) \/ NewConn(c)
                  \/ \E w \in Caller : SetInactive(c, w)
        PROVE  UNCHANGED listVars
    BY <1>4 DEF ConnLife, ConnUp, ConnDown, RunLoop, ConnFails, ReaderDown,
                       NewConn, SetInactive
  <1>5. ASSUME NEW o \in Offliner,
               Offlining(o) \/ \E c \in ConnId : OfflineCheck(o, c)
        PROVE  UNCHANGED listVars
    BY <1>5 DEF Offlining, OfflineSet, OfflineMark, OfflineClose, OfflineCheck
  <1>6. CASE FirstPanics \/ UNCHANGED poolVars
    BY <1>2, <1>6 DEF FirstPanics, poolVars
  <1> QED
    BY <1>1, <1>2, <1>3, <1>4, <1>5, <1>6 DEF PoolNext, Marking

\* While the pool does not change, every connection of it is served once
\* before one is served again, for any number of connections.
THEOREM RoundRobinCorrect == PoolSpec => []RoundRobin
  <1>1. PoolInit => ServedBehind
    BY DEF PoolInit, ServedBehind
  <1>2. PoolInv /\ ServedBehind => RoundRobin
    <2> SUFFICES ASSUME PoolInv, ServedBehind, activeConns # <<>>
                 PROVE  Chosen \notin served
      BY DEF RoundRobin
    <2>1. PICK k \in 0 .. Len(activeConns) - 1 :
              served = {activeConns[i] : i \in Behind(k)}
      BY DEF ServedBehind
    <2>2. /\ Len(activeConns) \in Nat \ {0}
          /\ Cursor \in 0 .. Len(activeConns) - 1
          /\ DOMAIN activeConns = 1 .. Len(activeConns)
      BY SMTT(30) DEF PoolInv, PoolTypeOK, Cursor
    <2>3. Cursor + 1 \notin Behind(k)
      BY <2>2, SMTT(30) DEF Behind
    <2>4. \A i \in Behind(k) : activeConns[i] # Chosen
      <3>1. \A i, j \in 1 .. Len(activeConns) :
                activeConns[i] = activeConns[j] => i = j
        BY <2>2, SMTT(30) DEF PoolInv, IndexInv
      <3> QED
        BY <2>2, <2>3, <3>1, SMTT(30) DEF Behind, Chosen
    <2> QED
      BY <2>1, <2>4
  <1> QED
    BY <1>1, <1>2, ServedBehindStep, PoolInvariant, PTL DEF PoolSpec

-----------------------------------------------------------------------------
(* The inductive invariant.                                                *)

\* A connection that is not marked offline is the one recorded for its address.
LiveIsRecorded ==
    \A c \in ConnId :
        addrOf[c] # None /\ ~IsMarkOffline[c] => addr2Conn[addrOf[c]] = c

\* While the watcher takes an address offline, its MarkOffline is about the
\* recorded connection, which is marked when the call returns.
RetiringIsMarked ==
    retiring # None =>
        /\ wpc = "retire"
        /\ addr2Conn[retiring] \in ConnId
        /\ opc["watch"] # "idle" => target["watch"] = addr2Conn[retiring]
        /\ opc["watch"] # "set" => IsMarkOffline[addr2Conn[retiring]]

\* Every pass of the watcher takes one event and arms one watch, and Stop adds
\* one event.
EventBudget ==
    armed + fired + evtbus <=
        (IF wpc \in {"read", "create", "retire", "wait"} THEN 1 ELSE 0)
      + (IF spc \in {"idle", "notify"} THEN 0 ELSE 1)

ServiceInv ==
    /\ TypeOK
    /\ PoolInv
    /\ LiveIsRecorded
    /\ RetiringIsMarked
    /\ EventBudget

-----------------------------------------------------------------------------
(* The service implements the pool.                                        *)

\* Every step of the service is a step of the pool or leaves it alone.
LEMMA StepIsPoolStep == TypeOK /\ [Next]_vars => [PoolNext]_poolVars
  <1> SUFFICES ASSUME TypeOK, [Next]_vars PROVE [PoolNext]_poolVars
    OBVIOUS
  <1>1. CASE Pooling
    BY <1>1 DEF Pooling, PoolNext
  <1>2. CASE Watching
    <2>1. ASSUME NEW a \in Addr, NEW c \in ConnId, NewBackendConn(a, c)
          PROVE  PoolNext
      BY <2>1 DEF NewBackendConn, PoolNext
    <2>2. ASSUME NEW a \in Addr, Retire(a)
          PROVE  PoolNext
      <3>1. addr2Conn[a] \in ConnId /\ "watch" \in Offliner
        BY <2>2, ServiceAssumption DEF Retire, TypeOK
      <3> QED
        BY <2>2, <3>1 DEF Retire, PoolNext
    <2>3. CASE \/ WatchLoop \/ WatchChildren \/ WatchChildrenFails \/ ReadDone
               \/ CreateDone \/ Retired \/ RetireDone \/ WatchEvent
               \/ \E a \in Addr : ReadEndpoint(a) \/ KeepConn(a)
      BY <2>3
         DEF WatchLoop, WatchChildren, WatchChildrenFails, ReadEndpoint,
             ReadDone, KeepConn, CreateDone, Retired, RetireDone, WatchEvent
    <2> QED
      BY <1>2, <2>1, <2>2, <2>3 DEF Watching
  <1>3. CASE Stopping
    <2>1. CASE StopFirst
      <3>1. CASE activeConns = <<>>
        BY <2>1, <3>1 DEF StopFirst, PoolNext
      <3>2. CASE activeConns # <<>>
        <4>1. activeConns[1] \in ConnId /\ "stop" \in Offliner
          BY <3>2, ServiceAssumption, SMTT(30) DEF TypeOK, PoolTypeOK
        <4> QED
          BY <2>1, <3>2, <4>1 DEF StopFirst, PoolNext
      <3> QED
        BY <3>1, <3>2
    <2>2. CASE StopCall \/ StopNotify \/ StopQuiet \/ StopLen \/ StopMarked
      BY <2>2 DEF StopCall, StopNotify, StopQuiet, StopLen, StopMarked
    <2> QED
      BY <1>3, <2>1, <2>2 DEF Stopping
  <1>4. CASE ZkEvent \/ DoWatch \/ UNCHANGED vars
    BY <1>4 DEF ZkEvent, DoWatch, vars
  <1> QED
    BY <1>1, <1>2, <1>3, <1>4 DEF Next

-----------------------------------------------------------------------------
(* Initially, and after every step.                                        *)

\* The invariant holds when NewBackService returns.
LEMMA InitServiceInv == Init => ServiceInv
  <1> SUFFICES ASSUME Init PROVE ServiceInv
    OBVIOUS
  <1> USE DEF Init
  <1>1. PoolInv
    BY InitPoolInv
  <1>2. TypeOK
    <2>1. PoolTypeOK
      BY <1>1 DEF PoolInv
    <2>2. stop \in BOOLEAN
      OBVIOUS
    <2>3. /\ fired \in Nat /\ armed \in Nat
          /\ evtbus \in 0 .. EvtbusCap
      BY SMTT(30) DEF EvtbusCap
    <2> QED
      BY <2>1, <2>2, <2>3 DEF TypeOK
  <1>3. LiveIsRecorded /\ RetiringIsMarked /\ EventBudget
    BY SMTT(30) DEF LiveIsRecorded, RetiringIsMarked, EventBudget
  <1> QED
    BY <1>1, <1>2, <1>3 DEF ServiceInv

\* Steps that leave MarkOffline and the records of the watcher alone.
LEMMA RecordsKept ==
    ASSUME LiveIsRecorded, RetiringIsMarked,
           UNCHANGED <<IsMarkOffline, opc, target, addrOf, addr2Conn, retiring>>,
           retiring # None => wpc' = wpc
    PROVE  LiveIsRecorded' /\ RetiringIsMarked'
  BY DEF LiveIsRecorded, RetiringIsMarked

\* What UNCHANGED poolVars says of MarkOffline.
LEMMA PoolVarsKept == UNCHANGED poolVars => UNCHANGED <<IsMarkOffline, opc, target>>
  BY DEF poolVars, connVars, offVars

\* The pool keeps its own invariant.
LEMMA PoolPart == ServiceInv /\ [Next]_vars => PoolInv' /\ PoolTypeOK'
  BY StepIsPoolStep, NextPoolInv DEF ServiceInv, PoolInv

\* The watcher and Stop call MarkOffline.
LEMMA Callers == "watch" \in Offliner /\ "stop" \in Offliner
  BY ServiceAssumption

\* A step of MarkOffline sets IsMarkOffline and never resets it, and the
\* watcher's call ends with its connection marked.
LEMMA MarkOfflineStep ==
    ASSUME PoolTypeOK, LiveIsRecorded, RetiringIsMarked,
           NEW o \in Offliner, OfflineSet(o) \/ OfflineMark(o) \/ OfflineClose(o),
           UNCHANGED <<addrOf, addr2Conn, wpc, retiring>>
    PROVE  LiveIsRecorded' /\ RetiringIsMarked'
  <1>1. /\ opc \in [Offliner -> {"idle", "set", "mark", "close"}]
        /\ target \in [Offliner -> ConnId \cup {None}]
        /\ IsMarkOffline \in [ConnId -> BOOLEAN]
    BY DEF PoolTypeOK
  <1>2. \/ /\ opc[o] = "set" /\ opc' = [opc EXCEPT ![o] = "mark"] /\ target' = target
           /\ IsMarkOffline' = [IsMarkOffline EXCEPT ![target[o]] = TRUE]
        \/ /\ opc[o] = "mark" /\ opc' = [opc EXCEPT ![o] = "close"] /\ target' = target
           /\ IsMarkOffline' = IsMarkOffline
        \/ /\ opc[o] = "close" /\ opc' = [opc EXCEPT ![o] = "idle"]
           /\ target' = [target EXCEPT ![o] = None]
           /\ IsMarkOffline' = IsMarkOffline
    BY DEF OfflineSet, OfflineMark, OfflineClose
  <1>3. \A c \in ConnId : IsMarkOffline[c] => IsMarkOffline'[c]
    BY <1>1, <1>2
  <1>4. LiveIsRecorded'
    BY <1>3 DEF LiveIsRecorded
  <1>5. CASE o # "watch"
    <2>1. opc'["watch"] = opc["watch"] /\ target'["watch"] = target["watch"]
      BY <1>1, <1>2, <1>5, Callers
    <2> QED
      BY <1>3, <1>4, <2>1 DEF RetiringIsMarked
  <1>6. CASE o = "watch"
    BY <1>1, <1>2, <1>3, <1>4, <1>6 DEF RetiringIsMarked
  <1> QED
    BY <1>5, <1>6

\* The steps of the pool that others take.
LEMMA PoolingStep == ServiceInv /\ Pooling => ServiceInv'
  <1> SUFFICES ASSUME ServiceInv, Pooling PROVE ServiceInv'
    OBVIOUS
  <1>1. PoolInv' /\ PoolTypeOK'
    BY PoolPart DEF Next
  <1>2. TypeOK /\ PoolTypeOK /\ LiveIsRecorded /\ RetiringIsMarked /\ EventBudget
    BY DEF ServiceInv, PoolInv
  <1>3. UNCHANGED <<addrOf, addr2Conn, wpc, todo, addressMap, retiring, unread,
                    children,
                    armed, fired, evtbus, stop, spc>>
    BY DEF Pooling, watchVars, zkVars, stopVars
  <1>4. TypeOK' /\ EventBudget'
    BY <1>1, <1>2, <1>3 DEF TypeOK, EventBudget
  <1>5. \/ UNCHANGED <<IsMarkOffline, opc, target>>
        \/ \E o \in Offliner : OfflineSet(o) \/ OfflineMark(o) \/ OfflineClose(o)
    BY
       DEF Pooling, NextBackendConn, Marking, SetInactive, StateChanged, ConnLife,
           ConnUp, ConnDown, RunLoop, ConnFails, ReaderDown, Offlining, connVars,
           offVars
  <1>6. LiveIsRecorded' /\ RetiringIsMarked'
    BY <1>2, <1>3, <1>5, RecordsKept, MarkOfflineStep
  <1> QED
    BY <1>1, <1>4, <1>6 DEF ServiceInv

\* The watcher's steps that create and retire no connection.
LEMMA WatchQuietStep ==
    ASSUME ServiceInv,
           \/ WatchLoop \/ WatchChildren \/ WatchChildrenFails \/ ReadDone
           \/ CreateDone \/ RetireDone \/ WatchEvent
           \/ \E a \in Addr : ReadEndpoint(a) \/ KeepConn(a)
    PROVE  ServiceInv'
  <1>1. PoolInv' /\ PoolTypeOK'
    BY PoolPart DEF Next, Watching
  <1>2. TypeOK /\ LiveIsRecorded /\ RetiringIsMarked /\ EventBudget
    BY DEF ServiceInv
  <1>3. /\ UNCHANGED <<poolVars, addrOf, addr2Conn, retiring, children, fired, stop, spc>>
        /\ \/ UNCHANGED <<armed, evtbus>>
           \/ wpc = "list" /\ wpc' = "read" /\ armed' = armed + 1 /\ UNCHANGED evtbus
           \/ wpc = "wait" /\ wpc' = "loop" /\ evtbus' = evtbus - 1 /\ evtbus > 0
              /\ UNCHANGED armed
        /\ \/ wpc \in {"read", "create", "retire"}
              /\ wpc' \in {"read", "create", "retire", "wait"}
           \/ wpc \in {"loop", "list"} /\ wpc' \in {"done", "list", "loop"}
           \/ wpc = "list" /\ wpc' = "read" /\ armed' = armed + 1
           \/ wpc = "wait" /\ wpc' = "loop" /\ evtbus' = evtbus - 1
        /\ wpc = "retire" /\ retiring # None => wpc' = "retire"
    <2>1. CASE WatchChildren
      BY <2>1 DEF WatchChildren, stopVars
    <2>2. CASE WatchEvent
      BY <2>2 DEF WatchEvent, stopVars
    <2>3. CASE WatchLoop \/ WatchChildrenFails \/ \E a \in Addr : ReadEndpoint(a)
      BY <2>3 DEF WatchLoop, WatchChildrenFails, ReadEndpoint, zkVars, stopVars
    <2>4. CASE ReadDone \/ CreateDone
      BY <2>4 DEF ReadDone, CreateDone, zkVars, stopVars
    <2>5. CASE RetireDone
      BY <2>5 DEF RetireDone, zkVars, stopVars
    <2>6. CASE \E a \in Addr : KeepConn(a)
      BY <2>6 DEF KeepConn, zkVars, stopVars
    <2> QED
      BY <2>1, <2>2, <2>3, <2>4, <2>5, <2>6
  <1>4. /\ todo' \subseteq Addr /\ addressMap' \subseteq Addr
        /\ wpc' \in {"loop", "list", "read", "create", "retire", "wait", "done"}
    BY <1>2, <1>3
       DEF WatchLoop, WatchChildren, WatchChildrenFails, ReadEndpoint, ReadDone,
           KeepConn, CreateDone, RetireDone, WatchEvent, TypeOK
  <1>5. unread' \subseteq Addr
    BY <1>2
       DEF WatchLoop, WatchChildren, WatchChildrenFails, ReadEndpoint, ReadDone,
           KeepConn, CreateDone, RetireDone, WatchEvent, TypeOK
  <1>6. TypeOK'
    BY <1>1, <1>2, <1>3, <1>4, <1>5, SMTT(30) DEF TypeOK, EvtbusCap
  <1>7. EventBudget'
    BY <1>2, <1>3, SMTT(30) DEF EventBudget, TypeOK, EvtbusCap
  <1>8. retiring # None => wpc' = wpc
    BY <1>2, <1>3 DEF RetiringIsMarked
  <1>9. LiveIsRecorded' /\ RetiringIsMarked'
    BY <1>2, <1>3, <1>8, PoolVarsKept, RecordsKept
  <1> QED
    BY <1>1, <1>6, <1>7, <1>9 DEF ServiceInv

\* The watcher replaces a recorded connection only if it is marked offline.
LEMMA RecordConnStep ==
    ASSUME ServiceInv, NEW a \in Addr, NEW c \in ConnId, NewBackendConn(a, c)
    PROVE  ServiceInv'
  <1>1. PoolInv' /\ PoolTypeOK'
    BY PoolPart DEF Next, Watching
  <1>2. TypeOK /\ PoolTypeOK /\ LiveIsRecorded /\ RetiringIsMarked /\ EventBudget
    BY DEF ServiceInv, PoolInv
  <1>3. /\ wpc = "create" /\ ~Connected(a)
        /\ addr2Conn' = [addr2Conn EXCEPT ![a] = c]
        /\ addrOf' = [addrOf EXCEPT ![c] = a]
        /\ IsMarkOffline' = [IsMarkOffline EXCEPT ![c] = FALSE]
        /\ todo' \subseteq todo
        /\ UNCHANGED <<wpc, addressMap, retiring, unread,
                       children, armed, fired, evtbus, stop, spc>>
    BY DEF NewBackendConn, NewConn, zkVars, stopVars
  <1>4. TypeOK' /\ EventBudget'
    BY <1>1, <1>2, <1>3 DEF TypeOK, EventBudget
  <1>5. /\ addrOf'[c] = a /\ addr2Conn'[a] = c
        /\ \A d \in ConnId \ {c} :
            addrOf'[d] = addrOf[d] /\ IsMarkOffline'[d] = IsMarkOffline[d]
        /\ \A d \in ConnId : addrOf[d] \in Addr \cup {None}
        /\ \A b \in Addr \ {a} : addr2Conn'[b] = addr2Conn[b]
    BY <1>2, <1>3 DEF TypeOK, PoolTypeOK
  <1>6. ASSUME NEW d \in ConnId \ {c}, addrOf'[d] # None, ~IsMarkOffline'[d]
        PROVE  addr2Conn'[addrOf'[d]] = d
    <2>1. addrOf'[d] = addrOf[d] /\ ~IsMarkOffline[d] /\ addrOf[d] \in Addr
      BY <1>5, <1>6
    <2>2. addr2Conn[addrOf[d]] = d
      BY <1>2, <1>6, <2>1 DEF LiveIsRecorded
    <2>3. d # None
      BY PoolAssumption
    <2>4. addrOf[d] # a
      BY <1>3, <2>1, <2>2, <2>3 DEF Connected
    <2> QED
      BY <1>5, <2>1, <2>2, <2>4
  <1>7. LiveIsRecorded'
    BY <1>5, <1>6 DEF LiveIsRecorded
  <1>8. RetiringIsMarked'
    BY <1>2, <1>3 DEF RetiringIsMarked
  <1> QED
    BY <1>1, <1>4, <1>7, <1>8 DEF ServiceInv

\* The watcher begins to take an address offline.
LEMMA RetireStep ==
    ASSUME ServiceInv, NEW a \in Addr, Retire(a)
    PROVE  ServiceInv'
  <1>1. PoolInv' /\ PoolTypeOK'
    BY PoolPart DEF Next, Watching
  <1>2. TypeOK /\ PoolTypeOK /\ LiveIsRecorded /\ RetiringIsMarked /\ EventBudget
    BY DEF ServiceInv, PoolInv
  <1> DEFINE c == addr2Conn[a]
  <1>3. /\ wpc = "retire" /\ c # None /\ retiring' = a
        /\ opc["watch"] = "idle"
        /\ \/ IsMarkOffline[c] /\ UNCHANGED <<opc, target>>
           \/ /\ target' = [target EXCEPT !["watch"] = c]
              /\ opc' = [opc EXCEPT !["watch"] = "set"]
        /\ UNCHANGED <<IsMarkOffline, addrOf, addr2Conn, wpc, todo, addressMap, unread,
                       children,
                       armed, fired, evtbus, stop, spc>>
    BY DEF Retire, OfflineCheck, offVars, connVars, zkVars, stopVars
  <1>4. TypeOK' /\ EventBudget'
    BY <1>1, <1>2, <1>3 DEF TypeOK, EventBudget
  <1>5. LiveIsRecorded'
    BY <1>2, <1>3 DEF LiveIsRecorded
  <1>6. /\ c \in ConnId /\ opc \in [Offliner -> {"idle", "set", "mark", "close"}]
        /\ target \in [Offliner -> ConnId \cup {None}]
    BY <1>2, <1>3 DEF TypeOK, PoolTypeOK
  <1>7. \/ opc'["watch"] = "idle" /\ IsMarkOffline[c]
        \/ opc'["watch"] = "set" /\ target'["watch"] = c
    BY <1>3, <1>6, Callers
  <1>8. RetiringIsMarked'
    BY <1>3, <1>6, <1>7 DEF RetiringIsMarked
  <1> QED
    BY <1>1, <1>4, <1>5, <1>8 DEF ServiceInv

\* It drops the connection only after MarkOffline has returned.
LEMMA RetiredStep ==
    ASSUME ServiceInv, Retired
    PROVE  ServiceInv'
  <1>1. PoolInv' /\ PoolTypeOK'
    BY PoolPart DEF Next, Watching
  <1>2. TypeOK /\ LiveIsRecorded /\ RetiringIsMarked /\ EventBudget
    BY DEF ServiceInv
  <1>3. /\ retiring # None /\ opc["watch"] = "idle" /\ retiring' = None
        /\ addr2Conn' = [addr2Conn EXCEPT ![retiring] = None]
        /\ UNCHANGED <<IsMarkOffline, addrOf, wpc, todo, addressMap, unread,
                       children, armed,
                       fired, evtbus, stop, spc>>
    BY PoolVarsKept DEF Retired, zkVars, stopVars
  <1>4. TypeOK' /\ EventBudget'
    BY <1>1, <1>2, <1>3 DEF TypeOK, EventBudget
  <1>5. ASSUME NEW d \in ConnId, addrOf[d] # None, ~IsMarkOffline[d]
        PROVE  addr2Conn'[addrOf[d]] = d
    <2>1. addr2Conn[addrOf[d]] = d /\ addrOf[d] \in Addr
      BY <1>2, <1>5 DEF LiveIsRecorded, TypeOK
    <2>2. addrOf[d] # retiring
      BY <1>2, <1>3, <1>5, <2>1 DEF RetiringIsMarked
    <2> QED
      BY <1>2, <1>3, <2>1, <2>2 DEF TypeOK
  <1>6. LiveIsRecorded' /\ RetiringIsMarked'
    BY <1>3, <1>5 DEF LiveIsRecorded, RetiringIsMarked
  <1> QED
    BY <1>1, <1>4, <1>6 DEF ServiceInv

\* zk and doWatch pass the armed watches on.
LEMMA ZkStep ==
    ASSUME ServiceInv, ZkEvent \/ DoWatch
    PROVE  ServiceInv'
  <1>1. PoolInv' /\ PoolTypeOK'
    BY PoolPart DEF Next
  <1>2. TypeOK /\ LiveIsRecorded /\ RetiringIsMarked /\ EventBudget
    BY DEF ServiceInv
  <1>3. /\ UNCHANGED <<poolVars, addrOf, addr2Conn, wpc, todo, addressMap, retiring, unread,
                       stop, spc>>
        /\ children' \subseteq Addr
        /\ \/ armed' = 0 /\ fired' = fired + armed /\ UNCHANGED evtbus
           \/ /\ fired > 0 /\ evtbus < EvtbusCap /\ fired' = fired - 1
              /\ evtbus' = evtbus + 1 /\ UNCHANGED armed
    BY <1>2 DEF ZkEvent, DoWatch, watchVars, stopVars, TypeOK
  <1>4. TypeOK' /\ EventBudget'
    BY <1>1, <1>2, <1>3, SMTT(30) DEF TypeOK, EventBudget, EvtbusCap
  <1>5. LiveIsRecorded' /\ RetiringIsMarked'
    BY <1>2, <1>3, PoolVarsKept, RecordsKept
  <1> QED
    BY <1>1, <1>4, <1>5 DEF ServiceInv

\* Stop adds one event, once.
LEMMA StopStep ==
    ASSUME ServiceInv, Stopping
    PROVE  ServiceInv'
  <1>1. PoolInv' /\ PoolTypeOK'
    BY PoolPart DEF Next
  <1>2. TypeOK /\ PoolTypeOK /\ LiveIsRecorded /\ RetiringIsMarked /\ EventBudget
    BY DEF ServiceInv, PoolInv
  <1>3. /\ UNCHANGED <<addrOf, addr2Conn, wpc, todo, addressMap, retiring, unread,
                       children, armed,
                       fired>>
        /\ \/ UNCHANGED evtbus /\ (spc \in {"idle", "notify"} <=> spc' \in {"idle", "notify"})
           \/ /\ spc = "notify" /\ spc' = "quiet"
              /\ evtbus < EvtbusCap /\ evtbus' = evtbus + 1
    BY DEF Stopping, StopCall, StopNotify, StopQuiet, StopLen, StopFirst, StopMarked,
                 watchVars, zkVars
  <1>4. stop' \in BOOLEAN
    BY <1>2 DEF Stopping, StopCall, StopNotify, StopQuiet, StopLen, StopFirst,
                       StopMarked, TypeOK
  <1>5. spc' \in {"idle", "notify", "quiet", "len", "first", "mark", "done"}
    BY <1>2 DEF Stopping, StopCall, StopNotify, StopQuiet, StopLen, StopFirst, StopMarked,
                TypeOK
  <1>6. TypeOK' /\ EventBudget'
    BY <1>1, <1>2, <1>3, <1>4, <1>5, SMTT(30) DEF TypeOK, EventBudget, EvtbusCap
  <1>7. CASE UNCHANGED poolVars
    BY <1>1, <1>2, <1>3, <1>6, <1>7, PoolVarsKept, RecordsKept DEF ServiceInv
  <1>8. CASE ~UNCHANGED poolVars
    <2>1. /\ UNCHANGED IsMarkOffline
          /\ \/ UNCHANGED <<opc, target>>
             \/ \E c : /\ target' = [target EXCEPT !["stop"] = c]
                       /\ opc' = [opc EXCEPT !["stop"] = "set"]
      BY <1>8 DEF Stopping, StopCall, StopNotify, StopQuiet, StopLen, StopMarked,
                         StopFirst, FirstPanics, OfflineCheck, connVars, offVars
    <2>2. /\ opc \in [Offliner -> {"idle", "set", "mark", "close"}]
          /\ target \in [Offliner -> ConnId \cup {None}]
      BY <1>2 DEF PoolTypeOK
    <2>3. opc'["watch"] = opc["watch"] /\ target'["watch"] = target["watch"]
      BY <2>1, <2>2, Callers
    <2>4. LiveIsRecorded' /\ RetiringIsMarked'
      BY <1>2, <1>3, <2>1, <2>3 DEF LiveIsRecorded, RetiringIsMarked
    <2> QED
      BY <1>1, <1>6, <2>4 DEF ServiceInv
  <1> QED
    BY <1>7, <1>8

\* Every step of the service preserves the invariant.
LEMMA NextServiceInv == ServiceInv /\ [Next]_vars => ServiceInv'
  <1> SUFFICES ASSUME ServiceInv, [Next]_vars PROVE ServiceInv'
    OBVIOUS
  <1>1. CASE UNCHANGED vars
    <2>1. UNCHANGED <<poolVars, addrOf, addr2Conn, wpc, todo, addressMap, retiring, unread,
                      children,
                      armed, fired, evtbus, stop, spc>>
      BY <1>1 DEF vars, watchVars, zkVars, stopVars
    <2>2. PoolInv' /\ PoolTypeOK'
      BY PoolPart
    <2>3. TypeOK' /\ EventBudget'
      BY <2>1, <2>2 DEF ServiceInv, TypeOK, EventBudget
    <2>4. LiveIsRecorded' /\ RetiringIsMarked'
      BY <2>1, PoolVarsKept, RecordsKept DEF ServiceInv
    <2> QED
      BY <2>2, <2>3, <2>4 DEF ServiceInv
  <1>2. CASE Watching
    BY <1>2, WatchQuietStep, RecordConnStep, RetireStep, RetiredStep DEF Watching
  <1> QED
    BY <1>1, <1>2, PoolingStep, ZkStep, StopStep DEF Next

-----------------------------------------------------------------------------
(* The theorems.                                                           *)

\* The invariant holds of every behaviour of the service.
THEOREM ServiceInvariant == Spec => []ServiceInv
  BY InitServiceInv, NextServiceInv, PTL DEF Spec

\* The variables of the service keep their types.
THEOREM ServiceTypeCorrect == Spec => []TypeOK
  <1>1. ServiceInv => TypeOK
    BY DEF ServiceInv
  <1> QED
    BY <1>1, ServiceInvariant, PTL

\* The watcher and Stop use the pool as module ActivePool allows: what is
\* proved of every behaviour of the pool holds of the service.
THEOREM ServiceImplementsPool == Spec => PoolSpec
  <1>1. Init => PoolInit
    BY DEF Init
  <1> QED
    BY <1>1, StepIsPoolStep, ServiceTypeCorrect, PTL DEF Spec, PoolSpec

\* However Stop, the watcher and the connections interleave, an address never
\* has two connections that are not marked offline.
THEOREM OneConnCorrect == Spec => []OneConnPerAddr
  <1>1. ServiceInv => OneConnPerAddr
    BY DEF ServiceInv, LiveIsRecorded, OneConnPerAddr
  <1> QED
    BY <1>1, ServiceInvariant, PTL

\* Two places in evtbus are enough for any number of zk events.
THEOREM EvtbusCorrect == Spec => []EvtbusNeverBlocks
  <1>1. ServiceInv => EvtbusNeverBlocks
    BY SMTT(30) DEF ServiceInv, EventBudget, EvtbusNeverBlocks, TypeOK, EvtbusCap
  <1> QED
    BY <1>1, ServiceInvariant, PTL
=============================================================================
