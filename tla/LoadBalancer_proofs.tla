------------------------- MODULE LoadBalancer_proofs -------------------------
(***************************************************************************)
(* Proofs about LoadBalancer, for any workers, requests, channel capacity  *)
(* and number of pings.                                                    *)
(*                                                                         *)
(* The list: a connection is created once, listed once and taken out by    *)
(* the Index of a connection; ListInv says that the cells and the Indexes  *)
(* of the listed connections agree, so that a removal by a stale Index     *)
(* never brings a connection back.                                         *)
(*                                                                         *)
(* The requests: Held(c) are the requests in the channel, in the hand of   *)
(* the writer and in the map of connection c.  Owners says that no request *)
(* is held twice and that Wait is 1 for the held ones and 0 for the others.*)
(* A step completes only held requests, so the load balancer implements    *)
(* module Calls.                                                           *)
(***************************************************************************)
EXTENDS LoadBalancer, FiniteSetTheorems, TLAPS

\* Zenon tries a leaf first; the leaves that need SMT cite it.
USE ZenonT(30), SMTT(30)

-----------------------------------------------------------------------------
(* The inductive invariant.                                                *)

\* The goroutines of the connections, and the list.
ConnType ==
    /\ sock \in [ConnId -> {"none", "open", "closed"}]
    /\ wpc \in [ConnId -> {"off", "select", "write", "register", "stop", "mark",
                           "after", "drain"}]
    /\ rpc \in [ConnId -> {"off", "read", "swap", "close", "done"}]

MarkType == marking \in [ConnId -> [{W, R} -> {"idle", "set", "notify"}]]

ListType ==
    /\ activeConns \in Seq(ConnId)
    /\ Index \in [ConnId -> Nat \cup {INVALID_ARRAY_INDEX}]
    /\ accepted \in ConnId \cup {Nil} /\ removed \subseteq ConnId

\* Nothing was done yet with a connection that was not created.
NotCreated ==
    \A c \in ConnId : sock[c] = "none" =>
        /\ c \notin Pooled /\ c \notin removed /\ c # accepted
        /\ marking[c][W] = "idle" /\ marking[c][R] = "idle"
        /\ wpc[c] = "off" /\ rpc[c] = "off"

\* The cells of the list agree with the Indexes, also after a panic.
IndexAgrees == \A i \in DOMAIN activeConns : Index[activeConns[i]] = i - 1

\* A connection is either on its way into the list, or listed, or reported.
Apart ==
    /\ removed \cap Pooled = {}
    /\ accepted \notin Pooled /\ accepted \notin removed

ListInv == ConnType /\ MarkType /\ ListType /\ NotCreated /\ IndexAgrees /\ Apart

\* The requests in a channel, and that none is there twice.
Elems(s) == {s[i] : i \in DOMAIN s} \cap Request
Once(s) == \A i, j \in DOMAIN s : s[i] = s[j] /\ s[i] # PING => i = j

Held(c) == Elems(input[c]) \cup ({hand[c]} \cap Request) \cup registered[c]

\* A connection holds each of its requests in one place.
ApartIn(c) ==
    /\ Elems(input[c]) \cap registered[c] = {}
    /\ hand[c] \notin Elems(input[c]) \cup registered[c]
    /\ Once(input[c])

HoldType ==
    /\ input \in [ConnId -> Seq(Item)]
    /\ hand \in [ConnId -> Item \cup {Nil}]
    /\ registered \in [ConnId -> SUBSET Request]

ReqType ==
    /\ stage \in [Request -> {"new", "picked", "wait"}]
    /\ target \in [Request -> ConnId \cup {Nil}]
    /\ wait \in [Request -> {0, 1}]
    /\ currentConnIndex \in Nat

\* Wait is 1 exactly for the requests that one connection holds.
Owners ==
    /\ \A c \in ConnId : ApartIn(c)
    /\ \A c, d \in ConnId : c # d => Held(c) \cap Held(d) = {}
    /\ \A r \in Request : wait[r] = 1 <=> \E c \in ConnId : r \in Held(c)

\* The writer has a request or a ping in its hand while it forwards it; what it
\* registers is a request.
HandOK ==
    \A c \in ConnId :
        /\ hand[c] # Nil <=> wpc[c] \in {"write", "register"}
        /\ wpc[c] = "register" => hand[c] \in Request

\* A request is picked for a connection, and pushed once.
DispatchOK ==
    \A r \in Request :
        /\ stage[r] # "wait" => wait[r] = 0
        /\ stage[r] = "picked" => target[r] \in ConnId

OwnerInv == HoldType /\ ReqType /\ Owners /\ HandOK /\ DispatchOK

LBInv == ListInv /\ OwnerInv

-----------------------------------------------------------------------------
(* The list.                                                               *)

\* A step of the goroutines of one connection that was created.
LEMMA LocalStep ==
    ASSUME ListInv, ConnType', MarkType', NEW c \in ConnId,
           sock[c] # "none", sock'[c] # "none",
           \A d \in ConnId \ {c} :
               /\ sock'[d] = sock[d] /\ marking'[d] = marking[d]
               /\ wpc'[d] = wpc[d] /\ rpc'[d] = rpc[d],
           UNCHANGED <<activeConns, Index, accepted, removed>>
    PROVE  ListInv'
  <1>1. ListType' /\ IndexAgrees' /\ Apart' /\ Pooled' = Pooled
    BY DEF ListInv, ListType, IndexAgrees, Apart, Pooled
  <1>2. NotCreated'
    BY <1>1 DEF ListInv, NotCreated
  <1> QED
    BY <1>1, <1>2 DEF ListInv

\* A step of no connection.
LEMMA ListUnchanged ==
    ASSUME ListInv,
           UNCHANGED <<activeConns, Index, accepted, removed, sock, marking, wpc, rpc>>
    PROVE  ListInv'
  <1>1. ConnType' /\ MarkType'
    BY DEF ListInv, ConnType, MarkType
  <1>2. ListType' /\ IndexAgrees' /\ Apart' /\ Pooled' = Pooled
    BY DEF ListInv, ListType, IndexAgrees, Apart, Pooled
  <1>3. NotCreated'
    BY <1>2 DEF ListInv, NotCreated
  <1> QED
    BY <1>1, <1>2, <1>3 DEF ListInv

\* MarkConnActiveFalse and its two steps change one goroutine's place.
LEMMA MarkLemma ==
    ASSUME MarkType, NEW c \in ConnId, NEW t \in {W, R},
           NEW v \in {"idle", "set", "notify"},
           marking' = [marking EXCEPT ![c][t] = v]
    PROVE  MarkType' /\ \A d \in ConnId \ {c} : marking'[d] = marking[d]
  BY DEF MarkType

\* The listed connections are in the cells 1 .. Len(activeConns).
LEMMA Cells ==
    ASSUME ListInv
    PROVE  /\ DOMAIN activeConns = 1 .. Len(activeConns) /\ Len(activeConns) \in Nat
           /\ \A i \in 1 .. Len(activeConns) :
                activeConns[i] \in ConnId /\ Index[activeConns[i]] = i - 1
           /\ \A c \in Pooled : /\ c \in ConnId /\ Index[c] + 1 \in 1 .. Len(activeConns)
                                /\ activeConns[Index[c] + 1] = c
  BY SMTT(30) DEF ListInv, ListType, IndexAgrees, Pooled

\* A worker connects.
LEMMA NewConnStep ==
    ASSUME ListInv, NEW c \in ConnId, NewBackendConnLB(c)
    PROVE  ListInv'
  <1>1. /\ accepted = Nil /\ sock[c] = "none" /\ accepted' = c
        /\ sock' = [sock EXCEPT ![c] = "open"]
        /\ wpc' = [wpc EXCEPT ![c] = "select"] /\ rpc' = [rpc EXCEPT ![c] = "read"]
        /\ UNCHANGED <<activeConns, Index, removed, marking>>
    BY DEF NewBackendConnLB
  <1>2. ConnType' /\ MarkType' /\ ListType'
    <2>1. ConnType'
      BY <1>1 DEF ListInv, ConnType
    <2>2. MarkType' /\ ListType'
      BY <1>1 DEF ListInv, MarkType, ListType
    <2> QED
      BY <2>1, <2>2
  <1>3. Pooled' = Pooled /\ IndexAgrees'
    BY <1>1 DEF ListInv, IndexAgrees, Pooled
  <1>4. Apart'
    BY <1>1, <1>3 DEF ListInv, Apart, NotCreated
  <1>5. /\ \A d \in ConnId \ {c} : sock'[d] = sock[d] /\ wpc'[d] = wpc[d] /\ rpc'[d] = rpc[d]
        /\ sock'[c] = "open"
    BY <1>1 DEF ListInv, ConnType
  <1>6. NotCreated'
    BY <1>1, <1>3, <1>5, SMTT(30) DEF ListInv, NotCreated
  <1> QED
    BY <1>2, <1>3, <1>4, <1>6 DEF ListInv

\* The connection is appended: its Index is its place.
LEMMA AppendStep ==
    ASSUME ListInv, AppendConn
    PROVE  ListInv'
  <1> DEFINE n == Len(activeConns)
  <1>1. /\ accepted # Nil /\ accepted' = Nil
        /\ Index' = [Index EXCEPT ![accepted] = n]
        /\ activeConns' = Append(activeConns, accepted)
        /\ UNCHANGED <<removed, sock, marking, wpc, rpc>>
    BY DEF AppendConn, flagVars, netVars, writerVars
  <1>2. /\ accepted \in ConnId /\ n \in Nat /\ activeConns \in Seq(ConnId)
        /\ Index \in [ConnId -> Nat \cup {INVALID_ARRAY_INDEX}]
    BY <1>1, SMTT(30) DEF ListInv, ListType
  <1>3. /\ DOMAIN activeConns' = 1 .. n + 1
        /\ \A i \in 1 .. n : activeConns'[i] = activeConns[i]
        /\ activeConns'[n + 1] = accepted
    BY <1>1, <1>2, SMTT(30)
  <1>4. ConnType' /\ MarkType' /\ ListType'
    <2>1. ConnType' /\ MarkType'
      BY <1>1 DEF ListInv, ConnType, MarkType
    <2>2. ListType'
      BY <1>1, <1>2, SMTT(30) DEF ListInv, ListType
    <2> QED
      BY <2>1, <2>2
  <1>5. Pooled' = Pooled \cup {accepted}
    BY <1>2, <1>3, SMTT(30) DEF Pooled
  <1>6. IndexAgrees'
    <2>1. \A i \in 1 .. n : activeConns[i] # accepted /\ activeConns[i] \in ConnId
      BY <1>2, SMTT(30) DEF ListInv, Apart, Pooled
    <2> QED
      BY <1>1, <1>2, <1>3, <2>1, Cells, SMTT(30) DEF IndexAgrees
  <1>7. Nil \notin ConnId /\ Pooled \subseteq ConnId
    BY LBAssumption, Cells
  <1>8. Apart'
    BY <1>1, <1>2, <1>5, <1>7 DEF ListInv, ListType, Apart
  <1>9. NotCreated'
    BY <1>1, <1>5, <1>7 DEF ListInv, NotCreated
  <1> QED
    BY <1>4, <1>6, <1>8, <1>9 DEF ListInv

\* activeConns[0 : k].
LEMMA CutLemma ==
    ASSUME NEW s \in Seq(ConnId), NEW k \in Nat, k <= Len(s)
    PROVE  /\ SubSeq(s, 1, k) \in Seq(ConnId) /\ DOMAIN SubSeq(s, 1, k) = 1 .. k
           /\ \A i \in 1 .. k : SubSeq(s, 1, k)[i] = s[i]
  BY SMTT(30)

\* The removal of StateChanged takes away at most one connection, adds none, and
\* leaves the cells and the Indexes in agreement; the connection that is
\* reported is out of the list.
LEMMA RemoveLemma ==
    ASSUME ListInv, NEW c \in ConnId, RemoveConn(c)
    PROVE  /\ activeConns' \in Seq(ConnId)
           /\ Index' \in [ConnId -> Nat \cup {INVALID_ARRAY_INDEX}]
           /\ IndexAgrees' /\ Pooled' \subseteq Pooled \ {c}
  <1> DEFINE last == Len(activeConns) - 1
             moved == activeConns[last + 1]
             k == Index[c]
  <1>1. /\ activeConns \in Seq(ConnId) /\ Index \in [ConnId -> Nat \cup {INVALID_ARRAY_INDEX}]
        /\ k \in Nat \cup {INVALID_ARRAY_INDEX}
    BY DEF ListInv, ListType
  <1>2. CASE UNCHANGED <<activeConns, Index>> /\ (k = INVALID_ARRAY_INDEX \/ last < 0 \/ k > last)
    <2>1. c \notin Pooled
      BY <1>2, Cells, SMTT(30) DEF INVALID_ARRAY_INDEX
    <2>2. Pooled' = Pooled /\ IndexAgrees'
      BY <1>2 DEF ListInv, IndexAgrees, Pooled
    <2> QED
      BY <1>1, <1>2, <2>1, <2>2
  <1>3. CASE /\ k \in Nat /\ last = k
             /\ activeConns' = SubSeq(activeConns, 1, last) /\ UNCHANGED Index
    <2>1. /\ last \in Nat /\ activeConns' \in Seq(ConnId)
          /\ DOMAIN activeConns' = 1 .. last
          /\ \A i \in 1 .. last : activeConns'[i] = activeConns[i]
      <3>1. last \in Nat /\ last <= Len(activeConns)
        BY <1>1, <1>3, Cells, SMTT(30) DEF INVALID_ARRAY_INDEX
      <3> HIDE DEF last
      <3> QED
        BY <1>1, <1>3, <3>1, CutLemma
    <2>2. IndexAgrees'
      BY <1>3, <2>1, Cells, SMTT(30) DEF IndexAgrees
    <2>3. \A i \in 1 .. last : activeConns[i] # c
      BY <1>3, <2>1, Cells, SMTT(30)
    <2>4. Pooled' \subseteq Pooled \ {c}
      BY <2>1, <2>3, Cells, SMTT(30) DEF Pooled
    <2> QED
      BY <1>1, <1>3, <2>1, <2>2, <2>4
  <1>4. CASE /\ k \in Nat /\ k < last
             /\ activeConns' = [i \in 1 .. last |->
                                  IF i = k + 1 THEN moved ELSE activeConns[i]]
             /\ Index' = [Index EXCEPT ![moved] = k, ![c] = INVALID_ARRAY_INDEX]
    <2>1. /\ last \in Nat /\ moved \in ConnId /\ Index[moved] = last
          /\ \A i \in 1 .. last : activeConns[i] \in ConnId /\ Index[activeConns[i]] = i - 1
      BY <1>4, Cells, SMTT(30)
    <2>2. moved # c
      BY <1>4, <2>1, SMTT(30)
    <2>3. /\ DOMAIN activeConns' = 1 .. last
          /\ \A i \in 1 .. last :
                activeConns'[i] = IF i = k + 1 THEN moved ELSE activeConns[i]
          /\ activeConns' \in Seq(ConnId)
      BY <1>4, <2>1, SMTT(30)
    <2>4. /\ Index'[moved] = k
          /\ \A d \in ConnId \ {c, moved} : Index'[d] = Index[d]
          /\ Index' \in [ConnId -> Nat \cup {INVALID_ARRAY_INDEX}]
      BY <1>1, <1>4, <2>1, <2>2
    <2>5. \A i \in 1 .. last : i # k + 1 => activeConns[i] \in ConnId \ {c, moved}
      BY <1>4, <2>1, SMTT(30)
    <2>6. IndexAgrees'
      BY <1>4, <2>1, <2>3, <2>4, <2>5, SMTT(30) DEF IndexAgrees
    <2>7. Pooled' \subseteq Pooled \ {c}
      BY <1>4, <2>1, <2>2, <2>3, <2>5, Cells, SMTT(30) DEF Pooled
    <2> QED
      BY <2>3, <2>4, <2>6, <2>7
  <1> QED
    BY <1>1, <1>2, <1>3, <1>4, Cells, SMTT(30) DEF RemoveConn, INVALID_ARRAY_INDEX

\* A goroutine reports its connection.
LEMMA StateChangedStep ==
    ASSUME ListInv, NEW c \in ConnId, NEW t \in {W, R}, StateChanged(c, t)
    PROVE  ListInv'
  <1>1. /\ marking[c][t] = "notify" /\ marking' = [marking EXCEPT ![c][t] = "idle"]
        /\ removed' = (IF accepted = c THEN removed ELSE removed \cup {c})
        /\ UNCHANGED <<accepted, sock, wpc, rpc>>
    BY DEF StateChanged, netVars, writerVars
  <1>2. /\ activeConns' \in Seq(ConnId)
        /\ Index' \in [ConnId -> Nat \cup {INVALID_ARRAY_INDEX}]
        /\ IndexAgrees' /\ Pooled' \subseteq Pooled \ {c}
    BY RemoveLemma DEF StateChanged
  <1>3. ConnType' /\ MarkType' /\ \A d \in ConnId \ {c} : marking'[d] = marking[d]
    <2>1. ConnType'
      BY <1>1 DEF ListInv, ConnType
    <2> QED
      BY <1>1, <2>1, MarkLemma DEF ListInv
  <1>4. ListType'
    BY <1>1, <1>2 DEF ListInv, ListType
  <1>5. Apart'
    BY <1>1, <1>2 DEF ListInv, Apart
  <1>6. sock[c] # "none"
    BY <1>1 DEF ListInv, NotCreated
  <1>7. NotCreated'
    BY <1>1, <1>2, <1>3, <1>6 DEF ListInv, NotCreated
  <1> QED
    BY <1>2, <1>3, <1>4, <1>5, <1>7 DEF ListInv

\* What the goroutines of connection c, which runs, do to their places and to
\* its socket.
Moves(c) ==
    /\ wpc[c] # "off" \/ rpc[c] # "off" \/ marking[c][W] # "idle" \/ marking[c][R] # "idle"
    /\ \/ wpc' = wpc
       \/ \E v \in {"select", "write", "register", "stop", "mark", "after", "drain"} :
             wpc' = [wpc EXCEPT ![c] = v]
    /\ rpc' = rpc \/ \E v \in {"swap", "close", "done"} : rpc' = [rpc EXCEPT ![c] = v]
    /\ sock' = sock \/ sock' = [sock EXCEPT ![c] = "closed"]
    /\ \/ marking' = marking
       \/ \E t \in {W, R}, v \in {"idle", "set", "notify"} :
             marking' = [marking EXCEPT ![c][t] = v]
    /\ UNCHANGED <<activeConns, Index, accepted, removed>>

\* Such a step keeps the invariant of the list.
LEMMA MovesStep ==
    ASSUME ListInv, NEW c \in ConnId, Moves(c)
    PROVE  ListInv'
  <1>1. ConnType /\ MarkType
    BY DEF ListInv
  <1>2. sock[c] # "none"
    BY DEF ListInv, NotCreated, Moves
  <1>3. MarkType' /\ \A d \in ConnId \ {c} : marking'[d] = marking[d]
    <2>1. CASE marking' = marking
      BY <1>1, <2>1 DEF MarkType
    <2>2. CASE \E t \in {W, R}, v \in {"idle", "set", "notify"} :
                  marking' = [marking EXCEPT ![c][t] = v]
      BY <1>1, <2>2, MarkLemma
    <2> QED
      BY <2>1, <2>2 DEF Moves
  <1>4. /\ wpc' \in [ConnId -> {"off", "select", "write", "register", "stop", "mark",
                                "after", "drain"}]
        /\ \A d \in ConnId \ {c} : wpc'[d] = wpc[d]
    BY <1>1, SMTT(30) DEF Moves, ConnType
  <1>5. /\ rpc' \in [ConnId -> {"off", "read", "swap", "close", "done"}]
        /\ \A d \in ConnId \ {c} : rpc'[d] = rpc[d]
    BY <1>1, SMTT(30) DEF Moves, ConnType
  <1>6. /\ sock' \in [ConnId -> {"none", "open", "closed"}] /\ sock'[c] # "none"
        /\ \A d \in ConnId \ {c} : sock'[d] = sock[d]
    BY <1>1, <1>2 DEF Moves, ConnType
  <1>7. ConnType'
    BY <1>4, <1>5, <1>6 DEF ConnType
  <1> QED
    BY <1>2, <1>3, <1>4, <1>5, <1>6, <1>7, LocalStep DEF Moves

\* The steps of the writer, of the reader, and of MarkConnActiveFalse.
LEMMA GoroutineMoves ==
    ASSUME NEW c \in ConnId,
           \/ TakeInput(c) \/ InputEnds(c) \/ TakeTimeout(c) \/ PassPing(c) \/ Write(c)
           \/ Register(c) \/ WriteFails(c) \/ StopHeartbeat(c) \/ WriterMark(c)
           \/ AfterLoop(c) \/ Drain(c)
           \/ (\E r \in Request : ReadReply(c, r)) \/ ReadStop(c) \/ ReadFails(c)
           \/ FlushRequests(c) \/ CloseInput(c)
           \/ \E t \in {W, R} : SetInactive(c, t)
    PROVE  Moves(c)
  <1> USE DEF Moves, poolVars, flagVars, netVars, writerVars
  <1>1. CASE TakeInput(c) \/ InputEnds(c) \/ TakeTimeout(c) \/ PassPing(c)
    BY <1>1 DEF TakeInput, InputEnds, TakeTimeout, PassPing
  <1>2. CASE Write(c) \/ Register(c) \/ WriteFails(c) \/ StopHeartbeat(c)
    BY <1>2 DEF Write, Register, WriteFails, StopHeartbeat
  <1>3. CASE WriterMark(c) \/ AfterLoop(c) \/ Drain(c)
    BY <1>3 DEF WriterMark, AfterLoop, Drain, MarkConnActiveFalse
  <1>4. CASE (\E r \in Request : ReadReply(c, r)) \/ ReadStop(c) \/ ReadFails(c)
    BY <1>4 DEF ReadReply, ReadStop, ReadFails, MarkConnActiveFalse
  <1>5. CASE FlushRequests(c) \/ CloseInput(c)
    BY <1>5 DEF FlushRequests, CloseInput
  <1>6. CASE \E t \in {W, R} : SetInactive(c, t)
    BY <1>6 DEF SetInactive
  <1> QED
    BY <1>1, <1>2, <1>3, <1>4, <1>5, <1>6

\* Every step keeps the invariant of the list.
LEMMA NextListInv ==
    ASSUME ListInv, [Next]_vars
    PROVE  ListInv'
  <1>1. ASSUME NEW r \in Request, Pick(r) \/ PushBack(r) \/ PushBackPanics(r)
        PROVE  ListInv'
    <2>1. UNCHANGED <<activeConns, Index, accepted, removed, sock, marking, wpc, rpc>>
      BY <1>1
         DEF Pick, PushBack, PushBackPanics, poolVars, flagVars, netVars, writerVars
    <2> QED
      BY <2>1, ListUnchanged
  <1>2. ASSUME NEW c \in ConnId, HbTick(c) \/ PushPing(c)
        PROVE  ListInv'
    <2>1. UNCHANGED <<activeConns, Index, accepted, removed, sock, marking, wpc, rpc>>
      BY <1>2 DEF HbTick, PushPing, poolVars, flagVars, netVars, writerVars
    <2> QED
      BY <2>1, ListUnchanged
  <1>3. CASE UNCHANGED vars
    <2>1. UNCHANGED <<activeConns, Index, accepted, removed, sock, marking, wpc, rpc>>
      BY <1>3 DEF vars, poolVars, flagVars, netVars, writerVars
    <2> QED
      BY <2>1, ListUnchanged
  <1> QED
    BY <1>1, <1>2, <1>3, NewConnStep, AppendStep, StateChangedStep, GoroutineMoves,
       MovesStep
       DEF Next

-----------------------------------------------------------------------------
(* The requests.                                                           *)

\* Requests, pings and nil are told apart.
LEMMA Distinct == PING \notin Request /\ Nil \notin Request /\ PING # Nil
  BY LBAssumption

\* A send puts a request that is not there at the end of a channel.
LEMMA SendLemma ==
    ASSUME NEW s \in Seq(Item), NEW x \in Item, x \notin Elems(s), Once(s)
    PROVE  /\ Append(s, x) \in Seq(Item)
           /\ Elems(Append(s, x)) = Elems(s) \cup ({x} \cap Request)
           /\ Once(Append(s, x))
  <1> DEFINE n == Len(s)
             t == Append(s, x)
  <1>1. /\ n \in Nat /\ DOMAIN s = 1 .. n
        /\ t \in Seq(Item) /\ DOMAIN t = 1 .. n + 1
        /\ t[n + 1] = x /\ \A i \in 1 .. n : t[i] = s[i]
    BY SMTT(30)
  <1>2. \A i \in 1 .. n : s[i] \in Item /\ (s[i] = x => x = PING)
    BY <1>1, SMTT(30) DEF Elems, Item
  <1> HIDE DEF t, n
  <1>3. Elems(t) = Elems(s) \cup ({x} \cap Request)
    BY <1>1, SMTT(30) DEF Elems
  <1>4. Once(t)
    BY <1>1, <1>2, SMTT(30) DEF Once
  <1> QED
    BY <1>1, <1>3, <1>4 DEF t

\* A receive takes the first request out of a channel.
LEMMA ReceiveLemma ==
    ASSUME NEW s \in Seq(Item), s # <<>>, Once(s)
    PROVE  /\ Tail(s) \in Seq(Item) /\ Head(s) \in Item
           /\ Elems(s) = Elems(Tail(s)) \cup ({Head(s)} \cap Request)
           /\ Head(s) \notin Elems(Tail(s))
           /\ Once(Tail(s))
  <1> DEFINE n == Len(s)
             t == Tail(s)
             h == Head(s)
  <1>1. /\ n \in Nat \ {0} /\ DOMAIN s = 1 .. n
        /\ t \in Seq(Item) /\ DOMAIN t = 1 .. n - 1
        /\ h = s[1] /\ h \in Item
        /\ \A i \in 1 .. n - 1 : t[i] = s[i + 1]
    BY SMTT(30)
  <1> HIDE DEF t, n, h
  <1>2. Elems(s) = Elems(t) \cup ({h} \cap Request)
    <2>1. ASSUME NEW y \in Elems(s)
          PROVE  y \in Elems(t) \cup ({h} \cap Request)
      <3>1. PICK i \in 1 .. n : y = s[i]
        BY <1>1, <2>1 DEF Elems
      <3>2. CASE i = 1
        BY <1>1, <2>1, <3>1, <3>2 DEF Elems
      <3>3. CASE i # 1
        <4>1. i - 1 \in 1 .. n - 1 /\ t[i - 1] = s[i]
          BY <1>1, <3>3, SMTT(30)
        <4>2. y \in {t[k] : k \in DOMAIN t}
          BY <1>1, <3>1, <4>1
        <4> QED
          BY <2>1, <4>2 DEF Elems
      <3> QED
        BY <3>2, <3>3
    <2>2. ASSUME NEW y \in Elems(t) \cup ({h} \cap Request)
          PROVE  y \in Elems(s)
      <3>1. \A i \in 1 .. n - 1 : i + 1 \in DOMAIN s /\ t[i] = s[i + 1]
        BY <1>1, SMTT(30)
      <3>2. 1 \in DOMAIN s
        BY <1>1, SMTT(30)
      <3> QED
        BY <1>1, <2>2, <3>1, <3>2 DEF Elems
    <2> QED
      BY <2>1, <2>2
  <1>3. h \notin Elems(t)
    <2> SUFFICES ASSUME h \in Elems(t) PROVE FALSE
      OBVIOUS
    <2>1. h \in Request /\ h # PING
      BY Distinct DEF Elems
    <2>2. PICK i \in 1 .. n - 1 : h = t[i]
      BY <1>1 DEF Elems
    <2>3. i + 1 \in DOMAIN s /\ 1 \in DOMAIN s /\ s[i + 1] = s[1] /\ i + 1 # 1
      BY <1>1, <2>2, SMTT(30)
    <2> QED
      BY <1>1, <2>1, <2>3 DEF Once
  <1>4. Once(t)
    <2> SUFFICES ASSUME NEW i \in DOMAIN t, NEW j \in DOMAIN t, t[i] = t[j], t[i] # PING
                 PROVE  i = j
      BY DEF Once
    <2>1. /\ i + 1 \in DOMAIN s /\ j + 1 \in DOMAIN s
          /\ s[i + 1] = t[i] /\ s[j + 1] = t[j] /\ i \in Int /\ j \in Int
      BY <1>1, SMTT(30)
    <2>2. i + 1 = j + 1
      BY <2>1 DEF Once
    <2> QED
      BY <2>1, <2>2, SMTT(30)
  <1> QED
    BY <1>1, <1>2, <1>3, <1>4 DEF t, h

\* What connection d holds is left alone.
Same(d) ==
    input'[d] = input[d] /\ hand'[d] = hand[d] /\ registered'[d] = registered[d]

\* Connection c completes the requests S, which it held, or none, and moves the
\* others among its places.
LEMMA KeepOwners ==
    ASSUME Owners, ReqType, NEW c \in ConnId, NEW S \in SUBSET Held(c),
           \A d \in ConnId \ {c} : Same(d),
           ApartIn(c)', Held(c)' = Held(c) \ S,
           wait' \in [Request -> {0, 1}],
           \A r \in Request : wait'[r] = IF r \in S THEN 0 ELSE wait[r]
    PROVE  Owners'
  <1>1. \A d \in ConnId \ {c} : (Held(d)' = Held(d)) /\ (ApartIn(d)' <=> ApartIn(d))
    BY DEF Same, Held, ApartIn
  <1>2. \A d \in ConnId : Held(d)' \subseteq Held(d) /\ ApartIn(d)'
    BY <1>1 DEF Owners
  <1>3. \A d, e \in ConnId : d # e => Held(d)' \cap Held(e)' = {}
    BY <1>2 DEF Owners
  <1>4. ASSUME NEW r \in Request
        PROVE  wait'[r] = 1 <=> \E d \in ConnId : r \in Held(d)'
    <2>1. wait[r] = 1 <=> \E d \in ConnId : r \in Held(d)
      BY DEF Owners
    <2>2. CASE r \in S
      <3>1. r \in Held(c) /\ wait'[r] = 0 /\ r \notin Held(c)'
        BY <2>2
      <3>2. \A d \in ConnId \ {c} : r \notin Held(d)'
        BY <1>1, <3>1, SMTT(30) DEF Owners
      <3> QED
        BY <3>1, <3>2, SMTT(30)
    <2>3. CASE r \notin S
      <3>1. wait'[r] = wait[r]
        BY <2>3
      <3>2. \A d \in ConnId : r \in Held(d)' <=> r \in Held(d)
        BY <1>1, <2>3
      <3> QED
        BY <2>1, <3>1, <3>2
    <2> QED
      BY <2>2, <2>3
  <1> QED
    BY <1>2, <1>3, <1>4 DEF Owners

\* A step of connection c as above keeps the whole invariant.
LEMMA HolderStep ==
    ASSUME OwnerInv, HoldType', NEW c \in ConnId, NEW S \in SUBSET Held(c),
           \A d \in ConnId \ {c} : Same(d) /\ wpc'[d] = wpc[d],
           ApartIn(c)', Held(c)' = Held(c) \ S,
           wait' \in [Request -> {0, 1}],
           \A r \in Request : wait'[r] = IF r \in S THEN 0 ELSE wait[r],
           UNCHANGED <<stage, target, currentConnIndex>>,
           hand'[c] # Nil <=> wpc'[c] \in {"write", "register"},
           wpc'[c] = "register" => hand'[c] \in Request
    PROVE  OwnerInv'
  <1>1. Owners'
    BY KeepOwners DEF OwnerInv
  <1>2. ReqType'
    BY DEF OwnerInv, ReqType
  <1>3. HandOK'
    BY DEF OwnerInv, HandOK, Same
  <1>4. DispatchOK'
    BY DEF OwnerInv, DispatchOK
  <1> QED
    BY <1>1, <1>2, <1>3, <1>4 DEF OwnerInv

\* Complete lets Wait of the requests of a connection become 0.
LEMMA CompleteLemma ==
    ASSUME OwnerInv, NEW c \in ConnId, NEW S \in SUBSET Held(c), NEW v, Complete(S, v)
    PROVE  /\ wait' \in [Request -> {0, 1}]
           /\ \A r \in Request : wait'[r] = IF r \in S THEN 0 ELSE wait[r]
           /\ UNCHANGED <<stage, target>>
  <1>1. wait \in [Request -> {0, 1}] /\ \A r \in S : r \in Request => wait[r] = 1
    BY DEF OwnerInv, ReqType, Owners
  <1>2. /\ wait' = [r \in Request |-> IF r \in S THEN wait[r] - 1 ELSE wait[r]]
        /\ UNCHANGED <<stage, target>>
    BY DEF Complete
  <1>3. \A r \in Request : wait'[r] = IF r \in S THEN 0 ELSE wait[r]
    BY <1>1, <1>2, SMTT(30)
  <1>4. \A r \in Request : wait'[r] \in {0, 1}
    BY <1>1, <1>3
  <1> QED
    BY <1>2, <1>3, <1>4

\* A step that only moves the writer.
LEMMA WriterStep ==
    ASSUME OwnerInv, ConnType, NEW c \in ConnId, NEW v,
           wpc' = [wpc EXCEPT ![c] = v],
           wpc[c] \in {"write", "register"} <=> v \in {"write", "register"},
           v = "register" => hand[c] \in Request,
           UNCHANGED <<input, hand, registered, wait, stage, target, currentConnIndex>>
    PROVE  OwnerInv'
  <1>1. wpc'[c] = v /\ \A d \in ConnId \ {c} : wpc'[d] = wpc[d]
    BY DEF ConnType
  <1>2. HoldType' /\ ReqType' /\ Owners' /\ DispatchOK'
    BY DEF OwnerInv, HoldType, ReqType, Owners, ApartIn, Held, DispatchOK
  <1>3. HandOK'
    BY <1>1 DEF OwnerInv, HandOK
  <1> QED
    BY <1>2, <1>3 DEF OwnerInv

\* What the writer does without completing or moving a request.
LEMMA WriterOnlyStep ==
    ASSUME LBInv, NEW c \in ConnId,
           \/ NewBackendConnLB(c) \/ InputEnds(c) \/ TakeTimeout(c) \/ Write(c)
           \/ StopHeartbeat(c) \/ WriterMark(c) \/ AfterLoop(c)
    PROVE  OwnerInv'
  <1>1. OwnerInv /\ ConnType
    BY DEF LBInv, ListInv
  <1>2. UNCHANGED <<input, hand, registered, wait, stage, target, currentConnIndex>>
    BY
       DEF NewBackendConnLB, InputEnds, TakeTimeout, Write, StopHeartbeat, WriterMark,
           AfterLoop, poolVars, chanVars, reqVars
  <1>3. CASE NewBackendConnLB(c)
    <2>1. wpc' = [wpc EXCEPT ![c] = "select"] /\ sock[c] = "none"
      BY <1>3 DEF NewBackendConnLB
    <2>2. wpc[c] = "off"
      BY <2>1 DEF LBInv, ListInv, NotCreated
    <2> QED
      BY <1>1, <1>2, <2>1, <2>2, WriterStep
  <1>4. CASE InputEnds(c) \/ TakeTimeout(c)
    <2>1. wpc' = [wpc EXCEPT ![c] = "stop"] /\ wpc[c] = "select"
      BY <1>4 DEF InputEnds, TakeTimeout
    <2> QED
      BY <1>1, <1>2, <2>1, WriterStep
  <1>5. CASE Write(c)
    <2>1. wpc' = [wpc EXCEPT ![c] = "register"] /\ wpc[c] = "write" /\ hand[c] # PING
      BY <1>5 DEF Write
    <2>2. hand[c] \in Item \cup {Nil} /\ hand[c] # Nil
      BY <1>1, <2>1 DEF OwnerInv, HoldType, HandOK
    <2>3. hand[c] \in Request
      BY <2>1, <2>2 DEF Item
    <2> QED
      BY <1>1, <1>2, <2>1, <2>3, WriterStep
  <1>6. CASE StopHeartbeat(c)
    <2>1. wpc' = [wpc EXCEPT ![c] = "mark"] /\ wpc[c] = "stop"
      BY <1>6 DEF StopHeartbeat
    <2> QED
      BY <1>1, <1>2, <2>1, WriterStep
  <1>7. CASE WriterMark(c)
    <2>1. wpc' = [wpc EXCEPT ![c] = "after"] /\ wpc[c] = "mark"
      BY <1>7 DEF WriterMark
    <2> QED
      BY <1>1, <1>2, <2>1, WriterStep
  <1>8. CASE AfterLoop(c)
    <2>1. wpc' = [wpc EXCEPT ![c] = "drain"] /\ wpc[c] = "after"
      BY <1>8 DEF AfterLoop
    <2> QED
      BY <1>1, <1>2, <2>1, WriterStep
  <1> QED
    BY <1>3, <1>4, <1>5, <1>6, <1>7, <1>8

\* A step that completes nothing.
LEMMA NoneCompleted ==
    ASSUME OwnerInv, HoldType', NEW c \in ConnId,
           \A d \in ConnId \ {c} : Same(d) /\ wpc'[d] = wpc[d],
           ApartIn(c)', Held(c)' = Held(c),
           UNCHANGED <<wait, stage, target, currentConnIndex>>,
           hand'[c] # Nil <=> wpc'[c] \in {"write", "register"},
           wpc'[c] = "register" => hand'[c] \in Request
    PROVE  OwnerInv'
  <1>1. {} \in SUBSET Held(c) /\ Held(c)' = Held(c) \ {}
    OBVIOUS
  <1>2. wait' \in [Request -> {0, 1}]
    BY DEF OwnerInv, ReqType
  <1>3. \A r \in Request : wait'[r] = IF r \in {} THEN 0 ELSE wait[r]
    OBVIOUS
  <1> QED
    BY <1>1, <1>2, <1>3, HolderStep

\* The writer takes a request or a ping from the channel.
LEMMA TakeInputStep ==
    ASSUME LBInv, NEW c \in ConnId, TakeInput(c)
    PROVE  OwnerInv'
  <1>1. /\ wpc[c] = "select" /\ input[c] # <<>>
        /\ input' = [input EXCEPT ![c] = Tail(@)]
        /\ hand' = [hand EXCEPT ![c] = Head(input[c])]
        /\ wpc' = [wpc EXCEPT ![c] = "write"]
        /\ UNCHANGED <<registered, wait, stage, target, currentConnIndex>>
    BY DEF TakeInput, poolVars, reqVars
  <1>2. /\ OwnerInv /\ HoldType /\ ApartIn(c) /\ hand[c] = Nil
        /\ wpc \in [ConnId -> {"off", "select", "write", "register", "stop", "mark",
                               "after", "drain"}]
    BY <1>1 DEF LBInv, ListInv, ConnType, OwnerInv, HandOK, Owners
  <1>3. /\ input[c] \in Seq(Item) /\ Once(input[c]) /\ registered[c] \subseteq Request
        /\ Elems(input[c]) \cap registered[c] = {}
    BY <1>2 DEF HoldType, ApartIn
  <1>4. /\ Tail(input[c]) \in Seq(Item) /\ Head(input[c]) \in Item
        /\ Elems(input[c]) = Elems(Tail(input[c])) \cup ({Head(input[c])} \cap Request)
        /\ Head(input[c]) \notin Elems(Tail(input[c]))
        /\ Once(Tail(input[c]))
    BY <1>1, <1>3, ReceiveLemma
  <1>5. /\ input'[c] = Tail(input[c]) /\ hand'[c] = Head(input[c])
        /\ registered'[c] = registered[c] /\ wpc'[c] = "write"
        /\ \A d \in ConnId \ {c} : Same(d) /\ wpc'[d] = wpc[d]
    BY <1>1, <1>2 DEF HoldType, Same
  <1>6. HoldType'
    BY <1>1, <1>2, <1>4 DEF HoldType
  <1>7. Head(input[c]) # Nil /\ (Head(input[c]) \in registered[c] => Head(input[c]) \in Request)
    BY <1>3, <1>4, Distinct DEF Item
  <1>8. ApartIn(c)'
    BY <1>3, <1>4, <1>5, <1>7 DEF ApartIn
  <1>9. Held(c)' = Held(c)
    BY <1>2, <1>4, <1>5, Distinct DEF Held
  <1> QED
    BY <1>1, <1>2, <1>5, <1>6, <1>7, <1>8, <1>9, NoneCompleted

\* A ping leaves the hand of the writer.
LEMMA PassPingStep ==
    ASSUME LBInv, NEW c \in ConnId, PassPing(c)
    PROVE  OwnerInv'
  <1>1. /\ hand[c] = PING
        /\ hand' = [hand EXCEPT ![c] = Nil]
        /\ wpc' = [wpc EXCEPT ![c] = "select"]
        /\ UNCHANGED <<input, registered, wait, stage, target, currentConnIndex>>
    BY DEF PassPing, poolVars, chanVars, reqVars
  <1>2. /\ OwnerInv /\ HoldType /\ ApartIn(c)
        /\ wpc \in [ConnId -> {"off", "select", "write", "register", "stop", "mark",
                               "after", "drain"}]
    BY <1>1 DEF LBInv, ListInv, ConnType, OwnerInv, Owners
  <1>3. /\ input'[c] = input[c] /\ hand'[c] = Nil
        /\ registered'[c] = registered[c] /\ wpc'[c] = "select"
        /\ \A d \in ConnId \ {c} : Same(d) /\ wpc'[d] = wpc[d]
    BY <1>1, <1>2 DEF HoldType, Same
  <1>4. HoldType'
    BY <1>1, <1>2 DEF HoldType
  <1>5. Elems(input[c]) \subseteq Request /\ registered[c] \subseteq Request
    BY <1>2 DEF HoldType, Elems
  <1>6. ApartIn(c)'
    BY <1>2, <1>3, <1>5, Distinct DEF ApartIn
  <1>7. Held(c)' = Held(c)
    BY <1>1, <1>3, Distinct DEF Held
  <1> QED
    BY <1>1, <1>2, <1>3, <1>4, <1>6, <1>7, NoneCompleted

\* The request in the hand of the writer is registered.
LEMMA RegisterStep ==
    ASSUME LBInv, NEW c \in ConnId, Register(c)
    PROVE  OwnerInv'
  <1>1. /\ wpc[c] = "register"
        /\ registered' = [registered EXCEPT ![c] = @ \cup {hand[c]}]
        /\ hand' = [hand EXCEPT ![c] = Nil]
        /\ wpc' = [wpc EXCEPT ![c] = "select"]
        /\ UNCHANGED <<input, wait, stage, target, currentConnIndex>>
    BY DEF Register, poolVars, reqVars
  <1>2. /\ OwnerInv /\ HoldType /\ ApartIn(c) /\ hand[c] \in Request
        /\ wpc \in [ConnId -> {"off", "select", "write", "register", "stop", "mark",
                               "after", "drain"}]
    BY <1>1 DEF LBInv, ListInv, ConnType, OwnerInv, HandOK, Owners
  <1>3. /\ input'[c] = input[c] /\ hand'[c] = Nil
        /\ registered'[c] = registered[c] \cup {hand[c]} /\ wpc'[c] = "select"
        /\ \A d \in ConnId \ {c} : Same(d) /\ wpc'[d] = wpc[d]
    BY <1>1, <1>2 DEF HoldType, Same
  <1>4. HoldType'
    BY <1>1, <1>2 DEF HoldType
  <1>5. Elems(input[c]) \subseteq Request /\ registered[c] \subseteq Request
    BY <1>2 DEF HoldType, Elems
  <1>6. ApartIn(c)'
    BY <1>2, <1>3, <1>5, Distinct DEF ApartIn
  <1>7. Held(c)' = Held(c)
    BY <1>2, <1>3, Distinct DEF Held
  <1> QED
    BY <1>1, <1>2, <1>3, <1>4, <1>6, <1>7, NoneCompleted

\* The flush failed: the request in the hand of the writer is completed.
LEMMA WriteFailsStep ==
    ASSUME LBInv, NEW c \in ConnId, WriteFails(c)
    PROVE  OwnerInv'
  <1> DEFINE S == {hand[c]} \ {PING}
  <1>1. /\ wpc[c] = "write" /\ Complete(S, "err")
        /\ wpc' = [wpc EXCEPT ![c] = "stop"]
        /\ hand' = [hand EXCEPT ![c] = Nil]
        /\ UNCHANGED <<input, registered, currentConnIndex>>
    BY DEF WriteFails, poolVars, chanVars
  <1>2. /\ OwnerInv /\ HoldType /\ ApartIn(c) /\ hand[c] # Nil
        /\ wpc \in [ConnId -> {"off", "select", "write", "register", "stop", "mark",
                               "after", "drain"}]
    BY <1>1 DEF LBInv, ListInv, ConnType, OwnerInv, HandOK, Owners
  <1>3. hand[c] \in Request \cup {PING}
    BY <1>2 DEF HoldType, Item
  <1>4. /\ input'[c] = input[c] /\ hand'[c] = Nil
        /\ registered'[c] = registered[c] /\ wpc'[c] = "stop"
        /\ \A d \in ConnId \ {c} : Same(d) /\ wpc'[d] = wpc[d]
    BY <1>1, <1>2 DEF HoldType, Same
  <1>5. HoldType'
    BY <1>1, <1>2 DEF HoldType
  <1>6. Elems(input[c]) \subseteq Request /\ registered[c] \subseteq Request
    BY <1>2 DEF HoldType, Elems
  <1>7. ApartIn(c)'
    BY <1>2, <1>4, <1>6, Distinct DEF ApartIn
  <1>8. S \in SUBSET Held(c) /\ Held(c)' = Held(c) \ S
    BY <1>2, <1>3, <1>4, <1>6, Distinct DEF Held, ApartIn
  <1> HIDE DEF S
  <1>9. /\ wait' \in [Request -> {0, 1}]
        /\ \A r \in Request : wait'[r] = IF r \in S THEN 0 ELSE wait[r]
        /\ UNCHANGED <<stage, target>>
    BY <1>1, <1>2, <1>8, CompleteLemma
  <1>10. (hand'[c] # Nil <=> wpc'[c] \in {"write", "register"}) /\ wpc'[c] # "register"
    BY <1>4
  <1> QED
    BY <1>1, <1>2, <1>4, <1>5, <1>7, <1>8, <1>9, <1>10, HolderStep

\* The drain of Run completes the first request of the channel.
LEMMA DrainStep ==
    ASSUME LBInv, NEW c \in ConnId, Drain(c)
    PROVE  OwnerInv'
  <1> DEFINE S == {Head(input[c])} \ {PING}
  <1>1. /\ wpc[c] = "drain" /\ input[c] # <<>> /\ Complete(S, "err")
        /\ input' = [input EXCEPT ![c] = Tail(@)]
        /\ UNCHANGED <<wpc, hand, registered, currentConnIndex>>
    BY DEF Drain, poolVars
  <1>2. OwnerInv /\ HoldType /\ ApartIn(c) /\ hand[c] = Nil
    BY <1>1 DEF LBInv, OwnerInv, HandOK, Owners
  <1>3. /\ input[c] \in Seq(Item) /\ Once(input[c]) /\ registered[c] \subseteq Request
        /\ Elems(input[c]) \cap registered[c] = {}
    BY <1>2 DEF HoldType, ApartIn
  <1>4. /\ Tail(input[c]) \in Seq(Item) /\ Head(input[c]) \in Item
        /\ Elems(input[c]) = Elems(Tail(input[c])) \cup ({Head(input[c])} \cap Request)
        /\ Head(input[c]) \notin Elems(Tail(input[c]))
        /\ Once(Tail(input[c]))
    BY <1>1, <1>3, ReceiveLemma
  <1>5. /\ input'[c] = Tail(input[c]) /\ hand'[c] = Nil
        /\ registered'[c] = registered[c] /\ wpc'[c] = "drain"
        /\ \A d \in ConnId \ {c} : Same(d) /\ wpc'[d] = wpc[d]
    BY <1>1, <1>2 DEF HoldType, Same
  <1>6. HoldType'
    BY <1>1, <1>2, <1>4 DEF HoldType
  <1>7. ApartIn(c)'
    BY <1>2, <1>3, <1>4, <1>5 DEF ApartIn
  <1>8. S = {Head(input[c])} \cap Request
    BY <1>4, Distinct DEF Item
  <1>9. S \in SUBSET Held(c) /\ Held(c)' = Held(c) \ S
    BY <1>2, <1>3, <1>4, <1>5, <1>8, Distinct DEF Held
  <1> HIDE DEF S
  <1>10. /\ wait' \in [Request -> {0, 1}]
         /\ \A r \in Request : wait'[r] = IF r \in S THEN 0 ELSE wait[r]
         /\ UNCHANGED <<stage, target>>
    BY <1>1, <1>2, <1>9, CompleteLemma
  <1>11. (hand'[c] # Nil <=> wpc'[c] \in {"write", "register"}) /\ wpc'[c] # "register"
    BY <1>5
  <1> QED
    BY <1>1, <1>2, <1>5, <1>6, <1>7, <1>9, <1>10, <1>11, HolderStep

\* The reader takes the requests S out of the map and completes them.
LEMMA MapStep ==
    ASSUME LBInv, NEW c \in ConnId, NEW S \in SUBSET registered[c], NEW v,
           Complete(S, v), NEW m, m = registered[c] \ S,
           registered' = [registered EXCEPT ![c] = m],
           UNCHANGED <<wpc, hand, input, currentConnIndex>>
    PROVE  OwnerInv'
  <1>1. OwnerInv /\ HoldType /\ ApartIn(c)
    BY DEF LBInv, OwnerInv, Owners
  <1>2. /\ (hand[c] # Nil <=> wpc[c] \in {"write", "register"})
        /\ (wpc[c] = "register" => hand[c] \in Request)
    BY <1>1 DEF OwnerInv, HandOK
  <1>3. /\ input'[c] = input[c] /\ hand'[c] = hand[c] /\ wpc'[c] = wpc[c]
        /\ registered'[c] = registered[c] \ S
        /\ \A d \in ConnId \ {c} : Same(d) /\ wpc'[d] = wpc[d]
    BY <1>1 DEF HoldType, Same
  <1>4. HoldType'
    BY <1>1 DEF HoldType
  <1>5. ApartIn(c)'
    BY <1>1, <1>3 DEF ApartIn
  <1>6. S \in SUBSET Held(c) /\ Held(c)' = Held(c) \ S
    BY <1>1, <1>3 DEF Held, ApartIn
  <1>7. /\ wait' \in [Request -> {0, 1}]
        /\ \A r \in Request : wait'[r] = IF r \in S THEN 0 ELSE wait[r]
        /\ UNCHANGED <<stage, target>>
    BY <1>1, <1>6, CompleteLemma
  <1> QED
    BY <1>1, <1>2, <1>3, <1>4, <1>5, <1>6, <1>7, HolderStep

\* An answer completes its request, when it is registered.
LEMMA ReadReplyStep ==
    ASSUME LBInv, NEW c \in ConnId, NEW r \in Request, ReadReply(c, r)
    PROVE  OwnerInv'
  <1> DEFINE S == {r} \cap registered[c]
             m == registered[c] \ {r}
  <1>1. /\ Complete(S, "data")
        /\ registered' = [registered EXCEPT ![c] = m]
        /\ UNCHANGED <<wpc, hand, input, currentConnIndex>>
    BY DEF ReadReply, poolVars, writerVars
  <1>2. S \in SUBSET registered[c] /\ m = registered[c] \ S
    OBVIOUS
  <1> HIDE DEF S, m
  <1> QED
    BY <1>1, <1>2, MapStep

\* flushRequests completes all the requests of the map.
LEMMA FlushRequestsStep ==
    ASSUME LBInv, NEW c \in ConnId, FlushRequests(c)
    PROVE  OwnerInv'
  <1> DEFINE S == registered[c]
  <1>1. /\ Complete(S, "err")
        /\ registered' = [registered EXCEPT ![c] = {}]
        /\ UNCHANGED <<wpc, hand, input, currentConnIndex>>
    BY DEF FlushRequests, poolVars, writerVars
  <1>2. S \in SUBSET registered[c] /\ {} = registered[c] \ S
    OBVIOUS
  <1> HIDE DEF S
  <1> QED
    BY <1>1, <1>2, MapStep

\* What the send of x on the channel of c does to what c holds.
LEMMA SendStep ==
    ASSUME LBInv, NEW c \in ConnId, NEW x \in Item, x \notin Held(c), SendInput(c, x),
           UNCHANGED hand
    PROVE  /\ HoldType' /\ ApartIn(c)'
           /\ Held(c)' = Held(c) \cup ({x} \cap Request)
           /\ \A d \in ConnId \ {c} : Same(d)
  <1>1. input' = [input EXCEPT ![c] = Append(@, x)] /\ UNCHANGED <<registered, hand>>
    BY DEF SendInput
  <1>2. HoldType /\ ApartIn(c)
    BY DEF LBInv, OwnerInv, Owners
  <1>3. /\ input[c] \in Seq(Item) /\ Once(input[c])
        /\ x \notin Elems(input[c]) /\ x \notin registered[c]
        /\ hand[c] \in Request => hand[c] # x
        /\ registered[c] \subseteq Request
    BY <1>2 DEF HoldType, ApartIn, Held
  <1>4. /\ Append(input[c], x) \in Seq(Item)
        /\ Elems(Append(input[c], x)) = Elems(input[c]) \cup ({x} \cap Request)
        /\ Once(Append(input[c], x))
    BY <1>3, SendLemma
  <1>5. /\ input'[c] = Append(input[c], x) /\ hand'[c] = hand[c]
        /\ registered'[c] = registered[c]
        /\ \A d \in ConnId \ {c} : Same(d)
    BY <1>1, <1>2 DEF HoldType, Same
  <1>6. HoldType'
    BY <1>1, <1>2, <1>4 DEF HoldType
  <1>7. ApartIn(c)'
    BY <1>2, <1>3, <1>4, <1>5 DEF ApartIn
  <1>8. Held(c)' = Held(c) \cup ({x} \cap Request)
    BY <1>4, <1>5 DEF Held
  <1> QED
    BY <1>5, <1>6, <1>7, <1>8

\* The heartbeat pushes a ping.
LEMMA PushPingStep ==
    ASSUME LBInv, NEW c \in ConnId, PushPing(c)
    PROVE  OwnerInv'
  <1>1. /\ UNCHANGED <<wpc, hand, wait, stage, target, currentConnIndex>>
        /\ SendInput(c, PING) \/ UNCHANGED <<input, registered>>
    BY DEF PushPing, poolVars, writerVars, reqVars, chanVars
  <1>2. OwnerInv
    BY DEF LBInv
  <1>3. CASE SendInput(c, PING)
    <2>1. PING \in Item /\ PING \notin Held(c)
      BY <1>2, Distinct DEF Held, Elems, Item, OwnerInv, HoldType
    <2>2. /\ HoldType' /\ ApartIn(c)'
          /\ Held(c)' = Held(c) \cup ({PING} \cap Request)
          /\ \A d \in ConnId \ {c} : Same(d)
      BY <1>1, <1>3, <2>1, SendStep
    <2>3. Held(c)' = Held(c)
      BY <2>2, Distinct
    <2>4. /\ (hand'[c] # Nil <=> wpc'[c] \in {"write", "register"})
          /\ (wpc'[c] = "register" => hand'[c] \in Request)
      BY <1>1, <1>2 DEF OwnerInv, HandOK
    <2> QED
      BY <1>1, <1>2, <2>2, <2>3, <2>4, NoneCompleted
  <1>4. CASE UNCHANGED <<input, registered>>
    BY <1>1, <1>2, <1>4
       DEF OwnerInv, HoldType, ReqType, Owners, ApartIn, Held, HandOK, DispatchOK
  <1> QED
    BY <1>1, <1>3, <1>4

\* Dispatch pushes a request to the connection that was picked for it.
LEMMA PushBackStep ==
    ASSUME LBInv, NEW r \in Request, PushBack(r)
    PROVE  OwnerInv'
  <1>1. /\ stage[r] = "picked" /\ SendInput(target[r], r)
        /\ wait' = [wait EXCEPT ![r] = @ + 1]
        /\ stage' = [stage EXCEPT ![r] = "wait"]
        /\ target' = [target EXCEPT ![r] = Nil]
        /\ UNCHANGED <<wpc, hand, currentConnIndex>>
    BY DEF PushBack, poolVars, writerVars
  <1>2. OwnerInv /\ target[r] \in ConnId /\ wait[r] = 0 /\ r \in Item
    BY <1>1 DEF LBInv, OwnerInv, DispatchOK, Item
  <1>3. PICK c \in ConnId : c = target[r]
    BY <1>2
  <1>4. \A d \in ConnId : r \notin Held(d)
    BY <1>2, SMTT(30) DEF OwnerInv, Owners
  <1>5. /\ HoldType' /\ ApartIn(c)'
        /\ Held(c)' = Held(c) \cup ({r} \cap Request)
        /\ \A d \in ConnId \ {c} : Same(d)
    BY <1>1, <1>2, <1>3, <1>4, SendStep
  <1>6. \A d \in ConnId \ {c} : (Held(d)' = Held(d)) /\ (ApartIn(d)' <=> ApartIn(d))
    BY <1>5 DEF Same, Held, ApartIn
  <1>7. /\ wait \in [Request -> {0, 1}] /\ stage \in [Request -> {"new", "picked", "wait"}]
        /\ target \in [Request -> ConnId \cup {Nil}]
    BY <1>2 DEF OwnerInv, ReqType
  <1>8. /\ wait' \in [Request -> {0, 1}] /\ wait'[r] = 1
        /\ \A q \in Request \ {r} : wait'[q] = wait[q]
    BY <1>1, <1>2, <1>7, SMTT(30)
  <1>9. /\ stage' \in [Request -> {"new", "picked", "wait"}] /\ stage'[r] = "wait"
        /\ target' \in [Request -> ConnId \cup {Nil}]
        /\ \A q \in Request \ {r} : stage'[q] = stage[q] /\ target'[q] = target[q]
    BY <1>1, <1>7
  <1>10. ReqType'
    BY <1>1, <1>2, <1>8, <1>9 DEF OwnerInv, ReqType
  <1>11. Owners'
    <2>1. \A d \in ConnId : ApartIn(d)'
      BY <1>2, <1>5, <1>6 DEF OwnerInv, Owners
    <2>2. \A d, e \in ConnId : d # e => Held(d)' \cap Held(e)' = {}
      BY <1>2, <1>4, <1>5, <1>6, SMTT(30) DEF OwnerInv, Owners
    <2>3. ASSUME NEW q \in Request
          PROVE  wait'[q] = 1 <=> \E d \in ConnId : q \in Held(d)'
      <3>1. CASE q = r
        BY <1>2, <1>5, <1>8, <3>1
      <3>2. CASE q # r
        <4>1. \A d \in ConnId : q \in Held(d)' <=> q \in Held(d)
          BY <1>5, <1>6, <3>2
        <4>2. wait[q] = 1 <=> \E d \in ConnId : q \in Held(d)
          BY <1>2 DEF OwnerInv, Owners
        <4> QED
          BY <1>8, <3>2, <4>1, <4>2
      <3> QED
        BY <3>1, <3>2
    <2> QED
      BY <2>1, <2>2, <2>3 DEF Owners
  <1>12. HandOK'
    BY <1>1, <1>2 DEF OwnerInv, HandOK
  <1>13. DispatchOK'
    <2>1. /\ stage'[r] = "wait" /\ "wait" # "picked"
          /\ \A q \in Request : q # r => /\ stage'[q] = stage[q]
                                         /\ target'[q] = target[q]
                                         /\ wait'[q] = wait[q]
      BY <1>8, <1>9
    <2> QED
      BY <1>2, <2>1 DEF OwnerInv, DispatchOK
  <1> QED
    BY <1>5, <1>10, <1>11, <1>12, <1>13 DEF OwnerInv

\* Dispatch picks a listed connection, or answers that there is none.
LEMMA PickStep ==
    ASSUME LBInv, NEW r \in Request, Pick(r)
    PROVE  OwnerInv'
  <1>1. OwnerInv /\ ReqType /\ DispatchOK /\ activeConns \in Seq(ConnId)
    BY DEF LBInv, OwnerInv, ListInv, ListType
  <1>2. /\ stage[r] = "new"
        /\ UNCHANGED <<wpc, hand, input, registered, wait>>
        /\ \/ /\ stage' = [stage EXCEPT ![r] = "wait"]
              /\ UNCHANGED <<target, currentConnIndex>>
           \/ /\ activeConns # <<>>
              /\ target' = [target EXCEPT ![r] = activeConns[Cursor + 1]]
              /\ currentConnIndex' = Cursor + 1
              /\ stage' = [stage EXCEPT ![r] = "picked"]
    BY DEF Pick, writerVars, chanVars
  <1>3. HoldType' /\ Owners' /\ HandOK'
    BY <1>1, <1>2 DEF OwnerInv, HoldType, Owners, ApartIn, Held, HandOK
  <1>4. wait[r] = 0
    BY <1>1, <1>2 DEF DispatchOK
  <1>5. /\ wait \in [Request -> {0, 1}] /\ stage \in [Request -> {"new", "picked", "wait"}]
        /\ target \in [Request -> ConnId \cup {Nil}] /\ currentConnIndex \in Nat
    BY <1>1 DEF ReqType
  <1>6. CASE /\ stage' = [stage EXCEPT ![r] = "wait"]
             /\ UNCHANGED <<target, currentConnIndex>>
    <2>1. ReqType'
      BY <1>2, <1>5, <1>6 DEF ReqType
    <2>2. DispatchOK'
      BY <1>1, <1>2, <1>4, <1>5, <1>6 DEF DispatchOK
    <2> QED
      BY <1>3, <2>1, <2>2 DEF OwnerInv
  <1>7. CASE /\ activeConns # <<>>
             /\ target' = [target EXCEPT ![r] = activeConns[Cursor + 1]]
             /\ currentConnIndex' = Cursor + 1
             /\ stage' = [stage EXCEPT ![r] = "picked"]
    <2>1. Cursor + 1 \in Nat /\ Cursor + 1 \in DOMAIN activeConns
      BY <1>1, <1>5, <1>7, SMTT(30) DEF Cursor
    <2>2. activeConns[Cursor + 1] \in ConnId
      BY <1>1, <2>1, SMTT(30)
    <2>3. ReqType'
      BY <1>2, <1>5, <1>7, <2>1, <2>2 DEF ReqType
    <2>4. DispatchOK'
      BY <1>1, <1>2, <1>4, <1>5, <1>7, <2>2 DEF DispatchOK
    <2> QED
      BY <1>3, <2>3, <2>4 DEF OwnerInv
  <1> QED
    BY <1>2, <1>6, <1>7

\* The other steps touch no request.
LEMMA OwnerUnchanged ==
    ASSUME OwnerInv,
           UNCHANGED <<input, hand, registered, wait, stage, target, currentConnIndex, wpc>>
    PROVE  OwnerInv'
  <1>1. HoldType' /\ ReqType' /\ Owners'
    BY DEF OwnerInv, HoldType, ReqType, Owners, ApartIn, Held
  <1>2. HandOK' /\ DispatchOK'
    BY DEF OwnerInv, HandOK, DispatchOK
  <1> QED
    BY <1>1, <1>2 DEF OwnerInv

\* Every step keeps the invariant of the requests.
LEMMA NextOwnerInv ==
    ASSUME LBInv, [Next]_vars
    PROVE  OwnerInv'
  <1> USE DEF poolVars, chanVars, writerVars, reqVars
  <1>1. OwnerInv
    BY DEF LBInv
  <1>2. CASE UNCHANGED vars
    <2>1. UNCHANGED <<input, hand, registered, wait, stage, target, currentConnIndex, wpc>>
      BY <1>2 DEF vars
    <2> QED
      BY <1>1, <2>1, OwnerUnchanged
  <1>3. CASE AppendConn \/ \E r \in Request : PushBackPanics(r)
    <2>1. UNCHANGED <<input, hand, registered, wait, stage, target, currentConnIndex, wpc>>
      BY <1>3 DEF AppendConn, PushBackPanics
    <2> QED
      BY <1>1, <2>1, OwnerUnchanged
  <1>4. ASSUME NEW c \in ConnId,
               \/ \E t \in {W, R} : SetInactive(c, t) \/ StateChanged(c, t)
               \/ ReadStop(c) \/ ReadFails(c) \/ CloseInput(c) \/ HbTick(c)
        PROVE  OwnerInv'
    <2>1. UNCHANGED <<input, hand, registered, wait, stage, target, currentConnIndex, wpc>>
      BY <1>4
         DEF SetInactive, StateChanged, ReadStop, ReadFails, CloseInput, HbTick
    <2> QED
      BY <1>1, <2>1, OwnerUnchanged
  <1> QED
    BY <1>2, <1>3, <1>4, PickStep, PushBackStep, WriterOnlyStep, TakeInputStep,
       PassPingStep, RegisterStep, WriteFailsStep, DrainStep, ReadReplyStep,
       FlushRequestsStep, PushPingStep
       DEF Next

-----------------------------------------------------------------------------
(* The theorems.                                                           *)

\* Nothing was accepted and nothing was dispatched when the process starts.
LEMMA InitLBInv == Init => LBInv
  <1> SUFFICES ASSUME Init PROVE LBInv
    OBVIOUS
  <1> USE DEF Init
  <1>1. ConnType /\ MarkType
    BY DEF ConnType, MarkType
  <1>2. ListType /\ Pooled = {} /\ IndexAgrees
    BY SMTT(30) DEF ListType, IndexAgrees, Pooled
  <1>3. NotCreated /\ Apart
    BY <1>2, LBAssumption DEF NotCreated, Apart, W, R
  <1>4. HoldType /\ ReqType
    BY SMTT(30) DEF HoldType, ReqType, Item
  <1>5. \A c \in ConnId : Held(c) = {} /\ ApartIn(c)
    <2> TAKE c \in ConnId
    <2>1. input[c] = <<>> /\ hand[c] = Nil /\ registered[c] = {}
      OBVIOUS
    <2>2. Elems(<<>>) = {} /\ Once(<<>>)
      BY SMTT(30) DEF Elems, Once
    <2> QED
      BY <2>1, <2>2, Distinct DEF Held, ApartIn
  <1>6. Owners
    BY <1>5, SMTT(30) DEF Owners
  <1>7. HandOK /\ DispatchOK
    BY DEF HandOK, DispatchOK
  <1> QED
    BY <1>1, <1>2, <1>3, <1>4, <1>6, <1>7 DEF LBInv, ListInv, OwnerInv

\* The inductive invariant of the load balancer holds for any workers, requests,
\* capacity and number of pings.
THEOREM LBInvariant == Spec => []LBInv
  <1>1. LBInv /\ [Next]_vars => LBInv'
    BY NextListInv, NextOwnerInv DEF LBInv
  <1> QED
    BY InitLBInv, <1>1, PTL DEF Spec

\* A request is in as many places as its Wait says.
LEMMA PlacesCount ==
    ASSUME OwnerInv
    PROVE  OneOwner
  <1> SUFFICES ASSUME NEW r \in Request
               PROVE  Cardinality(Places(r)) = wait[r]
    BY DEF OneOwner
  <1>1. wait[r] \in {0, 1} /\ (wait[r] = 1 <=> \E c \in ConnId : r \in Held(c))
    BY DEF OwnerInv, ReqType, Owners
  <1>2. /\ \A c \in ConnId : ApartIn(c) /\ Queued(c) = Elems(input[c])
        /\ \A c, d \in ConnId : c # d => Held(c) \cap Held(d) = {}
    BY DEF OwnerInv, Owners, Queued, Elems
  <1>3. \A p \in Places(r) : \E c \in ConnId :
            /\ r \in Held(c)
            /\ \/ p = <<c, "input">> /\ r \in Elems(input[c])
               \/ p = <<c, "hand">> /\ hand[c] = r
               \/ p = <<c, "map">> /\ r \in registered[c]
    <2> TAKE p \in Places(r)
    <2>1. \/ \E c \in ConnId : r \in Queued(c) /\ p = <<c, "input">>
          \/ \E c \in ConnId : hand[c] = r /\ p = <<c, "hand">>
          \/ \E c \in ConnId : r \in registered[c] /\ p = <<c, "map">>
      BY DEF Places
    <2>2. \A c \in ConnId :
              r \in Queued(c) \/ hand[c] = r \/ r \in registered[c] => r \in Held(c)
      BY <1>2 DEF Held
    <2> QED
      BY <1>2, <2>1, <2>2
  <1>4. CASE wait[r] = 0
    <2>1. Places(r) = {}
      BY <1>1, <1>3, <1>4, SMTT(30)
    <2> QED
      BY <1>4, <2>1, FS_EmptySet
  <1>5. CASE wait[r] = 1
    <2>1. PICK c \in ConnId : r \in Held(c)
      BY <1>1, <1>5
    <2>2. \A d \in ConnId : r \in Held(d) => d = c
      BY <1>2, <2>1
    <2>3. /\ r \in Elems(input[c]) => hand[c] # r /\ r \notin registered[c]
          /\ hand[c] = r => r \notin registered[c]
      BY <1>2 DEF ApartIn
    <2>4. PICK q : Places(r) = {q}
      <3>1. CASE r \in Elems(input[c])
        <4>1. <<c, "input">> \in Places(r)
          BY <1>2, <3>1 DEF Places
        <4>2. \A p \in Places(r) : p = <<c, "input">>
          BY <1>3, <2>2, <2>3, <3>1
        <4> QED
          BY <4>1, <4>2
      <3>2. CASE hand[c] = r
        <4>1. <<c, "hand">> \in Places(r)
          BY <3>2 DEF Places
        <4>2. \A p \in Places(r) : p = <<c, "hand">>
          BY <1>3, <2>2, <2>3, <3>2
        <4> QED
          BY <4>1, <4>2
      <3>3. CASE r \in registered[c]
        <4>1. <<c, "map">> \in Places(r)
          BY <3>3 DEF Places
        <4>2. \A p \in Places(r) : p = <<c, "map">>
          BY <1>3, <2>2, <2>3, <3>3
        <4> QED
          BY <4>1, <4>2
      <3> QED
        BY <2>1, <3>1, <3>2, <3>3 DEF Held
    <2> QED
      BY <1>5, <2>4, FS_Singleton
  <1> QED
    BY <1>1, <1>4, <1>5

\* Property OneOwner: the writer, the drain, the reader and flushRequests never
\* complete a request of the load balancer twice, and none of them drops one.
THEOREM LBOneOwnerCorrect == Spec => []OneOwner
  <1>1. LBInv => OneOwner
    BY PlacesCount DEF LBInv
  <1> QED
    BY LBInvariant, <1>1, PTL

\* Property IndexRight: every listed connection knows its place in activeConns,
\* whatever removals by a stale Index came before.
THEOREM IndexRightCorrect == Spec => []IndexRight
  <1>1. LBInv => IndexRight
    BY DEF LBInv, ListInv, IndexAgrees, IndexRight
  <1> QED
    BY LBInvariant, <1>1, PTL

\* Property RemovedStaysOut: a listed connection that was reported to StateChanged
\* is never listed again.
THEOREM RemovedStaysOutCorrect == Spec => []RemovedStaysOut
  <1>1. LBInv => RemovedStaysOut
    BY DEF LBInv, ListInv, Apart, RemovedStaysOut
  <1> QED
    BY LBInvariant, <1>1, PTL

-----------------------------------------------------------------------------
(* The types of the variables that the invariant is not about.             *)

\* g is f, or differs from it at one connection.
Changed(f, g, T) == g = f \/ \E c \in ConnId, v \in T : g = [f EXCEPT ![c] = v]

\* Such a change keeps the type.
LEMMA ChangedType ==
    ASSUME NEW T, NEW f \in [ConnId -> T], NEW g, Changed(f, g, T)
    PROVE  g \in [ConnId -> T]
  BY DEF Changed

\* The steps of the sessions and of the list, of Run, and of the reader, the
\* heartbeat and whoever reports the state of a connection.
FrontStep ==
    \/ AppendConn
    \/ \E r \in Request : Pick(r) \/ PushBack(r) \/ PushBackPanics(r)

RunStep(c) ==
    \/ TakeInput(c) \/ InputEnds(c) \/ TakeTimeout(c) \/ PassPing(c) \/ Write(c)
    \/ Register(c) \/ WriteFails(c) \/ StopHeartbeat(c) \/ WriterMark(c)
    \/ AfterLoop(c) \/ Drain(c)

BackStep(c) ==
    \/ NewBackendConnLB(c)
    \/ \E t \in {W, R} : SetInactive(c, t) \/ StateChanged(c, t)
    \/ \E r \in Request : ReadReply(c, r)
    \/ ReadStop(c) \/ ReadFails(c) \/ FlushRequests(c) \/ CloseInput(c)
    \/ HbTick(c) \/ PushPing(c)

\* Every step is one of these.
LEMMA StepKinds ==
    ASSUME [Next]_vars
    PROVE  FrontStep \/ (\E c \in ConnId : RunStep(c) \/ BackStep(c)) \/ UNCHANGED vars
  BY DEF Next, FrontStep, RunStep, BackStep

\* The flags and places of a connection.
CellType ==
    /\ IsConnActive \in [ConnId -> BOOLEAN]
    /\ inputClosed \in [ConnId -> BOOLEAN]
    /\ werr \in [ConnId -> BOOLEAN]
    /\ hbpc \in [ConnId -> {"off", "loop", "ping", "timeout", "exit"}]

\* The goroutines of a connection change its flags and places one at a time.
LEMMA CellStep ==
    ASSUME CellType, [Next]_vars
    PROVE  CellType'
  <1> USE DEF poolVars, flagVars, chanVars, netVars, writerVars, hbVars, reqVars
  <1> DEFINE Kept == /\ Changed(IsConnActive, IsConnActive', BOOLEAN)
                     /\ Changed(inputClosed, inputClosed', BOOLEAN)
                     /\ Changed(werr, werr', BOOLEAN)
                     /\ Changed(hbpc, hbpc', {"off", "loop", "ping", "timeout", "exit"})
  <1>1. CASE FrontStep
    <2>1. Kept
      BY <1>1
         DEF FrontStep, AppendConn, Pick, PushBack, SendInput, PushBackPanics, Changed
    <2> QED
      BY <2>1, ChangedType DEF CellType
  <1>2. ASSUME NEW c \in ConnId, RunStep(c) PROVE CellType'
    <2>1. Kept
      BY <1>2
         DEF RunStep, TakeInput, InputEnds, TakeTimeout, PassPing, Write, Register,
             WriteFails, StopHeartbeat, WriterMark, AfterLoop, Drain, Changed
    <2> QED
      BY <2>1, ChangedType DEF CellType
  <1>3. ASSUME NEW c \in ConnId, BackStep(c) PROVE CellType'
    <2>1. Kept
      BY <1>3
         DEF BackStep, NewBackendConnLB, SetInactive, StateChanged, ReadReply, ReadStop,
             ReadFails, FlushRequests, CloseInput, HbTick, PushPing, SendInput, Changed
    <2> QED
      BY <2>1, ChangedType DEF CellType
  <1>4. CASE UNCHANGED vars
    BY <1>4 DEF CellType, vars
  <1> QED
    BY <1>1, <1>2, <1>3, <1>4, StepKinds

\* The channels, what the drain has left to do, and the frames on the sockets.
BufferType ==
    /\ \A c \in ConnId : Len(input[c]) <= InputCap
    /\ left \in [ConnId -> 0 .. InputCap]
    /\ wire \in [ConnId -> SUBSET Request]

\* A channel that is not changed, that gets an item while it has a free place,
\* or that loses one stays within its capacity.
LEMMA InputBound ==
    ASSUME HoldType, \A c \in ConnId : Len(input[c]) <= InputCap,
           \/ UNCHANGED input
           \/ \E c \in ConnId, x \in Item : SendInput(c, x)
           \/ \E c \in ConnId : input[c] # <<>> /\ input' = [input EXCEPT ![c] = Tail(@)]
    PROVE  \A c \in ConnId : Len(input'[c]) <= InputCap
  <1>0. input \in [ConnId -> Seq(Item)] /\ InputCap \in Nat
    BY LBAssumption DEF HoldType
  <1>1. ASSUME NEW c \in ConnId, NEW x \in Item, SendInput(c, x), NEW d \in ConnId
        PROVE  Len(input'[d]) <= InputCap
    <2>1. /\ input' = [input EXCEPT ![c] = Append(input[c], x)]
          /\ Len(input[c]) < InputCap /\ input[c] \in Seq(Item)
      BY <1>0, <1>1 DEF SendInput
    <2>2. Len(Append(input[c], x)) <= InputCap
      BY <1>0, <2>1, SMTT(30)
    <2> QED
      BY <1>0, <2>1, <2>2
  <1>2. ASSUME NEW c \in ConnId, input[c] # <<>>, input' = [input EXCEPT ![c] = Tail(@)],
               NEW d \in ConnId
        PROVE  Len(input'[d]) <= InputCap
    <2>1. input[c] \in Seq(Item) /\ input' = [input EXCEPT ![c] = Tail(input[c])]
      BY <1>0, <1>2
    <2>2. Len(Tail(input[c])) <= InputCap
      BY <1>0, <1>2, <2>1, SMTT(30)
    <2> QED
      BY <1>0, <2>1, <2>2
  <1> QED
    BY <1>1, <1>2

\* What steps do to the channels, the drains and the sockets.
InputMoves ==
    \/ UNCHANGED input
    \/ \E c \in ConnId, x \in Item : SendInput(c, x)
    \/ \E c \in ConnId : input[c] # <<>> /\ input' = [input EXCEPT ![c] = Tail(@)]

LeftMoves ==
    \/ UNCHANGED left
    \/ \E c \in ConnId : \E n \in {0, Len(input[c])} : left' = [left EXCEPT ![c] = n]
    \/ \E c \in ConnId : left[c] # 0 /\ left' = [left EXCEPT ![c] = @ - 1]

WireMoves ==
    \/ UNCHANGED wire
    \/ \E c \in ConnId : hand[c] \in Request /\ wire' = [wire EXCEPT ![c] = @ \cup {hand[c]}]
    \/ \E c \in ConnId, r \in Request : wire' = [wire EXCEPT ![c] = @ \ {r}]
    \/ \E c \in ConnId : wire' = [wire EXCEPT ![c] = {}]

\* Every step does one of these with each of them.
LEMMA BufferMoves ==
    ASSUME LBInv, [Next]_vars
    PROVE  InputMoves /\ LeftMoves /\ WireMoves
  <1> USE DEF poolVars, flagVars, chanVars, netVars, writerVars, hbVars, reqVars
  <1>0. /\ \A c \in ConnId : wpc[c] = "write" /\ hand[c] # PING => hand[c] \in Request
        /\ \A r \in Request : stage[r] = "picked" => target[r] \in ConnId
    BY DEF LBInv, OwnerInv, HandOK, HoldType, DispatchOK, Item
  <1>1. CASE FrontStep
    <2>1. UNCHANGED <<left, wire>>
      BY <1>1 DEF FrontStep, AppendConn, Pick, PushBack, PushBackPanics
    <2>2. InputMoves
      BY <1>0, <1>1 DEF FrontStep, AppendConn, Pick, PushBack, PushBackPanics, Item,
         InputMoves
    <2> QED
      BY <2>1, <2>2 DEF LeftMoves, WireMoves
  <1>2. ASSUME NEW c \in ConnId, RunStep(c) PROVE InputMoves /\ LeftMoves /\ WireMoves
    <2> USE DEF RunStep, TakeInput, InputEnds, TakeTimeout, PassPing, Write, Register,
                WriteFails, StopHeartbeat, WriterMark, AfterLoop, Drain
    <2>1. InputMoves
      BY <1>2 DEF InputMoves
    <2>2. LeftMoves
      <3>1. CASE AfterLoop(c)
        BY <3>1 DEF LeftMoves
      <3>2. CASE ~AfterLoop(c)
        BY <1>2, <3>2 DEF LeftMoves
      <3> QED
        BY <3>1, <3>2
    <2>3. WireMoves
      BY <1>0, <1>2 DEF WireMoves
    <2> QED
      BY <2>1, <2>2, <2>3
  <1>3. ASSUME NEW c \in ConnId, BackStep(c) PROVE InputMoves /\ LeftMoves /\ WireMoves
    <2> USE DEF BackStep, NewBackendConnLB, SetInactive, StateChanged, ReadReply, ReadStop,
                ReadFails, FlushRequests, CloseInput, HbTick, PushPing
    <2>1. InputMoves
      BY <1>3 DEF Item, InputMoves
    <2>2. LeftMoves
      BY <1>3 DEF SendInput, LeftMoves
    <2>3. WireMoves
      BY <1>3 DEF SendInput, WireMoves
    <2> QED
      BY <2>1, <2>2, <2>3
  <1>4. CASE UNCHANGED vars
    BY <1>4 DEF vars, InputMoves, LeftMoves, WireMoves
  <1> QED
    BY <1>1, <1>2, <1>3, <1>4, StepKinds

\* Channels stay within their capacity, the drain counts no more, and only
\* requests are sent.
LEMMA BufferStep ==
    ASSUME LBInv, BufferType, [Next]_vars
    PROVE  BufferType'
  <1>0. /\ HoldType /\ InputCap \in Nat
        /\ \A c \in ConnId : Len(input[c]) \in 0 .. InputCap
        /\ left \in [ConnId -> 0 .. InputCap]
        /\ wire \in [ConnId -> SUBSET Request]
    <2>1. HoldType /\ InputCap \in Nat
      BY LBAssumption DEF LBInv, OwnerInv
    <2>2. \A c \in ConnId : input[c] \in Seq(Item)
      BY <2>1 DEF HoldType
    <2> QED
      BY <2>1, <2>2, SMTT(30) DEF BufferType
  <1>1. \A c \in ConnId : Len(input'[c]) <= InputCap
    BY InputBound, BufferMoves DEF LBInv, OwnerInv, BufferType, InputMoves
  <1>2. left' \in [ConnId -> 0 .. InputCap]
    <2>1. ASSUME NEW c \in ConnId, NEW n \in {0, Len(input[c])}, left' = [left EXCEPT ![c] = n]
          PROVE  left' \in [ConnId -> 0 .. InputCap]
      BY <1>0, <2>1, SMTT(30)
    <2>2. ASSUME NEW c \in ConnId, left[c] # 0, left' = [left EXCEPT ![c] = left[c] - 1]
          PROVE  left' \in [ConnId -> 0 .. InputCap]
      BY <1>0, <2>2, SMTT(30)
    <2> QED
      BY <1>0, <2>1, <2>2, BufferMoves DEF LeftMoves
  <1>3. wire' \in [ConnId -> SUBSET Request]
    <2>1. ASSUME NEW c \in ConnId, NEW v \in SUBSET Request, wire' = [wire EXCEPT ![c] = v]
          PROVE  wire' \in [ConnId -> SUBSET Request]
      BY <1>0, <2>1
    <2>2. \A c \in ConnId : wire[c] \in SUBSET Request
      BY <1>0
    <2>3. CASE \E c \in ConnId : hand[c] \in Request
                                 /\ wire' = [wire EXCEPT ![c] = wire[c] \cup {hand[c]}]
      <3>1. PICK c \in ConnId : hand[c] \in Request
                               /\ wire' = [wire EXCEPT ![c] = wire[c] \cup {hand[c]}]
        BY <2>3
      <3>2. wire[c] \cup {hand[c]} \in SUBSET Request
        BY <2>2, <3>1
      <3> QED
        BY <2>1, <3>1, <3>2
    <2>4. CASE \E c \in ConnId, r \in Request : wire' = [wire EXCEPT ![c] = wire[c] \ {r}]
      BY <2>1, <2>2, <2>4
    <2>5. CASE \E c \in ConnId : wire' = [wire EXCEPT ![c] = {}]
      BY <2>1, <2>5
    <2> QED
      BY <1>0, <2>3, <2>4, <2>5, BufferMoves DEF WireMoves
  <1> QED
    BY <1>1, <1>2, <1>3 DEF BufferType

-----------------------------------------------------------------------------
(* The requests as the sessions see them.                                  *)

\* A step completes requests that their sessions wait for, with one outcome.
Completion ==
    \E S \in SUBSET Request, how \in {"err", "data"} :
        /\ Complete(S, how)
        /\ \A r \in S : wait[r] = 1

\* A session waits for what a connection holds.
LEMMA HeldWaits ==
    ASSUME LBInv, NEW c \in ConnId, NEW S, S \subseteq Held(c), NEW how \in {"err", "data"},
           Complete(S, how)
    PROVE  Completion
  <1>1. \A d \in ConnId : Held(d) \subseteq Request
    BY DEF LBInv, OwnerInv, HoldType, Held, Elems
  <1>2. \A r \in S : r \in Request /\ wait[r] = 1
    BY <1>1 DEF LBInv, OwnerInv, Owners
  <1> QED
    BY <1>2 DEF Completion

\* What a step does with Wait and Response: a session gets its connection or
\* pushes its request, or requests that are waited for are completed.
LEMMA RequestStep ==
    ASSUME LBInv, [Next]_vars
    PROVE  \/ UNCHANGED <<stage, wait, resp>>
           \/ \E r \in Request : Pick(r) \/ PushBack(r)
           \/ Completion
  <1> DEFINE Unseen == UNCHANGED <<stage, wait, resp>>
  <1> USE DEF poolVars, flagVars, chanVars, netVars, writerVars, hbVars, reqVars
  <1>1. ASSUME FrontStep PROVE Unseen \/ \E r \in Request : Pick(r) \/ PushBack(r)
    BY <1>1 DEF FrontStep, AppendConn, PushBackPanics
  <1>2. ASSUME NEW c \in ConnId, RunStep(c) PROVE Unseen \/ Completion
    <2>1. CASE WriteFails(c)
      <3>1. /\ Complete({hand[c]} \ {PING}, "err") /\ hand[c] \in Item
        BY <2>1 DEF WriteFails, LBInv, OwnerInv, HoldType, HandOK
      <3>2. {hand[c]} \ {PING} \subseteq Held(c)
        BY <3>1 DEF Held, Item
      <3> QED
        BY <3>1, <3>2, HeldWaits
    <2>2. CASE Drain(c)
      <3>1. /\ Complete({Head(input[c])} \ {PING}, "err")
            /\ input[c] # <<>> /\ input[c] \in Seq(Item)
        BY <2>2 DEF Drain, LBInv, OwnerInv, HoldType
      <3>2. Head(input[c]) \in Item /\ 1 \in DOMAIN input[c] /\ Head(input[c]) = input[c][1]
        BY <3>1, SMTT(30)
      <3>3. {Head(input[c])} \ {PING} \subseteq Elems(input[c])
        BY <3>2 DEF Elems, Item
      <3>4. {Head(input[c])} \ {PING} \subseteq Held(c)
        BY <3>3 DEF Held
      <3> QED
        BY <3>1, <3>4, HeldWaits
    <2>3. CASE ~(WriteFails(c) \/ Drain(c))
      BY <1>2, <2>3
         DEF RunStep, TakeInput, InputEnds, TakeTimeout, PassPing, Write, Register,
             StopHeartbeat, WriterMark, AfterLoop
    <2> QED
      BY <2>1, <2>2, <2>3
  <1>3. ASSUME NEW c \in ConnId, BackStep(c) PROVE Unseen \/ Completion
    <2>1. ASSUME NEW r \in Request, ReadReply(c, r) PROVE Completion
      <3>1. Complete({r} \cap registered[c], "data")
        BY <2>1 DEF ReadReply
      <3>2. {r} \cap registered[c] \subseteq Held(c)
        BY DEF Held
      <3> QED
        BY <3>1, <3>2, HeldWaits
    <2>2. CASE FlushRequests(c)
      <3>1. Complete(registered[c], "err")
        BY <2>2 DEF FlushRequests
      <3>2. registered[c] \subseteq Held(c)
        BY DEF Held
      <3> QED
        BY <3>1, <3>2, HeldWaits
    <2>3. CASE ~(FlushRequests(c) \/ \E r \in Request : ReadReply(c, r))
      BY <1>3, <2>3
         DEF BackStep, NewBackendConnLB, SetInactive, StateChanged, ReadStop, ReadFails,
             CloseInput, HbTick, PushPing
    <2> QED
      BY <2>1, <2>2, <2>3
  <1>4. CASE UNCHANGED vars
    BY <1>4 DEF vars
  <1> QED
    BY <1>1, <1>2, <1>3, <1>4, StepKinds

RespType == resp \in [Request -> {"none", "noworker", "err", "data"}]

\* Responses are of the four kinds.
LEMMA RespStep ==
    ASSUME LBInv, RespType, [Next]_vars
    PROVE  RespType'
  <1>1. CASE UNCHANGED <<stage, wait, resp>>
    BY <1>1 DEF RespType
  <1>2. ASSUME NEW r \in Request, Pick(r) \/ PushBack(r) PROVE RespType'
    <2>1. resp' = resp \/ resp' = [resp EXCEPT ![r] = "noworker"]
      BY <1>2 DEF Pick, PushBack
    <2> QED
      BY <2>1 DEF RespType
  <1>3. CASE Completion
    BY <1>3 DEF Completion, Complete, RespType
  <1> QED
    BY <1>1, <1>2, <1>3, RequestStep

\* No request was dispatched when the process starts.
LEMMA InitCalls == Init => Call!CallInit
  BY DEF Init, Seen, SeenCalls, Call!CallInit

\* Picking a connection and pushing the request are the Dispatch of a session.
LEMMA DispatchCalls ==
    ASSUME LBInv, RespType, NEW r \in Request, Pick(r) \/ PushBack(r)
    PROVE  [Call!CallNext]_SeenCalls
  <1>0. /\ stage \in [Request -> {"new", "picked", "wait"}]
        /\ wait \in [Request -> {0, 1}]
        /\ resp \in [Request -> {"none", "noworker", "err", "data"}]
        /\ \A q \in Request : stage[q] # "wait" => wait[q] = 0
    BY DEF LBInv, OwnerInv, ReqType, RespType, DispatchOK
  <1>1. /\ \A q \in Request \ {r} : Seen(q)' = Seen(q)
        /\ stage[r] # "wait" /\ Seen(r) = "none"
        /\ Seen(r)' \in {"none", "pending", "exception"}
    <2>1. CASE Pick(r)
      BY <1>0, <2>1 DEF Pick, Seen
    <2>2. CASE PushBack(r)
      BY <1>0, <2>2, SMTT(30) DEF PushBack, Seen
    <2> QED
      BY <2>1, <2>2
  <1>2. SeenCalls' = [SeenCalls EXCEPT ![r] = Seen(r)']
    BY <1>1 DEF SeenCalls
  <1>3. SeenCalls[r] = "none"
    BY <1>1 DEF SeenCalls
  <1>4. CASE Seen(r)' = "none"
    <2>1. SeenCalls' = SeenCalls
      BY <1>1, <1>4 DEF SeenCalls
    <2> QED
      BY <2>1
  <1>5. CASE Seen(r)' \in {"pending", "exception"}
    <2>1. Call!Dispatch(r)
      BY <1>2, <1>3, <1>5 DEF Call!Dispatch
    <2> QED
      BY <2>1 DEF Call!CallNext
  <1> QED
    BY <1>1, <1>4, <1>5

\* Completing requests that are waited for wakes their sessions.
LEMMA CompletionCalls ==
    ASSUME LBInv, Completion
    PROVE  Call!CallNext
  <1>1. PICK S \in SUBSET Request, how \in {"err", "data"} :
            Complete(S, how) /\ \A r \in S : wait[r] = 1
    BY DEF Completion
  <1>2. \A r \in S : stage[r] = "wait"
    BY <1>1, SMTT(30) DEF LBInv, OwnerInv, DispatchOK
  <1>3. \A r \in S : Seen(r) = "pending" /\ Seen(r)' = how
    BY <1>1, <1>2, SMTT(30) DEF Seen, Complete
  <1>4. \A r \in Request \ S : Seen(r)' = Seen(r)
    BY <1>1 DEF Seen, Complete
  <1>5. Call!Answer(S, how)
    BY <1>3, <1>4 DEF SeenCalls, Call!Answer
  <1> QED
    BY <1>5 DEF Call!CallNext

\* The responses keep their type in every behaviour.
LEMMA RespInvariant == Spec => []RespType
  <1>1. Init => RespType
    BY DEF Init, RespType
  <1> QED
    BY <1>1, RespStep, LBInvariant, PTL DEF Spec

\* ImplementsCalls: a session whose request has a connection to a worker is
\* woken once, with an outcome that stays, for any workers and requests.
THEOREM LBImplementsCalls == Spec => ImplementsCalls
  <1>1. ASSUME LBInv, RespType, [Next]_vars PROVE [Call!CallNext]_SeenCalls
    <2>1. CASE UNCHANGED <<stage, wait, resp>>
      BY <2>1 DEF Seen, SeenCalls
    <2> QED
      BY <1>1, <2>1, RequestStep, DispatchCalls, CompletionCalls
  <1> QED
    BY <1>1, LBInvariant, RespInvariant, InitCalls, PTL
       DEF Spec, ImplementsCalls, Call!CallSpec

-----------------------------------------------------------------------------
(* Type correctness.                                                       *)

\* The list has a place for each of the connections at most, because no
\* connection is listed twice.
LEMMA ListBound ==
    ASSUME LBInv
    PROVE  Len(activeConns) <= Cardinality(ConnId) /\ Cardinality(ConnId) \in Nat
  <1>1. /\ activeConns \in Seq(ConnId)
        /\ \A i \in DOMAIN activeConns : Index[activeConns[i]] = i - 1
    BY DEF LBInv, ListInv, ListType, IndexAgrees
  <1>2. Len(activeConns) \in Nat /\ DOMAIN activeConns = 1 .. Len(activeConns)
    BY <1>1, SMTT(30)
  <1>3. activeConns \in [1 .. Len(activeConns) -> ConnId]
    BY <1>1, <1>2, SMTT(30)
  <1>4. \A i, j \in 1 .. Len(activeConns) : activeConns[i] = activeConns[j] => i = j
    BY <1>1, <1>2, SMTT(30)
  <1>5. activeConns \in Injection(1 .. Len(activeConns), ConnId)
    BY <1>3, <1>4 DEF Injection, IsInjective
  <1>6. IsFiniteSet(ConnId)
    BY LBAssumption
  <1>7. Cardinality(1 .. Len(activeConns)) <= Cardinality(ConnId)
    BY <1>5, <1>6, FS_Injection
  <1>8. Cardinality(1 .. Len(activeConns)) = Len(activeConns)
    <2> DEFINE n == Len(activeConns)
    <2>1. 1 \in Int /\ n \in Int
      BY <1>2, SMTT(30)
    <2> HIDE DEF n
    <2>2. Cardinality(1 .. n) = IF 1 > n THEN 0 ELSE n - 1 + 1
      BY <2>1, FS_Interval
    <2> QED
      BY <1>2, <2>1, <2>2, SMTT(30) DEF n
  <1>9. Cardinality(ConnId) \in Nat
    BY <1>6, FS_CardinalityType
  <1> QED
    BY <1>7, <1>8, <1>9

CountType ==
    /\ currentConnIndex \in 0 .. Cardinality(ConnId)
    /\ pings \in 0 .. MaxPings
    /\ panic \in {"no", "index", "send"}

\* The cursor stays within the list, and the pings within their bound.
LEMMA CountStep ==
    ASSUME LBInv, CountType, [Next]_vars
    PROVE  CountType'
  <1> USE DEF poolVars, flagVars, chanVars, netVars, writerVars, hbVars, reqVars
  <1>0. /\ Len(activeConns) \in Nat /\ Len(activeConns) <= Cardinality(ConnId)
        /\ Cardinality(ConnId) \in Nat /\ MaxPings \in Nat
        /\ currentConnIndex \in Nat
    <2>1. activeConns \in Seq(ConnId) /\ currentConnIndex \in Nat /\ MaxPings \in Nat
      BY LBAssumption DEF LBInv, ListInv, ListType, OwnerInv, ReqType
    <2> QED
      BY <2>1, ListBound, SMTT(30)
  <1> DEFINE Counts ==
               /\ \/ UNCHANGED currentConnIndex
                  \/ activeConns # <<>> /\ currentConnIndex' = Cursor + 1
               /\ UNCHANGED pings \/ (pings < MaxPings /\ pings' = pings + 1)
               /\ panic' \in {panic, "index", "send"}
  <1>1. ASSUME FrontStep PROVE Counts
    BY <1>1 DEF FrontStep, AppendConn, Pick, PushBack, PushBackPanics
  <1>2. ASSUME NEW c \in ConnId, RunStep(c) PROVE Counts
    BY <1>2
       DEF RunStep, TakeInput, InputEnds, TakeTimeout, PassPing, Write, Register,
           WriteFails, StopHeartbeat, WriterMark, AfterLoop, Drain
  <1>3. ASSUME NEW c \in ConnId, BackStep(c) PROVE Counts
    BY <1>3
       DEF BackStep, NewBackendConnLB, SetInactive, StateChanged, RemoveConn, ReadReply,
           ReadStop, ReadFails, FlushRequests, CloseInput, HbTick, PushPing
  <1>4. ASSUME UNCHANGED vars PROVE Counts
    BY <1>4 DEF vars
  <1>5. Counts
    BY <1>1, <1>2, <1>3, <1>4, StepKinds
  <1>6. activeConns # <<>> => Cursor + 1 \in 0 .. Cardinality(ConnId)
    <2>1. activeConns \in Seq(ConnId)
      BY DEF LBInv, ListInv, ListType
    <2>2. activeConns # <<>> => Len(activeConns) > 0
      BY <2>1, SMTT(30)
    <2> QED
      BY <1>0, <2>2, SMTT(30) DEF Cursor
  <1>7. currentConnIndex' \in 0 .. Cardinality(ConnId)
    BY <1>5, <1>6 DEF CountType
  <1>8. pings' \in 0 .. MaxPings
    BY <1>0, <1>5, SMTT(30) DEF CountType
  <1> QED
    BY <1>5, <1>7, <1>8 DEF CountType

\* The variables of the load balancer keep their types: the channels and the
\* cursor stay within their bounds, and Wait is never negative.
THEOREM LBTypeCorrect == Spec => []TypeOK
  <1> DEFINE Types == CellType /\ BufferType /\ CountType
  <1>1. Init => Types
    <2> SUFFICES ASSUME Init PROVE Types
      OBVIOUS
    <2>1. CellType
      BY DEF Init, CellType
    <2>2. BufferType
      BY LBAssumption, SMTT(30) DEF Init, BufferType
    <2>3. CountType
      BY LBAssumption, FS_CardinalityType, SMTT(30) DEF Init, CountType
    <2> QED
      BY <2>1, <2>2, <2>3
  <1>2. LBInv /\ Types /\ [Next]_vars => Types'
    BY CellStep, BufferStep, CountStep
  <1>3. LBInv /\ RespType /\ Types => TypeOK
    <2> SUFFICES ASSUME LBInv, RespType, Types PROVE TypeOK
      OBVIOUS
    <2>1. ConnType /\ MarkType /\ ListType /\ HoldType /\ ReqType
      BY DEF LBInv, ListInv, OwnerInv
    <2>2. Index \in [ConnId -> Int]
      BY <2>1, SMTT(30) DEF ListType, INVALID_ARRAY_INDEX
    <2>3. wait \in [Request -> Int]
      BY <2>1, SMTT(30) DEF ReqType
    <2> QED
      BY <2>1, <2>2, <2>3
         DEF TypeOK, ConnType, MarkType, ListType, HoldType, ReqType, RespType, CellType,
             BufferType, CountType
  <1> HIDE DEF Types
  <1> QED
    BY <1>1, <1>2, <1>3, LBInvariant, RespInvariant, PTL DEF Spec
=============================================================================
