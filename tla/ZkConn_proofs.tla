--------------------------- MODULE ZkConn_proofs ----------------------------
(***************************************************************************)
(* Proofs about module ZkConn, for any goroutines, any number of retries   *)
(* and any length of a second.                                             *)
(*                                                                         *)
(* LockInv is the exclusion that connBuilder.lock provides.  RateInv adds  *)
(* that the connection is still old when the builder returns: only the     *)
(* holder of the lock replaces it.  NodeInv is why a write that is tried   *)
(* again finds a node it cannot change a second time.                      *)
(***************************************************************************)
EXTENDS ZkConn, TLAPS

\* Zenon tries a leaf first; the leaves that need SMT cite it.
USE ZenonT(30), SMTT(30)

LockInv ==
    /\ \A t \in Thread : fatal = "no" /\ pc[t] = "build" => announced = t
    /\ closed => \E t \in Thread : pc[t] = "build"
    /\ \A t \in Thread, c \in Caller : pc[t] = "build" => pc[c] # "op"
    /\ \A u \in Unsafe : pc[u] \notin {"lock", "build"}

RateInv ==
    /\ RebuildRate
    /\ fatal = "no" =>
         \A t \in Thread : pc[t] = "build" => now >= createdOn + Second

\* As long as nobody deletes the node, its version only grows.
NodeInv ==
    ~deleted => \A c \in Caller :
        /\ version[c] >= AnyVersion
        /\ applied[c] <= 1
        /\ applied[c] = 1 /\ kind[c] = "create" => node # Absent
        /\ applied[c] = 1 /\ kind[c] = "set" => node > version[c]
        /\ applied[c] = 1 => kind[c] # "delete"

ZkInv == TypeOK /\ LockInv /\ RateInv /\ NodeInv

-----------------------------------------------------------------------------
\* The first connection is built, nobody uses it yet.
LEMMA InitZk == Init => ZkInv
<1> SUFFICES ASSUME Init PROVE ZkInv
  OBVIOUS
<1>1. closed \in BOOLEAN /\ deleted \in BOOLEAN
  BY DEF Init
<1>2. Len(builtOn) = 1 /\ builtOn \in Seq(0 .. MaxTime) /\ builtOn # <<>>
  BY ZkAssumption, SMTT(30) DEF Init
<1>3. TypeOK BY <1>1, <1>2, ZkAssumption, SMTT(30) DEF Init, TypeOK, Kind, Absent
<1>4. LockInv BY DEF Init, LockInv, Thread, Caller
<1>5. RateInv BY <1>2, SMTT(30) DEF Init, RateInv, RebuildRate
<1>6. NodeInv BY SMTT(30) DEF Init, NodeInv, AnyVersion
<1> QED BY <1>3, <1>4, <1>5, <1>6 DEF ZkInv

\* What an operation does to the node, executed or not.
LEMMA OutcomeType ==
    ASSUME TypeOK, NEW c \in Caller, NEW e, Outcome(c, e)
    PROVE  /\ node' \in Nat \cup {Absent}
           /\ deleted' \in BOOLEAN
           /\ applied' \in [Caller -> Nat]
<1>1. Effect(c) \in Nat \cup {Absent}
  BY SMTT(30) DEF TypeOK, Effect, Absent
<1>2. CASE Execute(c)
  <2>1. deleted' \in BOOLEAN BY <1>2 DEF Execute
  <2>2. applied' \in [Caller -> Nat] BY <1>2, SMTT(30) DEF Execute, TypeOK
  <2> QED BY <1>1, <1>2, <2>1, <2>2 DEF Execute
<1>3. CASE UNCHANGED <<node, deleted, applied>> BY <1>3 DEF TypeOK
<1> QED BY <1>2, <1>3 DEF Outcome

\* OpReturns leaves values of the right types.
LEMMA ReturnsType ==
    ASSUME TypeOK, NEW c \in Caller,
           OpReturns(c) \/ UNCHANGED <<kind, version, tries>>
    PROVE  /\ kind' \in [Caller -> Kind] /\ version' \in [Caller -> Int]
           /\ tries' \in [Caller -> 0 .. retryMaxOnOps]
<1>1. CASE OpReturns(c) BY <1>1, ZkAssumption, SMTT(30) DEF OpReturns, TypeOK, Kind
<1>2. CASE UNCHANGED <<kind, version, tries>> BY <1>2 DEF TypeOK
<1> QED BY <1>1, <1>2

\* Return leaves values of the right types: the loop variable stays in range.
LEMMA ReturnType ==
    ASSUME TypeOK, NEW t \in Thread, Return(t)
    PROVE  /\ pc' \in [Thread -> {"idle", "rlock", "op", "lock", "build"}]
           /\ tries' \in [Caller -> 0 .. retryMaxOnOps]
           /\ announced' \in Thread \cup {None}
           /\ fatal' \in {"no", "builder", "retries"}
<1>1. CASE t \in Resetter BY <1>1 DEF Return, TypeOK
<1>2. CASE t \notin Resetter /\ tries[t] = retryMaxOnOps
  BY <1>2 DEF Return, TypeOK
<1>3. CASE t \notin Resetter /\ tries[t] # retryMaxOnOps
  <2>1. t \in Caller BY <1>3 DEF Thread
  <2>2. tries[t] + 1 \in 0 .. retryMaxOnOps
    BY <1>3, <2>1, ZkAssumption, SMTT(30) DEF TypeOK
  <2>3. /\ pc' = [pc EXCEPT ![t] = "rlock"] /\ announced' = None
        /\ tries' = [tries EXCEPT ![t] = tries[t] + 1] /\ fatal' = fatal
    BY <1>3 DEF Return
  <2> QED BY <2>2, <2>3 DEF TypeOK
<1> QED BY <1>1, <1>2, <1>3

-----------------------------------------------------------------------------
\* Every step keeps the types.
LEMMA TypeStep == TypeOK /\ Next => TypeOK'
<1> SUFFICES ASSUME TypeOK, Next PROVE TypeOK'
  OBVIOUS
<1> USE DEF callVars, connVars, nodeVars
<1>1. CASE Tick BY <1>1, ZkAssumption, SMTT(30) DEF Tick, TypeOK
<1>2. ASSUME NEW c \in Caller, Call(c) PROVE TypeOK'
  <2>0. c \in Thread BY DEF Thread
  <2>1. node \in Int /\ AnyVersion \in Int
    BY SMTT(30) DEF TypeOK, Absent, AnyVersion
  <2>2. /\ kind' \in [Caller -> Kind] /\ version' \in [Caller -> Int]
    BY <1>2, <2>1, SMTT(30) DEF Call, TypeOK
  <2>3. /\ applied' \in [Caller -> Nat]
        /\ calls' \in 0 .. MaxCalls
        /\ pc' \in [Thread -> {"idle", "rlock", "op", "lock", "build"}]
    BY <1>2, <2>0, <2>1, ZkAssumption, SMTT(30) DEF Call, TypeOK
  <2> QED BY <1>2, <2>2, <2>3 DEF Call, TypeOK
<1>3. ASSUME NEW c \in Caller, RLock(c) PROVE TypeOK'
  BY <1>3 DEF RLock, TypeOK, Thread
<1>4. ASSUME NEW c \in Safe, SafeOp(c) PROVE TypeOK'
  <2>0. c \in Caller /\ c \in Thread BY DEF Caller, Thread
  <2>1. PICK e \in Errors : Outcome(c, e) BY <1>4 DEF SafeOp
  <2>2. OpReturns(c) \/ UNCHANGED <<kind, version, tries>>
    BY <1>4 DEF SafeOp
  <2>3. pc' \in [Thread -> {"idle", "rlock", "op", "lock", "build"}]
    BY <1>4, <2>0 DEF SafeOp, TypeOK
  <2>4. UNCHANGED <<calls, connVars, now, fatal>> BY <1>4 DEF SafeOp
  <2> QED
    BY <2>0, <2>1, <2>2, <2>3, <2>4, OutcomeType, ReturnsType DEF TypeOK
<1>5. ASSUME NEW c \in Unsafe, UnsafeOp(c) PROVE TypeOK'
  <2>0. c \in Caller /\ c \in Thread BY DEF Caller, Thread
  <2>1. PICK e \in Errors : Outcome(c, e) BY <1>5 DEF UnsafeOp
  <2>2. OpReturns(c) BY <1>5 DEF UnsafeOp
  <2>3. pc' \in [Thread -> {"idle", "rlock", "op", "lock", "build"}]
    BY <1>5, <2>0 DEF UnsafeOp, TypeOK
  <2>4. UNCHANGED <<calls, connVars, now, fatal>> BY <1>5 DEF UnsafeOp
  <2> QED
    BY <2>0, <2>1, <2>2, <2>3, <2>4, OutcomeType, ReturnsType DEF TypeOK
<1>6. ASSUME NEW t \in Thread, Lock(t) PROVE TypeOK'
  BY <1>6 DEF Lock, TypeOK
<1>7. ASSUME NEW t \in Thread, TooEarly(t) PROVE TypeOK'
  BY <1>7, ReturnType DEF TooEarly, TypeOK
<1>8. ASSUME NEW t \in Thread, CloseOld(t) PROVE TypeOK'
  <2>1. closed' \in BOOLEAN BY <1>8 DEF CloseOld
  <2> QED BY <1>8, <2>1 DEF CloseOld, TypeOK
<1>9. ASSUME NEW t \in Thread, Build(t) PROVE TypeOK'
  <2>1. closed' \in BOOLEAN BY <1>9 DEF Build
  <2>2. builtOn' \in Seq(0 .. MaxTime) /\ builtOn' # <<>>
    <3>1. builtOn' = Append(builtOn, now) BY <1>9 DEF Build
    <3>2. builtOn \in Seq(0 .. MaxTime) /\ now \in 0 .. MaxTime BY DEF TypeOK
    <3> QED BY <3>1, <3>2, SMTT(30)
  <2> QED BY <1>9, <2>1, <2>2, ReturnType DEF Build, TypeOK
<1>10. ASSUME NEW t \in Thread, BuildFails(t) PROVE TypeOK'
  BY <1>10 DEF BuildFails, TypeOK
<1> QED
  BY <1>1, <1>2, <1>3, <1>4, <1>5, <1>6, <1>7, <1>8, <1>9, <1>10
  DEF Next, Step, Resetting
-----------------------------------------------------------------------------
\* The write lock excludes the operations and the other resets.
LEMMA LockStep == TypeOK /\ LockInv /\ Next => LockInv'
<1> SUFFICES ASSUME TypeOK, LockInv, Next PROVE LockInv'
  OBVIOUS
<1> USE DEF callVars, connVars, nodeVars
<1>0. /\ Caller \subseteq Thread /\ Unsafe \subseteq Caller
      /\ None \notin Thread /\ Safe \cap Unsafe = {} /\ Resetter \cap Unsafe = {}
      /\ pc \in [Thread -> {"idle", "rlock", "op", "lock", "build"}]
  BY ZkAssumption DEF Thread, Caller, TypeOK
<1>1. ASSUME UNCHANGED <<pc, connVars, fatal>> PROVE LockInv'
  BY <1>1 DEF LockInv
<1>2. CASE Tick BY <1>1, <1>2 DEF Tick
<1>3. ASSUME NEW c \in Caller, Call(c) PROVE LockInv'
  <2>1. /\ pc' = [pc EXCEPT ![c] = "rlock"] /\ pc[c] = "idle"
        /\ UNCHANGED <<connVars, fatal>>
    BY <1>3 DEF Call
  <2> QED BY <1>0, <2>1 DEF LockInv
<1>4. ASSUME NEW c \in Caller, RLock(c) PROVE LockInv'
  <2>1. /\ pc' = [pc EXCEPT ![c] = "op"] /\ pc[c] = "rlock"
        /\ UNCHANGED <<connVars, fatal>>
        /\ announced = None /\ fatal = "no"
    BY <1>4 DEF RLock
  <2>2. \A t \in Thread : pc[t] # "build" BY <1>0, <2>1 DEF LockInv
  <2> QED BY <1>0, <2>1, <2>2 DEF LockInv
<1>5. ASSUME NEW c \in Safe, SafeOp(c) PROVE LockInv'
  <2>1. /\ pc' = [pc EXCEPT ![c] = "idle"] \/ pc' = [pc EXCEPT ![c] = "lock"]
        /\ c \in Caller /\ c \notin Unsafe
        /\ pc[c] = "op" /\ UNCHANGED <<connVars, fatal>>
    BY <1>5, <1>0 DEF SafeOp, Caller
  <2> QED BY <1>0, <2>1 DEF LockInv
<1>6. ASSUME NEW c \in Unsafe, UnsafeOp(c) PROVE LockInv'
  <2> DEFINE idle == {g \in Resetter : pc[g] = "idle"}
  <2>1. CASE pc' = [pc EXCEPT ![c] = "idle"]
    <3>1. pc[c] = "op" /\ UNCHANGED <<connVars, fatal>> BY <1>6 DEF UnsafeOp
    <3> QED BY <1>0, <2>1, <3>1 DEF LockInv
  <2>2. ASSUME NEW g \in idle, pc' = [pc EXCEPT ![c] = "idle", ![g] = "lock"]
        PROVE  LockInv'
    <3>1. pc[c] = "op" /\ UNCHANGED <<connVars, fatal>> BY <1>6 DEF UnsafeOp
    <3>2. g \in Thread /\ g \notin Unsafe /\ pc[g] = "idle" BY <1>0, <2>2 DEF Thread
    <3>3. \A t \in Thread :
             pc'[t] = IF t = g THEN "lock" ELSE IF t = c THEN "idle" ELSE pc[t]
      BY <1>0, <2>2, <3>2
    <3> QED BY <1>0, <3>1, <3>2, <3>3 DEF LockInv
  <2>3. \/ pc' = [pc EXCEPT ![c] = "idle"]
        \/ /\ idle # {}
           /\ pc' = [pc EXCEPT ![c] = "idle", ![CHOOSE g \in idle : TRUE] = "lock"]
    BY <1>6 DEF UnsafeOp
  <2> QED BY <2>1, <2>2, <2>3
<1>7. ASSUME NEW t \in Thread, Lock(t) PROVE LockInv'
  <2>1. UNCHANGED <<pc, closed, fatal>> /\ announced = None /\ fatal = "no"
    BY <1>7 DEF Lock
  <2> QED BY <1>0, <2>1 DEF LockInv
<1>8. ASSUME NEW t \in Thread, pc[t] \in {"lock", "build"}, fatal = "no",
             announced = t, Return(t), closed' => closed /\ pc[t] = "lock"
      PROVE  LockInv'
  <2>1. /\ \A u \in Thread : pc'[u] = pc[u] \/ (u = t /\ pc'[u] \in {"idle", "rlock"})
        /\ pc'[t] # pc[t] \/ fatal' # "no"
    BY <1>0, <1>8 DEF Return
  <2>2. \A u \in Thread : pc[u] = "build" => u = t
    BY <1>8 DEF LockInv
  <2>3. closed' => FALSE
    BY <1>8, <2>2 DEF LockInv
  <2> QED BY <1>0, <1>8, <2>1, <2>2, <2>3 DEF LockInv
<1>9. ASSUME NEW t \in Thread, TooEarly(t) PROVE LockInv'
  BY <1>8, <1>9 DEF TooEarly, Locked
<1>10. ASSUME NEW t \in Thread, CloseOld(t) PROVE LockInv'
  <2>1. /\ pc' = [pc EXCEPT ![t] = "build"] /\ announced = t
        /\ UNCHANGED <<announced, fatal>>
        /\ pc[t] = "lock" /\ fatal = "no" /\ \A c \in Caller : pc[c] # "op"
    BY <1>10 DEF CloseOld, Locked
  <2> QED BY <1>0, <2>1 DEF LockInv
<1>11. ASSUME NEW t \in Thread, Build(t) PROVE LockInv'
  <2>1. announced = t /\ pc[t] = "build" /\ fatal = "no" /\ ~closed' /\ Return(t)
    BY <1>11 DEF Build, LockInv
  <2> QED BY <1>8, <2>1
<1>12. ASSUME NEW t \in Thread, BuildFails(t) PROVE LockInv'
  <2>1. UNCHANGED <<pc, connVars>> /\ fatal' # "no"
    BY <1>12 DEF BuildFails
  <2> QED BY <2>1 DEF LockInv
<1> QED
  BY <1>2, <1>3, <1>4, <1>5, <1>6, <1>7, <1>9, <1>10, <1>11, <1>12
  DEF Next, Step, Resetting
-----------------------------------------------------------------------------
\* Only Build adds to builtOn, in the hands of the goroutine that has the lock
\* and after CloseOld found the connection old enough.
LEMMA RateStep == TypeOK /\ LockInv /\ RateInv /\ Next => RateInv'
<1> SUFFICES ASSUME TypeOK, LockInv, RateInv, Next PROVE RateInv'
  OBVIOUS
<1> USE DEF callVars, connVars, nodeVars
<1>0. /\ builtOn \in Seq(0 .. MaxTime) /\ builtOn # <<>> /\ Len(builtOn) \in Nat \ {0}
      /\ now \in Nat /\ createdOn \in Nat /\ Second \in Nat
      /\ pc \in [Thread -> {"idle", "rlock", "op", "lock", "build"}]
      /\ Caller \subseteq Thread
  BY ZkAssumption, SMTT(30) DEF TypeOK, createdOn, Thread
<1>1. ASSUME builtOn' = builtOn, now' \in Nat, now' >= now,
             \A t \in Thread : pc'[t] = "build" => pc[t] = "build",
             fatal' = "no" => fatal = "no"
      PROVE  RateInv'
  BY <1>0, <1>1, SMTT(30) DEF RateInv, RebuildRate, createdOn
<1>2. CASE Tick BY <1>0, <1>1, <1>2, SMTT(30) DEF Tick
<1>3. ASSUME NEW c \in Caller, Call(c) \/ RLock(c) PROVE RateInv'
  BY <1>0, <1>1, <1>3, SMTT(30) DEF Call, RLock
<1>4. ASSUME NEW c \in Safe, SafeOp(c) PROVE RateInv'
  BY <1>0, <1>1, <1>4, SMTT(30) DEF SafeOp
<1>5. ASSUME NEW c \in Unsafe, UnsafeOp(c) PROVE RateInv'
  <2>1. \/ pc' = [pc EXCEPT ![c] = "idle"]
        \/ \E g : pc' = [pc EXCEPT ![c] = "idle", ![g] = "lock"]
    BY <1>5 DEF UnsafeOp
  <2>2. \A t \in Thread : pc'[t] = "build" => pc[t] = "build"
    BY <1>0, <2>1
  <2>3. UNCHANGED <<builtOn, now, fatal>> BY <1>5 DEF UnsafeOp
  <2> QED BY <1>0, <1>1, <2>2, <2>3, SMTT(30)
<1>6. ASSUME NEW t \in Thread, Lock(t) PROVE RateInv'
  BY <1>0, <1>1, <1>6, SMTT(30) DEF Lock
<1>7. ASSUME NEW t \in Thread, TooEarly(t) PROVE RateInv'
  <2>1. \A u \in Thread : pc'[u] = "build" => pc[u] = "build"
    BY <1>0, <1>7 DEF TooEarly, Return
  <2> QED BY <1>0, <1>1, <1>7, <2>1, SMTT(30) DEF TooEarly
<1>8. ASSUME NEW t \in Thread, CloseOld(t) PROVE RateInv'
  <2>1. now >= createdOn + Second /\ UNCHANGED <<builtOn, now, fatal>> /\ fatal = "no"
    BY <1>0, <1>8, SMTT(30) DEF CloseOld, Recent
  <2> QED BY <1>0, <2>1 DEF RateInv, RebuildRate, createdOn
<1>9. ASSUME NEW t \in Thread, Build(t) PROVE RateInv'
  <2>1. now >= createdOn + Second /\ builtOn' = Append(builtOn, now) /\ now' = now
    BY <1>9 DEF Build, RateInv
  <2>2. /\ Len(builtOn') = Len(builtOn) + 1 /\ builtOn'[Len(builtOn) + 1] = now
        /\ \A i \in 1 .. Len(builtOn) : builtOn'[i] = builtOn[i]
    BY <1>0, <2>1, SMTT(30) DEF TypeOK
  <2>3. RebuildRate'
    <3> SUFFICES ASSUME NEW i \in 1 .. Len(builtOn)
                 PROVE  builtOn'[i + 1] >= builtOn'[i] + Second
      BY <1>0, <2>2, SMTT(30) DEF RebuildRate
    <3>1. CASE i = Len(builtOn) BY <1>0, <2>1, <2>2, <3>1 DEF createdOn
    <3>2. CASE i # Len(builtOn)
      BY <1>0, <2>2, <3>2, SMTT(30) DEF RateInv, RebuildRate
    <3> QED BY <3>1, <3>2
  <2>4. \A u \in Thread : pc[u] = "build" => u = t
    BY <1>9 DEF Build, LockInv
  <2>5. fatal' = "no" => \A u \in Thread : pc'[u] # "build"
    BY <1>0, <1>9, <2>4 DEF Build, Return
  <2> QED BY <2>3, <2>5 DEF RateInv
<1>10. ASSUME NEW t \in Thread, BuildFails(t) PROVE RateInv'
  BY <1>0, <1>1, <1>10, SMTT(30) DEF BuildFails
<1> QED
  BY <1>2, <1>3, <1>4, <1>5, <1>6, <1>7, <1>8, <1>9, <1>10
  DEF Next, Step, Resetting

\* NodeInv after the server has acted and before the operation has returned.
NodeInvNext ==
    ~deleted' => \A c \in Caller :
        /\ version[c] >= AnyVersion
        /\ applied'[c] <= 1
        /\ applied'[c] = 1 /\ kind[c] = "create" => node' # Absent
        /\ applied'[c] = 1 /\ kind[c] = "set" => node' > version[c]
        /\ applied'[c] = 1 => kind[c] # "delete"

\* A write that took effect leaves a node that the same write cannot change
\* again, unless the node is deleted.
LEMMA ExecuteNode ==
    ASSUME TypeOK, NodeInv, NEW c \in Caller, Execute(c)
    PROVE  NodeInvNext
<1> SUFFICES ASSUME ~deleted', NEW d \in Caller
             PROVE  /\ version[d] >= AnyVersion
                    /\ applied'[d] <= 1
                    /\ applied'[d] = 1 /\ kind[d] = "create" => node' # Absent
                    /\ applied'[d] = 1 /\ kind[d] = "set" => node' > version[d]
                    /\ applied'[d] = 1 => kind[d] # "delete"
  BY DEF NodeInvNext
<1>1. ~deleted /\ ~(kind[c] = "delete" /\ Answer(c) = "ok")
  BY DEF Execute
<1>2. /\ version[d] >= AnyVersion
      /\ applied[d] <= 1
      /\ applied[d] = 1 /\ kind[d] = "create" => node # Absent
      /\ applied[d] = 1 /\ kind[d] = "set" => node > version[d]
      /\ applied[d] = 1 => kind[d] # "delete"
  BY <1>1 DEF NodeInv
<1>3. /\ node \in Nat \cup {Absent} /\ version[d] \in Int /\ applied[d] \in Nat
      /\ kind[d] \in Kind /\ kind[c] \in Kind
      /\ version[c] \in Int /\ applied \in [Caller -> Nat]
  BY DEF TypeOK
<1>4. node' = Effect(c) BY DEF Execute
<1>5. node' \in Nat \cup {Absent} /\ node' >= node
  BY <1>1, <1>3, <1>4, SMTT(30) DEF Effect, Answer, Absent, Kind
<1>6. CASE applied'[d] = applied[d]
  BY <1>2, <1>3, <1>5, <1>6, SMTT(30) DEF Absent
<1>7. CASE applied'[d] # applied[d]
  <2>1. /\ d = c /\ applied'[d] = applied[d] + 1
        /\ kind[c] # "read" /\ version[c] # AnyVersion /\ Answer(c) = "ok"
    BY <1>3, <1>7 DEF Execute
  <2>2. CASE kind[c] = "create"
    <3>1. node = Absent /\ node' = 0 BY <2>1, <2>2, <1>4 DEF Answer, Effect
    <3> QED BY <1>2, <1>3, <2>1, <2>2, <3>1, SMTT(30) DEF Absent
  <2>3. CASE kind[c] = "set"
    <3>1. node # Absent /\ version[c] = node /\ node' = node + 1
      BY <2>1, <2>3, <1>4 DEF Answer, Effect, Version
    <3> QED BY <1>2, <1>3, <2>1, <2>3, <3>1, SMTT(30) DEF Absent
  <2> QED BY <1>1, <1>3, <2>1, <2>2, <2>3 DEF Kind
<1> QED BY <1>6, <1>7

\* NodeInv survives every step; only operations touch the node.
LEMMA NodeStep == TypeOK /\ NodeInv /\ Next => NodeInv'
<1> SUFFICES ASSUME TypeOK, NodeInv, Next PROVE NodeInv'
  OBVIOUS
<1> USE DEF callVars, connVars, nodeVars
<1>0. /\ kind \in [Caller -> Kind] /\ version \in [Caller -> Int]
      /\ applied \in [Caller -> Nat] /\ node \in Nat \cup {Absent}
  BY DEF TypeOK
<1>1. ASSUME UNCHANGED <<kind, version, applied, node, deleted>> PROVE NodeInv'
  BY <1>1 DEF NodeInv
<1>2. ASSUME NEW c \in Caller, NEW e, Outcome(c, e),
             OpReturns(c) \/ UNCHANGED <<kind, version>>
      PROVE  NodeInv'
  <2>1. NodeInvNext
    <3>1. CASE UNCHANGED <<node, deleted, applied>>
      BY <3>1 DEF NodeInv, NodeInvNext
    <3> QED BY <1>2, <3>1, ExecuteNode DEF Outcome
  <2>2. CASE UNCHANGED <<kind, version>> BY <2>1, <2>2 DEF NodeInvNext, NodeInv
  <2>3. CASE OpReturns(c)
    <3>1. \A d \in Caller :
             /\ version'[d] = IF d = c THEN 0 ELSE version[d]
             /\ kind'[d] = IF d = c THEN "read" ELSE kind[d]
      BY <1>0, <2>3 DEF OpReturns
    <3> QED BY <1>0, <2>1, <3>1, SMTT(30) DEF NodeInvNext, NodeInv, AnyVersion
  <2> QED BY <1>2, <2>2, <2>3
<1>3. ASSUME NEW c \in Caller, Call(c) PROVE NodeInv'
  <2>1. PICK k \in Kind, v \in {node, AnyVersion} :
          /\ kind' = [kind EXCEPT ![c] = k]
          /\ version' = [version EXCEPT ![c] = IF k \in {"set", "delete"} THEN v ELSE 0]
    BY <1>3 DEF Call
  <2>2. applied' = [applied EXCEPT ![c] = 0] /\ UNCHANGED <<node, deleted>>
    BY <1>3 DEF Call
  <2>3. v \in Int /\ v >= AnyVersion BY <1>0, SMTT(30) DEF Absent, AnyVersion
  <2>4. \A d \in Caller :
          /\ applied'[d] = IF d = c THEN 0 ELSE applied[d]
          /\ d # c => kind'[d] = kind[d] /\ version'[d] = version[d]
          /\ d = c => version'[d] \in {v, 0}
    BY <1>0, <2>1, <2>2
  <2> QED BY <1>0, <2>2, <2>3, <2>4, SMTT(30) DEF NodeInv, AnyVersion
<1>4. ASSUME NEW c \in Safe, SafeOp(c) PROVE NodeInv'
  <2>1. PICK e \in Errors : Outcome(c, e) BY <1>4 DEF SafeOp
  <2>2. OpReturns(c) \/ UNCHANGED <<kind, version>> BY <1>4 DEF SafeOp
  <2> QED BY <1>2, <2>1, <2>2 DEF Caller
<1>5. ASSUME NEW c \in Unsafe, UnsafeOp(c) PROVE NodeInv'
  <2>1. PICK e \in Errors : Outcome(c, e) BY <1>5 DEF UnsafeOp
  <2>2. OpReturns(c) BY <1>5 DEF UnsafeOp
  <2> QED BY <1>2, <2>1, <2>2 DEF Caller
<1>6. CASE Tick \/ \E c \in Caller : RLock(c) BY <1>1, <1>6 DEF Tick, RLock
<1>7. ASSUME NEW t \in Thread, Resetting(t) PROVE NodeInv'
  BY <1>1, <1>7 DEF Resetting, Lock, TooEarly, CloseOld, Build, BuildFails
<1> QED
  BY <1>3, <1>4, <1>5, <1>6, <1>7 DEF Next, Step

-----------------------------------------------------------------------------
\* The invariant holds in every reachable state.
THEOREM ZkInvariant == Spec => []ZkInv
<1>1. ZkInv /\ [Next]_vars => ZkInv'
  <2>1. ASSUME ZkInv, Next PROVE ZkInv'
    BY <2>1, TypeStep, LockStep, RateStep, NodeStep DEF ZkInv
  <2>2. ASSUME ZkInv, UNCHANGED vars PROVE ZkInv'
    <3>1. TypeOK' BY <2>2 DEF ZkInv, TypeOK, vars, callVars, connVars, nodeVars
    <3>2. LockInv' BY <2>2 DEF ZkInv, LockInv, vars, connVars
    <3>3. RateInv'
      BY <2>2 DEF ZkInv, RateInv, RebuildRate, createdOn, vars, connVars
    <3>4. NodeInv' BY <2>2 DEF ZkInv, NodeInv, vars, callVars, nodeVars
    <3> QED BY <3>1, <3>2, <3>3, <3>4 DEF ZkInv
  <2> QED BY <2>1, <2>2
<1> QED BY InitZk, <1>1, PTL DEF Spec

\* The variables keep their types: no operation is tried more often than
\* retryMaxOnOps allows.
THEOREM ZkTypeCorrect == Spec => []TypeOK
<1>1. ZkInv => TypeOK BY DEF ZkInv
<1> QED BY <1>1, ZkInvariant, PTL

\* The read lock keeps resetConnection from closing a connection in use.
THEOREM OpenCorrect == Spec => []OpenWhileUsed
<1>1. ZkInv => OpenWhileUsed BY DEF ZkInv, LockInv, OpenWhileUsed
<1> QED BY <1>1, ZkInvariant, PTL

\* At least a second lies between two connections, however many goroutines
\* reset at once.
THEOREM RateCorrect == Spec => []RebuildRate
<1>1. ZkInv => RebuildRate BY DEF ZkInv, RateInv
<1> QED BY <1>1, ZkInvariant, PTL

\* A retried Create, or Set with a version, takes effect at most once unless
\* the node is deleted.
THEOREM AppliedCorrect == Spec => []AppliedOnce
<1>1. ZkInv => AppliedOnce BY DEF ZkInv, NodeInv, AppliedOnce
<1> QED BY <1>1, ZkInvariant, PTL
=============================================================================
