------------------------------- MODULE ZkConn -------------------------------
(***************************************************************************)
(* The ZooKeeper connection that several goroutines share (utils/zk.go).   *)
(* An operation runs under the read lock of connBuilder.lock.  When it     *)
(* fails on the connection, resetConnection takes the write lock, closes   *)
(* the connection and builds another one, at most once a second.  A        *)
(* safeConn then tries again, up to retryMaxOnOps times; an unsafeConn     *)
(* returns the error and resets the connection in a goroutine of its own.  *)
(*                                                                         *)
(* Behind the connection there is one node of ZooKeeper, which is its      *)
(* version, or Absent.  All operations are wrapped alike; they differ in   *)
(* what they do to the node, and so do the four kinds here.                *)
(***************************************************************************)
EXTENDS Integers, Sequences, FiniteSets

CONSTANTS
    Safe, Unsafe,       \* goroutines that use the safe, the unsafe conn
    Resetter,           \* goroutines of "go resetConnection()", MaxCalls of them
    None,
    retryMaxOnOps,      \* 10 in the code
    Second,             \* ticks of the clock in a second
    MaxTime,            \* bound: the last tick of the clock
    MaxCalls            \* bound: operations in all

ASSUME ZkAssumption ==
    /\ Safe \cap Unsafe = {} /\ (Safe \cup Unsafe) \cap Resetter = {}
    /\ None \notin Safe \cup Unsafe \cup Resetter
    /\ retryMaxOnOps \in Nat /\ Second \in Nat \ {0}
    /\ MaxTime \in Nat /\ MaxCalls \in Nat

VARIABLES
    pc,                 \* place of each goroutine
    kind, version,      \* the operation of a caller, its version argument
    tries,              \* the loop variable i of a safeConn operation
    applied,            \* times the operation took effect, unless it is a
                        \* write of any version
    calls,
    announced,          \* the goroutine in b.lock.Lock(), or past it
    builtOn,            \* createdOn of every connection so far
    closed,             \* b.connection is closed
    node, deleted,      \* the node; whether it was ever deleted
    now,
    fatal               \* log.Fatal ended the process

callVars == <<kind, version, tries, applied, calls>>
connVars == <<announced, builtOn, closed>>
nodeVars == <<node, deleted>>
vars == <<pc, callVars, connVars, nodeVars, now, fatal>>

-----------------------------------------------------------------------------
Caller == Safe \cup Unsafe
Thread == Caller \cup Resetter
Absent == -1
AnyVersion == -1
Kind == {"read", "create", "set", "delete"}

createdOn == builtOn[Len(builtOn)]

TypeOK ==
    /\ pc \in [Thread -> {"idle", "rlock", "op", "lock", "build"}]
    /\ kind \in [Caller -> Kind]
    /\ version \in [Caller -> Int]
    /\ tries \in [Caller -> 0 .. retryMaxOnOps]
    /\ applied \in [Caller -> Nat]
    /\ calls \in 0 .. MaxCalls
    /\ announced \in Thread \cup {None}
    /\ builtOn \in Seq(0 .. MaxTime) /\ builtOn # <<>>
    /\ closed \in BOOLEAN /\ deleted \in BOOLEAN
    /\ node \in Nat \cup {Absent}
    /\ now \in 0 .. MaxTime
    /\ fatal \in {"no", "builder", "retries"}

\* NewConnBuilder has built the first connection.
Init ==
    /\ pc = [t \in Thread |-> "idle"]
    /\ kind = [c \in Caller |-> "read"]
    /\ version = [c \in Caller |-> 0]
    /\ tries = [c \in Caller |-> 0]
    /\ applied = [c \in Caller |-> 0]
    /\ calls = 0
    /\ announced = None /\ builtOn = <<0>> /\ closed = FALSE
    /\ node \in {Absent, 0} /\ deleted = FALSE
    /\ now = 0 /\ fatal = "no"

-----------------------------------------------------------------------------
(* The operations.                                                         *)

\* Mutant of Version: the wrapper passes -1.
MutVersion(c) == AnyVersion

\* The version that a Set or Delete passes on: its caller's.
Version(c) == version[c]

\* What the server answers to the operation of c, and makes of the node.
Answer(c) ==
    CASE kind[c] = "create" -> IF node = Absent THEN "ok" ELSE "NodeExists"
      [] node = Absent /\ kind[c] # "create" -> "NoNode"
      [] kind[c] = "read" -> "ok"
      [] OTHER -> IF Version(c) \in {node, AnyVersion} THEN "ok" ELSE "BadVersion"

Effect(c) ==
    IF Answer(c) # "ok" THEN node
    ELSE CASE kind[c] = "create" -> 0
           [] kind[c] = "set" -> node + 1
           [] kind[c] = "delete" -> Absent
           [] OTHER -> node

\* Any error but these counts as one of the connection, BadVersion too.
isConnectionError(e) == e \notin {"NoNode", "NodeExists", "NotEmpty"}

\* A goroutine calls an operation, with the version of the node that it has
\* seen or with any.
Call(c) ==
    /\ fatal = "no"
    /\ pc[c] = "idle" /\ calls < MaxCalls
    /\ \E k \in Kind, v \in {node, AnyVersion} :
        /\ kind' = [kind EXCEPT ![c] = k]
        /\ version' = [version EXCEPT ![c] = IF k \in {"set", "delete"} THEN v ELSE 0]
    /\ applied' = [applied EXCEPT ![c] = 0]
    /\ calls' = calls + 1
    /\ pc' = [pc EXCEPT ![c] = "rlock"]
    /\ UNCHANGED <<tries, connVars, nodeVars, now, fatal>>

\* builder.lock.RLock(), which waits behind a pending Lock; the operation
\* starts on c.Conn.
RLock(c) ==
    /\ fatal = "no"
    /\ pc[c] = "rlock"
    /\ announced = None
    /\ pc' = [pc EXCEPT ![c] = "op"]
    /\ UNCHANGED <<callVars, connVars, nodeVars, now, fatal>>

\* The server executes the operation of c.
Execute(c) ==
    /\ node' = Effect(c)
    /\ deleted' = (deleted \/ (kind[c] = "delete" /\ Answer(c) = "ok"))
    /\ applied' = [applied EXCEPT ![c] =
                    IF kind[c] # "read" /\ version[c] # AnyVersion /\ Answer(c) = "ok"
                    THEN @ + 1 ELSE @]

\* What the operation returns: the server's answer, or an error of the
\* connection, with the operation executed all the same or not.
Outcome(c, e) ==
    \/ e = Answer(c) /\ Execute(c)
    \/ e = "ConnectionClosed" /\ Execute(c)
    \/ e = "ConnectionClosed" /\ UNCHANGED <<node, deleted, applied>>

Errors == {"ok", "NoNode", "NodeExists", "BadVersion", "ConnectionClosed"}

\* The operation of c returns: its local variables are gone.
OpReturns(c) ==
    /\ kind' = [kind EXCEPT ![c] = "read"]
    /\ version' = [version EXCEPT ![c] = 0]
    /\ tries' = [tries EXCEPT ![c] = 0]

\* safeConn: RUnlock; return, or go on to resetConnection.
SafeOp(c) ==
    /\ fatal = "no"
    /\ pc[c] = "op"
    /\ \E e \in Errors :
        /\ Outcome(c, e)
        /\ IF e = "ok" \/ ~isConnectionError(e)
           THEN pc' = [pc EXCEPT ![c] = "idle"] /\ OpReturns(c)
           ELSE /\ pc' = [pc EXCEPT ![c] = "lock"]
                /\ UNCHANGED <<kind, version, tries>>
    /\ UNCHANGED <<calls, connVars, now, fatal>>

\* unsafeConn: RUnlock; go resetConnection(), perhaps; return.
UnsafeOp(c) ==
    LET idle == {g \in Resetter : pc[g] = "idle"} IN
    /\ fatal = "no"
    /\ pc[c] = "op"
    /\ \E e \in Errors :
        /\ Outcome(c, e)
        /\ IF e # "ok" /\ isConnectionError(e)
           THEN /\ idle # {}
                /\ pc' = [pc EXCEPT ![c] = "idle", ![CHOOSE g \in idle : TRUE] = "lock"]
           ELSE pc' = [pc EXCEPT ![c] = "idle"]
    /\ OpReturns(c)
    /\ UNCHANGED <<calls, connVars, now, fatal>>

-----------------------------------------------------------------------------
(* resetConnection.                                                        *)

\* b.lock.Lock(): from here on no reader gets the lock.
Lock(t) ==
    /\ fatal = "no"
    /\ pc[t] = "lock" /\ announced = None
    /\ announced' = t
    /\ UNCHANGED <<pc, callVars, builtOn, closed, nodeVars, now, fatal>>

\* Return, with the deferred Unlock: a goroutine ends, a safeConn operation
\* tries again, or gives up.
Return(t) ==
    /\ announced' = None
    /\ IF t \in Resetter
       THEN /\ pc' = [pc EXCEPT ![t] = "idle"]
            /\ UNCHANGED <<tries, fatal>>
       ELSE IF tries[t] = retryMaxOnOps
       THEN fatal' = "retries" /\ UNCHANGED <<pc, tries>>
       ELSE /\ pc' = [pc EXCEPT ![t] = "rlock"]
            /\ tries' = [tries EXCEPT ![t] = @ + 1]
            /\ UNCHANGED fatal

\* Mutants of Locked: operations in progress are not waited for; or RUnlock is
\* deferred, and an operation that failed still holds the read lock.
MutLocked(t) == pc[t] = "lock" /\ announced = t

MutLockedDeferred(t) ==
    /\ pc[t] = "lock" /\ announced = t
    /\ \A c \in Caller : pc[c] \notin {"op", "lock"}

\* The lock is held: nobody is in an operation any more.
Locked(t) ==
    /\ pc[t] = "lock" /\ announced = t
    /\ \A c \in Caller : pc[c] # "op"

\* Mutant of Recent: it is never true.
MutRecentNever == FALSE

\* time.Now().Before(b.createdOn.Add(time.Second))
Recent == now < createdOn + Second

TooEarly(t) ==
    /\ fatal = "no"
    /\ Locked(t) /\ Recent
    /\ Return(t)
    /\ UNCHANGED <<kind, version, applied, calls, builtOn, closed,
                   nodeVars, now>>

\* b.connection.Close(); b.builder() begins.
CloseOld(t) ==
    /\ fatal = "no"
    /\ Locked(t) /\ ~Recent
    /\ closed' = TRUE
    /\ pc' = [pc EXCEPT ![t] = "build"]
    /\ UNCHANGED <<callVars, announced, builtOn, nodeVars, now, fatal>>

\* Mutant of Build: b.createdOn is not set.
MutBuild(t) ==
    /\ fatal = "no"
    /\ pc[t] = "build"
    /\ closed' = FALSE
    /\ Return(t)
    /\ UNCHANGED <<kind, version, applied, calls, builtOn, nodeVars, now>>

\* The builder returns a connection.
Build(t) ==
    /\ fatal = "no"
    /\ pc[t] = "build"
    /\ builtOn' = Append(builtOn, now)
    /\ closed' = FALSE
    /\ Return(t)
    /\ UNCHANGED <<kind, version, applied, calls, nodeVars, now>>

BuildFails(t) ==
    /\ fatal = "no"
    /\ pc[t] = "build"
    /\ fatal' = "builder"
    /\ UNCHANGED <<pc, callVars, connVars, nodeVars, now>>

Tick ==
    /\ fatal = "no"
    /\ now < MaxTime
    /\ now' = now + 1
    /\ UNCHANGED <<pc, callVars, connVars, nodeVars, fatal>>

-----------------------------------------------------------------------------
Resetting(t) == Lock(t) \/ TooEarly(t) \/ CloseOld(t) \/ Build(t) \/ BuildFails(t)

Step(t) ==
    \/ Resetting(t)
    \/ t \in Caller /\ RLock(t)
    \/ t \in Safe /\ SafeOp(t)
    \/ t \in Unsafe /\ UnsafeOp(t)

Next == Tick \/ (\E c \in Caller : Call(c)) \/ (\E t \in Thread : Step(t))

Spec == Init /\ [][Next]_vars

\* The scheduler runs every goroutine that can run, the lock is granted to one
\* that waits, and an operation returns, if only with an error.  Nobody has to
\* call an operation, and time need not pass.
FairSpec == Spec /\ \A t \in Thread : WF_vars(Step(t))

-----------------------------------------------------------------------------
(* Properties.                                                             *)

\* No operation is under way on a connection that resetConnection has closed:
\* safeConn and unsafeConn read c.Conn, and use it, under the read lock.
OpenWhileUsed == (\E c \in Caller : pc[c] = "op") => ~closed

\* However many goroutines fail and reset at the same time, a connection is
\* replaced only after a second: the goroutines behind the first one find the
\* connection it has just built and leave it alone.
RebuildRate ==
    \A i \in 1 .. Len(builtOn) - 1 : builtOn[i + 1] >= builtOn[i] + Second

\* A reset that comes when the connection is at least a second old leads to a
\* new one, or ends the process because the builder fails: the operations in
\* progress and the other resets delay it, and whichever reset gets the lock
\* first does it for all that wait.  (A reset within the second returns early,
\* and an operation may use up its retries that way.)
ResetRebuilds ==
    \A t \in Thread : (pc[t] = "lock" /\ ~Recent) ~> (Recent \/ fatal # "no")

\* A Create, or a Set that names a version, which is tried again after an answer
\* was lost does not take effect twice, as long as nobody deletes the node: the
\* version and the existence of the created node stop it.  (A Set of any version
\* may take effect twice.)
AppliedOnce == ~deleted => \A c \in Caller : applied[c] <= 1

\* Every operation returns or ends the process: no goroutine waits for ever
\* for the lock, whatever fails.
OpEnds == \A c \in Caller : (pc[c] # "idle") ~> (pc[c] = "idle" \/ fatal # "no")
=============================================================================
