--------------------------- MODULE Session_proofs ---------------------------
(***************************************************************************)
(* Proofs about the client session of the proxy, for any number of         *)
(* requests and any capacity of tasks: the order of the replies, the bound *)
(* on what the proxy has read ahead, and where the buffers of the requests *)
(* are.                                                                    *)
(***************************************************************************)
EXTENDS Session, TLAPS

\* Zenon tries a leaf first; the leaves that need SMT cite it.
USE ZenonT(30), SMTT(30)

-----------------------------------------------------------------------------
(* The inductive invariant.                                                *)

\* Requests that the reader has put into tasks, and those that the writer's
\* goroutine has taken out again.
Pushed == IF rpc \in {"dispatch", "push"} THEN got - 1 ELSE got
Taken == Pushed - Len(tasks)

\* tasks holds the requests behind the taken ones, in their order, and is
\* closed once the reader is done.
TasksInOrder ==
    /\ Pushed \in Nat /\ Len(tasks) <= Pushed
    /\ \A i \in DOMAIN tasks : tasks[i] = Taken + i
    /\ tasksClosed <=> rpc = "done"

\* loopWriter has a reply sent for every request it took, except the one in its
\* hands; once it returned, it may have taken more.
WriterInStep ==
    /\ wpc = "take" => Taken = Len(replies)
    /\ wpc = "write" => Taken = Len(replies) + 1 /\ task = Taken
    /\ wpc = "recycle" => Taken = Len(replies) /\ task = Taken /\ task # 0
    /\ wpc = "close" => Taken \in {Len(replies), Len(replies) + 1}
    /\ wpc \in {"drain", "done"} => Taken >= Len(replies) /\ sock = "closed"
    /\ wpc = "done" => tasks = <<>> /\ tasksClosed

\* The recycled requests are those that were answered and, after loopWriter,
\* those that were abandoned: all taken ones but the one whose write failed.
RecycledInOrder ==
    /\ wpc \in {"take", "write", "close"} => recycled = 1 .. Len(replies)
    /\ wpc = "recycle" => recycled = 1 .. Len(replies) - 1
    /\ wpc \in {"drain", "done"} =>
        (1 .. Taken) \ {Len(replies) + 1} \subseteq recycled

SessionInv ==
    /\ TypeOK
    /\ TasksInOrder
    /\ WriterInStep
    /\ RecycledInOrder
    /\ InOrder

-----------------------------------------------------------------------------
(* The two goroutines, step by step.                                       *)

\* What the types say about the lengths.
LEMMA Lengths ==
    ASSUME TypeOK
    PROVE  /\ Len(tasks) \in Nat /\ DOMAIN tasks = 1 .. Len(tasks)
           /\ Len(replies) \in Nat /\ DOMAIN replies = 1 .. Len(replies)
           /\ got \in Nat /\ Frames \in Nat /\ MaxPipeline \in Nat
  BY SessionAssumption, SMTT(30) DEF TypeOK

\* A step that sends no reply and keeps the responses of those sent keeps
\* their order.
LEMMA InOrderKept ==
    ASSUME InOrder, UNCHANGED replies,
           \A i \in DOMAIN replies : resp[i] \in Answered => resp'[i] = resp[i]
    PROVE  InOrder'
  BY DEF InOrder

\* Replies are sent for requests that were pushed before.
LEMMA AnsweredWerePushed ==
    ASSUME SessionInv
    PROVE  Len(replies) <= Taken /\ Taken <= Pushed /\ Taken \in Nat /\ Pushed <= got
  <1>1. TypeOK /\ TasksInOrder /\ WriterInStep
    BY DEF SessionInv
  <1>2. Pushed \in Nat /\ Len(tasks) <= Pushed /\ Len(tasks) \in Nat /\ Len(replies) \in Nat
    BY <1>1, Lengths DEF TasksInOrder
  <1>3. Taken \in Nat /\ Taken <= Pushed
    BY <1>2, SMTT(30) DEF Taken
  <1>4. Len(replies) <= Taken
    BY <1>1, <1>2, <1>3, SMTT(30) DEF WriterInStep, TypeOK
  <1>5. Pushed <= got
    BY <1>1, Lengths, SMTT(30) DEF Pushed
  <1> QED
    BY <1>3, <1>4, <1>5

\* Steps that leave tasks, the writer and the replies alone and push nothing:
\* a frame is read or dispatched, a response arrives, the client goes away.
LEMMA SideStep ==
    ASSUME SessionInv, TypeOK',
           UNCHANGED <<tasks, writerVars, recycled, replies>>,
           Pushed' = Pushed,
           tasksClosed' <=> rpc' = "done",
           tasksClosed => tasksClosed',
           sock = "closed" => sock' = "closed",
           \A i \in DOMAIN replies : resp[i] \in Answered => resp'[i] = resp[i]
    PROVE  SessionInv'
  <1>1. Taken' = Taken /\ UNCHANGED <<wpc, task>>
    BY DEF Taken, writerVars
  <1>2. TasksInOrder'
    BY <1>1 DEF SessionInv, TasksInOrder
  <1>3. WriterInStep'
    BY <1>1 DEF SessionInv, WriterInStep
  <1>4. RecycledInOrder'
    BY <1>1 DEF SessionInv, RecycledInOrder
  <1>5. InOrder'
    BY InOrderKept DEF SessionInv
  <1> QED
    BY <1>2, <1>3, <1>4, <1>5 DEF SessionInv

\* The reader reads a frame and dispatches it, or stops.
LEMMA ReaderStep ==
    ASSUME SessionInv, ReadFrame \/ ReadFails \/ Dispatch
    PROVE  SessionInv'
  <1>1. TypeOK /\ InOrder /\ TasksInOrder
    BY DEF SessionInv
  <1>2. /\ got \in Nat /\ Frames \in Nat /\ Len(replies) \in Nat
        /\ DOMAIN replies = 1 .. Len(replies)
    BY <1>1, Lengths
  <1>3. CASE ReadFrame
    <2>1. TypeOK'
      BY <1>1, <1>2, <1>3, SMTT(30) DEF ReadFrame, TypeOK, chanVars, writerVars
    <2>2. Pushed' = Pushed /\ rpc' # "done" /\ rpc # "done"
      BY <1>2, <1>3, SMTT(30) DEF ReadFrame, Pushed
    <2>3. UNCHANGED <<sock, tasks, tasksClosed, writerVars, recycled, replies, resp>>
      BY <1>3 DEF ReadFrame, chanVars
    <2> QED
      BY <1>1, <2>1, <2>2, <2>3, SideStep DEF TasksInOrder
  <1>4. CASE ReadFails
    <2>1. tasksClosed' \in BOOLEAN /\ tasksClosed' /\ rpc' = "done"
      BY <1>4 DEF ReadFails
    <2>2. TypeOK'
      BY <1>1, <1>4, <2>1 DEF ReadFails, TypeOK, writerVars
    <2>3. Pushed' = Pushed
      BY <1>4 DEF ReadFails, Pushed
    <2>4. UNCHANGED <<sock, tasks, writerVars, recycled, replies, resp>>
      BY <1>4 DEF ReadFails
    <2> QED
      BY <2>1, <2>2, <2>3, <2>4, SideStep
  <1>5. CASE Dispatch
    <2>1. TypeOK'
      BY <1>1, <1>5
      DEF Dispatch, TypeOK, chanVars, writerVars, Unanswered, Answered
    <2>2. Pushed' = Pushed /\ Pushed = got - 1 /\ rpc' # "done" /\ rpc # "done"
      BY <1>5 DEF Dispatch, Pushed
    <2>3. UNCHANGED <<sock, tasks, tasksClosed, writerVars, recycled, replies>>
      BY <1>5 DEF Dispatch, chanVars
    <2>4. \A i \in DOMAIN replies : i # got
      BY <1>2, <2>2, AnsweredWerePushed, SMTT(30)
    <2>5. \A i \in DOMAIN replies : resp'[i] = resp[i]
      BY <1>5, <2>4, SMTT(30) DEF Dispatch
    <2> QED
      BY <1>1, <2>1, <2>2, <2>3, <2>5, SideStep DEF TasksInOrder
  <1> QED
    BY <1>3, <1>4, <1>5

\* A response arrives, or the client goes away.
LEMMA OutsideStep ==
    ASSUME SessionInv, ClientGone \/ \E r \in Req : SetResponse(r)
    PROVE  SessionInv'
  <1>1. TypeOK /\ TasksInOrder
    BY DEF SessionInv
  <1>2. CASE ClientGone
    <2>1. TypeOK'
      BY <1>1, <1>2 DEF ClientGone, TypeOK, readerVars, chanVars, writerVars
    <2>2. /\ UNCHANGED <<rpc, got, tasks, tasksClosed, writerVars, recycled, replies, resp>>
          /\ sock = "open"
      BY <1>2 DEF ClientGone, readerVars, chanVars
    <2>3. Pushed' = Pushed
      BY <2>2 DEF Pushed
    <2> QED
      BY <1>1, <2>1, <2>2, <2>3, SideStep DEF TasksInOrder
  <1>3. ASSUME NEW r \in Req, SetResponse(r)
        PROVE  SessionInv'
    <2>1. TypeOK'
      BY <1>1, <1>3, SMTT(30) DEF SetResponse, TypeOK, readerVars, chanVars, writerVars, Answered
    <2>2. UNCHANGED <<sock, rpc, got, tasks, tasksClosed, writerVars, recycled, replies>>
      BY <1>3 DEF SetResponse, readerVars, chanVars
    <2>3. Pushed' = Pushed
      BY <2>2 DEF Pushed
    <2>4. \A i \in DOMAIN replies : resp[i] \in Answered => resp'[i] = resp[i]
      BY <1>1, <1>3, SMTT(30) DEF SetResponse, TypeOK, Answered
    <2> QED
      BY <1>1, <2>1, <2>2, <2>3, <2>4, SideStep DEF TasksInOrder
  <1> QED
    BY <1>2, <1>3

\* The reader pushes the request it dispatched, the next one in the order.
LEMMA PushStep ==
    ASSUME SessionInv, PushTask
    PROVE  SessionInv'
  <1>1. TypeOK /\ TasksInOrder /\ WriterInStep /\ RecycledInOrder /\ InOrder
    BY DEF SessionInv
  <1> DEFINE n == Len(tasks)
  <1>2. /\ n \in Nat /\ DOMAIN tasks = 1 .. n /\ got \in Nat
        /\ tasks \in Seq(Req) /\ n < MaxPipeline /\ MaxPipeline \in Nat
        /\ tasks' = Append(tasks, got)
        /\ rpc = "push" /\ rpc' = "read"
        /\ UNCHANGED <<sock, got, tasksClosed, wpc, task, resp, recycled, replies>>
    BY <1>1, Lengths DEF TypeOK, PushTask, writerVars
  <1>3. Pushed = got - 1 /\ Pushed' = got /\ Pushed \in Nat /\ n <= Pushed
    BY <1>1, <1>2 DEF Pushed, TasksInOrder
  <1>4. got \in Req
    BY <1>1, <1>2, <1>3, SessionAssumption, SMTT(30) DEF TypeOK, Req
  <1>5. /\ tasks' \in Seq(Req) /\ Len(tasks') = n + 1
        /\ DOMAIN tasks' = 1 .. n + 1
        /\ tasks'[n + 1] = got /\ \A i \in 1 .. n : tasks'[i] = tasks[i]
    BY <1>2, <1>4, SMTT(30)
  <1>6. TypeOK'
    BY <1>1, <1>2, <1>5, SMTT(30) DEF TypeOK
  <1>7. Taken' = Taken /\ Taken = got - 1 - n
    BY <1>2, <1>3, <1>5, SMTT(30) DEF Taken
  <1>8. \A i \in 1 .. n + 1 : tasks'[i] = Taken + i
    BY <1>1, <1>2, <1>3, <1>5, <1>7, SMTT(30) DEF TasksInOrder
  <1>9. TasksInOrder'
    BY <1>1, <1>2, <1>3, <1>5, <1>7, <1>8, SMTT(30) DEF TasksInOrder
  <1>10. wpc # "done"
    BY <1>1, <1>2 DEF WriterInStep, TasksInOrder
  <1>11. WriterInStep' /\ RecycledInOrder'
    BY <1>1, <1>2, <1>7, <1>10 DEF WriterInStep, RecycledInOrder
  <1>12. InOrder'
    BY <1>1, <1>2, InOrderKept
  <1> QED
    BY <1>6, <1>9, <1>11, <1>12 DEF SessionInv

\* The writer's goroutine takes the next request out of tasks.
LEMMA TakeLemma ==
    ASSUME TypeOK, TasksInOrder, tasks # <<>>, tasks' = Tail(tasks),
           UNCHANGED <<rpc, got, tasksClosed>>
    PROVE  /\ Head(tasks) = Taken + 1 /\ Head(tasks) \in Req
           /\ Taken' = Taken + 1 /\ Taken \in Nat
           /\ tasks' \in Seq(Req) /\ Len(tasks') <= MaxPipeline
           /\ TasksInOrder'
  <1> DEFINE n == Len(tasks)
  <1>1. /\ n \in Nat \ {0} /\ DOMAIN tasks = 1 .. n /\ tasks \in Seq(Req)
        /\ n <= MaxPipeline /\ MaxPipeline \in Nat
    BY SessionAssumption, SMTT(30) DEF TypeOK
  <1>2. /\ tasks' \in Seq(Req) /\ Len(tasks') = n - 1 /\ DOMAIN tasks' = 1 .. n - 1
        /\ Head(tasks) = tasks[1] /\ \A i \in 1 .. n - 1 : tasks'[i] = tasks[i + 1]
    BY <1>1, SMTT(30)
  <1>3. Pushed' = Pushed /\ Pushed \in Nat /\ n <= Pushed
    BY DEF Pushed, TasksInOrder
  <1>4. Taken' = Taken + 1 /\ Taken \in Nat
    BY <1>1, <1>2, <1>3, SMTT(30) DEF Taken
  <1>5. \A i \in 1 .. n : tasks[i] = Taken + i
    BY <1>1 DEF TasksInOrder
  <1>6. \A i \in 1 .. n - 1 : tasks'[i] = Taken' + i
    BY <1>1, <1>2, <1>4, <1>5, SMTT(30)
  <1>7. TasksInOrder'
    BY <1>1, <1>2, <1>3, <1>6, SMTT(30) DEF TasksInOrder
  <1>8. Head(tasks) = Taken + 1 /\ Head(tasks) \in Req
    BY <1>1, <1>2, <1>5, SMTT(30)
  <1> QED
    BY <1>1, <1>2, <1>4, <1>7, <1>8, SMTT(30)

\* loopWriter takes a request, or the drain loop recycles one.
LEMMA TakeStep ==
    ASSUME SessionInv, TakeTask \/ Abandon
    PROVE  SessionInv'
  <1>1. TypeOK /\ TasksInOrder /\ WriterInStep /\ RecycledInOrder /\ InOrder
    BY DEF SessionInv
  <1> DEFINE h == Head(tasks)
  <1>2. /\ tasks # <<>> /\ tasks' = Tail(tasks)
        /\ UNCHANGED <<sock, rpc, got, tasksClosed, resp, replies>>
        /\ \/ /\ wpc = "take" /\ wpc' = "write" /\ task' = h
              /\ UNCHANGED recycled
           \/ /\ wpc = "drain" /\ wpc' = "drain" /\ task' = task
              /\ recycled' = recycled \cup {h}
    BY DEF TakeTask, Abandon, readerVars, writerVars
  <1>3. /\ h = Taken + 1 /\ h \in Req /\ Taken' = Taken + 1 /\ Taken \in Nat
        /\ tasks' \in Seq(Req) /\ Len(tasks') <= MaxPipeline
        /\ TasksInOrder'
    BY <1>1, <1>2, TakeLemma
  <1>4. Len(replies) \in Nat /\ h \in 0 .. Frames
    BY <1>1, <1>3, Lengths, SMTT(30) DEF Req
  <1>5. TypeOK'
    BY <1>1, <1>2, <1>3, <1>4 DEF TypeOK
  <1> HIDE DEF h
  <1>6. WriterInStep'
    BY <1>1, <1>2, <1>3, <1>4, SMTT(30) DEF WriterInStep
  <1>7. RecycledInOrder'
    <2>1. CASE wpc = "take"
      BY <1>1, <1>2, <2>1 DEF RecycledInOrder
    <2>2. CASE wpc = "drain"
      <3>1. (1 .. Taken) \ {Len(replies) + 1} \subseteq recycled
        BY <1>1, <2>2 DEF RecycledInOrder
      <3>2. (1 .. Taken + 1) \ {Len(replies) + 1} \subseteq recycled \cup {Taken + 1}
        BY <1>3, <1>4, <3>1, SMTT(30)
      <3> QED
        BY <1>2, <1>3, <2>2, <3>2 DEF RecycledInOrder
    <2> QED
      BY <1>2, <2>1, <2>2
  <1>8. InOrder'
    BY <1>1, <1>2, InOrderKept
  <1> QED
    BY <1>3, <1>5, <1>6, <1>7, <1>8 DEF SessionInv

\* The reply of the request in the writer's hands is the next one.
LEMMA WriteReplyStep ==
    ASSUME SessionInv, WriteReply
    PROVE  SessionInv'
  <1>1. TypeOK /\ TasksInOrder /\ WriterInStep /\ RecycledInOrder /\ InOrder
    BY DEF SessionInv
  <1> DEFINE n == Len(replies)
             kind == IF resp[task] = "data" THEN "data" ELSE "exception"
             reply == [req |-> task, kind |-> kind]
             Reply == [req : Req, kind : {"exception", "data"}]
  <1>2. /\ wpc = "write" /\ wpc' = "recycle" /\ resp[task] \in Answered
        /\ replies' = Append(replies, reply)
        /\ UNCHANGED <<sock, rpc, got, tasks, tasksClosed, task, resp, recycled>>
    BY DEF WriteReply, readerVars, chanVars
  <1>3. n \in Nat /\ DOMAIN replies = 1 .. n /\ replies \in Seq(Reply)
    BY <1>1, Lengths DEF TypeOK
  <1>4. Taken = n + 1 /\ task = n + 1 /\ UNCHANGED <<Taken, Pushed>>
    BY <1>1, <1>2 DEF WriterInStep, Taken, Pushed
  <1>5. task \in Req /\ reply \in Reply
    BY <1>1, <1>3, <1>4, SMTT(30) DEF TypeOK, Req
  <1> HIDE DEF Reply, reply
  <1>6. /\ replies' \in Seq(Reply) /\ Len(replies') = n + 1
        /\ DOMAIN replies' = 1 .. n + 1
        /\ replies'[n + 1] = reply /\ \A i \in 1 .. n : replies'[i] = replies[i]
    BY <1>2, <1>3, <1>5, SMTT(30)
  <1>7. TypeOK'
    BY <1>1, <1>2, <1>6 DEF TypeOK, Reply
  <1>8. TasksInOrder'
    BY <1>1, <1>2, <1>4 DEF TasksInOrder
  <1>9. WriterInStep'
    BY <1>2, <1>3, <1>4, <1>6, SMTT(30) DEF WriterInStep
  <1>10. RecycledInOrder'
    BY <1>1, <1>2, <1>3, <1>6, SMTT(30) DEF RecycledInOrder
  <1>11. InOrder'
    <2>1. replies'[n + 1].req = n + 1 /\ replies'[n + 1].kind = kind
      BY <1>4, <1>6, SMTT(30) DEF reply
    <2>2. \A i \in 1 .. n : /\ replies'[i].req = i /\ resp[i] \in Answered
                            /\ replies'[i].kind = "data" <=> resp[i] = "data"
      BY <1>1, <1>3, <1>6 DEF InOrder
    <2>3. kind = "data" <=> resp[n + 1] = "data"
      BY <1>4
    <2> HIDE DEF kind
    <2> QED
      BY <1>2, <1>3, <1>4, <1>6, <2>1, <2>2, <2>3, SMTT(30) DEF InOrder
  <1> QED
    BY <1>7, <1>8, <1>9, <1>10, <1>11 DEF SessionInv

\* The other steps of the writer's goroutine leave tasks and the replies alone.
LEMMA WriterStep ==
    ASSUME SessionInv, TasksEnd \/ WriteFails \/ Recycle \/ Close \/ WriterEnds
    PROVE  SessionInv'
  <1>1. TypeOK /\ TasksInOrder /\ WriterInStep /\ RecycledInOrder /\ InOrder
    BY DEF SessionInv
  <1>2. UNCHANGED <<rpc, got, tasks, tasksClosed, resp, replies>>
    BY DEF TasksEnd, WriteFails, Recycle, Close, WriterEnds, readerVars, chanVars
  <1>3. UNCHANGED <<Taken, Pushed>> /\ Len(replies) \in Nat /\ Frames \in Nat
    BY <1>1, <1>2, Lengths DEF Taken, Pushed
  <1>4. TasksInOrder' /\ InOrder'
    BY <1>1, <1>2, <1>3, InOrderKept DEF TasksInOrder
  <1>5. TypeOK' /\ WriterInStep' /\ RecycledInOrder'
    <2>1. CASE TasksEnd
      <3>1. wpc = "take" /\ wpc' = "close" /\ UNCHANGED <<sock, task, recycled>>
        BY <2>1 DEF TasksEnd
      <3> QED
        BY <1>1, <1>2, <1>3, <3>1 DEF TypeOK, WriterInStep, RecycledInOrder
    <2>2. CASE WriteFails
      <3>1. wpc = "write" /\ wpc' = "close" /\ task' = 0 /\ UNCHANGED <<sock, recycled>>
        BY <2>2 DEF WriteFails
      <3> QED
        BY <1>1, <1>2, <1>3, <3>1, SMTT(30) DEF TypeOK, WriterInStep, RecycledInOrder
    <2>3. CASE Recycle
      <3>1. /\ wpc = "recycle" /\ wpc' = "take" /\ task' = 0 /\ UNCHANGED sock
            /\ recycled' = recycled \cup {task}
        BY <2>3 DEF Recycle
      <3>2. /\ Taken = Len(replies) /\ task = Len(replies) /\ task \in (0 .. Frames) \ {0}
            /\ recycled = 1 .. Len(replies) - 1
        BY <1>1, <3>1 DEF WriterInStep, RecycledInOrder, TypeOK
      <3> QED
        BY <1>1, <1>2, <1>3, <3>1, <3>2, SMTT(30) DEF TypeOK, WriterInStep, RecycledInOrder, Req
    <2>4. CASE Close
      <3>1. wpc = "close" /\ wpc' = "drain" /\ sock' = "closed" /\ UNCHANGED <<task, recycled>>
        BY <2>4 DEF Close
      <3>2. (1 .. Taken) \ {Len(replies) + 1} \subseteq recycled
        BY <1>1, <1>3, <3>1, SMTT(30) DEF WriterInStep, RecycledInOrder
      <3> QED
        BY <1>1, <1>2, <1>3, <3>1, <3>2, SMTT(30) DEF TypeOK, WriterInStep, RecycledInOrder
    <2>5. CASE WriterEnds
      <3>1. /\ wpc = "drain" /\ wpc' = "done" /\ UNCHANGED <<sock, task, recycled>>
            /\ tasks = <<>> /\ tasksClosed
        BY <2>5 DEF WriterEnds
      <3> QED
        BY <1>1, <1>2, <1>3, <3>1 DEF TypeOK, WriterInStep, RecycledInOrder
    <2> QED
      BY <2>1, <2>2, <2>3, <2>4, <2>5
  <1> QED
    BY <1>4, <1>5 DEF SessionInv

-----------------------------------------------------------------------------
(* The theorems.                                                           *)

\* Every step preserves the invariant.
LEMMA NextSessionInv == SessionInv /\ [Next]_vars => SessionInv'
  <1> SUFFICES ASSUME SessionInv, [Next]_vars PROVE SessionInv'
    OBVIOUS
  <1>1. CASE UNCHANGED vars
    <2>1. UNCHANGED <<sock, rpc, got, tasks, tasksClosed, writerVars, resp, recycled, replies>>
      BY <1>1 DEF vars, readerVars, chanVars
    <2>2. TypeOK' /\ Pushed' = Pushed
      BY <2>1 DEF SessionInv, TypeOK, Pushed, writerVars
    <2> QED
      BY <2>1, <2>2, SideStep DEF SessionInv, TasksInOrder
  <1> QED
    BY <1>1, ReaderStep, PushStep, TakeStep, WriteReplyStep, WriterStep, OutsideStep
       DEF Next, Reading, Writing

\* Nothing was read when Serve starts.
LEMMA InitSessionInv == Init => SessionInv
  <1> SUFFICES ASSUME Init PROVE SessionInv
    OBVIOUS
  <1>1. tasksClosed \in BOOLEAN
    BY DEF Init
  <1>2. TypeOK
    BY <1>1, SessionAssumption, SMTT(30) DEF Init, TypeOK, Unanswered
  <1>3. /\ Pushed = 0 /\ Taken = 0 /\ rpc = "read" /\ wpc = "take" /\ ~tasksClosed
        /\ tasks = <<>> /\ replies = <<>> /\ recycled = {}
    BY SMTT(30) DEF Init, Pushed, Taken
  <1>4. TasksInOrder /\ WriterInStep /\ RecycledInOrder /\ InOrder
    BY <1>3, SMTT(30) DEF TasksInOrder, WriterInStep, RecycledInOrder, InOrder
  <1> QED
    BY <1>2, <1>4 DEF SessionInv

\* The invariant holds of every behaviour of the session.
THEOREM SessionInvariant == Spec => []SessionInv
  BY InitSessionInv, NextSessionInv, PTL DEF Spec

\* The state of the session is of its type; tasks and recycles never hold more
\* than their capacity.
THEOREM SessionTypeCorrect == Spec => []TypeOK
  <1>1. SessionInv => TypeOK
    BY DEF SessionInv
  <1> QED
    BY <1>1, SessionInvariant, PTL

\* However many requests a client pipelines and in whatever order the backends
\* answer, replies are sent in the order of the requests, and each says what
\* became of its request.
THEOREM InOrderCorrect == Spec => []InOrder
  <1>1. SessionInv => InOrder
    BY DEF SessionInv
  <1> QED
    BY <1>1, SessionInvariant, PTL

\* For any capacity of tasks, the proxy reads at most that many requests and
\* two ahead of the replies.
THEOREM BoundedPipelineCorrect == Spec => []BoundedPipeline
  <1>1. ASSUME SessionInv, wpc \in {"take", "write", "recycle"}
        PROVE  got - Len(replies) <= MaxPipeline + 2
    <2>1. TypeOK /\ TasksInOrder /\ WriterInStep
      BY <1>1 DEF SessionInv
    <2>2. /\ Len(tasks) \in Nat /\ Len(tasks) <= MaxPipeline /\ MaxPipeline \in Nat
          /\ Len(replies) \in Nat /\ got \in Nat
      BY <2>1, Lengths DEF TypeOK
    <2>3. Taken <= Len(replies) + 1 /\ Taken = Pushed - Len(tasks) /\ Pushed \in Nat
      BY <1>1, <2>1, <2>2, SMTT(30) DEF WriterInStep, Taken, TasksInOrder
    <2>4. got <= Pushed + 1
      BY <2>2, SMTT(30) DEF Pushed
    <2> QED
      BY <2>2, <2>3, <2>4, SMTT(30)
  <1>2. SessionInv => BoundedPipeline
    BY <1>1 DEF BoundedPipeline
  <1> QED
    BY <1>2, SessionInvariant, PTL

\* No buffer goes back to the pool before its reply was sent, unless the session
\* is closed, and none but that of a failed write is kept in the end.
THEOREM RecycleCorrect == Spec => []RecycleAccounted
  <1>1. ASSUME SessionInv PROVE RecycleAccounted
    <2>1. TypeOK /\ TasksInOrder /\ WriterInStep /\ RecycledInOrder
      BY <1>1 DEF SessionInv
    <2>2. Len(replies) \in Nat /\ Frames \in Nat /\ got \in 0 .. Frames
      BY <2>1, Lengths DEF TypeOK
    <2>3. \A r \in recycled : r <= Len(replies) \/ sock = "closed"
      BY <2>1, <2>2, SMTT(30) DEF RecycledInOrder, WriterInStep, TypeOK
    <2>4. ASSUME wpc = "done"
          PROVE  \E r \in 0 .. Frames : (1 .. got) \ {r} \subseteq recycled
      <3>1. tasks = <<>> /\ rpc = "done"
        BY <2>1, <2>4 DEF WriterInStep, TasksInOrder
      <3>2. Taken = got
        BY <2>2, <3>1, SMTT(30) DEF Taken, Pushed
      <3>3. (1 .. got) \ {Len(replies) + 1} \subseteq recycled
        BY <2>1, <2>4, <3>2 DEF RecycledInOrder
      <3>4. CASE Len(replies) + 1 \in 0 .. Frames
        BY <3>3, <3>4
      <3>5. CASE Len(replies) + 1 \notin 0 .. Frames
        <4>1. (1 .. got) \ {0} \subseteq recycled
          BY <2>2, <3>3, <3>5, SMTT(30)
        <4> QED
          BY <2>2, <4>1, SMTT(30)
      <3> QED
        BY <3>4, <3>5
    <2> QED
      BY <2>3, <2>4 DEF RecycleAccounted
  <1> QED
    BY <1>1, SessionInvariant, PTL

-----------------------------------------------------------------------------
(* The requests as the backends see them.                                  *)

\* The request that is to be dispatched, and those not read yet, have no
\* response.
NotDispatched ==
    \A r \in Req : r > got \/ (r = got /\ rpc = "dispatch") => resp[r] = "none"

\* Every step preserves that, and is a step of Calls or not seen by it.
LEMMA CallStep ==
    ASSUME SessionInv, NotDispatched, [Next]_vars
    PROVE  NotDispatched' /\ [Call!CallNext]_resp
  <1>0. got \in 0 .. Frames /\ Frames \in Nat /\ DOMAIN resp = Req
    BY SessionAssumption DEF SessionInv, TypeOK
  <1>1. CASE ReadFrame
    BY <1>0, <1>1, SMTT(30) DEF ReadFrame, NotDispatched, Req
  <1>2. CASE Dispatch
    <2>1. /\ rpc = "dispatch" /\ rpc' = "push" /\ got' = got
          /\ \E how \in {"exception", "pending"} : resp' = [resp EXCEPT ![got] = how]
      BY <1>2 DEF Dispatch
    <2>2. NotDispatched'
      BY <1>0, <2>1, SMTT(30) DEF NotDispatched, Req
    <2>3. got \in Req
      BY <1>0, <2>1, SMTT(30) DEF SessionInv, TasksInOrder, Pushed, Req
    <2>4. resp[got] = "none"
      BY <1>0, <2>1, <2>3 DEF NotDispatched
    <2>5. Call!Dispatch(got)
      BY <2>1, <2>4 DEF Call!Dispatch
    <2> QED
      BY <2>2, <2>3, <2>5 DEF Call!CallNext
  <1>3. ASSUME NEW q \in Req, SetResponse(q) PROVE NotDispatched' /\ [Call!CallNext]_resp
    <2>1. PICK how \in {"data", "err"} : resp' = [resp EXCEPT ![q] = how]
      BY <1>3 DEF SetResponse
    <2>2. resp[q] = "pending" /\ UNCHANGED <<rpc, got>>
      BY <1>3 DEF SetResponse, readerVars
    <2>3. NotDispatched'
      BY <1>0, <2>1, <2>2 DEF NotDispatched
    <2>4. Call!Answer({q}, how)
      BY <1>0, <2>1, <2>2 DEF Call!Answer, SessionInv, TypeOK
    <2> QED
      BY <2>3, <2>4 DEF Call!CallNext
  <1>4. CASE ReadFails \/ PushTask
    BY <1>4 DEF ReadFails, PushTask, NotDispatched
  <1>5. CASE Writing \/ ClientGone \/ UNCHANGED vars
    <2>1. UNCHANGED <<rpc, got, resp>>
      BY <1>5 DEF Writing, ClientGone, TakeTask, TasksEnd, WriteReply, WriteFails,
         Recycle, Close, Abandon, WriterEnds, vars, readerVars
    <2> QED
      BY <2>1 DEF NotDispatched
  <1> QED
    BY <1>1, <1>2, <1>3, <1>4, <1>5 DEF Next, Reading

\* ImplementsCalls: for any number of requests and any capacity of tasks, what
\* becomes of the requests of a session is what Calls allows.
THEOREM SessionImplementsCalls == Spec => ImplementsCalls
  <1>1. Init => NotDispatched /\ Call!CallInit
    BY DEF Init, NotDispatched, Call!CallInit
  <1> QED
    BY <1>1, CallStep, SessionInvariant, PTL DEF Spec, ImplementsCalls, Call!CallSpec
=============================================================================
