------------------------------- MODULE Session -------------------------------
(***************************************************************************)
(* One client connection of the proxy (proxy/session_proxy.go): the        *)
(* goroutine of Serve reads request frames and dispatches them             *)
(* (loopReader), a second one waits for their responses and writes them    *)
(* back in the order of the requests (loopWriter).  They share the channel *)
(* tasks and the client's socket.                                          *)
(*                                                                         *)
(* A request is the number of its frame on the connection.  What happens   *)
(* to a request between PushBack and Wait.Done is the subject of module    *)
(* BackendConn; here it is "pending", and its response appears at any      *)
(* time.                                                                   *)
(***************************************************************************)
EXTENDS Naturals, Sequences

CONSTANTS
    Frames,             \* bound: the client sends at most this many requests
    MaxPipeline         \* capacity of tasks (1000 in the code)

ASSUME SessionAssumption ==
    /\ Frames \in Nat
    /\ MaxPipeline \in Nat \ {0}

VARIABLES
    sock,               \* the client's socket
    rpc, got,           \* reader: place, requests read so far
    tasks, tasksClosed,
    wpc, task,          \* writer: place, the request taken from tasks (or 0)
    resp,               \* what became of a request
    recycled,           \* requests whose buffers went back to the slice pool
    replies             \* what the client was sent

readerVars == <<rpc, got>>
chanVars == <<tasks, tasksClosed>>
writerVars == <<wpc, task>>
vars == <<sock, readerVars, chanVars, writerVars, resp, recycled, replies>>

-----------------------------------------------------------------------------
Req == 1 .. Frames

\* A request has no response yet: not dispatched, or Wait.Add without Done.
Unanswered == {"none", "pending"}
Answered == {"exception", "data", "err"}

TypeOK ==
    /\ sock \in {"open", "broken", "closed"}
    /\ rpc \in {"read", "dispatch", "push", "done"}
    /\ got \in 0 .. Frames
    /\ tasks \in Seq(Req) /\ Len(tasks) <= MaxPipeline
    /\ tasksClosed \in BOOLEAN
    /\ wpc \in {"take", "write", "recycle", "close", "drain", "done"}
    /\ task \in 0 .. Frames
    /\ resp \in [Req -> Unanswered \cup Answered]
    /\ recycled \subseteq Req
    /\ replies \in Seq([req : Req, kind : {"exception", "data"}])

\* NewSession and the start of Serve, for a connection just accepted.
Init ==
    /\ sock = "open"
    /\ rpc = "read" /\ got = 0
    /\ tasks = <<>> /\ tasksClosed = FALSE
    /\ wpc = "take" /\ task = 0
    /\ resp = [r \in Req |-> "none"]
    /\ recycled = {}
    /\ replies = <<>>

-----------------------------------------------------------------------------
(* loopReader.                                                             *)

\* ReadFrame returns the next frame (one that arrived before the client went
\* away, too); handleRequest makes a request of it.
ReadFrame ==
    /\ rpc = "read"
    /\ sock # "closed" /\ got < Frames
    /\ got' = got + 1
    /\ rpc' = "dispatch"
    /\ UNCHANGED <<sock, chanVars, writerVars, resp, recycled, replies>>

\* ReadFrame returns an error; Serve's deferred close(tasks) runs.
ReadFails ==
    /\ rpc = "read"
    /\ sock # "open"
    /\ rpc' = "done"
    /\ tasksClosed' = TRUE
    /\ UNCHANGED <<sock, got, tasks, writerVars, resp, recycled, replies>>

\* Router.Dispatch: an exception if the service or a worker is not found, or
\* else PushBack has done Wait.Add(1).  It never returns an error.
Dispatch ==
    /\ rpc = "dispatch"
    /\ \E outcome \in {"exception", "pending"} :
        resp' = [resp EXCEPT ![got] = outcome]
    /\ rpc' = "push"
    /\ UNCHANGED <<sock, got, chanVars, writerVars, recycled, replies>>

\* Mutant of PushTask: the channel has no bound.
MutPushTask ==
    /\ rpc = "push"
    /\ tasks' = Append(tasks, got)
    /\ rpc' = "read"
    /\ UNCHANGED <<sock, got, tasksClosed, writerVars, resp, recycled, replies>>

\* tasks <- r
PushTask ==
    /\ rpc = "push"
    /\ Len(tasks) < MaxPipeline
    /\ tasks' = Append(tasks, got)
    /\ rpc' = "read"
    /\ UNCHANGED <<sock, got, tasksClosed, writerVars, resp, recycled, replies>>

-----------------------------------------------------------------------------
(* loopWriter and the deferred function of its goroutine.                  *)

\* for r := range tasks
TakeTask ==
    /\ wpc = "take"
    /\ tasks # <<>>
    /\ task' = Head(tasks) /\ tasks' = Tail(tasks)
    /\ wpc' = "write"
    /\ UNCHANGED <<sock, readerVars, tasksClosed, resp, recycled, replies>>

TasksEnd ==
    /\ wpc = "take"
    /\ tasks = <<>> /\ tasksClosed
    /\ wpc' = "close"
    /\ UNCHANGED <<sock, readerVars, chanVars, task, resp, recycled, replies>>

\* Mutants of WriteReply: it does not wait for the response; or Wait returns
\* only for an answer of the backend.
MutWriteReply ==
    /\ wpc = "write"
    /\ sock # "closed"
    /\ replies' = Append(replies,
            [req |-> task, kind |-> IF resp[task] = "data" THEN "data" ELSE "exception"])
    /\ wpc' = "recycle"
    /\ UNCHANGED <<sock, readerVars, chanVars, task, resp, recycled>>

MutWriteReplyData ==
    /\ wpc = "write"
    /\ resp[task] = "data"
    /\ sock # "closed"
    /\ replies' = Append(replies, [req |-> task, kind |-> "data"])
    /\ wpc' = "recycle"
    /\ UNCHANGED <<sock, readerVars, chanVars, task, resp, recycled>>

\* handleResponse waits for the response and makes an exception of an error;
\* then Write and FlushBuffer(true).  A write to a client that is gone may
\* still succeed.
WriteReply ==
    /\ wpc = "write"
    /\ resp[task] \in Answered
    /\ sock # "closed"
    /\ replies' = Append(replies,
            [req |-> task, kind |-> IF resp[task] = "data" THEN "data" ELSE "exception"])
    /\ wpc' = "recycle"
    /\ UNCHANGED <<sock, readerVars, chanVars, task, resp, recycled>>

\* Mutant of WriteFails: the goroutine ends without emptying tasks.
MutWriteFails ==
    /\ wpc = "write"
    /\ resp[task] \in Answered
    /\ sock = "broken"
    /\ wpc' = "done" /\ task' = 0
    /\ sock' = "closed"
    /\ UNCHANGED <<readerVars, chanVars, resp, recycled, replies>>

\* The write fails and loopWriter returns; this request is not recycled.
WriteFails ==
    /\ wpc = "write"
    /\ resp[task] \in Answered
    /\ sock = "broken"
    /\ wpc' = "close" /\ task' = 0
    /\ UNCHANGED <<sock, readerVars, chanVars, resp, recycled, replies>>

\* r.Recycle()
Recycle ==
    /\ wpc = "recycle"
    /\ recycled' = recycled \cup {task}
    /\ wpc' = "take" /\ task' = 0
    /\ UNCHANGED <<sock, readerVars, chanVars, resp, replies>>

\* s.Close()
Close ==
    /\ wpc = "close"
    /\ sock' = "closed"
    /\ wpc' = "drain"
    /\ UNCHANGED <<readerVars, chanVars, task, resp, recycled, replies>>

\* for task := range tasks { task.Recycle() }, with or without a response.
Abandon ==
    /\ wpc = "drain"
    /\ tasks # <<>>
    /\ recycled' = recycled \cup {Head(tasks)}
    /\ tasks' = Tail(tasks)
    /\ UNCHANGED <<sock, readerVars, tasksClosed, writerVars, resp, replies>>

WriterEnds ==
    /\ wpc = "drain"
    /\ tasks = <<>> /\ tasksClosed
    /\ wpc' = "done"
    /\ UNCHANGED <<sock, readerVars, chanVars, task, resp, recycled, replies>>

-----------------------------------------------------------------------------
(* The backends and the client.                                            *)

\* A BackendConn completes the request: setResponse or flushRequests.
SetResponse(r) ==
    /\ resp[r] = "pending"
    /\ \E how \in {"data", "err"} : resp' = [resp EXCEPT ![r] = how]
    /\ UNCHANGED <<sock, readerVars, chanVars, writerVars, recycled, replies>>

\* The client closes the connection, or it breaks.
ClientGone ==
    /\ sock = "open"
    /\ sock' = "broken"
    /\ UNCHANGED <<readerVars, chanVars, writerVars, resp, recycled, replies>>

-----------------------------------------------------------------------------
Reading == ReadFrame \/ ReadFails \/ Dispatch \/ PushTask

Writing ==
    \/ TakeTask \/ TasksEnd \/ WriteReply \/ WriteFails \/ Recycle
    \/ Close \/ Abandon \/ WriterEnds

Next == Reading \/ Writing \/ ClientGone \/ \E r \in Req : SetResponse(r)

Spec == Init /\ [][Next]_vars

\* Both goroutines run when they can; a read on a socket that is gone returns;
\* every request that a backend has is completed.  The client need not send
\* anything nor go away.
Fairness ==
    /\ WF_vars(ReadFails \/ Dispatch \/ PushTask)
    /\ WF_vars(Writing)
    /\ \A r \in Req : WF_vars(SetResponse(r))

FairSpec == Spec /\ Fairness

-----------------------------------------------------------------------------
(* Properties.                                                             *)

\* The client gets its responses in the order of its requests, none twice and
\* none left out, and each says what became of that request: an answer of the
\* backend is passed on as data, everything else as an exception.
InOrder ==
    \A i \in DOMAIN replies :
        /\ replies[i].req = i
        /\ resp[i] \in Answered
        /\ replies[i].kind = "data" <=> resp[i] = "data"

\* Backpressure: a client that sends without reading has at most MaxPipeline
\* requests in tasks, one in the reader's and one in the writer's hands; the
\* others stay in its socket.
BoundedPipeline ==
    wpc \in {"take", "write", "recycle"} =>
        got - Len(replies) <= MaxPipeline + 2

\* Serve ends and leaves no goroutine behind once the client is gone, also
\* when tasks is full or responses are outstanding at that moment.
SessionEnds == (sock # "open") ~> (rpc = "done" /\ wpc = "done")

\* While the client stays, every request that was read is answered.
RepliesArrive ==
    \A r \in Req : (got >= r) ~> (Len(replies) >= r \/ sock # "open")

\* Buffers go back to the slice pool in the order of the requests, each after
\* its reply was sent or once the session is closed; when the session is over
\* at most one request, the one whose write failed, has kept its buffers.
RecycleAccounted ==
    /\ \A r \in recycled : r <= Len(replies) \/ sock = "closed"
    /\ wpc = "done" => \E r \in 0 .. Frames : (1 .. got) \ {r} \subseteq recycled

-----------------------------------------------------------------------------
Call == INSTANCE Calls WITH
    Request <- Req,
    Outcome <- {"data", "err"},
    call <- resp

\* The requests of a session go through the steps of module Calls: the session
\* dispatches each once, and SetResponse is the Wait.Done of one that was pushed.
ImplementsCalls == Call!CallSpec
=============================================================================
