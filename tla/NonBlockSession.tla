--------------------------- MODULE NonBlockSession ---------------------------
(***************************************************************************)
(* One connection of a Go rpc server (proxy/session_nonblock.go), with the *)
(* dispatcher ThriftRpcServer.Dispatch and the memory both take from       *)
(* getSlice (proxy/memory_alloc.go).  Serve reads frames and starts a      *)
(* goroutine for each; the goroutines push their requests, handled, on     *)
(* tasks; loopWriter writes the responses in the order they come.          *)
(*                                                                         *)
(* Memory: Slice are the slices of 2048 bytes, which go around through the *)
(* channel memoryBuffer2048.  Every other size comes from make and belongs *)
(* to one request (Own): nothing returns a slice of 1024 bytes here.  A    *)
(* request refers to a slice as long as somebody may read it there.        *)
(*                                                                         *)
(* The names of the specification have a prefix, so that a module can      *)
(* extend this one together with Server, whose sessions these are.         *)
(***************************************************************************)
EXTENDS Naturals, Sequences, FiniteSets

CONSTANTS
    Frames,             \* bound: requests on the connection
    MaxPipeline,        \* capacity of tasks (1000 in the code)
    Slice, Own,
    PoolCap             \* capacity of memoryBuffer2048 (1000 in the code)

ASSUME NonBlockAssumption ==
    /\ Frames \in Nat /\ MaxPipeline \in Nat \ {0} /\ PoolCap \in Nat
    /\ IsFiniteSet(Slice) /\ Cardinality(Slice) >= 2 * Frames
    /\ Own \notin Slice

VARIABLES
    sock,               \* the peer's socket
    rpc, got,           \* reader: place, frames read so far
    stage,              \* the goroutine of a request, then the request
    frame, out, data,   \* memory of Request.Data, of Dispatch, Response.Data
    clobbered,          \* requests whose frame was overwritten unread
    pool,               \* memoryBuffer2048
    tasks, tasksClosed,
    wpc, task,          \* writer: place, request taken from tasks (or 0)
    replied             \* requests that were answered

memVars == <<frame, out, data, clobbered, pool>>
taskVars == <<tasks, tasksClosed>>
readerVars == <<rpc, got>>
writerVars == <<wpc, task>>
sessionVars == <<sock, readerVars, stage, memVars, taskVars, writerVars, replied>>

-----------------------------------------------------------------------------
Req == 1 .. Frames
Memory == Slice \cup {Own}

SessionTypeOK ==
    /\ sock \in {"open", "broken", "closed"}
    /\ rpc \in {"read", "wait", "done"}
    /\ got \in 0 .. Frames
    /\ stage \in [Req -> {"none", "handle", "process", "push", "queued",
                          "over"}]
    /\ frame \in [Req -> Memory] /\ out \in [Req -> Memory]
    /\ data \in [Req -> Memory]
    /\ clobbered \subseteq Req
    /\ pool \in Seq(Slice) /\ Len(pool) <= PoolCap
    /\ tasks \in Seq(Req) /\ Len(tasks) <= MaxPipeline
    /\ tasksClosed \in BOOLEAN
    /\ wpc \in {"take", "write", "close", "drain", "done"}
    /\ task \in 0 .. Frames
    /\ replied \subseteq Req

SessionInit ==
    /\ sock = "open"
    /\ rpc = "read" /\ got = 0
    /\ stage = [r \in Req |-> "none"]
    /\ frame = [r \in Req |-> Own] /\ out = [r \in Req |-> Own]
    /\ data = [r \in Req |-> Own]
    /\ clobbered = {}
    /\ pool = <<>>
    /\ tasks = <<>> /\ tasksClosed = FALSE
    /\ wpc = "take" /\ task = 0
    /\ replied = {}

-----------------------------------------------------------------------------
(* memory_alloc.go.                                                        *)

\* A slice nothing refers to, which make may return.
Unused(s) ==
    /\ \A i \in DOMAIN pool : pool[i] # s
    /\ \A r \in Req : s \notin {frame[r], out[r], data[r]}

NewSlice == CHOOSE s \in Slice : Unused(s)

\* What getSlice returns for 1024 <= capacity < 2048: a slice from the channel,
\* or a new one.
NextSlice == IF pool # <<>> THEN Head(pool) ELSE NewSlice

\* Mutant of GetSlice: the slice stays in the channel.
MutGetSlice == UNCHANGED pool

\* getSlice takes the slice it returns out of the channel.
GetSlice == pool' = IF pool # <<>> THEN Tail(pool) ELSE pool

\* returnSlice of a slice of 2048 bytes, dropped when the channel is full.
ReturnSlice(s) ==
    pool' = IF Len(pool) < PoolCap THEN Append(pool, s) ELSE pool

\* Request r writes to memory s.
Write(r, s) ==
    clobbered' = clobbered \cup {q \in Req \ {r} : s # Own /\ frame[q] = s}

\* Nobody reads the memory of request r any more.
Forget(r) ==
    /\ frame' = [frame EXCEPT ![r] = Own]
    /\ data' = [data EXCEPT ![r] = Own]
    /\ clobbered' = clobbered \ {r}
    /\ UNCHANGED <<out, pool>>

-----------------------------------------------------------------------------
(* Serve.                                                                  *)

\* ReadFrame fills memory of the frame's size; the goroutine is started.
ReadFrame ==
    /\ rpc = "read"
    /\ sock # "closed" /\ got < Frames
    /\ got' = got + 1
    /\ stage' = [stage EXCEPT ![got + 1] = "handle"]
    /\ \/ /\ frame' = [frame EXCEPT ![got + 1] = Own]
          /\ UNCHANGED <<clobbered, pool>>
       \/ /\ GetSlice
          /\ frame' = [frame EXCEPT ![got + 1] = NextSlice]
          /\ Write(got + 1, NextSlice)
    /\ UNCHANGED <<sock, rpc, out, data, taskVars, writerVars, replied>>

ReadFails ==
    /\ rpc = "read"
    /\ sock # "open"
    /\ rpc' = "wait"
    /\ UNCHANGED <<sock, got, stage, memVars, taskVars, writerVars, replied>>

\* Mutant of ServeEnds: wait.Wait() is forgotten.
MutServeEnds ==
    /\ rpc = "wait"
    /\ tasksClosed' = TRUE
    /\ rpc' = "done"
    /\ UNCHANGED <<sock, got, stage, memVars, tasks, writerVars, replied>>

\* wait.Wait(); close(tasks)
ServeEnds ==
    /\ rpc = "wait"
    /\ \A r \in Req : stage[r] \in {"none", "queued", "over"}
    /\ tasksClosed' = TRUE
    /\ rpc' = "done"
    /\ UNCHANGED <<sock, got, stage, memVars, tasks, writerVars, replied>>

-----------------------------------------------------------------------------
(* The goroutine of a request.                                             *)

\* Mutant of HandlePing: the goroutine returns without a task.
MutHandlePing(r) ==
    /\ stage[r] = "handle"
    /\ stage' = [stage EXCEPT ![r] = "over"]
    /\ UNCHANGED <<sock, readerVars, memVars, taskVars, writerVars, replied>>

\* A heartbeat is answered with its own frame.
HandlePing(r) ==
    /\ stage[r] = "handle"
    /\ data' = [data EXCEPT ![r] = frame[r]]
    /\ stage' = [stage EXCEPT ![r] = "push"]
    /\ UNCHANGED <<sock, readerVars, frame, out, clobbered, pool, taskVars, writerVars,
                   replied>>

\* Dispatch: getSlice(0, 1024), which gives 2048 bytes.
GetOut(r) ==
    /\ stage[r] = "handle"
    /\ GetSlice
    /\ out' = [out EXCEPT ![r] = NextSlice]
    /\ stage' = [stage EXCEPT ![r] = "process"]
    /\ UNCHANGED <<sock, readerVars, frame, data, clobbered, taskVars, writerVars,
                   replied>>

\* Processor.Process reads the request and writes the response, to memory of
\* its own if the slice is too small.  Reallocated or not, the response does
\* not have the capacity 1024, and the slice is returned.
Process(r) ==
    /\ stage[r] = "process"
    /\ Write(r, out[r])
    /\ \E s \in {out[r], Own} : data' = [data EXCEPT ![r] = s]
    /\ ReturnSlice(out[r])
    /\ out' = [out EXCEPT ![r] = Own]
    /\ frame' = [frame EXCEPT ![r] = Own]
    /\ stage' = [stage EXCEPT ![r] = "push"]
    /\ UNCHANGED <<sock, readerVars, taskVars, writerVars, replied>>

\* tasks <- r; wait.Done()
PushTask(r) ==
    /\ stage[r] = "push"
    /\ ~tasksClosed /\ Len(tasks) < MaxPipeline
    /\ tasks' = Append(tasks, r)
    /\ stage' = [stage EXCEPT ![r] = "queued"]
    /\ UNCHANGED <<sock, readerVars, memVars, tasksClosed, writerVars, replied>>

-----------------------------------------------------------------------------
(* loopWriter and the deferred function of its goroutine.                  *)

TakeTask ==
    /\ wpc = "take"
    /\ tasks # <<>>
    /\ task' = Head(tasks) /\ tasks' = Tail(tasks)
    /\ wpc' = "write"
    /\ UNCHANGED <<sock, readerVars, stage, memVars, tasksClosed, replied>>

TasksEnd ==
    /\ wpc = "take"
    /\ tasks = <<>> /\ tasksClosed
    /\ wpc' = "close"
    /\ UNCHANGED <<sock, readerVars, stage, memVars, taskVars, task, replied>>

\* Dispatch is over, so Wait.Wait() returns at once; Write, FlushBuffer(true).
WriteReply ==
    /\ wpc = "write"
    /\ sock # "closed"
    /\ replied' = replied \cup {task}
    /\ stage' = [stage EXCEPT ![task] = "over"]
    /\ Forget(task)
    /\ wpc' = "take" /\ task' = 0
    /\ UNCHANGED <<sock, readerVars, taskVars>>

WriteFails ==
    /\ wpc = "write"
    /\ sock = "broken"
    /\ stage' = [stage EXCEPT ![task] = "over"]
    /\ Forget(task)
    /\ wpc' = "close" /\ task' = 0
    /\ UNCHANGED <<sock, readerVars, taskVars, replied>>

\* Mutant of Close: tasks is not emptied after an error.
MutClose ==
    /\ wpc = "close"
    /\ sock' = "closed"
    /\ wpc' = "done"
    /\ UNCHANGED <<readerVars, stage, memVars, taskVars, task, replied>>

Close ==
    /\ wpc = "close"
    /\ sock' = "closed"
    /\ wpc' = "drain"
    /\ UNCHANGED <<readerVars, stage, memVars, taskVars, task, replied>>

\* for _ = range tasks {}
Drop ==
    /\ wpc = "drain"
    /\ tasks # <<>>
    /\ stage' = [stage EXCEPT ![Head(tasks)] = "over"]
    /\ Forget(Head(tasks))
    /\ tasks' = Tail(tasks)
    /\ UNCHANGED <<sock, readerVars, tasksClosed, writerVars, replied>>

WriterEnds ==
    /\ wpc = "drain"
    /\ tasks = <<>> /\ tasksClosed
    /\ wpc' = "done"
    /\ UNCHANGED <<sock, readerVars, stage, memVars, taskVars, task, replied>>

\* The peer closes the connection, or it breaks.
PeerGone ==
    /\ sock = "open"
    /\ sock' = "broken"
    /\ UNCHANGED <<readerVars, stage, memVars, taskVars, writerVars, replied>>

-----------------------------------------------------------------------------
Handling(r) ==
    HandlePing(r) \/ GetOut(r) \/ Process(r) \/ PushTask(r)

Writing ==
    \/ TakeTask \/ TasksEnd \/ WriteReply \/ WriteFails \/ Close \/ Drop
    \/ WriterEnds

SessionNext ==
    \/ ReadFrame \/ ReadFails \/ ServeEnds
    \/ \E r \in Req : Handling(r)
    \/ Writing \/ PeerGone

SessionSpec == SessionInit /\ [][SessionNext]_sessionVars

\* Every goroutine runs when it can; a read on a socket that is gone returns,
\* and so does Process.  The peer need not send anything nor go away.
SessionFairness ==
    /\ WF_sessionVars(ReadFails \/ ServeEnds)
    /\ \A r \in Req : WF_sessionVars(Handling(r))
    /\ WF_sessionVars(Writing)

FairSessionSpec == SessionSpec /\ SessionFairness

-----------------------------------------------------------------------------
(* Properties.                                                             *)

\* Process gets every request as it was sent: the memory of a frame is not
\* handed out again before the request is handled, although the slices of
\* responses that are still to be written are (see ReturnedIfReallocated).
RequestIntact ==
    \A r \in clobbered : stage[r] \notin {"handle", "process"}

\* tasks is open for every goroutine that is still to send on it; a send on a
\* closed channel would panic.
TasksOpen ==
    tasksClosed => \A r \in Req : stage[r] \in {"none", "queued", "over"}

\* Serve ends and leaves no goroutine behind once the peer is gone.
SessionEnds ==
    (sock # "open") ~> (/\ rpc = "done" /\ wpc = "done"
                        /\ \A r \in Req : stage[r] \in {"none", "over"})

\* While the peer stays, every request that was read is answered.
RepliesArrive ==
    \A r \in Req :
        (got >= r) ~> (sock # "open" \/ r \in replied)

\* Dispatch: "if the transport reallocated memory, return the slice at once".
\* So a slice that holds a response that is still to be written is not in the
\* pool, where the next frame or response would overwrite it.
ReturnedIfReallocated ==
    \A r \in Req : stage[r] \in {"push", "queued"} =>
        \A i \in DOMAIN pool : pool[i] # data[r]
=============================================================================
