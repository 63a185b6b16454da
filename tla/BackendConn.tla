----------------------------- MODULE BackendConn -----------------------------
(***************************************************************************)
(* One multiplexed connection of the proxy to a backend server             *)
(* (proxy/backend_conn_proxy.go).  Its goroutines are                      *)
(*   - Writer: Run and loopWriter, connecting, forwarding, reconnecting;   *)
(*   - one reader (loopReader) for every socket that was opened;           *)
(*   - the heartbeat (Heartbeat), one for every call of loopWriter;        *)
(*   - Offliner: the goroutines that call MarkOffline (the zk watcher and  *)
(*     the goroutine started by BackService.Stop);                         *)
(*   - the client sessions, one for every request, which pick the          *)
(*     connection from the pool and push the request on its input channel. *)
(* Every step is one access to the state that the goroutines share: an     *)
(* atomic flag, a channel operation, a section under a lock, a socket      *)
(* call.  A Go panic (send on, or close of, a closed channel) stops the    *)
(* process.                                                                *)
(***************************************************************************)
EXTENDS Integers, Sequences, FiniteSets

CONSTANTS
    Request,            \* client requests, each dispatched once
    Conn,               \* sockets the process may hold open at the same time
    Offliner,           \* goroutines that call MarkOffline
    Writer,             \* the goroutine of Run
    PING,               \* a heartbeat request (its Wait is nil)
    Nil,                \* no request
    InputCap,           \* capacity of the input channel (1024 in the code)
    BACKEND_CONN_MIN_SEQ_ID,
    BACKEND_CONN_MAX_SEQ_ID,
    HB_TIMEOUT,         \* ticks without an answer that fail the heartbeat
    MaxSends            \* bound: no ping once this many frames were written

ASSUME ConstantsAssumption ==
    /\ PING \notin Request /\ Nil \notin Request /\ PING # Nil
    /\ Writer # Nil /\ Nil \notin Conn
    /\ Writer \notin Conn /\ Writer \notin Offliner /\ Conn \cap Offliner = {}
    /\ InputCap \in Nat \ {0}
    /\ BACKEND_CONN_MIN_SEQ_ID \in Nat
    /\ BACKEND_CONN_MAX_SEQ_ID \in Nat
    /\ BACKEND_CONN_MIN_SEQ_ID <= BACKEND_CONN_MAX_SEQ_ID
    /\ HB_TIMEOUT \in Nat /\ MaxSends \in Nat

VARIABLES
    input,              \* the buffered channel bc.input
    inputClosed,
    seqNum2Request,     \* requests written and not yet answered
    currentSeqId,
    IsMarkOffline,
    IsConnActive,
    listed,             \* the connection is in the delegate's activeConns
    marking,            \* where a goroutine is in MarkConnActiveFalse or -OK
    wpc, cur, hand, werr, left,         \* Writer: place, socket, request taken
                                        \* from input, err, i of the drain loop
    rpc, batch,                         \* readers: place, requests to fail
    sock, out, wire,                    \* sockets: state, frames in the bufio
                                        \* writer, frames the backend will answer
    hbpc, hbAge,                        \* heartbeat: place, now - hbLastTime
    opc,                                \* Offliner: place in MarkOffline
    stage, wait, resp,                  \* requests: place, Wait, Response
    sends,                              \* number of frames written so far
    panic                               \* a Go panic ended the process

chanVars == <<input, inputClosed>>
mapVars == <<seqNum2Request, currentSeqId, sends>>
flagVars == <<IsMarkOffline, IsConnActive, listed, marking>>
writerVars == <<wpc, cur, hand, werr, left>>
netVars == <<rpc, batch, sock, out, wire>>
hbVars == <<hbpc, hbAge>>
reqVars == <<stage, wait, resp>>
vars == <<chanVars, mapVars, flagVars, writerVars, netVars, hbVars, opc,
          reqVars, panic>>

-----------------------------------------------------------------------------
SeqId == BACKEND_CONN_MIN_SEQ_ID .. BACKEND_CONN_MAX_SEQ_ID
SeqIds == BACKEND_CONN_MAX_SEQ_ID - BACKEND_CONN_MIN_SEQ_ID + 1
Item == Request \cup {PING}
Frame == [seq : SeqId, req : Item]
Thread == {Writer} \cup Conn \cup Offliner

\* The requests that wait in the input channel, and those in seqNum2Request.
Queued == {input[i] : i \in DOMAIN input} \cap Request
Registered == {seqNum2Request[s] : s \in SeqId} \cap Request

NoEntries == [s \in SeqId |-> Nil]

ChanType ==
    /\ input \in Seq(Item) /\ Len(input) <= InputCap
    /\ inputClosed \in BOOLEAN

MapType ==
    /\ seqNum2Request \in [SeqId -> Item \cup {Nil}]
    /\ currentSeqId \in SeqId
    /\ sends \in Nat

FlagType ==
    /\ IsMarkOffline \in BOOLEAN /\ IsConnActive \in BOOLEAN
    /\ listed \in BOOLEAN
    /\ marking \in [Thread -> {"idle", "set", "notify"}]

WriterType ==
    /\ wpc \in {"run", "connect", "activate", "start", "select", "write",
                "register", "stop", "mark", "after", "drain", "done"}
    /\ cur \in Conn \cup {Nil}
    /\ hand \in Item \cup {Nil}
    /\ werr \in BOOLEAN
    /\ left \in 0 .. InputCap

NetType ==
    /\ rpc \in [Conn -> {"off", "read", "swap", "flush"}]
    /\ batch \in [Conn -> SUBSET Request]
    /\ sock \in [Conn -> {"closed", "open", "broken"}]
    /\ out \in [Conn -> SUBSET Frame] /\ wire \in [Conn -> SUBSET Frame]

HbType ==
    /\ hbpc \in {"off", "loop", "ping", "timeout", "exit"}
    /\ hbAge \in 0 .. HB_TIMEOUT + 1

ReqType ==
    /\ stage \in [Request -> {"new", "picked", "handled"}]
    /\ wait \in [Request -> Int]
    /\ resp \in [Request -> {"none", "noworker", "err", "own", "other"}]

TypeOK ==
    /\ ChanType /\ MapType /\ FlagType /\ WriterType /\ NetType /\ HbType
    /\ opc \in [Offliner -> {"idle", "set", "mark", "close", "done"}]
    /\ ReqType
    /\ panic \in {"no", "send", "close"}

\* NewBackendConn: go bc.Run() starts at the head of its loop.
Init ==
    /\ input = <<>> /\ inputClosed = FALSE
    /\ seqNum2Request = NoEntries
    /\ currentSeqId = BACKEND_CONN_MIN_SEQ_ID
    /\ IsMarkOffline = FALSE /\ IsConnActive = FALSE /\ listed = FALSE
    /\ marking = [t \in Thread |-> "idle"]
    /\ wpc = "run" /\ cur = Nil /\ hand = Nil /\ werr = FALSE /\ left = 0
    /\ rpc = [c \in Conn |-> "off"]
    /\ batch = [c \in Conn |-> {}]
    /\ sock = [c \in Conn |-> "closed"]
    /\ out = [c \in Conn |-> {}] /\ wire = [c \in Conn |-> {}]
    /\ hbpc = "off" /\ hbAge = 0
    /\ opc = [o \in Offliner |-> "idle"]
    /\ stage = [r \in Request |-> "new"]
    /\ wait = [r \in Request |-> 0]
    /\ resp = [r \in Request |-> "none"]
    /\ sends = 0
    /\ panic = "no"

-----------------------------------------------------------------------------
(* Steps that several goroutines share.                                    *)

\* Wait.Done for the requests of S, after their Response was set to how.
Complete(S, how) ==
    /\ wait' = [r \in Request |-> IF r \in S THEN wait[r] - 1 ELSE wait[r]]
    /\ resp' = [r \in Request |-> IF r \in S THEN how ELSE resp[r]]
    /\ UNCHANGED stage

\* input <- x, which blocks while the channel is full.
SendInput(x) ==
    /\ ~inputClosed
    /\ Len(input) < InputCap
    /\ input' = Append(input, x)
    /\ UNCHANGED inputClosed

\* MarkConnActiveFalse by t: read IsConnActive, and return if it is false.
MarkConnActiveFalse(t) ==
    /\ marking' = [marking EXCEPT ![t] = IF IsConnActive THEN "set" ELSE "idle"]
    /\ UNCHANGED <<IsMarkOffline, IsConnActive, listed>>

\* ... then store false,
SetInactive(t) ==
    /\ panic = "no"
    /\ marking[t] = "set"
    /\ IsConnActive' = FALSE
    /\ marking' = [marking EXCEPT ![t] = "notify"]
    /\ UNCHANGED <<IsMarkOffline, listed>>
    /\ UNCHANGED <<chanVars, mapVars, writerVars, netVars, hbVars, opc,
                   reqVars, panic>>

\* ... and delegate.StateChanged, which under the lock of the pool reads the
\* flag again and inserts or removes the connection.
StateChanged(t) ==
    /\ panic = "no"
    /\ marking[t] = "notify"
    /\ listed' = IsConnActive
    /\ marking' = [marking EXCEPT ![t] = "idle"]
    /\ UNCHANGED <<IsMarkOffline, IsConnActive>>
    /\ UNCHANGED <<chanVars, mapVars, writerVars, netVars, hbVars, opc,
                   reqVars, panic>>

-----------------------------------------------------------------------------
(* Client sessions: BackService.HandleRequest and PushBack.                *)

\* NextBackendConn finds the connection, or there is no worker.
Pick(r) ==
    /\ panic = "no"
    /\ stage[r] = "new"
    /\ stage' = [stage EXCEPT ![r] = IF listed THEN "picked" ELSE "handled"]
    /\ resp' = [resp EXCEPT ![r] = IF listed THEN "none" ELSE "noworker"]
    /\ UNCHANGED wait
    /\ UNCHANGED <<chanVars, mapVars, flagVars, writerVars, netVars, hbVars,
                   opc, panic>>

\* Wait.Add(1); input <- r.
PushBack(r) ==
    /\ panic = "no"
    /\ stage[r] = "picked"
    /\ SendInput(r)
    /\ wait' = [wait EXCEPT ![r] = @ + 1]
    /\ stage' = [stage EXCEPT ![r] = "handled"]
    /\ UNCHANGED resp
    /\ UNCHANGED <<mapVars, flagVars, writerVars, netVars, hbVars, opc, panic>>

\* The channel was closed after the connection was picked.
PushBackPanics(r) ==
    /\ panic = "no"
    /\ stage[r] = "picked"
    /\ inputClosed
    /\ panic' = "send"
    /\ UNCHANGED <<chanVars, mapVars, flagVars, writerVars, netVars, hbVars,
                   opc, reqVars>>

-----------------------------------------------------------------------------
(* MarkOffline, by the zk watcher or by the goroutine of Stop.             *)

\* if !IsMarkOffline.Get()
OfflineCheck(o) ==
    /\ panic = "no"
    /\ opc[o] = "idle"
    /\ opc' = [opc EXCEPT ![o] = IF IsMarkOffline THEN "done" ELSE "set"]
    /\ UNCHANGED <<chanVars, mapVars, flagVars, writerVars, netVars, hbVars,
                   reqVars, panic>>

OfflineSet(o) ==
    /\ panic = "no"
    /\ opc[o] = "set"
    /\ IsMarkOffline' = TRUE
    /\ opc' = [opc EXCEPT ![o] = "mark"]
    /\ UNCHANGED <<IsConnActive, listed, marking>>
    /\ UNCHANGED <<chanVars, mapVars, writerVars, netVars, hbVars, reqVars,
                   panic>>

OfflineMark(o) ==
    /\ panic = "no"
    /\ opc[o] = "mark"
    /\ MarkConnActiveFalse(o)
    /\ opc' = [opc EXCEPT ![o] = "close"]
    /\ UNCHANGED <<chanVars, mapVars, writerVars, netVars, hbVars, reqVars,
                   panic>>

\* close(bc.input), a panic if the other caller closed it before.
OfflineClose(o) ==
    /\ panic = "no"
    /\ opc[o] = "close"
    /\ marking[o] = "idle"
    /\ opc' = [opc EXCEPT ![o] = "done"]
    /\ inputClosed' = TRUE
    /\ panic' = IF inputClosed THEN "close" ELSE panic
    /\ UNCHANGED input
    /\ UNCHANGED <<mapVars, flagVars, writerVars, netVars, hbVars, reqVars>>

-----------------------------------------------------------------------------
(* Writer: Run, ensureConn and loopWriter.                                 *)

\* The loop condition of Run.
RunLoop ==
    /\ panic = "no"
    /\ wpc = "run"
    /\ wpc' = IF IsMarkOffline THEN "done" ELSE "connect"
    /\ UNCHANGED <<cur, hand, werr, left>>
    /\ UNCHANGED <<chanVars, mapVars, flagVars, netVars, hbVars, opc, reqVars,
                   panic>>

\* ensureConn succeeds: Open returns nil, at once or after some retries.
EnsureConn(c) ==
    /\ panic = "no"
    /\ wpc = "connect"
    /\ rpc[c] = "off"
    /\ cur' = c
    /\ wpc' = "activate"
    /\ sock' = [sock EXCEPT ![c] = "open"]
    /\ out' = [out EXCEPT ![c] = {}]
    /\ wire' = [wire EXCEPT ![c] = {}]
    /\ UNCHANGED <<hand, werr, left, rpc, batch>>
    /\ UNCHANGED <<chanVars, mapVars, flagVars, hbVars, opc, reqVars, panic>>

\* ensureConn fails: the address does not resolve, or an Open failed while the
\* connection is marked offline.  Run returns.
EnsureConnFails ==
    /\ panic = "no"
    /\ wpc = "connect"
    /\ wpc' = "done"
    /\ UNCHANGED <<cur, hand, werr, left>>
    /\ UNCHANGED <<chanVars, mapVars, flagVars, netVars, hbVars, opc, reqVars,
                   panic>>

\* MarkConnActiveOK stores true; StateChanged(Writer) follows.
MarkConnActiveOK ==
    /\ panic = "no"
    /\ wpc = "activate"
    /\ wpc' = "start"
    /\ IsConnActive' = TRUE
    /\ marking' = [marking EXCEPT ![Writer] = "notify"]
    /\ UNCHANGED <<IsMarkOffline, listed, cur, hand, werr, left>>
    /\ UNCHANGED <<chanVars, mapVars, netVars, hbVars, opc, reqVars, panic>>

\* The goroutines of loopReader and Heartbeat are started.
StartLoops ==
    /\ panic = "no"
    /\ wpc = "start"
    /\ marking[Writer] = "idle"
    /\ wpc' = "select"
    /\ rpc' = [rpc EXCEPT ![cur] = "read"]
    /\ hbpc' = "loop" /\ hbAge' = 0
    /\ UNCHANGED <<cur, hand, werr, left, batch, sock, out, wire>>
    /\ UNCHANGED <<chanVars, mapVars, flagVars, opc, reqVars, panic>>

\* case r, ok = <-bc.input
TakeInput ==
    /\ panic = "no"
    /\ wpc = "select"
    /\ input # <<>>
    /\ hand' = Head(input)
    /\ input' = Tail(input)
    /\ wpc' = "write"
    /\ UNCHANGED <<cur, werr, left, inputClosed>>
    /\ UNCHANGED <<mapVars, flagVars, netVars, hbVars, opc, reqVars, panic>>

\* ... with ok false: loopWriter returns nil.
InputEnds ==
    /\ panic = "no"
    /\ wpc = "select"
    /\ input = <<>> /\ inputClosed
    /\ wpc' = "stop" /\ werr' = FALSE
    /\ UNCHANGED <<cur, hand, left>>
    /\ UNCHANGED <<chanVars, mapVars, flagVars, netVars, hbVars, opc, reqVars,
                   panic>>

\* case <-bc.hbTimeout: loopWriter returns an error; the heartbeat, whose send
\* this receives, leaves its loop.
HbTimesOut ==
    /\ panic = "no"
    /\ wpc = "select"
    /\ hbpc = "timeout"
    /\ hbpc' = "exit"
    /\ wpc' = "stop" /\ werr' = TRUE
    /\ UNCHANGED <<cur, hand, left, hbAge>>
    /\ UNCHANGED <<chanVars, mapVars, flagVars, netVars, opc, reqVars, panic>>

\* A heartbeat older than 4 s is given up.
DropStalePing ==
    /\ panic = "no"
    /\ wpc = "write"
    /\ hand = PING
    /\ hand' = Nil
    /\ wpc' = "select"
    /\ UNCHANGED <<cur, werr, left>>
    /\ UNCHANGED <<chanVars, mapVars, flagVars, netVars, hbVars, opc, reqVars,
                   panic>>

\* ReplaceSeqId, Write and FlushBuffer(flush) with no error.  The frame stays
\* in the bufio writer only if flush is false: more input was waiting.  A
\* flush to a peer that is gone may still return nil, and the frames are lost.
WriteFrame ==
    /\ panic = "no"
    /\ wpc = "write"
    /\ LET frames == out[cur] \cup {[seq |-> currentSeqId, req |-> hand]}
       IN  \/ /\ input # <<>>
              /\ out' = [out EXCEPT ![cur] = frames]
              /\ UNCHANGED wire
           \/ /\ sock[cur] # "closed"
              /\ out' = [out EXCEPT ![cur] = {}]
              /\ wire' = IF sock[cur] = "open"
                         THEN [wire EXCEPT ![cur] = @ \cup frames]
                         ELSE wire
    /\ wpc' = "register"
    /\ sends' = sends + 1
    /\ UNCHANGED <<cur, hand, werr, left, rpc, batch, sock, seqNum2Request,
                   currentSeqId>>
    /\ UNCHANGED <<chanVars, flagVars, hbVars, opc, reqVars, panic>>

\* FlushBuffer returns an error: setResponse(r, nil, err), and loopWriter
\* returns it.
WriteFails ==
    /\ panic = "no"
    /\ wpc = "write"
    /\ sock[cur] # "open"
    /\ Complete({hand} \cap Request, "err")
    /\ hand' = Nil
    /\ wpc' = "stop" /\ werr' = TRUE
    /\ UNCHANGED <<cur, left>>
    /\ UNCHANGED <<chanVars, mapVars, flagVars, netVars, hbVars, opc, panic>>

\* Sequence ids wrap around from the last to the first.
IncreaseCurrentSeqId ==
    currentSeqId' = IF currentSeqId + 1 > BACKEND_CONN_MAX_SEQ_ID
                    THEN BACKEND_CONN_MIN_SEQ_ID
                    ELSE currentSeqId + 1

\* Mutant of Register: the entry is made under the next id.
MutRegister ==
    /\ panic = "no"
    /\ wpc = "register"
    /\ IncreaseCurrentSeqId
    /\ seqNum2Request' = [seqNum2Request EXCEPT ![currentSeqId'] = hand]
    /\ hand' = Nil
    /\ wpc' = "select"
    /\ UNCHANGED <<cur, werr, left, sends, chanVars, flagVars, netVars, hbVars,
                   opc, reqVars, panic>>

\* The request that was written enters seqNum2Request under its new id.
Register ==
    /\ panic = "no"
    /\ wpc = "register"
    /\ seqNum2Request' = [seqNum2Request EXCEPT ![currentSeqId] = hand]
    /\ IncreaseCurrentSeqId
    /\ hand' = Nil
    /\ wpc' = "select"
    /\ UNCHANGED <<cur, werr, left, sends>>
    /\ UNCHANGED <<chanVars, flagVars, netVars, hbVars, opc, reqVars, panic>>

\* The deferred hbStop <- true, received by the heartbeat in its select.
StopHeartbeat ==
    /\ panic = "no"
    /\ wpc = "stop"
    /\ hbpc = "loop"
    /\ hbpc' = "off" /\ hbAge' = 0
    /\ wpc' = "mark"
    /\ UNCHANGED <<cur, hand, werr, left>>
    /\ UNCHANGED <<chanVars, mapVars, flagVars, netVars, opc, reqVars, panic>>

\* Mutant of WriterMark: MarkConnActiveFalse is forgotten after loopWriter.
MutWriterMark ==
    /\ panic = "no"
    /\ wpc = "mark"
    /\ wpc' = "after"
    /\ out' = [out EXCEPT ![cur] = {}]
    /\ cur' = Nil
    /\ UNCHANGED <<hand, werr, left, rpc, batch, sock, wire, flagVars, chanVars,
                   mapVars, hbVars, opc, reqVars, panic>>

\* Run, after loopWriter: stop taking requests.  What is left in the bufio
\* writer of the socket is never sent.
WriterMark ==
    /\ panic = "no"
    /\ wpc = "mark"
    /\ MarkConnActiveFalse(Writer)
    /\ wpc' = "after"
    /\ out' = [out EXCEPT ![cur] = {}]
    /\ cur' = Nil
    /\ UNCHANGED <<hand, werr, left, rpc, batch, sock, wire>>
    /\ UNCHANGED <<chanVars, mapVars, hbVars, opc, reqVars, panic>>

\* Mutant of AfterLoop: the drain loop runs once too often.
MutAfterLoop ==
    /\ panic = "no"
    /\ wpc = "after"
    /\ marking[Writer] = "idle"
    /\ wpc' = IF werr THEN "drain" ELSE "done"
    /\ left' = IF werr THEN Len(input) + 1 ELSE 0
    /\ werr' = FALSE
    /\ UNCHANGED <<cur, hand, chanVars, mapVars, flagVars, netVars, hbVars, opc,
                   reqVars, panic>>

\* err == nil ends Run; otherwise len(bc.input) requests are to be failed.
AfterLoop ==
    /\ panic = "no"
    /\ wpc = "after"
    /\ marking[Writer] = "idle"
    /\ wpc' = IF werr THEN "drain" ELSE "done"
    /\ left' = IF werr THEN Len(input) ELSE 0
    /\ werr' = FALSE
    /\ UNCHANGED <<cur, hand>>
    /\ UNCHANGED <<chanVars, mapVars, flagVars, netVars, hbVars, opc, reqVars,
                   panic>>

DrainOne ==
    /\ panic = "no"
    /\ wpc = "drain"
    /\ left # 0 /\ input # <<>>
    /\ Complete({Head(input)} \cap Request, "err")
    /\ input' = Tail(input)
    /\ left' = left - 1
    /\ UNCHANGED <<wpc, cur, hand, werr, inputClosed>>
    /\ UNCHANGED <<mapVars, flagVars, netVars, hbVars, opc, panic>>

Drained ==
    /\ panic = "no"
    /\ wpc = "drain"
    /\ left = 0
    /\ wpc' = "run"
    /\ UNCHANGED <<cur, hand, werr, left>>
    /\ UNCHANGED <<chanVars, mapVars, flagVars, netVars, hbVars, opc, reqVars,
                   panic>>

-----------------------------------------------------------------------------
(* Readers: loopReader, setResponse and flushRequests.                     *)

\* Mutant of ReadReply: the entry is not deleted.
MutReadReply(c) ==
    /\ panic = "no"
    /\ rpc[c] = "read"
    /\ sock[c] # "closed"
    /\ \E f \in wire[c] :
        /\ wire' = [wire EXCEPT ![c] = @ \ {f}]
        /\ Complete({seqNum2Request[f.seq]} \cap Request, "own")
    /\ UNCHANGED <<rpc, batch, sock, out, mapVars, hbVars, chanVars, flagVars,
                   writerVars, opc, panic>>

\* ReadFrame returns an answer, of any frame the backend has; setResponse
\* removes the entry of its id.  A heartbeat's answer only sets hbLastTime; an
\* answer that finds no entry is an "Invalid Response" and is dropped.
ReadReply(c) ==
    /\ panic = "no"
    /\ rpc[c] = "read"
    /\ sock[c] # "closed"
    /\ \E f \in wire[c] :
        /\ wire' = [wire EXCEPT ![c] = @ \ {f}]
        /\ seqNum2Request' = [seqNum2Request EXCEPT ![f.seq] = Nil]
        /\ IF f.req = PING
           THEN hbAge' = 0 /\ UNCHANGED reqVars
           ELSE /\ Complete({seqNum2Request[f.seq]} \cap Request,
                            IF seqNum2Request[f.seq] = f.req
                            THEN "own" ELSE "other")
                /\ UNCHANGED hbAge
    /\ UNCHANGED <<rpc, batch, sock, out, hbpc, currentSeqId, sends>>
    /\ UNCHANGED <<chanVars, flagVars, writerVars, opc, panic>>

\* ReadFrame returns an error: flushRequests, which first marks the connection
\* inactive,
ReadFails(c) ==
    /\ panic = "no"
    /\ rpc[c] = "read"
    /\ sock[c] = "broken"
    /\ MarkConnActiveFalse(c)
    /\ rpc' = [rpc EXCEPT ![c] = "swap"]
    /\ UNCHANGED <<batch, sock, out, wire>>
    /\ UNCHANGED <<chanVars, mapVars, writerVars, hbVars, opc, reqVars, panic>>

\* Mutants of SwapMap: the map is copied and not emptied; it is emptied and
\* not kept.
MutSwapMapCopies(c) ==
    /\ panic = "no"
    /\ rpc[c] = "swap"
    /\ marking[c] = "idle"
    /\ batch' = [batch EXCEPT ![c] = Registered]
    /\ rpc' = [rpc EXCEPT ![c] = "flush"]
    /\ UNCHANGED <<sock, out, wire, mapVars, chanVars, flagVars, writerVars,
                   hbVars, opc, reqVars, panic>>

MutSwapMapForgets(c) ==
    /\ panic = "no"
    /\ rpc[c] = "swap"
    /\ marking[c] = "idle"
    /\ seqNum2Request' = NoEntries
    /\ rpc' = [rpc EXCEPT ![c] = "flush"]
    /\ UNCHANGED <<batch, sock, out, wire, currentSeqId, sends, chanVars,
                   flagVars, writerVars, hbVars, opc, reqVars, panic>>

\* ... takes the whole map under the lock,
SwapMap(c) ==
    /\ panic = "no"
    /\ rpc[c] = "swap"
    /\ marking[c] = "idle"
    /\ batch' = [batch EXCEPT ![c] = Registered]
    /\ seqNum2Request' = NoEntries
    /\ rpc' = [rpc EXCEPT ![c] = "flush"]
    /\ UNCHANGED <<sock, out, wire, currentSeqId, sends>>
    /\ UNCHANGED <<chanVars, flagVars, writerVars, hbVars, opc, reqVars, panic>>

\* ... and fails what it took.  The reader closes the socket and ends.
FlushBatch(c) ==
    /\ panic = "no"
    /\ rpc[c] = "flush"
    /\ Complete(batch[c], "err")
    /\ batch' = [batch EXCEPT ![c] = {}]
    /\ rpc' = [rpc EXCEPT ![c] = "off"]
    /\ sock' = [sock EXCEPT ![c] = "closed"]
    /\ wire' = [wire EXCEPT ![c] = {}]
    /\ UNCHANGED out
    /\ UNCHANGED <<chanVars, mapVars, flagVars, writerVars, hbVars, opc, panic>>

-----------------------------------------------------------------------------
(* Heartbeat and environment.                                              *)

\* case <-bc.hbTicker.C
HbTick ==
    /\ panic = "no"
    /\ hbpc = "loop"
    /\ \/ hbAge > HB_TIMEOUT /\ hbpc' = "timeout"
       \/ /\ hbAge <= HB_TIMEOUT /\ ~IsMarkOffline
          /\ sends < MaxSends
          /\ hbpc' = "ping"
       \/ hbAge <= HB_TIMEOUT /\ IsMarkOffline /\ hbpc' = "exit"
    /\ UNCHANGED hbAge
    /\ UNCHANGED <<chanVars, mapVars, flagVars, writerVars, netVars, opc,
                   reqVars, panic>>

\* bc.PushBack(NewPingRequest())
HbPush ==
    /\ panic = "no"
    /\ hbpc = "ping"
    /\ SendInput(PING)
    /\ hbpc' = "loop"
    /\ UNCHANGED hbAge
    /\ UNCHANGED <<mapVars, flagVars, writerVars, netVars, opc, reqVars, panic>>

HbPushPanics ==
    /\ panic = "no"
    /\ hbpc = "ping"
    /\ inputClosed
    /\ panic' = "send"
    /\ UNCHANGED <<chanVars, mapVars, flagVars, writerVars, netVars, hbVars,
                   opc, reqVars>>

\* Time passes for a running heartbeat.
Elapse ==
    /\ panic = "no"
    /\ hbpc \in {"loop", "ping"}
    /\ hbAge <= HB_TIMEOUT
    /\ hbAge' = hbAge + 1
    /\ UNCHANGED hbpc
    /\ UNCHANGED <<chanVars, mapVars, flagVars, writerVars, netVars, opc,
                   reqVars, panic>>

\* The peer closes or resets the connection, or a read or write on it times out.
Break(c) ==
    /\ panic = "no"
    /\ sock[c] = "open"
    /\ sock' = [sock EXCEPT ![c] = "broken"]
    /\ UNCHANGED <<rpc, batch, out, wire>>
    /\ UNCHANGED <<chanVars, mapVars, flagVars, writerVars, hbVars, opc,
                   reqVars, panic>>

-----------------------------------------------------------------------------
Session(r) == Pick(r) \/ PushBack(r) \/ PushBackPanics(r)

Marking(t) == SetInactive(t) \/ StateChanged(t)

Offlining(o) ==
    OfflineCheck(o) \/ OfflineSet(o) \/ OfflineMark(o) \/ OfflineClose(o)

Writing ==
    \/ RunLoop \/ (\E c \in Conn : EnsureConn(c)) \/ EnsureConnFails
    \/ MarkConnActiveOK \/ StartLoops
    \/ TakeInput \/ InputEnds \/ HbTimesOut
    \/ DropStalePing \/ WriteFrame \/ WriteFails \/ Register
    \/ StopHeartbeat \/ WriterMark \/ AfterLoop \/ DrainOne \/ Drained

Reading(c) == ReadReply(c) \/ ReadFails(c) \/ SwapMap(c) \/ FlushBatch(c)

Heartbeat == HbTick \/ HbPush \/ HbPushPanics

Next ==
    \/ \E r \in Request : Session(r)
    \/ \E t \in Thread : Marking(t)
    \/ \E o \in Offliner : Offlining(o)
    \/ Writing
    \/ \E c \in Conn : Reading(c) \/ Break(c)
    \/ Heartbeat \/ Elapse

Spec == Init /\ [][Next]_vars

\* The Go scheduler runs every goroutine that can take a step; a read on a
\* broken socket returns.  Nothing obliges the backend to answer, the network
\* to fail or time to pass.
Fairness ==
    /\ \A r \in Request : WF_vars(Session(r))
    /\ \A t \in Thread : WF_vars(Marking(t))
    /\ \A o \in Offliner :
        WF_vars(OfflineSet(o) \/ OfflineMark(o) \/ OfflineClose(o))
    /\ WF_vars(Writing)
    /\ \A c \in Conn :
        WF_vars(ReadFails(c) \/ SwapMap(c) \/ FlushBatch(c))
    /\ WF_vars(Heartbeat)

FairSpec == Spec /\ Fairness

-----------------------------------------------------------------------------
(* Properties.                                                             *)

\* A request is in at most one place (the input channel, the writer's hand, an
\* entry of seqNum2Request, the batch of one reader), and its WaitGroup counts
\* 1 while it is in one: no reader, writer or drain loop calls Wait.Done twice
\* for a request, which would panic with a negative counter.
OneOwner ==
    /\ \A i, j \in DOMAIN input :
        input[i] = input[j] /\ input[i] # PING => i = j
    /\ \A s, u \in SeqId :
        seqNum2Request[s] = seqNum2Request[u] /\ seqNum2Request[s] \in Request
            => s = u
    /\ \A c, d \in Conn : c # d => batch[c] \cap batch[d] = {}
    /\ \A c \in Conn : batch[c] \cap (Queued \cup Registered \cup {hand}) = {}
    /\ Queued \cap Registered = {}
    /\ hand \notin Queued \cup Registered
    /\ \A r \in Queued \cup Registered \cup ({hand} \cap Request)
                       \cup UNION {batch[c] : c \in Conn} : wait[r] = 1
    /\ \A r \in Request : wait[r] \in {0, 1}

\* Until the sequence ids wrap around, a client gets the answer of its own
\* request, also when several sockets have readers at the same time.
AnswerMatches == sends <= SeqIds => \A r \in Request : resp[r] # "other"

\* The drain loop never receives from an empty channel: what len(bc.input)
\* counted is still there, although the channel may be closed meanwhile.
DrainHasInput == wpc = "drain" => left <= Len(input)

\* A connection panics, by a send on the closed input or by a second close, only
\* after it was marked offline: as long as its endpoint stays, failures of the
\* socket and of the heartbeat, and reconnections, end no process.
PanicNeedsOffline == panic # "no" => inputClosed /\ IsMarkOffline

\* Once Wait has returned, the response is not written again: the session
\* reads it without a lock.
ResponseStable ==
    [][\A r \in Request :
        stage[r] = "handled" /\ wait[r] = 0 => resp'[r] = resp[r]]_vars

\* A request that is registered when a reader begins flushRequests, or queued
\* when loopWriter has returned an error, is answered, until the sequence ids
\* wrap around (a later request may then take its entry).
FailureReported ==
    \A r \in Request :
        (\/ r \in Registered /\ \E c \in Conn : rpc[c] = "swap"
         \/ r \in Queued /\ wpc = "mark" /\ werr)
            ~> (resp[r] # "none" \/ panic # "no" \/ sends > SeqIds)

-----------------------------------------------------------------------------
(* What a comment of the code says and the code does not do.               *)

\* "hbStop was added to help stopping" the heartbeat: the deferred hbStop <-
\* true of loopWriter is received, and Run goes on.
StopReturns == (wpc = "stop") ~> (wpc # "stop" \/ panic # "no")
=============================================================================
