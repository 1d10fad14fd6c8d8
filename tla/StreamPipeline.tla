--------------------------- MODULE StreamPipeline ---------------------------
(***************************************************************************)
(* One POST /api/stream request in the gateway: HandleProcessStream        *)
(* (gateway/internal/http/handlers.go:314-427) with its body reader, and   *)
(* ProcessStream (gateway/internal/grpc/client.go:56-110) with its         *)
(* receiver and sender goroutines, joined by Go channels:                  *)
(*                                                                         *)
(*   body -> reader -chunks-> sender -up-> processor                       *)
(*                                            |                            *)
(*   client <-wire- handler <-results, errs- receiver <-down-+             *)
(*                                                                         *)
(* A frame, and the result computed from it, is its sequence number.  The  *)
(* HTTP connection, the gRPC stream and the processor are external: the    *)
(* connection and each direction of the stream hold a bounded number of    *)
(* messages in order; the processor answers each chunk it reads, in order, *)
(* ends the call with OK after the client's half-close and may fail at any *)
(* time.  Any panic in a goroutine ends the gateway process.               *)
(***************************************************************************)
EXTENDS Integers, Sequences, SequencesExt

CONSTANTS MaxFrames,   \* bound: frames in a request body
          Requests,    \* the requests: frames of the body, their size (width * height
                       \* * 3), whether the client reads the response while it sends,
                       \* and whether it is so slow that a deadline may pass
          BufferSize,  \* size of a pooled buffer (640 * 480 * 3)
          ChunkCap,    \* capacity of chunks (10)
          ResultCap,   \* capacity of results (100)
          CallCap,     \* messages a direction of the gRPC stream holds
          WireCap      \* results the HTTP connection holds

ASSUME StreamPipelineAssumption ==
    /\ MaxFrames \in Nat
    /\ \A r \in Requests : r.frames \in 0 .. MaxFrames /\ r.size \in Int \ {0}
    /\ \A r \in Requests : r.duplex \in BOOLEAN /\ r.slow \in BOOLEAN
    /\ BufferSize \in Nat
    /\ {ChunkCap, ResultCap, CallCap, WireCap} \subseteq Nat \ {0}

VARIABLES
    request,   \* what the client asks: frames, their size, how it reads
    pc,        \* where each goroutine is
    bodyRead,  \* frames taken from the body so far
    chunks,    \* channel chunks
    sendErr,   \* channel sendErr, capacity 1
    results,   \* channel results
    errs,      \* channel errs, capacity 1
    closed,    \* the channels that are closed, and "up" after the half-close
    hand,      \* the element a goroutine holds, << >> or << x >>
    up,        \* chunks on their way to the processor
    answered,  \* chunks the processor has answered
    down,      \* results on their way back
    status,    \* how the processor ended the call: "none", "ok" or "error"
    ctxDone,   \* the request's context is cancelled
    conn,      \* the HTTP connection: "open", "expired" or "gone"
    wire,      \* results written that the client has not read
    delivered, \* results the client has read
    outcome    \* what made the handler return

channels == << chunks, sendErr, results, errs, closed >>
remote == << up, answered, down, status >>
client == << conn, wire, delivered >>
vars == << request, pc, bodyRead, channels, hand, remote, ctxDone, client, outcome >>

Goroutine == {"reader", "sender", "receiver", "handler"}

Init ==
    /\ request \in Requests
    /\ pc = [reader |-> "read", sender |-> "unborn", receiver |-> "dial", handler |-> "select"]
    /\ bodyRead = 0
    /\ chunks = << >> /\ sendErr = << >> /\ results = << >> /\ errs = << >>
    /\ closed = {}
    /\ hand = [g \in Goroutine |-> << >>]
    /\ up = << >> /\ answered = 0 /\ down = << >> /\ status = "none"
    /\ ctxDone = FALSE
    /\ conn = "open" /\ wire = << >> /\ delivered = << >>
    /\ outcome = "none"

At(g, from) == pc[g] = from

Panicked == At("reader", "panicked")

Move(g, from, to) ==
    /\ ~ Panicked
    /\ At(g, from)
    /\ pc' = [pc EXCEPT ![g] = to]
    /\ UNCHANGED request

Hold(g, held) == hand' = [hand EXCEPT ![g] = held]

-----------------------------------------------------------------------------
(* The body reader (handlers.go:358-403).                                  *)

\* buf[:request.size] is out of the pooled buffer's bounds.
ReaderPanics ==
    /\ request.size \notin 0 .. BufferSize
    /\ Move("reader", "read", "panicked")
    /\ UNCHANGED << bodyRead, channels, hand, remote, ctxDone, client, outcome >>

ReadFrame ==
    /\ request.size \in 0 .. BufferSize
    /\ conn = "open" /\ bodyRead < request.frames
    /\ bodyRead' = bodyRead + 1
    /\ Move("reader", "read", "offer")
    /\ UNCHANGED << channels, hand, remote, ctxDone, client, outcome >>

\* Variant: a frame that finds the channel full is dropped.
OfferChunkOrDrop ==
    /\ chunks' = IF Len(chunks) < ChunkCap THEN Append(chunks, bodyRead) ELSE chunks
    /\ Move("reader", "offer", "read")
    /\ UNCHANGED << bodyRead, sendErr, results, errs, closed, hand, remote, ctxDone, client, outcome >>

OfferChunk ==
    /\ Len(chunks) < ChunkCap
    /\ chunks' = Append(chunks, bodyRead)
    /\ Move("reader", "offer", "read")
    /\ UNCHANGED << bodyRead, sendErr, results, errs, closed, hand, remote, ctxDone, client, outcome >>

\* Variant: the send to chunks does not watch the context.
ReaderEndsWithBody ==
    /\ request.size \in 0 .. BufferSize
    /\ bodyRead = request.frames \/ conn # "open" \/ At("handler", "done")
    /\ Move("reader", "read", "done")
    /\ closed' = closed \cup {"chunks"}
    /\ UNCHANGED << bodyRead, chunks, sendErr, results, errs, hand, remote, ctxDone, client, outcome >>

\* End of the body, a read error or a cancelled context: chunks is closed.
ReaderEnds ==
    /\ \/ /\ request.size \in 0 .. BufferSize
          /\ bodyRead = request.frames \/ conn # "open" \/ At("handler", "done")
          /\ Move("reader", "read", "done")
       \/ /\ ctxDone
          /\ Move("reader", "offer", "done")
    /\ closed' = closed \cup {"chunks"}
    /\ UNCHANGED << bodyRead, chunks, sendErr, results, errs, hand, remote, ctxDone, client, outcome >>

-----------------------------------------------------------------------------
(* The sender (client.go:73-82).                                           *)

TakeChunk ==
    /\ chunks # << >>
    /\ Hold("sender", << Head(chunks) >>)
    /\ chunks' = Tail(chunks)
    /\ Move("sender", "range", "send")
    /\ UNCHANGED << bodyRead, sendErr, results, errs, closed, remote, ctxDone, client, outcome >>

SendChunk ==
    /\ status = "none" /\ Len(up) < CallCap
    /\ up' = up \o hand["sender"]
    /\ Hold("sender", << >>)
    /\ Move("sender", "send", "range")
    /\ UNCHANGED << bodyRead, channels, answered, down, status, ctxDone, client, outcome >>

\* Send() fails once the call has ended or is cancelled.
SendFails ==
    /\ status # "none" \/ ctxDone
    /\ sendErr' = Append(sendErr, "error")
    /\ Hold("sender", << >>)
    /\ Move("sender", "send", "done")
    /\ UNCHANGED << bodyRead, chunks, results, errs, closed, remote, ctxDone, client, outcome >>

\* Variant: the sender ends without reporting to sendErr.
HalfCloseSilent ==
    /\ chunks = << >> /\ "chunks" \in closed
    /\ closed' = closed \cup {"up"}
    /\ Move("sender", "range", "done")
    /\ UNCHANGED << bodyRead, chunks, sendErr, results, errs, hand, remote, ctxDone, client, outcome >>

\* chunks is closed and drained: CloseSend(), and sendErr <- nil.
HalfClose ==
    /\ chunks = << >> /\ "chunks" \in closed
    /\ closed' = closed \cup {"up"}
    /\ sendErr' = Append(sendErr, "nil")
    /\ Move("sender", "range", "done")
    /\ UNCHANGED << bodyRead, chunks, results, errs, hand, remote, ctxDone, client, outcome >>

-----------------------------------------------------------------------------
(* The receiver (client.go:60-107).                                        *)

\* ProcessMediaStream opens the call and the sender is started.
Dial ==
    /\ ~ Panicked /\ At("receiver", "dial") /\ At("sender", "unborn")
    /\ pc' = [pc EXCEPT !["receiver"] = "recv", !["sender"] = "range"]
    /\ UNCHANGED << request, bodyRead, channels, hand, remote, ctxDone, client, outcome >>

Fail(from) ==
    /\ errs' = Append(errs, "error")
    /\ Move("receiver", from, "closeErrs")

DialFails ==
    /\ Fail("dial")
    /\ UNCHANGED << bodyRead, chunks, sendErr, results, closed, hand, remote, ctxDone, client, outcome >>

Recv ==
    /\ down # << >>
    /\ Hold("receiver", << Head(down) >>)
    /\ down' = Tail(down)
    /\ Move("receiver", "recv", "push")
    /\ UNCHANGED << bodyRead, channels, up, answered, status, ctxDone, client, outcome >>

\* Recv() fails: the processor's error after its last message, or at once when
\* the call is cancelled.
RecvFails ==
    /\ ctxDone \/ (status = "error" /\ down = << >>)
    /\ Fail("recv")
    /\ UNCHANGED << bodyRead, chunks, sendErr, results, closed, hand, remote, ctxDone, client, outcome >>

RecvEOF ==
    /\ status = "ok" /\ down = << >>
    /\ Move("receiver", "recv", "awaitSender")
    /\ UNCHANGED << bodyRead, channels, hand, remote, ctxDone, client, outcome >>

\* Variant: a result that finds the channel full is dropped.
PushResultOrDrop ==
    /\ results' = IF Len(results) < ResultCap THEN results \o hand["receiver"] ELSE results
    /\ Hold("receiver", << >>)
    /\ Move("receiver", "push", "recv")
    /\ UNCHANGED << bodyRead, chunks, sendErr, errs, closed, remote, ctxDone, client, outcome >>

PushResult ==
    /\ Len(results) < ResultCap
    /\ results' = results \o hand["receiver"]
    /\ Hold("receiver", << >>)
    /\ Move("receiver", "push", "recv")
    /\ UNCHANGED << bodyRead, chunks, sendErr, errs, closed, remote, ctxDone, client, outcome >>

PushGivesUp ==
    /\ ctxDone
    /\ Fail("push")
    /\ Hold("receiver", << >>)
    /\ UNCHANGED << bodyRead, chunks, sendErr, results, closed, remote, ctxDone, client, outcome >>

AwaitSender ==
    /\ sendErr # << >>
    /\ sendErr' = Tail(sendErr)
    /\ errs' = IF Head(sendErr) = "nil" THEN errs ELSE Append(errs, "error")
    /\ Move("receiver", "awaitSender", "closeErrs")
    /\ UNCHANGED << bodyRead, chunks, results, closed, hand, remote, ctxDone, client, outcome >>

\* The deferred calls run last in, first out: errs is closed before results.
CloseErrs ==
    /\ closed' = closed \cup {"errs"}
    /\ Move("receiver", "closeErrs", "closeResults")
    /\ UNCHANGED << bodyRead, chunks, sendErr, results, errs, hand, remote, ctxDone, client, outcome >>

CloseResults ==
    /\ closed' = closed \cup {"results"}
    /\ Move("receiver", "closeResults", "done")
    /\ UNCHANGED << bodyRead, chunks, sendErr, results, errs, hand, remote, ctxDone, client, outcome >>

-----------------------------------------------------------------------------
(* The handler's select loop (handlers.go:409-426): when both channels are *)
(* ready Go picks either case.                                             *)

TakeResult ==
    /\ results # << >>
    /\ Hold("handler", << Head(results) >>)
    /\ results' = Tail(results)
    /\ Move("handler", "select", "write")
    /\ UNCHANGED << bodyRead, chunks, sendErr, errs, closed, remote, ctxDone, client, outcome >>

WriteResult ==
    /\ conn = "open" /\ Len(wire) < WireCap
    /\ wire' = wire \o hand["handler"]
    /\ Hold("handler", << >>)
    /\ Move("handler", "write", "select")
    /\ UNCHANGED << bodyRead, channels, remote, ctxDone, conn, delivered, outcome >>

\* The error of Write is dropped; a failed write cancels the request's context.
WriteFails ==
    /\ conn # "open"
    /\ Hold("handler", << >>)
    /\ ctxDone' = TRUE
    /\ Move("handler", "write", "select")
    /\ UNCHANGED << bodyRead, channels, remote, client, outcome >>

\* Returning runs the deferred cancel().
Return(why) ==
    /\ outcome' = why
    /\ ctxDone' = TRUE
    /\ Move("handler", "select", "done")

ReturnOnResults ==
    /\ results = << >> /\ "results" \in closed
    /\ Return("drained")
    /\ UNCHANGED << bodyRead, channels, hand, remote, client >>

ReturnOnErrs ==
    /\ \/ /\ errs # << >>
          /\ errs' = Tail(errs)
          /\ Return("error")
       \/ /\ errs = << >> /\ "errs" \in closed
          /\ UNCHANGED errs
          /\ Return("closed")
    /\ UNCHANGED << bodyRead, chunks, sendErr, results, closed, hand, remote, client >>

-----------------------------------------------------------------------------
(* The processor, the client and the server's deadlines (external).        *)

Answer ==
    /\ ~ Panicked
    /\ status = "none" /\ up # << >> /\ Len(down) < CallCap
    /\ down' = Append(down, Head(up))
    /\ up' = Tail(up)
    /\ answered' = answered + 1
    /\ UNCHANGED << request, pc, bodyRead, channels, hand, status, ctxDone, client, outcome >>

ProcessorEnds ==
    /\ ~ Panicked
    /\ status = "none"
    /\ \/ up = << >> /\ "up" \in closed /\ status' = "ok"
       \/ status' = "error"
    /\ UNCHANGED << request, pc, bodyRead, channels, hand, up, answered, down, ctxDone, client, outcome >>

\* A client that does not read while it sends waits until its body is taken.
ClientReads ==
    /\ conn # "gone" /\ wire # << >>
    /\ request.duplex \/ bodyRead = request.frames \/ At("reader", "done")
    /\ delivered' = Append(delivered, Head(wire))
    /\ wire' = Tail(wire)
    /\ UNCHANGED << request, pc, bodyRead, channels, hand, remote, ctxDone, conn, outcome >>

Disconnect ==
    /\ ~ Panicked
    /\ conn # "gone" /\ conn' = "gone"
    /\ ctxDone' = TRUE
    /\ UNCHANGED << request, pc, bodyRead, channels, hand, remote, wire, delivered, outcome >>

\* ReadTimeout and WriteTimeout (gateway/cmd/server/main.go:123-124): an exchange
\* with a slow client may last until they pass.
DeadlinePasses ==
    /\ ~ Panicked /\ ~ At("handler", "done")
    /\ request.slow
    /\ conn = "open" /\ conn' = "expired"
    /\ UNCHANGED << request, pc, bodyRead, channels, hand, remote, ctxDone, wire, delivered, outcome >>

-----------------------------------------------------------------------------
Reader == ReaderPanics \/ ReadFrame \/ OfferChunk \/ ReaderEnds
Sender == TakeChunk \/ SendChunk \/ SendFails \/ HalfClose
Receiver ==
    \/ Dial \/ DialFails \/ Recv \/ RecvFails \/ RecvEOF
    \/ PushResult \/ PushGivesUp \/ AwaitSender \/ CloseErrs \/ CloseResults
Handler == TakeResult \/ WriteResult \/ WriteFails \/ ReturnOnResults \/ ReturnOnErrs
Processor == Answer \/ ProcessorEnds

Finished(g) == pc[g] \in {"done", "unborn"}

Terminated ==
    /\ Panicked \/ \A g \in Goroutine : Finished(g)
    /\ UNCHANGED vars

Next ==
    \/ Reader \/ Sender \/ Receiver \/ Handler \/ Processor
    \/ ClientReads \/ Disconnect \/ DeadlinePasses
    \/ Terminated

\* The Go scheduler runs every goroutine that can move; the processor works and
\* the client reads; time passes.  Nothing obliges the client to disconnect.
Fairness ==
    /\ WF_vars(Reader) /\ WF_vars(Sender) /\ WF_vars(Receiver) /\ WF_vars(Handler)
    /\ WF_vars(Processor) /\ WF_vars(ClientReads) /\ WF_vars(DeadlinePasses)

Spec == Init /\ [][Next]_vars /\ Fairness

-----------------------------------------------------------------------------
(* Properties.                                                             *)

Places ==
    [reader : {"read", "offer", "panicked", "done"},
     sender : {"unborn", "range", "send", "done"},
     receiver : {"dial", "recv", "push", "awaitSender", "closeErrs", "closeResults", "done"},
     handler : {"select", "write", "done"}]

Frame == 1 .. MaxFrames

\* Type invariant: no channel holds more than its capacity, in particular a
\* goroutine never blocks on errs or sendErr (client.go:58, 73).
TypeOK ==
    /\ request \in Requests
    /\ pc \in Places
    /\ bodyRead \in 0 .. request.frames /\ answered \in 0 .. bodyRead
    /\ {chunks, results, up, down, wire, delivered} \subseteq Seq(Frame)
    /\ Len(chunks) <= ChunkCap /\ Len(results) <= ResultCap
    /\ sendErr \in {<< >>, << "nil" >>, << "error" >>}
    /\ errs \in {<< >>, << "error" >>}
    /\ closed \subseteq {"chunks", "up", "errs", "results"}
    /\ \A g \in Goroutine : hand[g] \in {<< >>} \cup { << f >> : f \in Frame }
    /\ status \in {"none", "ok", "error"}
    /\ conn \in {"open", "expired", "gone"}
    /\ ctxDone \in BOOLEAN
    /\ outcome \in {"none", "drained", "closed", "error"}

\* The numbers 1 .. n in order.
UpTo(n) == [f \in 1 .. n |-> f]

\* What the processor has answered, what is under way and what the reader last
\* took make up the frames of the body, in order.
FramesUnderWay ==
    LET offered == IF At("reader", "offer") THEN << bodyRead >> ELSE << >>
    IN  UpTo(answered) \o up \o hand["sender"] \o chunks \o offered

\* What the client has and what is on its way back.
ResultsUnderWay ==
    delivered \o wire \o hand["handler"] \o results \o hand["receiver"] \o down

\* No frame is lost, duplicated or overtaken on its way to the processor while
\* the request is alive, and no result on its way back while the connection is
\* open and the handler reads results, up to the point where it returns because
\* the results are drained.
FramesConserved ==
    /\ ~ ctxDone /\ status = "none" /\ ~ Panicked => FramesUnderWay = UpTo(bodyRead)
    /\ conn = "open" /\ outcome \in {"none", "drained"} => ResultsUnderWay = UpTo(answered)

\* The client sees a bounded in-order pipe, whatever fails: results in the order
\* of its frames, none twice, none without its frame having been sent.
Pipe == INSTANCE InOrderPipe
    WITH Frames <- MaxFrames, sent <- bodyRead, received <- delivered
ImplementsInOrderPipe == Pipe!Spec

\* The request ends: the handler returns whichever of the body, the processor,
\* the connection or the client stops first (or a panic has ended the process).
\* A client that reads while it sends needs no deadline for that.
HandlerReturns == <>(At("handler", "done") \/ Panicked)

\* No goroutine of the request is left behind once the handler has returned.
NoLeak == At("handler", "done") ~> Panicked \/ \A g \in Goroutine : Finished(g)

\* "Send the results to the client" (handlers.go:405): an exchange that ends
\* without an error, on an open connection, delivered every answered frame.
CleanEndDeliversAll ==
    conn = "open" /\ outcome = "closed" => delivered \o wire = UpTo(answered)
=============================================================================
