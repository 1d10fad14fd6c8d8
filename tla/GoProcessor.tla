---------------------------- MODULE GoProcessor ----------------------------
(***************************************************************************)
(* The Go processor (processor-go/cmd/server/main.go): concurrent streams  *)
(* that share a pool of convolution kernels and the counters of            *)
(* globalStats, the reports that read those counters, and the process that *)
(* starts and stops around them.                                           *)
(*                                                                         *)
(* A stream is one goroutine.  What it does with the pool, with a kernel's *)
(* memory and with a counter is a step of its own, because other streams   *)
(* and reports run in between.  sync.Pool may drop a buffer at any moment. *)
(* Radii are in sixths, the unit in which a kernel's size is computed.     *)
(***************************************************************************)
EXTENDS Integers, Sequences, FiniteSets, FiniteSetsExt, SequencesExt

CONSTANTS Stream,     \* the calls of ProcessMediaStream
          Buffer,     \* the kernel buffers that may be alive at once
          NoBuffer,   \* a stream that has none
          Chunks,     \* what the client of each stream may send: [type, fits, params]
          NoParams,   \* a chunk's params when it has none, and no chunk
          KernelLimit, \* the coefficients a kernel buffer holds (31)
          MaxChunks   \* bound: chunks the client of each stream sends

ASSUME GoProcessorAssumption ==
    /\ IsFiniteSet(Stream)
    /\ IsFiniteSet(Buffer) /\ NoBuffer \notin Buffer
    /\ Cardinality(Buffer) >= Cardinality(Stream)
    /\ DOMAIN Chunks = Stream
    /\ \A s \in Stream : \A c \in Chunks[s] : c.params = NoParams \/ c.params.radius \in Int
    /\ MaxChunks \in [Stream -> Nat]
    /\ KernelLimit \in Nat /\ KernelLimit >= 3 /\ KernelLimit % 2 = 1

VARIABLES pc,        \* where each stream's goroutine is
          chunk,     \* the chunk it works on
          kernelPtr, \* the kernel buffer it took
          temp,      \* the coefficients behind the rows in its temp buffer
          result,    \* the reply it is about to send
          received, sent,   \* chunks read and replies sent
          pooled,    \* kernelPool
          memory,    \* the contents of the kernel buffers
          globalStats,
          report,    \* a report in the making: the counters it has loaded
          main,      \* where main() is
          server,    \* the goroutine that calls Serve
          signalled  \* the stop channel holds a signal

goroutines == << pc, chunk, kernelPtr, temp, result, received, sent >>
shared == << pooled, memory, globalStats >>
process == << main, server, signalled >>
vars == << goroutines, shared, report, process >>

Counter == {"totalFrames", "totalTimeNs", "totalAllocs", "totalPoolGets", "totalPoolPuts"}
PC == {"idle", "recv", "get", "generate", "horizontal", "vertical", "count_put",
       "count_frame", "count_time", "count_alloc", "send", "done"}

\* generateGaussianKernel of the given radius: its coefficients are named by
\* the radius, 0 stands for those of a buffer nobody has written.
KernelSize(radius) == Min({KernelLimit, Max({3, 2 * (radius \div 2) + 1})})
Coefficients(radius) == [k \in 1 .. KernelSize(radius) |-> radius]

Video == {"video", "image"}
Blur == "gaussian_blur"
DefaultRadius == 30

\* The filter and the radius processChunk chooses; what is not a filter blurs.
FilterOf(c) ==
    IF c.params # NoParams /\ c.params.filter \in {"grayscale", "sharpen", "edge_detect"}
    THEN c.params.filter ELSE Blur
RadiusOf(c) ==
    IF c.params # NoParams /\ c.params.radius > 0 THEN c.params.radius ELSE DefaultRadius

\* What a filter that needs no kernel makes of the pixels at the frame's border
\* and inside: sharpen and edge_detect leave the border of a new buffer, zeros.
Unblurred(filter) ==
    IF filter = "grayscale" THEN [border |-> filter, inside |-> filter]
                            ELSE [border |-> "zero", inside |-> filter]

Refused(c) == c.type \notin Video \/ ~ c.fits
Refusal == [success |-> FALSE, data |-> << >>]

\* The reply a chunk gets from a processor that serves nobody else.
Reply(c) ==
    IF Refused(c) THEN Refusal
    ELSE [success |-> TRUE,
          data |-> IF FilterOf(c) = Blur
                   THEN << Coefficients(RadiusOf(c)), Coefficients(RadiusOf(c)) >>
                   ELSE << Unblurred(FilterOf(c)) >>]

Blank == [k \in 1 .. KernelLimit |-> 0]
Held == { kernelPtr[s] : s \in Stream } \ {NoBuffer}

\* Variant: the frames are loaded last.
LoadOrderFramesLast == << "totalTimeNs", "totalAllocs", "totalFrames" >>

\* The order in which a report loads the counters.  It goes on with those of the
\* pool, which are not compared with the others.
LoadOrder == << "totalFrames", "totalTimeNs", "totalAllocs" >>

NoReport == [c \in {} |-> 0]

GoTypeOK ==
    /\ pc \in [Stream -> PC]
    /\ kernelPtr \in [Stream -> Buffer \cup {NoBuffer}]
    /\ \A s \in Stream : sent[s] <= received[s] /\ received[s] \in 0 .. MaxChunks[s]
    /\ pooled \subseteq Buffer \ Held
    /\ \A s, t \in Stream : kernelPtr[s] = kernelPtr[t] => s = t \/ kernelPtr[s] = NoBuffer
    /\ \A b \in Buffer : Len(memory[b]) = KernelLimit
    /\ globalStats \in [Counter -> Nat]
    /\ DOMAIN report \subseteq Counter
    /\ main \in {"listen", "notify", "wait", "graceful", "returned", "exit_1", "killed"}
    /\ server \in {"none", "ready", "serving", "returned"}
    /\ signalled \in BOOLEAN

Init ==
    /\ pc = [s \in Stream |-> "idle"]
    /\ chunk = [s \in Stream |-> NoParams]
    /\ kernelPtr = [s \in Stream |-> NoBuffer]
    /\ temp = [s \in Stream |-> << >>]
    /\ result = [s \in Stream |-> Refusal]
    /\ received = [s \in Stream |-> 0] /\ sent = [s \in Stream |-> 0]
    /\ pooled = {}
    /\ memory = [b \in Buffer |-> Blank]
    /\ globalStats = [c \in Counter |-> 0]
    /\ report = NoReport
    /\ main = "listen" /\ server = "none" /\ signalled = FALSE

Running == main \in {"listen", "notify", "wait", "graceful"}

-----------------------------------------------------------------------------
(* A stream.                                                               *)

Step(s, from, to) == Running /\ pc[s] = from /\ pc' = [pc EXCEPT ![s] = to]
Count(c) == globalStats' = [globalStats EXCEPT ![c] = @ + 1]

\* gRPC accepts a call and starts the handler; not once GracefulStop has begun.
Open(s) ==
    /\ server = "serving" /\ main # "graceful"
    /\ Step(s, "idle", "recv")
    /\ UNCHANGED << chunk, kernelPtr, temp, result, received, sent, shared, report, process >>

\* A chunk, and what processChunk does with it before it touches anything that
\* is shared: it is refused, filtered without a kernel, or in need of one.
Recv(s) ==
    /\ received[s] < MaxChunks[s]
    /\ received' = [received EXCEPT ![s] = @ + 1]
    /\ \E c \in Chunks[s] :
          /\ chunk' = [chunk EXCEPT ![s] = c]
          /\ \/ /\ Refused(c)
                /\ Step(s, "recv", "send")
                /\ UNCHANGED result
             \/ /\ ~ Refused(c) /\ FilterOf(c) # Blur
                /\ Step(s, "recv", "count_frame")
                /\ result' = [result EXCEPT ![s] =
                                 [success |-> TRUE, data |-> << Unblurred(FilterOf(c)) >>]]
             \/ /\ ~ Refused(c) /\ FilterOf(c) = Blur
                /\ Step(s, "recv", "get")
                /\ UNCHANGED result
    /\ UNCHANGED << kernelPtr, temp, sent, shared, report, process >>

\* The end of the client's chunks, or an error of the call.
RecvEnds(s) ==
    /\ Step(s, "recv", "done")
    /\ UNCHANGED << chunk, kernelPtr, temp, result, received, sent, shared, report, process >>

\* Variant: the buffer stays in the pool.
GetKernelShared(s) ==
    /\ Step(s, "get", "generate")
    /\ LET b == CHOOSE b \in Buffer : pooled \subseteq {b}
       IN  /\ kernelPtr' = [kernelPtr EXCEPT ![s] = b]
           /\ pooled' = {b}
    /\ UNCHANGED << chunk, temp, result, received, sent, memory, globalStats, report, process >>

\* kernelPool.Get(): a pooled buffer, as its last user left it, or a new one.
GetKernel(s) ==
    /\ Step(s, "get", "generate")
    /\ \/ \E b \in pooled :
             /\ kernelPtr' = [kernelPtr EXCEPT ![s] = b]
             /\ pooled' = pooled \ {b}
             /\ UNCHANGED memory
       \/ /\ pooled = {}
          /\ \E b \in Buffer \ Held :
                 /\ kernelPtr' = [kernelPtr EXCEPT ![s] = b]
                 /\ memory' = [memory EXCEPT ![b] = Blank]
          /\ UNCHANGED pooled
    /\ UNCHANGED << chunk, temp, result, received, sent, globalStats, report, process >>

\* The get is counted, and generateGaussianKernel fills kernel[:kernelSize].
Generate(s) ==
    /\ Step(s, "generate", "horizontal")
    /\ Count("totalPoolGets")
    /\ memory' = [memory EXCEPT ![kernelPtr[s]] =
                     Coefficients(RadiusOf(chunk[s])) \o
                     SubSeq(@, KernelSize(RadiusOf(chunk[s])) + 1, KernelLimit)]
    /\ UNCHANGED << chunk, kernelPtr, temp, result, received, sent, pooled, report, process >>

\* Variant: the passes run over the whole buffer.
KernelReadWhole(s) == memory[kernelPtr[s]]

\* The coefficients a pass reads.
KernelRead(s) == SubSeq(memory[kernelPtr[s]], 1, KernelSize(RadiusOf(chunk[s])))

Horizontal(s) ==
    /\ Step(s, "horizontal", "vertical")
    /\ temp' = [temp EXCEPT ![s] = KernelRead(s)]
    /\ UNCHANGED << chunk, kernelPtr, result, received, sent, shared, report, process >>

\* The vertical pass, and kernelPool.Put().
Vertical(s) ==
    /\ Step(s, "vertical", "count_put")
    /\ result' = [result EXCEPT ![s] = [success |-> TRUE, data |-> << temp[s], KernelRead(s) >>]]
    /\ temp' = [temp EXCEPT ![s] = << >>]
    /\ pooled' = pooled \cup {kernelPtr[s]}
    /\ kernelPtr' = [kernelPtr EXCEPT ![s] = NoBuffer]
    /\ UNCHANGED << chunk, received, sent, memory, globalStats, report, process >>

CountPut(s) ==
    /\ Step(s, "count_put", "count_frame")
    /\ Count("totalPoolPuts")
    /\ UNCHANGED << chunk, kernelPtr, temp, result, received, sent, pooled, memory, report, process >>

CountFrame(s) ==
    /\ Step(s, "count_frame", "count_time")
    /\ Count("totalFrames")
    /\ UNCHANGED << chunk, kernelPtr, temp, result, received, sent, pooled, memory, report, process >>

\* A frame's processing time is one unit.
CountTime(s) ==
    /\ Step(s, "count_time", "count_alloc")
    /\ Count("totalTimeNs")
    /\ UNCHANGED << chunk, kernelPtr, temp, result, received, sent, pooled, memory, report, process >>

CountAlloc(s) ==
    /\ Step(s, "count_alloc", "send")
    /\ Count("totalAllocs")
    /\ UNCHANGED << chunk, kernelPtr, temp, result, received, sent, pooled, memory, report, process >>

Send(s) ==
    /\ Step(s, "send", "recv")
    /\ sent' = [sent EXCEPT ![s] = @ + 1]
    /\ chunk' = [chunk EXCEPT ![s] = NoParams]
    /\ result' = [result EXCEPT ![s] = Refusal]
    /\ UNCHANGED << kernelPtr, temp, received, shared, report, process >>

\* The call is broken: its client has cancelled it or gone.
SendFails(s) ==
    /\ Step(s, "send", "done")
    /\ UNCHANGED << chunk, kernelPtr, temp, result, received, sent, shared, report, process >>

Handler(s) ==
    \/ Recv(s) \/ RecvEnds(s) \/ GetKernel(s) \/ Generate(s)
    \/ Horizontal(s) \/ Vertical(s) \/ CountPut(s)
    \/ CountFrame(s) \/ CountTime(s) \/ CountAlloc(s) \/ Send(s) \/ SendFails(s)

\* The garbage collector empties the pool.
CollectGarbage ==
    /\ Running /\ pooled # {}
    /\ pooled' = {}
    /\ memory' = [b \in Buffer |-> IF b \in pooled THEN Blank ELSE memory[b]]
    /\ UNCHANGED << goroutines, globalStats, report, process >>

-----------------------------------------------------------------------------
(* Reports: GetStats, which /stats prints too, and /runtime.               *)

\* One load of a report.
Load ==
    /\ Running
    /\ \E i \in DOMAIN LoadOrder :
          /\ i = Cardinality(DOMAIN report) + 1
          /\ report' = [c \in DOMAIN report \cup {LoadOrder[i]} |->
                           IF c = LoadOrder[i] THEN globalStats[c] ELSE report[c]]
    /\ UNCHANGED << goroutines, shared, process >>

\* The report goes out; that of /runtime has no totalAllocs.
SendReport ==
    /\ Running /\ Cardinality(DOMAIN report) \in {2, 3}
    /\ report' = NoReport
    /\ UNCHANGED << goroutines, shared, process >>

-----------------------------------------------------------------------------
(* main() and the goroutine that serves.                                   *)

Listen ==
    /\ main = "listen"
    /\ main' \in {"notify", "exit_1"}    \* the port may be taken: log.Fatalf
    /\ UNCHANGED << goroutines, shared, report, server, signalled >>

\* signal.Notify and the start of the serving goroutine.
Notify ==
    /\ main = "notify"
    /\ main' = "wait" /\ server' = "ready"
    /\ UNCHANGED << goroutines, shared, report, signalled >>

\* Serve returns ErrServerStopped when GracefulStop came first, and then
\* log.Fatalf ends the process.
Serve ==
    /\ Running /\ server = "ready"
    /\ IF main = "graceful" THEN main' = "exit_1" /\ server' = "returned"
                            ELSE server' = "serving" /\ UNCHANGED main
    /\ UNCHANGED << goroutines, shared, report, signalled >>

\* Before Notify a signal kills the process; then the channel keeps one.
Signal ==
    /\ Running /\ ~ signalled
    /\ signalled' = TRUE
    /\ main' = IF main \in {"listen", "notify"} THEN "killed" ELSE main
    /\ UNCHANGED << goroutines, shared, report, server >>

\* GracefulStop closes the listener: Serve returns, no call is accepted.
StopAccepting ==
    /\ main = "wait" /\ signalled
    /\ main' = "graceful"
    /\ server' = IF server = "serving" THEN "returned" ELSE server
    /\ UNCHANGED << goroutines, shared, report, signalled >>

\* Variant: Stop() instead of GracefulStop().
ReturnAtOnce ==
    /\ main = "graceful"
    /\ main' = "returned"
    /\ UNCHANGED << goroutines, shared, report, server, signalled >>

\* Variant: GracefulStop waits for every call to end, those not begun included.
ReturnWhenAllDone ==
    /\ main = "graceful"
    /\ \A s \in Stream : pc[s] = "done"
    /\ main' = "returned"
    /\ UNCHANGED << goroutines, shared, report, server, signalled >>

\* GracefulStop returns when the open calls have ended, and main with it.
Return ==
    /\ main = "graceful"
    /\ \A s \in Stream : pc[s] \in {"idle", "done"}
    /\ main' = "returned"
    /\ UNCHANGED << goroutines, shared, report, server, signalled >>

MainStep == Listen \/ Notify \/ StopAccepting \/ Return

Idle ==
    /\ ~ Running \/ (main = "wait" /\ \A s \in Stream : pc[s] = "done")
    /\ UNCHANGED vars

Next ==
    \/ \E s \in Stream : Open(s) \/ Handler(s)
    \/ CollectGarbage \/ Load \/ SendReport
    \/ MainStep \/ Serve \/ Signal
    \/ Idle

\* Goroutines are scheduled, and a client's call ends (the gateway gives each
\* of its calls a context that is cancelled).
Fairness ==
    /\ WF_vars(MainStep) /\ WF_vars(Serve)
    /\ \A s \in Stream : WF_vars(Handler(s))

Spec == Init /\ [][Next]_vars /\ Fairness

-----------------------------------------------------------------------------
(* Properties.                                                             *)

\* Every reply is the one its chunk would get from a processor that serves no
\* other stream: a kernel is of one stream from Get to Put, and what an earlier
\* user left in it beyond the size in use is not read.
RepliesAreOwn ==
    \A s \in Stream : pc[s] \in {"count_put", "count_frame", "count_time", "count_alloc", "send"}
                      => result[s] = Reply(chunk[s])

\* The averages of a report divide counters that were loaded at different moments:
\* it is never short of the times, or of the allocations, of more frames than
\* there are streams between two increments, however long the report takes.
ReportsLag ==
    \A c, d \in DOMAIN report :
        /\ c = "totalFrames" /\ d \in {"totalTimeNs", "totalAllocs"}
           => report[c] <= report[d] + Cardinality(Stream)
        /\ c = "totalTimeNs" /\ d = "totalAllocs"
           => report[c] <= report[d] + Cardinality(Stream)

\* The process ends by main's return, or because the signal came before Serve,
\* only when no call is open: nothing a client sent is left without its reply.
CallsEndFirst ==
    ~ Running => \A s \in Stream : pc[s] \in {"idle", "done"}

\* A signal ends the process, whatever main and the server were doing.
SignalEnds == signalled ~> ~ Running
=============================================================================
