--------------------------- MODULE GoProcessorProofs ---------------------------
(***************************************************************************)
(* Proofs about the Go processor, for any number of streams, chunks and    *)
(* buffers: replies are a stream's own, reports lag by less than a frame   *)
(* per stream, and no call is open when the process ends.                  *)
(***************************************************************************)
EXTENDS GoProcessor, FiniteSetTheorems, SequenceTheorems, TLAPS

-----------------------------------------------------------------------------
(* The process: calls are opened only by a server that serves.             *)

ProcessFits ==
    /\ main \in {"listen", "notify"} => server = "none"
    /\ server \in {"none", "ready"} => \A s \in Stream : pc[s] = "idle"
    /\ ~ Running => \A s \in Stream : pc[s] \in {"idle", "done"}

LEMMA ProcessInvariance == Spec => []ProcessFits
<1> USE DEF ProcessFits, Running
<1>1. Init => ProcessFits
    BY DEF Init
<1>2. ASSUME ProcessFits, [Next]_vars PROVE ProcessFits'
  <2> USE <1>2
  <2>1. CASE \E s \in Stream : Open(s) \/ Handler(s)
    <3>1. /\ Running /\ server \notin {"none", "ready"}
          /\ UNCHANGED process
        BY <2>1 DEF Step, Open, Handler, Recv, RecvEnds, GetKernel, Generate, Horizontal, Vertical,
                    CountPut, CountFrame, CountTime, CountAlloc, Send, SendFails
    <3> QED
        BY <3>1 DEF process
  <2>2. CASE CollectGarbage \/ Load \/ SendReport \/ Idle
      BY <2>2 DEF CollectGarbage, Load, SendReport, Idle, goroutines, process, vars
  <2>3. CASE MainStep
      BY <2>3 DEF MainStep, Listen, Notify, StopAccepting, Return, goroutines
  <2>4. CASE Serve
      BY <2>4 DEF Serve, goroutines
  <2>5. CASE Signal
      BY <2>5 DEF Signal, goroutines
  <2>6. CASE UNCHANGED vars
      BY <2>6 DEF vars, goroutines, process
  <2> QED
      BY <2>1, <2>2, <2>3, <2>4, <2>5, <2>6 DEF Next
<1> QED
    BY <1>1, <1>2, PTL DEF Spec

\* The process ends only when no call is open, whether main returns or the signal
\* came before Serve.
THEOREM CallsEnd == Spec => []CallsEndFirst
<1>1. ProcessFits => CallsEndFirst
    BY DEF ProcessFits, CallsEndFirst
<1> QED
    BY <1>1, ProcessInvariance, PTL

-----------------------------------------------------------------------------
(* A kernel and the buffer that holds it.                                  *)

LEMMA KernelSizeFits == \A r \in Nat : KernelSize(r) \in 1 .. KernelLimit
<1> TAKE r \in Nat
<1> DEFINE wide == 2 * (r \div 2) + 1
           wider == Max({3, wide})
<1>1. wide \in Nat \ {0}
    OBVIOUS
<1>2. wider \in {3, wide}
  <2>1. \E x \in {3, wide} : \A y \in {3, wide} : x >= y
      BY <1>1
  <2> QED
      BY <2>1 DEF Max
<1>3. Min({KernelLimit, wider}) \in {KernelLimit, wider}
         /\ Min({KernelLimit, wider}) <= KernelLimit
  <2>1. \E x \in {KernelLimit, wider} : \A y \in {KernelLimit, wider} : x <= y
      BY <1>1, <1>2, GoProcessorAssumption
  <2> QED
      BY <2>1 DEF Min
<1> QED
    BY <1>1, <1>2, <1>3, GoProcessorAssumption DEF KernelSize

\* generateGaussianKernel writes what the passes read, whatever was there before.
LEMMA KernelFills ==
    ASSUME NEW r \in Nat, NEW old \in Seq(Nat), Len(old) = KernelLimit
    PROVE  LET new == Coefficients(r) \o SubSeq(old, KernelSize(r) + 1, KernelLimit)
           IN  /\ new \in Seq(Nat) /\ Len(new) = KernelLimit
               /\ SubSeq(new, 1, KernelSize(r)) = Coefficients(r)
<1> DEFINE size == KernelSize(r)
           tail == SubSeq(old, size + 1, KernelLimit)
           new == Coefficients(r) \o tail
<1>1. size \in 1 .. KernelLimit /\ KernelLimit \in Nat
    BY KernelSizeFits, GoProcessorAssumption
<1> HIDE DEF size
<1>2. Coefficients(r) \in Seq(Nat) /\ Len(Coefficients(r)) = size
    BY <1>1 DEF Coefficients, size
<1>3. tail \in Seq(Nat) /\ Len(tail) = KernelLimit - size
  <2>1. \A i \in size + 1 .. KernelLimit : old[i] \in Nat
      BY <1>1, ElementOfSeq
  <2> QED
      BY <1>1, <2>1, SubSeqProperties
<1> HIDE DEF tail
<1>4. new \in Seq(Nat) /\ Len(new) = KernelLimit
  <2>1. new \in Seq(Nat) /\ Len(new) = Len(Coefficients(r)) + Len(tail)
      BY <1>2, <1>3, ConcatProperties
  <2> QED
      BY <1>1, <1>2, <1>3, <2>1
<1>5. SubSeq(new, 1, size) = SubSeq(Coefficients(r), 1, size)
    BY <1>1, <1>2, <1>3, SubSeqOfConcat1
<1>6. SubSeq(Coefficients(r), 1, size) = Coefficients(r)
    BY <1>2, SubSeqFull
<1> QED
    BY <1>4, <1>5, <1>6 DEF size, tail

-----------------------------------------------------------------------------
(* What a stream has in its hands.                                         *)

Passing == {"generate", "horizontal", "vertical"}
Replying == {"count_put", "count_frame", "count_time", "count_alloc", "send"}

Shapes ==
    /\ pc \in [Stream -> PC] /\ kernelPtr \in [Stream -> Buffer \cup {NoBuffer}]
    /\ DOMAIN chunk = Stream /\ DOMAIN temp = Stream /\ DOMAIN result = Stream

\* A buffer is in the pool, or of one stream, or nobody's.
Sharing ==
    /\ pooled \subseteq Buffer \ Held
    /\ \A s, t \in Stream : kernelPtr[s] = kernelPtr[t] => s = t \/ kernelPtr[s] = NoBuffer
    /\ memory \in [Buffer -> Seq(Nat)]
    /\ \A b \in Buffer : Len(memory[b]) = KernelLimit

\* What a stream has read, holds and has made, by where it is.
Own(t) ==
    /\ pc[t] \in Passing <=> kernelPtr[t] # NoBuffer
    /\ pc[t] \notin {"idle", "recv", "done"} => chunk[t] \in Chunks[t]
    /\ pc[t] \in Passing \cup {"get"} => ~ Refused(chunk[t]) /\ FilterOf(chunk[t]) = Blur
    /\ pc[t] \in {"horizontal", "vertical"} => KernelRead(t) = Coefficients(RadiusOf(chunk[t]))
    /\ pc[t] = "vertical" => temp[t] = Coefficients(RadiusOf(chunk[t]))
    /\ pc[t] \in Replying => result[t] = Reply(chunk[t])
    /\ pc[t] \in {"idle", "recv"} => result[t] = Refusal

KernelInv == Shapes /\ Sharing /\ \A t \in Stream : Own(t)

LEMMA RadiusIsNat == \A s \in Stream : \A c \in Chunks[s] : RadiusOf(c) \in Nat
    BY GoProcessorAssumption DEF RadiusOf, DefaultRadius

LEMMA BlankIsEmpty == Blank \in Seq(Nat) /\ Len(Blank) = KernelLimit
    BY GoProcessorAssumption DEF Blank

LEMMA KernelInit == Init => KernelInv
<1> SUFFICES ASSUME Init PROVE KernelInv
    OBVIOUS
<1> USE DEF Init
<1>1. Shapes
    BY DEF Shapes, PC
<1>2. Sharing
    BY BlankIsEmpty DEF Sharing
<1>3. \A t \in Stream : Own(t)
    BY DEF Own, Passing, Replying
<1> QED
    BY <1>1, <1>2, <1>3 DEF KernelInv

\* A stream that does not move keeps what it has, if nobody writes into its buffer.
LEMMA OthersKeep ==
    ASSUME KernelInv, NEW t \in Stream,
           pc'[t] = pc[t], chunk'[t] = chunk[t], kernelPtr'[t] = kernelPtr[t],
           temp'[t] = temp[t], result'[t] = result[t],
           kernelPtr[t] # NoBuffer => memory'[kernelPtr[t]] = memory[kernelPtr[t]]
    PROVE  Own(t)'
<1>1. Own(t)
    BY DEF KernelInv
<1>2. kernelPtr[t] # NoBuffer => KernelRead(t)' = KernelRead(t)
    BY DEF KernelRead
<1> QED
    BY <1>1, <1>2 DEF Own, Passing

Still(t) ==
    /\ pc'[t] = pc[t] /\ chunk'[t] = chunk[t] /\ kernelPtr'[t] = kernelPtr[t]
    /\ temp'[t] = temp[t] /\ result'[t] = result[t]
    /\ kernelPtr[t] # NoBuffer => memory'[kernelPtr[t]] = memory[kernelPtr[t]]

LEMMA MoveKeeps ==
    ASSUME KernelInv, NEW s \in Stream, Shapes', Sharing', Own(s)',
           \A t \in Stream \ {s} : Still(t)
    PROVE  KernelInv'
<1>1. ASSUME NEW t \in Stream \ {s} PROVE Own(t)'
    BY <1>1, OthersKeep DEF Still
<1> QED
    BY <1>1 DEF KernelInv

\* The steps in which a stream only moves on.
LEMMA WalkKeeps ==
    ASSUME KernelInv, NEW s \in Stream,
           \/ Open(s) \/ RecvEnds(s) \/ CountPut(s) \/ CountFrame(s) \/ CountTime(s)
           \/ CountAlloc(s) \/ SendFails(s)
    PROVE  KernelInv'
<1>1. /\ UNCHANGED << chunk, kernelPtr, temp, result, pooled, memory >>
      /\ \E from, to \in PC :
            /\ pc[s] = from /\ pc' = [pc EXCEPT ![s] = to]
            /\ \/ from \in Replying /\ to \in Replying \cup {"done"}
               \/ from = "idle" /\ to = "recv"
               \/ from = "recv" /\ to = "done"
    BY DEF Open, RecvEnds, CountPut, CountFrame, CountTime, CountAlloc, SendFails, Step, shared,
           PC, Replying
<1>2. Shapes'
    BY <1>1 DEF KernelInv, Shapes
<1>3. Sharing'
    BY <1>1 DEF KernelInv, Sharing, Held
<1>4. Own(s)'
    BY <1>1 DEF KernelInv, Own, Shapes, Passing, Replying
<1>5. \A t \in Stream \ {s} : Still(t)
    BY <1>1 DEF KernelInv, Shapes, Still
<1> QED
    BY <1>2, <1>3, <1>4, <1>5, MoveKeeps

\* The steps that change only what the stream has of its own.
LEMMA OwnStepKeeps ==
    ASSUME KernelInv, NEW s \in Stream, Recv(s) \/ Horizontal(s) \/ Send(s)
    PROVE  KernelInv'
<1>1. UNCHANGED << kernelPtr, pooled, memory >>
    BY DEF Recv, Horizontal, Send, shared
<1>2. Shapes'
    BY <1>1 DEF Recv, Horizontal, Send, Step, KernelInv, Shapes, PC
<1>3. Sharing'
    BY <1>1 DEF KernelInv, Sharing, Held
<1>4. \A t \in Stream \ {s} : Still(t)
    BY <1>1 DEF Recv, Horizontal, Send, Step, KernelInv, Shapes, Still
<1>5. Own(s)'
  <2>1. CASE Recv(s)
    <3>1. PICK c \in Chunks[s] :
              /\ chunk' = [chunk EXCEPT ![s] = c]
              /\ \/ /\ Refused(c)
                    /\ Step(s, "recv", "send")
                    /\ UNCHANGED result
                 \/ /\ ~ Refused(c) /\ FilterOf(c) # Blur
                    /\ Step(s, "recv", "count_frame")
                    /\ result' = [result EXCEPT ![s] =
                                     [success |-> TRUE, data |-> << Unblurred(FilterOf(c)) >>]]
                 \/ /\ ~ Refused(c) /\ FilterOf(c) = Blur
                    /\ Step(s, "recv", "get")
                    /\ UNCHANGED result
        BY <2>1 DEF Recv
    <3>2. chunk'[s] = c /\ result[s] = Refusal /\ kernelPtr[s] = NoBuffer /\ pc[s] = "recv"
        BY <3>1 DEF KernelInv, Shapes, Own, Step, Passing
    <3>3. CASE Refused(c)
        BY <1>1, <3>1, <3>2, <3>3 DEF Step, KernelInv, Shapes, Own, Reply, Passing, Replying
    <3>4. CASE ~ Refused(c) /\ FilterOf(c) # Blur
      <4>1. pc'[s] = "count_frame" /\ result'[s] = Reply(c)
          BY <3>1, <3>4 DEF Step, KernelInv, Shapes, Reply
      <4> QED
          BY <1>1, <3>2, <4>1 DEF Own, Passing, Replying
    <3>5. CASE ~ Refused(c) /\ FilterOf(c) = Blur
      <4>1. pc'[s] = "get"
          BY <3>1, <3>5 DEF Step, KernelInv, Shapes
      <4> QED
          BY <1>1, <3>2, <3>5, <4>1 DEF Own, Passing, Replying
    <3> QED
        BY <3>3, <3>4, <3>5
  <2>2. CASE Horizontal(s)
    <3>1. /\ pc[s] = "horizontal" /\ pc'[s] = "vertical" /\ temp'[s] = KernelRead(s)
          /\ KernelRead(s)' = KernelRead(s) /\ chunk' = chunk
        BY <1>1, <2>2 DEF Horizontal, Step, KernelInv, Shapes, KernelRead
    <3> QED
        BY <1>1, <3>1 DEF KernelInv, Own, Passing, Replying
  <2>3. CASE Send(s)
      BY <1>1, <2>3 DEF Send, Step, KernelInv, Shapes, Own, Passing, Replying
  <2> QED
      BY <2>1, <2>2, <2>3
<1> QED
    BY <1>2, <1>3, <1>4, <1>5, MoveKeeps

\* A buffer that is taken was the pool's or nobody's.
LEMMA GetKeeps ==
    ASSUME KernelInv, NEW s \in Stream, GetKernel(s)
    PROVE  KernelInv'
<1> USE DEF KernelInv
<1>1. PICK b \in Buffer \ Held :
          /\ kernelPtr' = [kernelPtr EXCEPT ![s] = b]
          /\ pooled' = pooled \ {b}
          /\ memory' = memory \/ memory' = [memory EXCEPT ![b] = Blank]
    BY DEF GetKernel, Sharing
<1>2. /\ pc[s] = "get" /\ pc' = [pc EXCEPT ![s] = "generate"]
      /\ UNCHANGED << chunk, temp, result >>
    BY DEF GetKernel, Step
<1>3. b # NoBuffer /\ \A t \in Stream : kernelPtr[t] # b
    BY GoProcessorAssumption DEF Held
<1>4. Shapes'
    BY <1>1, <1>2 DEF Shapes, PC
<1>5. Sharing'
  <2>1. pooled' \subseteq Buffer \ Held'
      BY <1>1, <1>3 DEF Sharing, Shapes, Held
  <2>2. \A t, u \in Stream : kernelPtr'[t] = kernelPtr'[u] => t = u \/ kernelPtr'[t] = NoBuffer
      BY <1>1, <1>3 DEF Sharing, Shapes
  <2>3. memory' \in [Buffer -> Seq(Nat)] /\ \A x \in Buffer : Len(memory'[x]) = KernelLimit
    <3> HIDE DEF KernelInv
    <3>1. memory \in [Buffer -> Seq(Nat)] /\ \A x \in Buffer : Len(memory[x]) = KernelLimit
        BY DEF KernelInv, Sharing
    <3>2. \A x \in Buffer : memory'[x] = memory[x] \/ memory'[x] = Blank
        BY <1>1, <3>1
    <3>3. memory' \in [Buffer -> Seq(Nat)]
        BY <1>1, <3>1, BlankIsEmpty
    <3>4. ASSUME NEW x \in Buffer PROVE Len(memory'[x]) = KernelLimit
      <4>1. CASE memory'[x] = memory[x]
          BY <3>1, <4>1
      <4>2. CASE memory'[x] = Blank
          BY BlankIsEmpty, <4>2
      <4> QED
          BY <3>2, <4>1, <4>2
    <3> QED
        BY <3>3, <3>4
  <2> QED
      BY <2>1, <2>2, <2>3 DEF Sharing
<1>6. Own(s)'
  <2>1. kernelPtr'[s] = b /\ pc'[s] = "generate"
      BY <1>1, <1>2 DEF Shapes
  <2> QED
      BY <1>2, <1>3, <2>1 DEF Own, Passing, Replying
<1>7. \A t \in Stream \ {s} : Still(t)
    BY <1>1, <1>2, <1>3 DEF Shapes, Sharing, Still
<1> QED
    BY <1>4, <1>5, <1>6, <1>7, MoveKeeps

\* The stream that fills a buffer is the only one that holds it.
LEMMA GenerateKeeps ==
    ASSUME KernelInv, NEW s \in Stream, Generate(s)
    PROVE  KernelInv'
<1> USE DEF KernelInv
<1> DEFINE b == kernelPtr[s]
           r == RadiusOf(chunk[s])
           new == Coefficients(r) \o SubSeq(memory[b], KernelSize(r) + 1, KernelLimit)
<1>1. /\ pc[s] = "generate" /\ pc' = [pc EXCEPT ![s] = "horizontal"]
      /\ memory' = [memory EXCEPT ![b] = new]
      /\ UNCHANGED << chunk, kernelPtr, temp, result, pooled >>
    BY DEF Generate, Step
<1>2. b \in Buffer /\ chunk[s] \in Chunks[s] /\ ~ Refused(chunk[s]) /\ FilterOf(chunk[s]) = Blur
    BY <1>1 DEF Shapes, Own, Passing
<1>3. r \in Nat /\ memory[b] \in Seq(Nat) /\ Len(memory[b]) = KernelLimit
    BY <1>2, RadiusIsNat DEF Sharing
<1>4. new \in Seq(Nat) /\ Len(new) = KernelLimit /\ SubSeq(new, 1, KernelSize(r)) = Coefficients(r)
    BY <1>3, KernelFills
<1> HIDE DEF new
<1>5. Shapes'
    BY <1>1 DEF Shapes, PC
<1>6. Sharing'
    BY <1>1, <1>4 DEF Sharing, Held
<1>7. Own(s)'
  <2>1. pc'[s] = "horizontal" /\ memory'[b] = new
      BY <1>1, <1>2 DEF Shapes, Sharing
  <2>2. KernelRead(s)' = Coefficients(r)
      BY <1>1, <1>4, <2>1 DEF KernelRead
  <2> QED
      BY <1>1, <1>2, <2>1, <2>2, GoProcessorAssumption DEF Own, Passing, Replying
<1>8. \A t \in Stream \ {s} : Still(t)
    BY <1>1, <1>2, GoProcessorAssumption DEF Shapes, Sharing, Still
<1> QED
    BY <1>5, <1>6, <1>7, <1>8, MoveKeeps

\* The second pass has read the buffer when it is put into the pool.
LEMMA VerticalKeeps ==
    ASSUME KernelInv, NEW s \in Stream, Vertical(s)
    PROVE  KernelInv'
<1> USE DEF KernelInv
<1>1. /\ pc[s] = "vertical" /\ pc' = [pc EXCEPT ![s] = "count_put"]
      /\ result' = [result EXCEPT ![s] = [success |-> TRUE, data |-> << temp[s], KernelRead(s) >>]]
      /\ temp' = [temp EXCEPT ![s] = << >>]
      /\ pooled' = pooled \cup {kernelPtr[s]}
      /\ kernelPtr' = [kernelPtr EXCEPT ![s] = NoBuffer]
      /\ UNCHANGED << chunk, memory >>
    BY DEF Vertical, Step
<1>2. kernelPtr[s] \in Buffer
    BY <1>1 DEF Shapes, Own, Passing
<1>3. Shapes'
    BY <1>1 DEF Shapes, PC
<1>4. Sharing'
  <2>1. \A t \in Stream : kernelPtr'[t] = NoBuffer \/ (t # s /\ kernelPtr'[t] = kernelPtr[t])
      BY <1>1 DEF Shapes
  <2>2. pooled' \subseteq Buffer \ Held'
    <3>1. ASSUME NEW x \in pooled', NEW t \in Stream, kernelPtr'[t] = x PROVE FALSE
        BY <1>1, <1>2, <2>1, <3>1, GoProcessorAssumption DEF Sharing, Held
    <3> QED
        BY <1>1, <1>2, <3>1 DEF Sharing, Held
  <2>3. \A t, u \in Stream : kernelPtr'[t] = kernelPtr'[u] => t = u \/ kernelPtr'[t] = NoBuffer
      BY <2>1 DEF Sharing
  <2> QED
      BY <1>1, <2>2, <2>3 DEF Sharing
<1>5. Own(s)'
  <2>1. pc'[s] = "count_put" /\ kernelPtr'[s] = NoBuffer /\ chunk'[s] = chunk[s]
        /\ result'[s] = [success |-> TRUE, data |-> << temp[s], KernelRead(s) >>]
      BY <1>1 DEF Shapes
  <2>2. result'[s] = Reply(chunk[s])
      BY <1>1, <2>1 DEF Own, Reply, Passing
  <2>3. chunk[s] \in Chunks[s]
      BY <1>1 DEF Own
  <2> QED
      BY <2>1, <2>2, <2>3 DEF Own, Passing, Replying
<1>6. \A t \in Stream \ {s} : Still(t)
    BY <1>1 DEF Shapes, Still
<1> QED
    BY <1>3, <1>4, <1>5, <1>6, MoveKeeps

LEMMA CollectKeeps == KernelInv /\ CollectGarbage => KernelInv'
<1> SUFFICES ASSUME KernelInv, CollectGarbage PROVE KernelInv'
    OBVIOUS
<1> USE DEF KernelInv
<1>1. /\ UNCHANGED << pc, chunk, kernelPtr, temp, result >>
      /\ pooled' = {}
      /\ memory' = [b \in Buffer |-> IF b \in pooled THEN Blank ELSE memory[b]]
    BY DEF CollectGarbage, goroutines
<1>2. Shapes' /\ Sharing'
    BY <1>1, BlankIsEmpty DEF Shapes, Sharing, Held
<1>3. ASSUME NEW t \in Stream PROVE Own(t)'
  <2>1. kernelPtr[t] # NoBuffer => memory'[kernelPtr[t]] = memory[kernelPtr[t]]
      BY <1>1 DEF Shapes, Sharing, Held
  <2> QED
      BY <1>1, <2>1, OthersKeep
<1> QED
    BY <1>2, <1>3

LEMMA KernelInvariance == Spec => []KernelInv
<1>1. Init => KernelInv
    BY KernelInit
<1>2. ASSUME KernelInv, [Next]_vars PROVE KernelInv'
  <2> USE <1>2
  <2>1. CASE \E s \in Stream : Open(s) \/ Handler(s)
      BY <2>1, WalkKeeps, OwnStepKeeps, GetKeeps, GenerateKeeps, VerticalKeeps DEF Handler
  <2>2. CASE CollectGarbage
      BY <2>2, CollectKeeps
  <2>3. CASE UNCHANGED << goroutines, shared >>
    <3>1. Shapes' /\ Sharing'
        BY <2>3 DEF goroutines, shared, KernelInv, Shapes, Sharing, Held
    <3>2. \A t \in Stream : Own(t)'
        BY <2>3, OthersKeep DEF goroutines, shared
    <3> QED
        BY <3>1, <3>2 DEF KernelInv
  <2>4. CASE Load \/ SendReport \/ MainStep \/ Serve \/ Signal \/ Idle \/ UNCHANGED vars
      BY <2>3, <2>4 DEF Load, SendReport, MainStep, Listen, Notify, StopAccepting, Return, Serve,
                        Signal, Idle, vars
  <2> QED
      BY <2>1, <2>2, <2>4 DEF Next
<1> QED
    BY <1>1, <1>2, PTL DEF Spec

\* Every reply is the one its chunk would get alone: buffers are exclusive from Get
\* to Put, and the passes read only what this stream has written.
THEOREM OwnReplies == Spec => []RepliesAreOwn
<1>1. KernelInv => RepliesAreOwn
    BY DEF KernelInv, Own, Replying, RepliesAreOwn
<1> QED
    BY <1>1, KernelInvariance, PTL

-----------------------------------------------------------------------------
(* The counters, and what a report has loaded of them.                     *)

At(P) == { s \in Stream : pc[s] \in P }

\* The streams between two increments are what the counters differ by.
CountersFit ==
    /\ globalStats \in [Counter -> Nat]
    /\ globalStats["totalFrames"] =
           globalStats["totalTimeNs"] + Cardinality(At({"count_time"}))
    /\ globalStats["totalTimeNs"] =
           globalStats["totalAllocs"] + Cardinality(At({"count_alloc"}))
    /\ globalStats["totalFrames"] =
           globalStats["totalAllocs"] + Cardinality(At({"count_time", "count_alloc"}))

\* A report has loaded the first counters of LoadOrder, and they have only grown.
ReportFits ==
    /\ DOMAIN report \in { {}, {"totalFrames"}, {"totalFrames", "totalTimeNs"},
                           {"totalFrames", "totalTimeNs", "totalAllocs"} }
    /\ \A c \in DOMAIN report : report[c] \in Nat /\ report[c] <= globalStats[c]
    /\ ReportsLag

CountInv == CountersFit /\ ReportFits

\* A stream's step in or out of a set of places.
LEMMA OneMoves ==
    ASSUME NEW s \in Stream, NEW P, NEW to,
           DOMAIN pc = Stream, pc' = [pc EXCEPT ![s] = to]
    PROVE  /\ Cardinality(At(P)) \in 0 .. Cardinality(Stream)
           /\ Cardinality(At(P))' =
                Cardinality(At(P)) + (IF to \in P THEN 1 ELSE 0) - (IF pc[s] \in P THEN 1 ELSE 0)
<1>1. IsFiniteSet(At(P)) /\ Cardinality(At(P)) \in 0 .. Cardinality(Stream)
    BY FS_Subset, FS_CardinalityType, GoProcessorAssumption DEF At
<1>2. CASE to \in P
  <2>1. At(P)' = At(P) \cup {s}
      BY <1>2 DEF At
  <2>2. s \in At(P) <=> pc[s] \in P
      BY DEF At
  <2> QED
      BY <1>1, <1>2, <2>1, <2>2, FS_AddElement
<1>3. CASE to \notin P
  <2>1. At(P)' = At(P) \ {s}
      BY <1>3 DEF At
  <2>2. s \in At(P) <=> pc[s] \in P
      BY DEF At
  <2> QED
    <3>1. Cardinality(At(P) \ {s}) = IF s \in At(P) THEN Cardinality(At(P)) - 1 ELSE Cardinality(At(P))
        BY <1>1, FS_RemoveElement
    <3> QED
        BY <1>1, <1>3, <2>1, <2>2, <3>1
<1> QED
    BY <1>2, <1>3

LEMMA SomeAt == ASSUME NEW P PROVE Cardinality(At(P)) \in 0 .. Cardinality(Stream)
    BY FS_Subset, FS_CardinalityType, GoProcessorAssumption DEF At

LEMMA CountInit == Init => CountInv
<1> SUFFICES ASSUME Init PROVE CountInv
    OBVIOUS
<1>1. CountersFit
  <2>1. \A P : "idle" \notin P => Cardinality(At(P)) = 0
      BY FS_EmptySet DEF Init, At
  <2> QED
      BY <2>1 DEF Init, CountersFit, Counter
<1>2. ReportFits
    BY DEF Init, NoReport, ReportFits, ReportsLag
<1> QED
    BY <1>1, <1>2 DEF CountInv

\* A step of a stream: a counter and the stream move together, and no counter shrinks.
LEMMA StreamCounts ==
    ASSUME CountInv, pc \in [Stream -> PC], NEW s \in Stream, Open(s) \/ Handler(s)
    PROVE  CountInv'
<1> DEFINE time == Cardinality(At({"count_time"}))
           alloc == Cardinality(At({"count_alloc"}))
           either == Cardinality(At({"count_time", "count_alloc"}))
<1>1. time \in Nat /\ alloc \in Nat /\ either \in Nat
    BY SomeAt, FS_CardinalityType, GoProcessorAssumption
<1>2. PICK to : pc' = [pc EXCEPT ![s] = to]
    BY DEF Open, Handler, Recv, RecvEnds, GetKernel, Generate, Horizontal, Vertical,
           CountPut, CountFrame, CountTime, CountAlloc, Send, SendFails, Step
<1>3. /\ time' = time + (IF to = "count_time" THEN 1 ELSE 0)
                      - (IF pc[s] = "count_time" THEN 1 ELSE 0)
      /\ alloc' = alloc + (IF to = "count_alloc" THEN 1 ELSE 0)
                        - (IF pc[s] = "count_alloc" THEN 1 ELSE 0)
      /\ either' = either + (IF to \in {"count_time", "count_alloc"} THEN 1 ELSE 0)
                          - (IF pc[s] \in {"count_time", "count_alloc"} THEN 1 ELSE 0)
    BY <1>2, OneMoves
<1>4. pc'[s] = to
    BY <1>2
<1> HIDE DEF time, alloc, either
<1>5. CountersFit'
  <2>0. /\ globalStats \in [Counter -> Nat]
        /\ globalStats["totalFrames"] = globalStats["totalTimeNs"] + time
        /\ globalStats["totalTimeNs"] = globalStats["totalAllocs"] + alloc
        /\ globalStats["totalFrames"] = globalStats["totalAllocs"] + either
      BY DEF CountInv, CountersFit, time, alloc, either
  <2> SUFFICES /\ globalStats' \in [Counter -> Nat]
               /\ globalStats'["totalFrames"] = globalStats'["totalTimeNs"] + time'
               /\ globalStats'["totalTimeNs"] = globalStats'["totalAllocs"] + alloc'
               /\ globalStats'["totalFrames"] = globalStats'["totalAllocs"] + either'
      BY DEF CountersFit, time, alloc, either
  <2>1. CASE CountFrame(s)
      BY <1>1, <1>3, <1>4, <2>0, <2>1 DEF CountFrame, Count, Step, Counter
  <2>2. CASE CountTime(s)
      BY <1>1, <1>3, <1>4, <2>0, <2>2 DEF CountTime, Count, Step, Counter
  <2>3. CASE CountAlloc(s)
      BY <1>1, <1>3, <1>4, <2>0, <2>3 DEF CountAlloc, Count, Step, Counter
  <2>4. CASE CountPut(s) \/ Generate(s)
    <3>1. pc[s] \notin {"count_time", "count_alloc"} /\ to \notin {"count_time", "count_alloc"}
        BY <1>4, <2>4 DEF CountPut, Generate, Step
    <3>2. /\ globalStats' \in [Counter -> Nat]
          /\ \A c \in {"totalFrames", "totalTimeNs", "totalAllocs"} : globalStats'[c] = globalStats[c]
        BY <2>0, <2>4 DEF CountPut, Generate, Count, Counter
    <3>3. time' = time /\ alloc' = alloc /\ either' = either
        BY <1>1, <1>3, <3>1
    <3> QED
        BY <2>0, <3>2, <3>3
  <2>5. CASE \/ Open(s) \/ Recv(s) \/ RecvEnds(s) \/ GetKernel(s) \/ Horizontal(s) \/ Vertical(s)
             \/ Send(s) \/ SendFails(s)
    <3>1. /\ pc[s] \notin {"count_time", "count_alloc"} /\ to \notin {"count_time", "count_alloc"}
          /\ globalStats' = globalStats
        BY <1>4, <2>5
        DEF Open, Recv, RecvEnds, GetKernel, Horizontal, Vertical, Send, SendFails, Step, shared
    <3>2. time' = time /\ alloc' = alloc /\ either' = either
        BY <1>1, <1>3, <3>1
    <3> QED
        BY <2>0, <3>1, <3>2
  <2> QED
      BY <2>1, <2>2, <2>3, <2>4, <2>5 DEF Handler
<1>6. ReportFits'
  <2>1. report' = report
      BY DEF Open, Handler, Recv, RecvEnds, GetKernel, Generate, Horizontal, Vertical,
             CountPut, CountFrame, CountTime, CountAlloc, Send, SendFails
  <2>2. \A c \in Counter : globalStats'[c] >= globalStats[c]
      BY DEF Open, Handler, Recv, RecvEnds, GetKernel, Generate, Horizontal, Vertical,
             CountPut, CountFrame, CountTime, CountAlloc, Send, SendFails, Count, shared,
             CountInv, CountersFit
  <2>3. \A c \in DOMAIN report : c \in Counter /\ report[c] <= globalStats'[c]
      BY <1>5, <2>2 DEF CountInv, CountersFit, ReportFits, Counter
  <2> QED
      BY <2>1, <2>3 DEF CountInv, ReportFits, ReportsLag
<1> QED
    BY <1>5, <1>6 DEF CountInv

\* A load: the counter that is loaded now is not far behind those loaded before it.
LEMMA LoadCounts ==
    ASSUME CountInv, Load
    PROVE  CountInv'
<1> DEFINE N == Cardinality(Stream)
<1>1. /\ N \in Nat
      /\ globalStats \in [Counter -> Nat]
      /\ globalStats["totalFrames"] <= globalStats["totalTimeNs"] + N
      /\ globalStats["totalTimeNs"] <= globalStats["totalAllocs"] + N
      /\ globalStats["totalFrames"] <= globalStats["totalAllocs"] + N
  <2>1. \A n \in 0 .. N : n <= N
      OBVIOUS
  <2>2. N \in Nat
      BY FS_CardinalityType, GoProcessorAssumption
  <2>3. /\ Cardinality(At({"count_time"})) \in 0 .. N
        /\ Cardinality(At({"count_alloc"})) \in 0 .. N
        /\ Cardinality(At({"count_time", "count_alloc"})) \in 0 .. N
      BY SomeAt
  <2> HIDE DEF N
  <2> QED
      BY <2>2, <2>3 DEF CountInv, CountersFit, Counter
<1> HIDE DEF N
<1>2. UNCHANGED << goroutines, globalStats >>
    BY DEF Load, shared
<1>3. CountersFit'
    BY <1>2 DEF goroutines, CountInv, CountersFit, At
<1>4. /\ Cardinality({}) = 0
      /\ Cardinality({"totalFrames"}) = 1
      /\ Cardinality({"totalFrames", "totalTimeNs"}) = 2
      /\ Cardinality({"totalFrames", "totalTimeNs", "totalAllocs"}) = 3
  <2>1. IsFiniteSet({"totalFrames"}) /\ Cardinality({"totalFrames"}) = 1
      BY FS_Singleton
  <2>2. /\ IsFiniteSet({"totalFrames"} \cup {"totalTimeNs"})
        /\ Cardinality({"totalFrames"} \cup {"totalTimeNs"}) = 2
      BY <2>1, FS_AddElement
  <2>3. {"totalFrames"} \cup {"totalTimeNs"} = {"totalFrames", "totalTimeNs"}
      OBVIOUS
  <2>4. Cardinality({"totalFrames", "totalTimeNs"} \cup {"totalAllocs"}) = 3
      BY <2>2, <2>3, FS_AddElement
  <2>5. {"totalFrames", "totalTimeNs"} \cup {"totalAllocs"}
            = {"totalFrames", "totalTimeNs", "totalAllocs"}
      OBVIOUS
  <2> QED
      BY <2>1, <2>2, <2>3, <2>4, <2>5, FS_EmptySet
<1>5. PICK i \in 1 .. 3 :
          /\ i = Cardinality(DOMAIN report) + 1
          /\ report' = [c \in DOMAIN report \cup {LoadOrder[i]} |->
                           IF c = LoadOrder[i] THEN globalStats[c] ELSE report[c]]
    BY DEF Load, LoadOrder
<1>6. \/ DOMAIN report = {} /\ LoadOrder[i] = "totalFrames"
      \/ DOMAIN report = {"totalFrames"} /\ LoadOrder[i] = "totalTimeNs"
      \/ DOMAIN report = {"totalFrames", "totalTimeNs"} /\ LoadOrder[i] = "totalAllocs"
    BY <1>4, <1>5 DEF CountInv, ReportFits, LoadOrder
<1>7. DOMAIN report' = DOMAIN report \cup {LoadOrder[i]}
    BY <1>5
<1>8. \A c \in DOMAIN report' :
          report'[c] = IF c = LoadOrder[i] THEN globalStats[c] ELSE report[c]
    BY <1>5, <1>7
<1>9. /\ DOMAIN report' \in { {}, {"totalFrames"}, {"totalFrames", "totalTimeNs"},
                              {"totalFrames", "totalTimeNs", "totalAllocs"} }
      /\ \A c \in DOMAIN report' : report'[c] \in Nat /\ report'[c] <= globalStats[c]
  <2>1. \A c \in DOMAIN report : report[c] \in Nat /\ report[c] <= globalStats[c]
      BY DEF CountInv, ReportFits
  <2>2. \A c \in DOMAIN report' : c \in Counter /\ globalStats[c] \in Nat
      BY <1>1, <1>6, <1>7 DEF Counter
  <2>3. ASSUME NEW c \in DOMAIN report'
        PROVE  report'[c] \in Nat /\ report'[c] <= globalStats[c]
      BY <1>7, <1>8, <2>1, <2>2
  <2>4. DOMAIN report' \in { {"totalFrames"}, {"totalFrames", "totalTimeNs"},
                             {"totalFrames", "totalTimeNs", "totalAllocs"} }
      BY <1>6, <1>7
  <2> QED
      BY <2>3, <2>4
<1>10. ReportsLag'
  <2> SUFFICES ASSUME NEW c \in DOMAIN report', NEW d \in DOMAIN report',
                      \/ c = "totalFrames" /\ d \in {"totalTimeNs", "totalAllocs"}
                      \/ c = "totalTimeNs" /\ d = "totalAllocs"
               PROVE  report'[c] <= report'[d] + N
      BY DEF ReportsLag, N
  <2>1. CASE d = LoadOrder[i]
    <3>1. c # d /\ report'[d] = globalStats[d]
        BY <1>8, <2>1
    <3>2. globalStats[c] <= globalStats[d] + N
        BY <1>1
    <3>3. {globalStats[c], globalStats[d]} \subseteq Nat
        BY <1>1 DEF Counter
    <3> QED
        BY <1>1, <1>9, <3>1, <3>2, <3>3
  <2>2. CASE d # LoadOrder[i]
    <3>1. c \in DOMAIN report /\ d \in DOMAIN report /\ c # LoadOrder[i]
        BY <1>6, <1>7, <2>2
    <3> QED
        BY <1>8, <2>2, <3>1 DEF CountInv, ReportFits, ReportsLag, N
  <2> QED
      BY <2>1, <2>2
<1> QED
    BY <1>2, <1>3, <1>9, <1>10 DEF CountInv, ReportFits

LEMMA CountInvariance == Spec => []CountInv
<1>1. Init => CountInv
    BY CountInit
<1>2. ASSUME CountInv, KernelInv, [Next]_vars PROVE CountInv'
  <2> USE <1>2
  <2>1. CASE \E s \in Stream : Open(s) \/ Handler(s)
      BY <2>1, StreamCounts DEF KernelInv, Shapes
  <2>2. CASE Load
      BY <2>2, LoadCounts
  <2>3. CASE SendReport
    <3>1. CountersFit'
        BY <2>3 DEF SendReport, goroutines, shared, CountInv, CountersFit, At
    <3>2. DOMAIN report' = {}
        BY <2>3 DEF SendReport, NoReport
    <3> QED
        BY <3>1, <3>2 DEF CountInv, ReportFits, ReportsLag
  <2>4. CASE UNCHANGED << goroutines, globalStats, report >>
      BY <2>4 DEF goroutines, CountInv, CountersFit, At, ReportFits, ReportsLag
  <2>5. CASE CollectGarbage \/ MainStep \/ Serve \/ Signal \/ Idle \/ UNCHANGED vars
      BY <2>4, <2>5 DEF CollectGarbage, MainStep, Listen, Notify, StopAccepting, Return, Serve,
                        Signal, Idle, shared, vars
  <2> QED
      BY <2>1, <2>2, <2>3, <2>5 DEF Next
<1> QED
    BY <1>1, <1>2, KernelInvariance, PTL DEF Spec

\* However long a report takes to load its counters, and whatever streams do in
\* between, it is short of less than a frame for each stream.
THEOREM LagIsBounded == Spec => []ReportsLag
<1>1. CountInv => ReportsLag
    BY DEF CountInv, ReportFits
<1> QED
    BY <1>1, CountInvariance, PTL
=============================================================================
