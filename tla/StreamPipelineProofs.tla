------------------------ MODULE StreamPipelineProofs ------------------------
(***************************************************************************)
(* Proofs about a stream through the gateway, for any number of frames and *)
(* any capacities: frames and results are conserved in order, and the      *)
(* pipeline implements InOrderPipe whatever fails.                         *)
(***************************************************************************)
EXTENDS StreamPipeline, SequenceTheorems, TLAPS

-----------------------------------------------------------------------------
(* Sequences of consecutive frames.                                        *)

\* s holds i + 1, i + 2, ...
Follows(s, i) == i \in Nat /\ s \in Seq(Nat) /\ \A k \in 1 .. Len(s) : s[k] = i + k

LEMMA FollowsLen ==
    ASSUME NEW s, NEW i, Follows(s, i)
    PROVE  Len(s) \in Nat /\ i \in Nat /\ (s # << >> => Len(s) >= 1) /\ (s = << >> => Len(s) = 0)
<1>1. s \in Seq(Nat) /\ i \in Nat
    BY DEF Follows
<1> QED
    BY <1>1, LenProperties, EmptySeq

LEMMA FollowsEmpty == \A i \in Nat : Follows(<< >>, i) /\ Len(<< >>) = 0
    BY DEF Follows

LEMMA FollowsOne == \A i \in Nat : Follows(<< i + 1 >>, i) /\ Len(<< i + 1 >>) = 1
    BY DEF Follows

LEMMA FollowsJoin ==
    ASSUME NEW s, NEW t, NEW i, Follows(s, i), Follows(t, i + Len(s))
    PROVE  Follows(s \o t, i) /\ Len(s \o t) = Len(s) + Len(t)
<1>1. s \in Seq(Nat) /\ t \in Seq(Nat) /\ i \in Nat /\ Len(s) \in Nat /\ Len(t) \in Nat
    BY LenProperties DEF Follows
<1>2. /\ s \o t \in Seq(Nat) /\ Len(s \o t) = Len(s) + Len(t)
      /\ \A k \in 1 .. Len(s) + Len(t) : (s \o t)[k] = IF k <= Len(s) THEN s[k] ELSE t[k - Len(s)]
    BY <1>1, ConcatProperties
<1>3. ASSUME NEW k \in 1 .. Len(s \o t) PROVE (s \o t)[k] = i + k
  <2>1. CASE k <= Len(s)
      BY <1>1, <1>2, <1>3, <2>1 DEF Follows
  <2>2. CASE k > Len(s)
    <3>1. k - Len(s) \in 1 .. Len(t)
        BY <1>1, <1>2, <1>3, <2>2
    <3>2. t[k - Len(s)] = i + Len(s) + (k - Len(s))
        BY <3>1 DEF Follows
    <3> QED
        BY <1>1, <1>2, <1>3, <2>2, <3>2
  <2> QED
      BY <1>1, <1>2, <2>1, <2>2
<1> QED
    BY <1>1, <1>2, <1>3 DEF Follows

\* The same for the first n.
LEMMA FirstJoin ==
    ASSUME NEW s, NEW t, NEW n, Follows(s, 0), Len(s) = n, Follows(t, n)
    PROVE  Follows(s \o t, 0) /\ Len(s \o t) = n + Len(t)
<1>1. n \in Nat /\ 0 + Len(s) = n
    BY FollowsLen
<1>2. Follows(t, 0 + Len(s))
    BY <1>1
<1> QED
    BY <1>2, FollowsJoin

LEMMA FollowsAppend ==
    ASSUME NEW s, NEW i, Follows(s, i)
    PROVE  Follows(Append(s, i + Len(s) + 1), i) /\ Len(Append(s, i + Len(s) + 1)) = Len(s) + 1
<1>1. s \in Seq(Nat) /\ i \in Nat /\ Len(s) \in Nat
    BY LenProperties DEF Follows
<1> DEFINE new == Append(s, i + Len(s) + 1)
<1>2. new \in Seq(Nat) /\ Len(new) = Len(s) + 1
    BY <1>1
<1>3. \A k \in 1 .. Len(s) + 1 : new[k] = IF k <= Len(s) THEN s[k] ELSE i + Len(s) + 1
    BY <1>1
<1>4. ASSUME NEW k \in 1 .. Len(s) + 1 PROVE new[k] = i + k
    BY <1>1, <1>3, <1>4 DEF Follows
<1> QED
    BY <1>1, <1>2, <1>4 DEF Follows

LEMMA FollowsTail ==
    ASSUME NEW s, NEW i, Follows(s, i), s # << >>
    PROVE  /\ Head(s) = i + 1
           /\ Follows(Tail(s), i + 1) /\ Len(Tail(s)) = Len(s) - 1
           /\ Follows(<< Head(s) >>, i) /\ Len(<< Head(s) >>) = 1
<1>1. s \in Seq(Nat) /\ i \in Nat /\ Len(s) \in Nat \ {0}
    BY EmptySeq DEF Follows
<1>2. Head(s) = i + 1
  <2>1. Head(s) = s[1]
      BY <1>1
  <2> QED
      BY <1>1, <2>1 DEF Follows
<1>3. /\ Tail(s) \in Seq(Nat) /\ Len(Tail(s)) = Len(s) - 1
      /\ \A k \in 1 .. Len(Tail(s)) : Tail(s)[k] = s[k + 1]
    BY <1>1, HeadTailProperties
<1>4. \A k \in 1 .. Len(s) - 1 : Tail(s)[k] = (i + 1) + k
    BY <1>1, <1>3 DEF Follows
<1> QED
    BY <1>1, <1>2, <1>3, <1>4, FollowsOne DEF Follows

\* All frames up to the n-th.
LEMMA UpToFollows == \A n \in Nat : Follows(UpTo(n), 0) /\ Len(UpTo(n)) = n
<1> TAKE n \in Nat
<1>1. UpTo(n) \in [1 .. n -> Nat]
    BY DEF UpTo
<1>2. UpTo(n) \in Seq(Nat) /\ Len(UpTo(n)) = n
    BY <1>1, SeqDef, LenProperties
<1>3. \A k \in 1 .. n : UpTo(n)[k] = 0 + k
    BY DEF UpTo
<1> QED
    BY <1>2, <1>3 DEF Follows

LEMMA FollowsIsUpTo ==
    ASSUME NEW s, Follows(s, 0)
    PROVE  s = UpTo(Len(s))
<1>1. s \in Seq(Nat) /\ Len(s) \in Nat
    BY LenProperties DEF Follows
<1>2. UpTo(Len(s)) \in Seq(Nat) /\ Len(UpTo(Len(s))) = Len(s)
    BY <1>1, UpToFollows DEF Follows
<1>3. \A k \in 1 .. Len(s) : s[k] = UpTo(Len(s))[k]
    BY <1>1 DEF UpTo, Follows
<1> QED
    BY <1>1, <1>2, <1>3, SeqEqual

-----------------------------------------------------------------------------
(* The way of the frames.                                                  *)

Shapes ==
    /\ DOMAIN pc = Goroutine /\ DOMAIN hand = Goroutine
    /\ request \in Requests /\ bodyRead \in 0 .. request.frames
    /\ pc["sender"] \in {"unborn", "range", "send", "done"}

\* Where the chunks in the sender's hand and in the channel start and end.
SentEnd == answered + Len(up)
HandEnd == SentEnd + Len(hand["sender"])
ChunksEnd == HandEnd + Len(chunks)

\* While the sender runs, nothing is missing between the processor and the reader,
\* but for the frame a cancelled reader had in its hands.
Unbroken ==
    /\ Follows(hand["sender"], SentEnd) /\ Follows(chunks, HandEnd)
    /\ \/ pc["reader"] = "offer" /\ bodyRead = ChunksEnd + 1
       \/ pc["reader"] # "offer" /\ bodyRead = ChunksEnd
       \/ pc["reader"] = "done" /\ ctxDone /\ ChunksEnd <= bodyRead

\* When the sender has ended, either all is sent or the call has failed.
SenderEnded ==
    \/ ctxDone \/ status # "none"
    \/ SentEnd = bodyRead /\ chunks = << >> /\ pc["reader"] = "done"

Forward ==
    /\ Follows(up, answered) /\ SentEnd <= bodyRead
    /\ pc["sender"] # "send" => hand["sender"] = << >>
    /\ IF pc["sender"] = "done" THEN SenderEnded ELSE Unbroken
    /\ "chunks" \in closed <=> pc["reader"] = "done"

-----------------------------------------------------------------------------
(* The way of the results.                                                 *)

Alive == conn = "open" /\ outcome \in {"none", "drained"}

WireEnd == Len(delivered) + Len(wire)
WriteEnd == WireEnd + Len(hand["handler"])
ResultsEnd == WriteEnd + Len(results)
PushEnd == ResultsEnd + Len(hand["receiver"])

\* While the handler writes, or until it has drained the results, none is missing.
NoneMissing ==
    /\ Follows(hand["handler"], WireEnd) /\ Follows(results, WriteEnd)
    /\ Follows(hand["receiver"], ResultsEnd) /\ Follows(down, PushEnd)
    /\ PushEnd + Len(down) = answered

Backward ==
    /\ Follows(delivered, 0) /\ Follows(wire, Len(delivered)) /\ WireEnd <= answered
    /\ pc["handler"] # "write" => hand["handler"] = << >>
    /\ pc["receiver"] # "push" => hand["receiver"] = << >>
    /\ Alive => NoneMissing

\* The context outlives neither the connection nor the handler, and the handler
\* drains the results only after the receiver has ended.
Cancelled ==
    /\ outcome # "none" <=> pc["handler"] = "done"
    /\ ctxDone => conn # "open" \/ outcome # "none"
    /\ outcome = "drained" \/ "results" \in closed => pc["receiver"] = "done"

IInv == Shapes /\ Forward /\ Backward /\ Cancelled

LEMMA InitEstablishes == Init => IInv
<1> SUFFICES ASSUME Init PROVE IInv
    OBVIOUS
<1>1. Shapes
    BY StreamPipelineAssumption DEF Init, Shapes, Goroutine
<1>2. /\ pc["sender"] = "unborn" /\ pc["receiver"] = "dial" /\ pc["handler"] = "select"
      /\ pc["reader"] = "read" /\ \A g \in Goroutine : hand[g] = << >>
    BY DEF Init
<1>3. Forward
    BY <1>2, FollowsEmpty DEF Init, Forward, Unbroken, SentEnd, HandEnd, ChunksEnd, Goroutine
<1>4. Backward
    BY <1>2, FollowsEmpty DEF Init, Backward, NoneMissing, WireEnd, WriteEnd, ResultsEnd, PushEnd,
                              Goroutine
<1>5. Cancelled
    BY <1>2 DEF Init, Cancelled
<1> QED
    BY <1>1, <1>3, <1>4, <1>5 DEF IInv

\* The lengths of what is under way.
LEMMA ForwardLens ==
    ASSUME Forward
    PROVE  /\ Len(up) \in Nat /\ answered \in Nat
           /\ pc["sender"] # "done" => Len(hand["sender"]) \in Nat /\ Len(chunks) \in Nat
    BY FollowsLen DEF Forward, Unbroken

LEMMA BackwardLens ==
    ASSUME Backward
    PROVE  /\ Len(delivered) \in Nat /\ Len(wire) \in Nat
           /\ Alive => /\ Len(hand["handler"]) \in Nat /\ Len(results) \in Nat
                       /\ Len(hand["receiver"]) \in Nat /\ Len(down) \in Nat
    BY FollowsLen DEF Backward, NoneMissing

-----------------------------------------------------------------------------
(* Places and reasons.                                                     *)

LEMMA Moves ==
    ASSUME DOMAIN pc = Goroutine, NEW g \in Goroutine, NEW from, NEW to, Move(g, from, to)
    PROVE  /\ DOMAIN pc' = Goroutine /\ pc[g] = from /\ pc'[g] = to /\ request' = request
           /\ \A other \in Goroutine \ {g} : pc'[other] = pc[other]
    BY DEF Move, At

LEMMA PlacesKeep == IInv /\ [Next]_vars => Shapes' /\ Cancelled'
<1> SUFFICES ASSUME IInv, [Next]_vars PROVE Shapes' /\ Cancelled'
    OBVIOUS
<1> USE DEF IInv, Shapes, Cancelled, Goroutine
<1>1. CASE Reader
  <2>1. request.frames \in Nat
      BY StreamPipelineAssumption
  <2>2. CASE ReaderPanics
      BY <2>2 DEF ReaderPanics, Move, At, channels, client
  <2>3. CASE ReadFrame
      BY <2>1, <2>3 DEF ReadFrame, Move, At, channels, client
  <2>4. CASE OfferChunk
      BY <2>4 DEF OfferChunk, Move, At, client
  <2>5. CASE ReaderEnds
      BY <2>5 DEF ReaderEnds, Move, At, client
  <2> QED
      BY <1>1, <2>2, <2>3, <2>4, <2>5 DEF Reader
<1>2. CASE Sender
  <2>1. CASE TakeChunk
      BY <2>1 DEF TakeChunk, Move, At, Hold, client
  <2>2. CASE SendChunk
      BY <2>2 DEF SendChunk, Move, At, Hold, channels, client
  <2>3. CASE SendFails
      BY <2>3 DEF SendFails, Move, At, Hold, client
  <2>4. CASE HalfClose
      BY <2>4 DEF HalfClose, Move, At, client
  <2> QED
      BY <1>2, <2>1, <2>2, <2>3, <2>4 DEF Sender
<1>3. CASE Receiver
  <2>1. CASE Dial
    <3>1. DOMAIN pc' = Goroutine /\ pc'["receiver"] = "recv" /\ pc'["sender"] = "range"
          /\ pc'["handler"] = pc["handler"] /\ pc["receiver"] = "dial"
        BY <2>1 DEF Dial, At
    <3>2. UNCHANGED << request, bodyRead, closed, hand, ctxDone, conn, outcome >>
        BY <2>1 DEF Dial, channels, client
    <3>3. Shapes'
        BY <3>1, <3>2
    <3>4. "results" \notin closed /\ outcome # "drained"
        BY <3>1
    <3> QED
        BY <3>1, <3>2, <3>3, <3>4
  <2>2. CASE DialFails \/ RecvFails \/ RecvEOF \/ AwaitSender
      BY <2>2 DEF DialFails, RecvFails, RecvEOF, AwaitSender, Fail, Move, At, channels, client
  <2>3. CASE Recv \/ PushResult \/ PushGivesUp
      BY <2>3 DEF Recv, PushResult, PushGivesUp, Fail, Move, At, Hold, channels, client
  <2>4. CASE CloseErrs \/ CloseResults
      BY <2>4 DEF CloseErrs, CloseResults, Move, At, client
  <2> QED
      BY <1>3, <2>1, <2>2, <2>3, <2>4 DEF Receiver
<1>4. CASE Handler
    BY <1>4 DEF Handler, TakeResult, WriteResult, WriteFails, ReturnOnResults, ReturnOnErrs, Return,
                Move, At, Hold, channels, client
<1>5. CASE Processor \/ ClientReads \/ Disconnect \/ DeadlinePasses \/ Terminated \/ UNCHANGED vars
    BY <1>5 DEF Processor, Answer, ProcessorEnds, ClientReads, Disconnect, DeadlinePasses,
                Terminated, vars, channels, client
<1> QED
    BY <1>1, <1>2, <1>3, <1>4, <1>5 DEF Next

-----------------------------------------------------------------------------
(* A step of each goroutine, on the way of the frames.                     *)

\* What leaves the frames alone, and does not bring a call back to life.
LEMMA ForwardSame ==
    ASSUME Forward, up' = up, answered' = answered, chunks' = chunks, bodyRead' = bodyRead,
           hand'["sender"] = hand["sender"],
           pc'["sender"] = pc["sender"] \/ (pc["sender"] = "unborn" /\ pc'["sender"] = "range"),
           pc'["reader"] = pc["reader"], "chunks" \in closed' <=> "chunks" \in closed,
           ctxDone => ctxDone', status # "none" => status' # "none"
    PROVE  Forward'
<1>2. CASE pc["sender"] = "done"
    BY <1>2 DEF Forward, SenderEnded, SentEnd
<1>3. CASE pc["sender"] # "done"
    BY <1>3 DEF Forward, Unbroken, SentEnd, HandEnd, ChunksEnd
<1> QED
    BY <1>2, <1>3

LEMMA ReaderForward == IInv /\ Reader => Forward'
<1> SUFFICES ASSUME IInv, Reader PROVE Forward'
    OBVIOUS
<1> USE DEF IInv, Shapes, Goroutine
<1>1. UNCHANGED << up, answered, hand, status, ctxDone >> /\ pc'["sender"] = pc["sender"]
    BY DEF Reader, ReaderPanics, ReadFrame, OfferChunk, ReaderEnds, Move, At, remote
<1>2. SentEnd' = SentEnd /\ HandEnd' = HandEnd
    BY <1>1 DEF SentEnd, HandEnd
<1>3. Len(up) \in Nat /\ answered \in Nat /\ SentEnd \in Nat /\ request.frames \in Nat
    BY ForwardLens, StreamPipelineAssumption DEF SentEnd
<1>4. CASE ReaderPanics
  <2>1. UNCHANGED << chunks, bodyRead, closed >> /\ pc["reader"] = "read" /\ pc'["reader"] = "panicked"
      BY <1>4 DEF ReaderPanics, Move, At, channels
  <2> QED
      BY <1>1, <1>2, <2>1 DEF Forward, SenderEnded, Unbroken, ChunksEnd
<1>5. CASE ReadFrame
  <2>1. UNCHANGED << chunks, closed >> /\ bodyRead' = bodyRead + 1
        /\ pc["reader"] = "read" /\ pc'["reader"] = "offer"
      BY <1>5 DEF ReadFrame, Move, At, channels
  <2> QED
      BY <1>1, <1>2, <1>3, <2>1 DEF Forward, SenderEnded, Unbroken, ChunksEnd
<1>6. CASE OfferChunk
  <2>1. UNCHANGED << closed, bodyRead >> /\ chunks' = Append(chunks, bodyRead)
        /\ pc["reader"] = "offer" /\ pc'["reader"] = "read"
      BY <1>6 DEF OfferChunk, Move, At
  <2>2. CASE pc["sender"] = "done"
      BY <1>1, <1>2, <2>1, <2>2 DEF Forward, SenderEnded
  <2>3. CASE pc["sender"] # "done"
    <3>1. Follows(chunks, HandEnd) /\ bodyRead = HandEnd + Len(chunks) + 1
        BY <2>1, <2>3 DEF Forward, Unbroken, ChunksEnd
    <3>2. Follows(chunks', HandEnd) /\ Len(chunks') = Len(chunks) + 1
        BY <2>1, <3>1, FollowsAppend
    <3>3. Len(chunks) \in Nat /\ HandEnd \in Nat
        BY <3>1, FollowsLen
    <3> QED
        BY <1>1, <1>2, <2>1, <2>3, <3>1, <3>2, <3>3 DEF Forward, Unbroken, ChunksEnd
  <2> QED
      BY <2>2, <2>3
<1>7. CASE ReaderEnds
  <2>1. UNCHANGED << chunks, bodyRead >> /\ closed' = closed \cup {"chunks"}
      BY <1>7 DEF ReaderEnds
  <2>4. /\ pc'["reader"] = "done" /\ pc["reader"] \in {"read", "offer"}
        /\ pc["reader"] = "offer" => ctxDone
    <3>1. CASE Move("reader", "read", "done")
        BY <3>1 DEF Move, At
    <3>2. CASE ctxDone /\ Move("reader", "offer", "done")
        BY <3>2 DEF Move, At
    <3> QED
        BY <1>7, <3>1, <3>2 DEF ReaderEnds
  <2>2. CASE pc["sender"] = "done"
      BY <1>1, <1>2, <2>1, <2>2, <2>4 DEF Forward, SenderEnded
  <2>3. CASE pc["sender"] # "done"
    <3>1. Follows(chunks, HandEnd) /\ ChunksEnd \in Nat /\ ChunksEnd' = ChunksEnd
        BY <1>2, <2>1, <2>3, FollowsLen DEF Forward, Unbroken, ChunksEnd
    <3> QED
        BY <1>1, <1>2, <2>1, <2>3, <2>4, <3>1 DEF Forward, Unbroken
  <2> QED
      BY <2>2, <2>3
<1> QED
    BY <1>4, <1>5, <1>6, <1>7 DEF Reader

LEMMA SenderForward == IInv /\ Sender => Forward'
<1> SUFFICES ASSUME IInv, Sender PROVE Forward'
    OBVIOUS
<1> USE DEF IInv, Shapes, Goroutine
<1>1. UNCHANGED << answered, bodyRead, status, ctxDone >> /\ pc'["reader"] = pc["reader"]
      /\ pc["sender"] # "done"
    BY DEF Sender, TakeChunk, SendChunk, SendFails, HalfClose, Move, At, remote
<1>2. Follows(up, answered) /\ Follows(hand["sender"], SentEnd) /\ Follows(chunks, HandEnd)
    BY <1>1 DEF Forward, Unbroken
<1>3. {Len(up), answered, Len(hand["sender"]), Len(chunks), bodyRead} \subseteq Nat
    BY <1>1, ForwardLens, StreamPipelineAssumption
<1>4. CASE TakeChunk
  <2>1. /\ UNCHANGED << up, closed >> /\ chunks # << >> /\ chunks' = Tail(chunks)
        /\ hand'["sender"] = << Head(chunks) >> /\ hand["sender"] = << >>
        /\ pc'["sender"] = "send"
      BY <1>4 DEF TakeChunk, Move, At, Hold, remote, Forward
  <2>2. HandEnd = SentEnd /\ SentEnd' = SentEnd
      BY <1>1, <1>2, <1>3, <2>1, FollowsLen DEF SentEnd, HandEnd
  <2>3. Follows(chunks, SentEnd)
      BY <1>2, <2>2
  <2>4. Follows(hand'["sender"], SentEnd) /\ Len(hand'["sender"]) = 1
        /\ Follows(chunks', SentEnd + 1) /\ Len(chunks') = Len(chunks) - 1
      BY <2>1, <2>3, FollowsTail
  <2>5. HandEnd' = SentEnd + 1 /\ ChunksEnd' = ChunksEnd
      BY <1>3, <2>2, <2>4 DEF HandEnd, ChunksEnd, SentEnd
  <2> QED
      BY <1>1, <1>2, <2>1, <2>2, <2>4, <2>5 DEF Forward, Unbroken
<1>5. CASE SendChunk
  <2>1. /\ UNCHANGED << chunks, closed >> /\ up' = up \o hand["sender"]
        /\ hand'["sender"] = << >> /\ pc["sender"] = "send" /\ pc'["sender"] = "range"
      BY <1>5 DEF SendChunk, Move, At, Hold, channels
  <2>2. Follows(up', answered) /\ Len(up') = Len(up) + Len(hand["sender"])
      BY <1>2, <2>1, FollowsJoin DEF SentEnd
  <2>3. SentEnd' = HandEnd /\ HandEnd' = HandEnd /\ ChunksEnd' = ChunksEnd
      BY <1>1, <1>3, <2>1, <2>2, FollowsEmpty DEF SentEnd, HandEnd, ChunksEnd
  <2>4. HandEnd \in Nat /\ Follows(hand'["sender"], HandEnd) /\ HandEnd <= ChunksEnd
      BY <1>3, <2>1, FollowsEmpty DEF SentEnd, HandEnd, ChunksEnd
  <2>5. ChunksEnd <= bodyRead /\ ChunksEnd \in Nat
      BY <1>1, <1>3 DEF Forward, Unbroken, ChunksEnd, HandEnd, SentEnd
  <2> QED
      BY <1>1, <1>2, <1>3, <2>1, <2>2, <2>3, <2>4, <2>5 DEF Forward, Unbroken
<1>6. CASE SendFails
  <2>1. /\ UNCHANGED << up, closed >> /\ hand'["sender"] = << >> /\ pc'["sender"] = "done"
        /\ (ctxDone \/ status # "none")
      BY <1>6 DEF SendFails, Move, At, Hold, remote
  <2> QED
      BY <1>1, <2>1 DEF Forward, SenderEnded, SentEnd
<1>7. CASE HalfClose
  <2>1. /\ UNCHANGED << up, chunks, hand >> /\ closed' = closed \cup {"up"}
        /\ hand["sender"] = << >> /\ chunks = << >> /\ "chunks" \in closed /\ pc'["sender"] = "done"
      BY <1>7 DEF HalfClose, Move, At, remote, Forward
  <2>2. Len(hand["sender"]) = 0 /\ Len(chunks) = 0
      BY <2>1, FollowsEmpty
  <2>3. pc["reader"] = "done" /\ (SentEnd = bodyRead \/ ctxDone)
      BY <1>1, <1>3, <2>1, <2>2 DEF Forward, Unbroken, ChunksEnd, HandEnd, SentEnd
  <2> QED
      BY <1>1, <2>1, <2>3 DEF Forward, SenderEnded, SentEnd
<1> QED
    BY <1>4, <1>5, <1>6, <1>7 DEF Sender

LEMMA ReceiverForward == IInv /\ Receiver => Forward'
<1> SUFFICES ASSUME IInv, Receiver PROVE Forward'
    OBVIOUS
<1> USE DEF IInv, Shapes, Goroutine
<1>1. up' = up /\ answered' = answered /\ chunks' = chunks /\ bodyRead' = bodyRead
      /\ ctxDone' = ctxDone /\ status' = status
    BY DEF Receiver, Dial, DialFails, Recv, RecvFails, RecvEOF, PushResult, PushGivesUp,
           AwaitSender, CloseErrs, CloseResults, channels, remote
<1>2. hand'["sender"] = hand["sender"]
    BY DEF Receiver, Dial, DialFails, Recv, RecvFails, RecvEOF, PushResult, PushGivesUp,
           AwaitSender, CloseErrs, CloseResults, Hold
<1>3. /\ pc'["sender"] = pc["sender"] \/ (pc["sender"] = "unborn" /\ pc'["sender"] = "range")
      /\ pc'["reader"] = pc["reader"]
  <2>1. CASE Dial
      BY <2>1 DEF Dial, At
  <2>2. CASE \E from, to : Move("receiver", from, to)
      BY <2>2, Moves
  <2>3. Dial \/ \E from, to : Move("receiver", from, to)
      BY DEF Receiver, DialFails, Recv, RecvFails, RecvEOF, PushResult, PushGivesUp, AwaitSender,
             CloseErrs, CloseResults, Fail
  <2> QED
      BY <2>1, <2>2, <2>3
<1>4. "chunks" \in closed' <=> "chunks" \in closed
    BY DEF Receiver, Dial, DialFails, Recv, RecvFails, RecvEOF, PushResult, PushGivesUp,
           AwaitSender, CloseErrs, CloseResults, channels
<1> QED
    BY <1>1, <1>2, <1>3, <1>4, ForwardSame

LEMMA HandlerForward == IInv /\ Handler => Forward'
<1> SUFFICES ASSUME IInv, Handler PROVE Forward'
    OBVIOUS
<1> USE DEF IInv, Shapes, Goroutine
<1>1. up' = up /\ answered' = answered /\ chunks' = chunks /\ bodyRead' = bodyRead
      /\ status' = status /\ closed' = closed
    BY DEF Handler, TakeResult, WriteResult, WriteFails, ReturnOnResults, ReturnOnErrs, Return,
           channels, remote
<1>4. ctxDone => ctxDone'
    BY DEF Handler, TakeResult, WriteResult, WriteFails, ReturnOnResults, ReturnOnErrs, Return
<1>2. hand'["sender"] = hand["sender"]
    BY DEF Handler, TakeResult, WriteResult, WriteFails, ReturnOnResults, ReturnOnErrs, Hold
<1>3. pc'["sender"] = pc["sender"] /\ pc'["reader"] = pc["reader"]
    BY DEF Handler, TakeResult, WriteResult, WriteFails, ReturnOnResults, ReturnOnErrs, Return,
           Move, At
<1>5. ("chunks" \in closed' <=> "chunks" \in closed) /\ (status # "none" => status' # "none")
    BY <1>1
<1>6. Forward
    BY DEF IInv
<1> QED
    BY <1>1, <1>2, <1>3, <1>4, <1>5, <1>6, ForwardSame, Zenon

LEMMA ForwardKeeps == IInv /\ [Next]_vars => Forward'
<1> SUFFICES ASSUME IInv, [Next]_vars PROVE Forward'
    OBVIOUS
<1> USE DEF IInv, Shapes, Goroutine
<1>3. CASE Answer
  <2>1. /\ UNCHANGED << pc, bodyRead, chunks, closed, hand, ctxDone, status >> /\ up # << >>
        /\ up' = Tail(up) /\ answered' = answered + 1
      BY <1>3 DEF Answer, channels
  <2>2. Follows(up', answered') /\ Len(up') = Len(up) - 1
      BY <2>1, FollowsTail DEF Forward
  <2>3. Len(up) \in Nat /\ answered \in Nat
      BY ForwardLens
  <2>4. SentEnd' = SentEnd
      BY <2>1, <2>2, <2>3 DEF SentEnd
  <2>5. HandEnd' = HandEnd /\ ChunksEnd' = ChunksEnd
      BY <2>1, <2>4 DEF HandEnd, ChunksEnd
  <2>6. /\ pc' = pc /\ hand' = hand /\ ctxDone' = ctxDone /\ status' = status
        /\ closed' = closed /\ chunks' = chunks /\ bodyRead' = bodyRead
      BY <2>1
  <2>7. SenderEnded' <=> SenderEnded
      BY <2>4, <2>6 DEF SenderEnded
  <2>8. Unbroken' <=> Unbroken
      BY <2>4, <2>5, <2>6 DEF Unbroken
  <2>9. IF pc["sender"] = "done" THEN SenderEnded' ELSE Unbroken'
      BY <2>7, <2>8 DEF Forward
  <2>10. /\ pc["sender"] # "send" => hand["sender"] = << >>
         /\ "chunks" \in closed <=> pc["reader"] = "done"
         /\ SentEnd <= bodyRead
      BY DEF Forward
  <2> QED
      BY <2>2, <2>4, <2>6, <2>9, <2>10, Zenon DEF Forward
<1>4. CASE ProcessorEnds \/ ClientReads \/ Disconnect \/ DeadlinePasses \/ Terminated \/ UNCHANGED vars
    BY <1>4, ForwardSame DEF ProcessorEnds, ClientReads, Disconnect, DeadlinePasses, Terminated,
                             vars, channels, remote
<1> QED
    BY <1>3, <1>4, ReaderForward, SenderForward, ReceiverForward, HandlerForward
       DEF Next, Processor

-----------------------------------------------------------------------------
(* A step of each goroutine, on the way of the results.                    *)

\* What leaves the results alone, and does not bring a request back to life.
LEMMA BackwardSame ==
    ASSUME Backward, delivered' = delivered, wire' = wire, results' = results, down' = down,
           answered' = answered, hand'["handler"] = hand["handler"],
           hand'["receiver"] = hand["receiver"],
           pc'["handler"] = "write" <=> pc["handler"] = "write",
           pc'["receiver"] = "push" <=> pc["receiver"] = "push",
           Alive' => Alive
    PROVE  Backward'
    BY DEF Backward, NoneMissing, WireEnd, WriteEnd, ResultsEnd, PushEnd

LEMMA ReceiverBackward == IInv /\ Receiver => Backward'
<1> SUFFICES ASSUME IInv, Receiver PROVE Backward'
    OBVIOUS
<1> USE DEF IInv, Shapes, Goroutine
<1>1. delivered' = delivered /\ wire' = wire /\ answered' = answered /\ conn' = conn
      /\ outcome' = outcome
    BY DEF Receiver, Dial, DialFails, Recv, RecvFails, RecvEOF, PushResult, PushGivesUp,
           AwaitSender, CloseErrs, CloseResults, remote, client
<1>2. hand'["handler"] = hand["handler"]
    BY DEF Receiver, Dial, DialFails, Recv, RecvFails, RecvEOF, PushResult, PushGivesUp,
           AwaitSender, CloseErrs, CloseResults, Hold
<1>3. Alive' = Alive /\ WireEnd' = WireEnd /\ WriteEnd' = WriteEnd
    BY <1>1, <1>2 DEF Alive, WireEnd, WriteEnd
<1>4. pc'["handler"] = pc["handler"]
  <2>1. CASE Dial
      BY <2>1 DEF Dial, At
  <2>2. CASE \E from, to : Move("receiver", from, to)
      BY <2>2, Moves
  <2>3. Dial \/ \E from, to : Move("receiver", from, to)
      BY DEF Receiver, DialFails, Recv, RecvFails, RecvEOF, PushResult, PushGivesUp, AwaitSender,
             CloseErrs, CloseResults, Fail
  <2> QED
      BY <2>1, <2>2, <2>3
<1>5. CASE Recv
  <2>1. /\ results' = results /\ down # << >> /\ down' = Tail(down)
        /\ hand'["receiver"] = << Head(down) >> /\ hand["receiver"] = << >>
        /\ pc'["receiver"] = "push"
      BY <1>5 DEF Recv, Move, At, Hold, channels, Backward
  <2>2. ASSUME Alive PROVE NoneMissing'
    <3>1. /\ Follows(hand["handler"], WireEnd) /\ Follows(results, WriteEnd)
          /\ Follows(down, PushEnd) /\ PushEnd + Len(down) = answered
          /\ ResultsEnd \in Nat /\ PushEnd = ResultsEnd /\ Len(down) \in Nat
        BY <2>1, <2>2, FollowsLen DEF Backward, NoneMissing, ResultsEnd, PushEnd
    <3>2. Follows(down, ResultsEnd)
        BY <3>1
    <3>3. /\ Follows(hand'["receiver"], ResultsEnd) /\ Len(hand'["receiver"]) = 1
          /\ Follows(down', ResultsEnd + 1) /\ Len(down') = Len(down) - 1
        BY <2>1, <3>2, FollowsTail
    <3>4. ResultsEnd' = ResultsEnd /\ PushEnd' = ResultsEnd + 1
        BY <1>3, <2>1, <3>3 DEF ResultsEnd, PushEnd
    <3> QED
        BY <1>1, <1>2, <1>3, <2>1, <3>1, <3>3, <3>4 DEF NoneMissing
  <2> QED
      BY <1>1, <1>2, <1>3, <1>4, <2>1, <2>2 DEF Backward
<1>6. CASE PushResult
  <2>1. /\ down' = down /\ results' = results \o hand["receiver"] /\ hand'["receiver"] = << >>
        /\ pc["receiver"] = "push" /\ pc'["receiver"] = "recv"
      BY <1>6 DEF PushResult, Move, At, Hold, remote
  <2>2. ASSUME Alive PROVE NoneMissing'
    <3>1. /\ Follows(hand["handler"], WireEnd) /\ Follows(results, WriteEnd)
          /\ Follows(hand["receiver"], WriteEnd + Len(results))
          /\ Follows(down, PushEnd) /\ PushEnd + Len(down) = answered
          /\ {Len(results), Len(hand["receiver"]), WriteEnd} \subseteq Nat
        BY <2>2, FollowsLen DEF Backward, NoneMissing, ResultsEnd
    <3>2. Follows(results', WriteEnd) /\ Len(results') = Len(results) + Len(hand["receiver"])
        BY <2>1, <3>1, FollowsJoin
    <3>3. ResultsEnd' = PushEnd /\ PushEnd \in Nat
        BY <1>3, <3>1, <3>2 DEF ResultsEnd, PushEnd
    <3>4. Follows(hand'["receiver"], PushEnd) /\ Len(hand'["receiver"]) = 0
        BY <2>1, <3>3, FollowsEmpty
    <3>5. PushEnd' = PushEnd
        BY <3>3, <3>4 DEF PushEnd
    <3> QED
        BY <1>1, <1>2, <1>3, <2>1, <3>1, <3>2, <3>3, <3>4, <3>5 DEF NoneMissing
  <2> QED
      BY <1>1, <1>2, <1>3, <1>4, <2>1, <2>2 DEF Backward
<1>7. CASE PushGivesUp
  <2>1. ctxDone /\ hand'["receiver"] = << >> /\ pc["receiver"] = "push"
      BY <1>7 DEF PushGivesUp, Fail, Move, At, Hold
  <2>2. ~ Alive'
      BY <1>3, <2>1 DEF Cancelled, Alive
  <2> QED
      BY <1>1, <1>2, <1>3, <1>4, <2>1, <2>2 DEF Backward
<1>8. CASE Dial \/ DialFails \/ RecvFails \/ RecvEOF \/ AwaitSender \/ CloseErrs \/ CloseResults
  <2>1. results' = results /\ down' = down /\ hand'["receiver"] = hand["receiver"]
      BY <1>8 DEF Dial, DialFails, RecvFails, RecvEOF, AwaitSender, CloseErrs, CloseResults,
                  channels, remote
  <2>2. pc["receiver"] # "push" /\ pc'["receiver"] # "push"
      BY <1>8 DEF Dial, DialFails, RecvFails, RecvEOF, AwaitSender, CloseErrs, CloseResults, Fail,
                  Move, At
  <2> QED
      BY <1>1, <1>2, <1>3, <1>4, <2>1, <2>2, BackwardSame
<1> QED
    BY <1>5, <1>6, <1>7, <1>8 DEF Receiver

LEMMA HandlerBackward == IInv /\ Handler => Backward'
<1> SUFFICES ASSUME IInv, Handler PROVE Backward'
    OBVIOUS
<1> USE DEF IInv, Shapes, Goroutine
<1>1. delivered' = delivered /\ answered' = answered /\ conn' = conn /\ down' = down
    BY DEF Handler, TakeResult, WriteResult, WriteFails, ReturnOnResults, ReturnOnErrs, remote, client
<1>2. hand'["receiver"] = hand["receiver"]
    BY DEF Handler, TakeResult, WriteResult, WriteFails, ReturnOnResults, ReturnOnErrs, Hold
<1>3. pc'["receiver"] = pc["receiver"]
    BY DEF Handler, TakeResult, WriteResult, WriteFails, ReturnOnResults, ReturnOnErrs, Return,
           Move, At
<1>4. CASE TakeResult
  <2>1. /\ wire' = wire /\ outcome' = outcome /\ results # << >> /\ results' = Tail(results)
        /\ hand'["handler"] = << Head(results) >> /\ hand["handler"] = << >>
        /\ pc'["handler"] = "write"
      BY <1>4 DEF TakeResult, Move, At, Hold, client, Backward
  <2>2. Alive' = Alive /\ WireEnd' = WireEnd
      BY <1>1, <2>1 DEF Alive, WireEnd
  <2>3. ASSUME Alive PROVE NoneMissing'
    <3>1. /\ Follows(results, WriteEnd) /\ Follows(hand["receiver"], ResultsEnd)
          /\ Follows(down, PushEnd) /\ PushEnd + Len(down) = answered
          /\ WireEnd \in Nat /\ WriteEnd = WireEnd /\ Len(results) \in Nat
        BY <2>1, <2>3, FollowsLen DEF Backward, NoneMissing, WriteEnd
    <3>2. Follows(results, WireEnd)
        BY <3>1
    <3>3. /\ Follows(hand'["handler"], WireEnd) /\ Len(hand'["handler"]) = 1
          /\ Follows(results', WireEnd + 1) /\ Len(results') = Len(results) - 1
        BY <2>1, <3>2, FollowsTail
    <3>4. WriteEnd' = WireEnd + 1 /\ ResultsEnd' = ResultsEnd /\ PushEnd' = PushEnd
        BY <1>2, <2>2, <3>1, <3>3 DEF WriteEnd, ResultsEnd, PushEnd
    <3> QED
        BY <1>1, <1>2, <2>2, <3>1, <3>3, <3>4 DEF NoneMissing
  <2> QED
      BY <1>1, <1>2, <1>3, <2>1, <2>2, <2>3 DEF Backward
<1>5. CASE WriteResult
  <2>1. /\ results' = results /\ wire' = wire \o hand["handler"] /\ hand'["handler"] = << >>
        /\ outcome' = outcome /\ conn = "open" /\ pc["handler"] = "write"
      BY <1>5 DEF WriteResult, Move, At, Hold, channels
  <2>2. Alive /\ NoneMissing
      BY <2>1 DEF Cancelled, Alive, Backward
  <2>3. /\ Follows(wire, Len(delivered)) /\ Follows(hand["handler"], Len(delivered) + Len(wire))
        /\ {Len(delivered), Len(wire), Len(hand["handler"]), Len(results),
            Len(hand["receiver"]), Len(down), answered} \subseteq Nat
      BY <2>2, BackwardLens, ForwardLens DEF Backward, NoneMissing, WireEnd
  <2>4. Follows(wire', Len(delivered)) /\ Len(wire') = Len(wire) + Len(hand["handler"])
      BY <2>1, <2>3, FollowsJoin
  <2>5. WireEnd' = WriteEnd /\ WriteEnd \in Nat
      BY <1>1, <2>3, <2>4 DEF WireEnd, WriteEnd
  <2>6. Follows(hand'["handler"], WriteEnd) /\ Len(hand'["handler"]) = 0
      BY <2>1, <2>5, FollowsEmpty
  <2>7. WriteEnd' = WriteEnd
      BY <2>5, <2>6 DEF WriteEnd
  <2>8. ResultsEnd' = ResultsEnd /\ PushEnd' = PushEnd
      BY <1>2, <2>1, <2>7 DEF ResultsEnd, PushEnd
  <2>9. WriteEnd <= answered
      BY <2>2, <2>3, <2>5 DEF NoneMissing, PushEnd, ResultsEnd
  <2>10. NoneMissing'
      BY <1>1, <1>2, <2>1, <2>2, <2>5, <2>6, <2>7, <2>8 DEF NoneMissing
  <2> QED
      BY <1>1, <1>2, <1>3, <2>1, <2>4, <2>5, <2>9, <2>10 DEF Backward
<1>6. CASE WriteFails
  <2>1. wire' = wire /\ hand'["handler"] = << >> /\ conn # "open"
      BY <1>6 DEF WriteFails, Move, At, Hold, client
  <2> QED
      BY <1>1, <1>2, <1>3, <2>1 DEF Backward, Alive, WireEnd
<1>7. CASE ReturnOnResults \/ ReturnOnErrs
  <2>1. /\ wire' = wire /\ results' = results /\ hand'["handler"] = hand["handler"]
        /\ pc["handler"] = "select" /\ pc'["handler"] = "done"
      BY <1>7 DEF ReturnOnResults, ReturnOnErrs, Return, Move, At, channels, client
  <2>2. outcome = "none"
      BY <2>1 DEF Cancelled
  <2>3. Alive' => Alive
      BY <1>1, <2>2 DEF Alive
  <2> QED
      BY <1>1, <1>2, <1>3, <2>1, <2>3, BackwardSame
<1> QED
    BY <1>4, <1>5, <1>6, <1>7 DEF Handler

LEMMA BackwardKeeps == IInv /\ [Next]_vars => Backward'
<1> SUFFICES ASSUME IInv, [Next]_vars PROVE Backward'
    OBVIOUS
<1> USE DEF IInv
<1>1. CASE Reader \/ Sender
  <2>1. /\ delivered' = delivered /\ wire' = wire /\ results' = results /\ down' = down
        /\ answered' = answered /\ conn' = conn /\ outcome' = outcome
      BY <1>1 DEF Reader, ReaderPanics, ReadFrame, OfferChunk, ReaderEnds, Sender, TakeChunk,
                  SendChunk, SendFails, HalfClose, channels, remote, client
  <2>2. hand'["handler"] = hand["handler"] /\ hand'["receiver"] = hand["receiver"]
      BY <1>1 DEF Reader, ReaderPanics, ReadFrame, OfferChunk, ReaderEnds, Sender, TakeChunk,
                  SendChunk, SendFails, HalfClose, Hold, Shapes, Goroutine
  <2>3. pc'["handler"] = pc["handler"] /\ pc'["receiver"] = pc["receiver"]
      BY <1>1 DEF Reader, ReaderPanics, ReadFrame, OfferChunk, ReaderEnds, Sender, TakeChunk,
                  SendChunk, SendFails, HalfClose, Move, At, Shapes, Goroutine
  <2> QED
      BY <2>1, <2>2, <2>3, BackwardSame DEF Alive
<1>2. CASE Answer
  <2>1. /\ UNCHANGED << pc, hand, results, client, outcome >>
        /\ up # << >> /\ down' = Append(down, Head(up)) /\ answered' = answered + 1
      BY <1>2 DEF Answer, channels
  <2>2. Head(up) = answered + 1 /\ answered \in Nat
      BY <2>1, FollowsTail, ForwardLens DEF Forward
  <2>3. /\ WireEnd' = WireEnd /\ WriteEnd' = WriteEnd /\ ResultsEnd' = ResultsEnd
        /\ PushEnd' = PushEnd /\ Alive' = Alive
      BY <2>1 DEF WireEnd, WriteEnd, ResultsEnd, PushEnd, Alive, client
  <2>4. ASSUME Alive PROVE NoneMissing'
    <3>1. Follows(down, PushEnd) /\ answered = PushEnd + Len(down) /\ PushEnd \in Nat /\ Len(down) \in Nat
        BY <2>4, FollowsLen DEF Backward, NoneMissing
    <3>2. Follows(down', PushEnd) /\ Len(down') = Len(down) + 1
        BY <2>1, <2>2, <3>1, FollowsAppend
    <3> QED
        BY <2>1, <2>3, <2>4, <3>1, <3>2 DEF Backward, NoneMissing
  <2>5. WireEnd' <= answered'
    <3>1. WireEnd \in Nat /\ WireEnd <= answered
        BY BackwardLens DEF Backward, WireEnd
    <3> QED
        BY <2>1, <2>2, <2>3, <3>1
  <2> QED
      BY <2>1, <2>3, <2>4, <2>5 DEF Backward, client
<1>3. CASE ClientReads
  <2>1. /\ UNCHANGED << pc, hand, results, down, answered, conn, outcome >>
        /\ wire # << >> /\ delivered' = Append(delivered, Head(wire)) /\ wire' = Tail(wire)
      BY <1>3 DEF ClientReads, channels, remote
  <2>2. Follows(delivered, 0) /\ Follows(wire, Len(delivered))
        /\ Len(delivered) \in Nat /\ Len(wire) \in Nat
      BY BackwardLens DEF Backward
  <2>3. /\ Head(wire) = Len(delivered) + 1
        /\ Follows(wire', Len(delivered) + 1) /\ Len(wire') = Len(wire) - 1
      BY <2>1, <2>2, FollowsTail
  <2>4. Follows(delivered', 0) /\ Len(delivered') = Len(delivered) + 1
    <3>1. delivered' = Append(delivered, 0 + Len(delivered) + 1)
        BY <2>1, <2>2, <2>3
    <3> QED
        BY <2>2, <3>1, FollowsAppend
  <2>5. WireEnd' = WireEnd
      BY <2>2, <2>3, <2>4 DEF WireEnd
  <2>6. WriteEnd' = WriteEnd /\ ResultsEnd' = ResultsEnd /\ PushEnd' = PushEnd /\ Alive' = Alive
      BY <2>1, <2>5 DEF WriteEnd, ResultsEnd, PushEnd, Alive
  <2> QED
      BY <2>1, <2>3, <2>4, <2>5, <2>6 DEF Backward, NoneMissing
<1>4. CASE ProcessorEnds \/ Disconnect \/ DeadlinePasses \/ Terminated \/ UNCHANGED vars
  <2>1. UNCHANGED << delivered, wire, results, down, answered, hand, pc, outcome >>
        /\ (conn' = "open" => conn = "open")
      BY <1>4 DEF ProcessorEnds, Disconnect, DeadlinePasses, Terminated, vars, channels, remote, client
  <2> QED
      BY <2>1, BackwardSame DEF Alive
<1> QED
    BY <1>1, <1>2, <1>3, <1>4, ReceiverBackward, HandlerBackward DEF Next, Processor

LEMMA IInvInvariance == Spec => []IInv
<1>1. IInv /\ [Next]_vars => IInv'
    BY PlacesKeep, ForwardKeeps, BackwardKeeps DEF IInv
<1> QED
    BY <1>1, InitEstablishes, PTL DEF Spec

-----------------------------------------------------------------------------
(* The theorems.                                                           *)

LEMMA FramesInOrder ==
    ASSUME IInv, ~ ctxDone, status = "none"
    PROVE  FramesUnderWay = UpTo(bodyRead)
<1> USE DEF IInv, Shapes
<1> DEFINE offered == IF At("reader", "offer") THEN << bodyRead >> ELSE << >>
           sentTo == UpTo(answered) \o up
           handTo == sentTo \o hand["sender"]
           chunksTo == handTo \o chunks
<1>1. answered \in Nat /\ Len(up) \in Nat
    BY ForwardLens
<1>2. Follows(sentTo, 0) /\ Len(sentTo) = SentEnd
  <2>1. Follows(UpTo(answered), 0) /\ Len(UpTo(answered)) = answered
      BY <1>1, UpToFollows
  <2>2. Follows(up, answered)
      BY DEF Forward
  <2> QED
      BY <2>1, <2>2, FirstJoin DEF SentEnd
<1>3. Follows(hand["sender"], SentEnd) /\ Follows(chunks, HandEnd)
  <2>1. CASE pc["sender"] = "done"
    <3>1. hand["sender"] = << >> /\ chunks = << >>
        BY <2>1 DEF Forward, SenderEnded
    <3> QED
        BY <1>1, <3>1, FollowsEmpty DEF SentEnd, HandEnd
  <2>2. CASE pc["sender"] # "done"
      BY <2>2 DEF Forward, Unbroken
  <2> QED
      BY <2>1, <2>2
<1>4. Follows(handTo, 0) /\ Len(handTo) = HandEnd
    BY <1>1, <1>2, <1>3, FirstJoin DEF HandEnd
<1>5. Follows(chunksTo, 0) /\ Len(chunksTo) = ChunksEnd /\ ChunksEnd \in Nat
  <2>1. HandEnd \in Nat /\ Len(chunks) \in Nat
      BY <1>3, FollowsLen
  <2>2. ChunksEnd \in Nat
      BY <2>1 DEF ChunksEnd
  <2> QED
      BY <1>3, <1>4, <2>2, FirstJoin DEF ChunksEnd
<1>6. \/ pc["reader"] = "offer" /\ bodyRead = ChunksEnd + 1
      \/ pc["reader"] # "offer" /\ bodyRead = ChunksEnd
  <2>1. CASE pc["sender"] = "done"
    <3>1. SentEnd = bodyRead /\ Len(hand["sender"]) = 0 /\ Len(chunks) = 0 /\ pc["reader"] = "done"
        BY <2>1, FollowsEmpty DEF Forward, SenderEnded
    <3> QED
        BY <1>1, <3>1 DEF ChunksEnd, HandEnd, SentEnd
  <2>2. CASE pc["sender"] # "done"
      BY <2>2 DEF Forward, Unbroken
  <2> QED
      BY <2>1, <2>2
<1>7. Follows(offered, ChunksEnd) /\ ChunksEnd + Len(offered) = bodyRead
    BY <1>5, <1>6, FollowsOne, FollowsEmpty DEF At
<1>8. Follows(chunksTo \o offered, 0) /\ Len(chunksTo \o offered) = bodyRead
    BY <1>5, <1>7, FirstJoin
<1> QED
    BY <1>8, FollowsIsUpTo DEF FramesUnderWay

LEMMA ResultsInOrder ==
    ASSUME IInv, Alive
    PROVE  ResultsUnderWay = UpTo(answered)
<1> USE DEF IInv
<1> DEFINE wireTo == delivered \o wire
           writeTo == wireTo \o hand["handler"]
           resultsTo == writeTo \o results
           pushTo == resultsTo \o hand["receiver"]
<1>1. NoneMissing /\ Follows(delivered, 0) /\ Follows(wire, Len(delivered)) /\ Len(delivered) \in Nat
    BY BackwardLens DEF Backward
<1>2. Follows(wireTo, 0) /\ Len(wireTo) = WireEnd
    BY <1>1, FirstJoin DEF WireEnd
<1>3. WireEnd \in Nat /\ WriteEnd \in Nat /\ ResultsEnd \in Nat /\ PushEnd \in Nat
    BY <1>1, FollowsLen DEF NoneMissing
<1>4. Follows(writeTo, 0) /\ Len(writeTo) = WriteEnd
    BY <1>1, <1>2, <1>3, FirstJoin DEF NoneMissing, WriteEnd
<1>5. Follows(resultsTo, 0) /\ Len(resultsTo) = ResultsEnd
    BY <1>1, <1>3, <1>4, FirstJoin DEF NoneMissing, ResultsEnd
<1>6. Follows(pushTo, 0) /\ Len(pushTo) = PushEnd
    BY <1>1, <1>3, <1>5, FirstJoin DEF NoneMissing, PushEnd
<1>7. Follows(pushTo \o down, 0) /\ Len(pushTo \o down) = answered
    BY <1>1, <1>3, <1>6, FirstJoin DEF NoneMissing
<1> QED
    BY <1>7, FollowsIsUpTo DEF ResultsUnderWay

\* Frames reach the processor and results the client, none lost, doubled or
\* overtaken, wherever the goroutines are, as long as the request lives.
THEOREM Conservation == Spec => []FramesConserved
<1>1. IInv => FramesConserved
    BY FramesInOrder, ResultsInOrder DEF FramesConserved, Alive
<1> QED
    BY <1>1, IInvInvariance, PTL

\* A step of the pipeline takes a frame, gives the client its next result, or
\* changes nothing the client sees.
LEMMA StepRefines == IInv /\ [Next]_vars => [Pipe!Next]_(<< bodyRead, delivered >>)
<1> SUFFICES ASSUME IInv, [Next]_vars
             PROVE  Pipe!Next \/ (bodyRead' = bodyRead /\ delivered' = delivered)
    OBVIOUS
<1> USE DEF IInv, Shapes
<1>1. CASE ReadFrame
  <2>1. bodyRead < MaxFrames /\ bodyRead' = bodyRead + 1 /\ delivered' = delivered
    <3>1. request.frames \in 0 .. MaxFrames /\ MaxFrames \in Nat
        BY StreamPipelineAssumption
    <3> QED
        BY <1>1, <3>1 DEF ReadFrame, client
  <2> QED
      BY <2>1 DEF Pipe!Next, Pipe!Send
<1>2. CASE ClientReads
  <2>1. /\ bodyRead' = bodyRead /\ wire # << >> /\ delivered' = Append(delivered, Head(wire))
      BY <1>2 DEF ClientReads
  <2>2. Follows(wire, Len(delivered)) /\ Len(delivered) \in Nat /\ Len(wire) \in Nat
      BY BackwardLens DEF Backward
  <2>3. Head(wire) = Len(delivered) + 1 /\ Len(wire) >= 1
      BY <2>1, <2>2, FollowsTail, FollowsLen
  <2>4. Len(delivered) + Len(wire) <= answered /\ answered + Len(up) <= bodyRead
        /\ answered \in Nat /\ Len(up) \in Nat /\ bodyRead \in Int
      BY ForwardLens DEF Backward, Forward, WireEnd, SentEnd
  <2> QED
      BY <2>1, <2>2, <2>3, <2>4 DEF Pipe!Next, Pipe!Receive
<1>3. CASE Next /\ ~ ReadFrame /\ ~ ClientReads
    BY <1>3 DEF Next, Reader, ReaderPanics, OfferChunk, ReaderEnds, Sender, TakeChunk, SendChunk,
                SendFails, HalfClose, Receiver, Dial, DialFails, Recv, RecvFails, RecvEOF, PushResult,
                PushGivesUp, AwaitSender, CloseErrs, CloseResults, Handler, TakeResult, WriteResult,
                WriteFails, ReturnOnResults, ReturnOnErrs, Processor, Answer, ProcessorEnds,
                Disconnect, DeadlinePasses, Terminated, vars, client
<1> QED
    BY <1>1, <1>2, <1>3 DEF vars, client

\* The client of a stream sees a bounded in-order pipe, whatever fails.
THEOREM Refinement == Spec => ImplementsInOrderPipe
<1>1. Init => Pipe!Init
    BY DEF Init, Pipe!Init
<1> QED
    BY <1>1, IInvInvariance, StepRefines, PTL DEF Spec, ImplementsInOrderPipe, Pipe!Spec, Pipe!vars
=============================================================================
