---------------------------- MODULE MediaStream ----------------------------
(***************************************************************************)
(* The C++ processor's ProcessMediaStream handler                          *)
(* (processor-cpp/src/server/grpc_server.cpp:65-301), one gRPC thread per  *)
(* stream, each with an arena of its own, and the ServerStats they share.  *)
(*                                                                         *)
(* ServerStats is a struct of atomics, so every update of one of its       *)
(* counters is a step of its own; what the thread does to its own locals   *)
(* in between goes with the next update.  The client of a stream sends     *)
(* chunks, ends the stream, or cancels it at any moment.                   *)
(***************************************************************************)
EXTENDS ArenaState, SequencesExt

CONSTANTS Stream,          \* the streams, one handler call each
          ModeHeader,      \* the values of the memory-mode metadata, "" when absent
          ResetInterval,   \* RESET_INTERVAL, the frames between two arena resets
          FrameRequests,   \* the requests a filter makes of the arena for a frame:
                           \* sequences of [size, align]
          HeapRequests,    \* the allocations a frame counts in heap mode
          Clients          \* bounds: the chunks the client of each stream sends at
                           \* most, one function for each set of clients

\* A filter asks for its output at least, a frame in heap mode counts the vector
\* of its output, and the sizes of frames are bounded by that of a message.
ASSUME MediaStreamAssumption ==
    /\ IsFiniteSet(Stream)
    /\ ResetInterval \in Nat \ {0}
    /\ FrameRequests \subseteq Seq([size : Nat, align : Alignments])
    /\ FrameRequests # {} /\ IsFiniteSet(FrameRequests)
    /\ HeapRequests \subseteq Nat \ {0}
    /\ Clients \subseteq [Stream -> Nat]
    /\ BlockSizes # {} /\ BaseAddresses # {}

VARIABLES pc,         \* where each handler is
          use_arena,  \* its memory mode
          arena,      \* its arena
          batch,      \* frames_in_batch
          seen,       \* its local copy of the peak in the compare-exchange loop, 0
                      \* outside of it
          cancelled,  \* context->IsCancelled()
          clients,    \* the bound that this behaviour is under
          received,   \* chunks read
          replied,    \* results written
          stats       \* the shared ServerStats

local == << use_arena, arena, batch, seen, received, replied >>
vars == << pc, local, cancelled, stats, clients >>

Counter ==
    {"total_frames_processed", "arena_mode_frames", "heap_mode_frames",
     "total_arena_allocations", "total_heap_allocations", "total_arena_resets",
     "active_arenas", "current_arena_size_bytes", "peak_arena_size_bytes"}

PC == {"idle", "read", "check", "process", "total", "mode", "publish", "load",
       "cas", "write", "batch", "abort", "tail", "close", "done"}

TypeOK ==
    /\ pc \in [Stream -> PC]
    /\ use_arena \in [Stream -> BOOLEAN]
    /\ arena \in [Stream -> ArenaRecord]
    /\ batch \in [Stream -> 0 .. ResetInterval]
    /\ seen \in [Stream -> Nat]
    /\ cancelled \in [Stream -> BOOLEAN]
    /\ \A s \in Stream : received[s] \in 0 .. clients[s] /\ replied[s] \in 0 .. clients[s]
    /\ stats \in [Counter -> Nat]

\* The 8 MB arena; its first block is obtained before anything is read.
FreshArena ==
    LET bs == CHOOSE bs \in BlockSizes : TRUE
    IN  Constructed(bs, CHOOSE base \in BaseAddresses : TRUE)

Init ==
    /\ clients \in Clients
    /\ pc = [s \in Stream |-> "idle"]
    /\ use_arena = [s \in Stream |-> TRUE]
    /\ arena = [s \in Stream |-> FreshArena]
    /\ batch = [s \in Stream |-> 0]
    /\ seen = [s \in Stream |-> 0]
    /\ cancelled = [s \in Stream |-> FALSE]
    /\ received = [s \in Stream |-> 0]
    /\ replied = [s \in Stream |-> 0]
    /\ stats = [c \in Counter |-> 0]

-----------------------------------------------------------------------------
At(s, from) == pc[s] = from

Goto(s, to) == pc' = [pc EXCEPT ![s] = to]

Bump(c, n) == stats' = [stats EXCEPT ![c] = @ + n]

UsesArena(header) == header \notin {"heap", "no_arena"}

\* The call arrives: its mode is read from the metadata.
Open(s) ==
    /\ At(s, "idle")
    /\ \E header \in ModeHeader :
          /\ use_arena' = [use_arena EXCEPT ![s] = UsesArena(header)]
          /\ Bump("active_arenas", IF UsesArena(header) THEN 1 ELSE 0)
    /\ Goto(s, "read")
    /\ UNCHANGED << arena, batch, seen, cancelled, received, replied >>

\* Read() returns a chunk the client sent, even one sent before it cancelled.
ReadChunk(s) ==
    /\ At(s, "read")
    /\ received[s] < clients[s]
    /\ received' = [received EXCEPT ![s] = @ + 1]
    /\ Goto(s, "check")
    /\ UNCHANGED << use_arena, arena, batch, seen, cancelled, replied, stats >>

\* Read() returns false: the client has ended the stream or is gone.
ReadEnd(s) ==
    /\ At(s, "read")
    /\ Goto(s, "tail")
    /\ UNCHANGED << local, cancelled, stats >>

\* Variant: a refused chunk is skipped without a reply.
CheckSkipsRefused(s) ==
    /\ At(s, "check")
    /\ \/ cancelled[s] /\ Goto(s, "abort")
       \/ ~ cancelled[s] /\ (Goto(s, "process") \/ Goto(s, "read"))
    /\ UNCHANGED << local, cancelled, stats >>

\* A chunk is processed, or refused at once for its media type or data size.
Check(s) ==
    /\ At(s, "check")
    /\ \/ cancelled[s] /\ Goto(s, "abort")
       \/ ~ cancelled[s] /\ (Goto(s, "process") \/ Goto(s, "publish"))
    /\ UNCHANGED << local, cancelled, stats >>

\* An arena after the requests of a filter, one allocate() each.
Served(ar, requests, base) ==
    FoldLeft(LAMBDA a, q : Allocated(a, q.size, EffectiveAlignment(q.align), base),
             ar, requests)

\* process_chunk_arena: the output and the filter's temporaries come from the
\* arena, but only one allocation is counted; copying the output into the
\* reply may throw, and then the frame is not counted.
ProcessArena(s) ==
    /\ At(s, "process")
    /\ use_arena[s]
    /\ \E requests \in FrameRequests, base \in BaseAddresses, threw \in BOOLEAN :
          /\ arena' = [arena EXCEPT ![s] = Served(@, requests, base)]
          /\ Goto(s, IF threw THEN "publish" ELSE "total")
    /\ Bump("total_arena_allocations", 1)
    /\ UNCHANGED << use_arena, batch, seen, received, replied, cancelled >>

\* process_chunk_heap: vectors, counted one by one as they are made (here in one
\* step), unless the very first throws.
ProcessHeap(s) ==
    /\ At(s, "process")
    /\ ~ use_arena[s]
    /\ \E n \in HeapRequests \cup {0}, threw \in BOOLEAN :
          /\ n = 0 => threw
          /\ Bump("total_heap_allocations", n)
          /\ Goto(s, IF threw THEN "publish" ELSE "total")
    /\ UNCHANGED << local, cancelled >>

CountTotal(s) ==
    /\ At(s, "total")
    /\ Bump("total_frames_processed", 1)
    /\ Goto(s, "mode")
    /\ UNCHANGED << local, cancelled >>

CountMode(s) ==
    /\ At(s, "mode")
    /\ Bump(IF use_arena[s] THEN "arena_mode_frames" ELSE "heap_mode_frames", 1)
    /\ Goto(s, "publish")
    /\ UNCHANGED << local, cancelled >>

\* After each chunk, refused ones included, an arena stream publishes its use.
Publish(s) ==
    /\ At(s, "publish")
    /\ stats' = IF use_arena[s]
                THEN [stats EXCEPT !["current_arena_size_bytes"] = arena[s].used_bytes]
                ELSE stats
    /\ Goto(s, IF use_arena[s] THEN "load" ELSE "write")
    /\ UNCHANGED << local, cancelled >>

LoadPeak(s) ==
    /\ At(s, "load")
    /\ seen' = [seen EXCEPT ![s] = stats["peak_arena_size_bytes"]]
    /\ Goto(s, "cas")
    /\ UNCHANGED << use_arena, arena, batch, received, replied, cancelled, stats >>

\* Variant: a plain store instead of the compare-exchange.
RaisePeakBlindly(s) ==
    /\ At(s, "cas")
    /\ LET mine == arena[s].peak_usage
       IN  stats' = IF mine > seen[s]
                    THEN [stats EXCEPT !["peak_arena_size_bytes"] = mine]
                    ELSE stats
    /\ Goto(s, "write")
    /\ UNCHANGED << local, cancelled >>

\* Variant: a failed compare-exchange leaves the expected value as it was.
RaisePeakNoReload(s) ==
    /\ At(s, "cas")
    /\ LET peak == stats["peak_arena_size_bytes"]
           mine == arena[s].peak_usage
       IN  \/ mine <= seen[s] /\ Goto(s, "write") /\ UNCHANGED stats
           \/ /\ mine > seen[s] /\ peak = seen[s]
              /\ stats' = [stats EXCEPT !["peak_arena_size_bytes"] = mine]
              /\ Goto(s, "write")
           \/ mine > seen[s] /\ peak # seen[s] /\ UNCHANGED << pc, stats >>
    /\ UNCHANGED << local, cancelled >>

\* One turn of the compare_exchange_weak loop; it may fail spuriously, and a
\* failure reloads the peak.
RaisePeak(s) ==
    /\ At(s, "cas")
    /\ LET peak == stats["peak_arena_size_bytes"]
           mine == arena[s].peak_usage
       IN  \/ /\ mine <= seen[s]
              /\ Goto(s, "write")
              /\ seen' = [seen EXCEPT ![s] = 0]
              /\ UNCHANGED stats
           \/ /\ mine > seen[s]
              /\ peak = seen[s]
              /\ stats' = [stats EXCEPT !["peak_arena_size_bytes"] = mine]
              /\ Goto(s, "write")
              /\ seen' = [seen EXCEPT ![s] = 0]
           \/ /\ mine > seen[s]
              /\ peak # seen[s]
              /\ seen' = [seen EXCEPT ![s] = peak]
              /\ UNCHANGED << pc, stats >>
    /\ UNCHANGED << use_arena, arena, batch, received, replied, cancelled >>

WriteReply(s) ==
    /\ At(s, "write")
    /\ replied' = [replied EXCEPT ![s] = @ + 1]
    /\ Goto(s, "batch")
    /\ UNCHANGED << use_arena, arena, batch, seen, received, cancelled, stats >>

\* Write() fails only when the call is broken or cancelled.
WriteFail(s) ==
    /\ At(s, "write")
    /\ cancelled[s]
    /\ Goto(s, "abort")
    /\ UNCHANGED << local, cancelled, stats >>

\* Variant: the reset is counted but not made.
CountBatchNoReset(s) ==
    /\ At(s, "batch")
    /\ LET full == use_arena[s] /\ batch[s] + 1 >= ResetInterval
           next == IF use_arena[s] THEN batch[s] + 1 ELSE 0
       IN  /\ batch' = [batch EXCEPT ![s] = IF full THEN 0 ELSE next]
           /\ Bump("total_arena_resets", IF full THEN 1 ELSE 0)
    /\ Goto(s, "read")
    /\ UNCHANGED << use_arena, arena, seen, received, replied, cancelled >>

\* Every ResetInterval frames the arena is reset.  In heap mode the counter of
\* frames is never looked at, and stays 0 here.
CountBatch(s) ==
    /\ At(s, "batch")
    /\ LET full == use_arena[s] /\ batch[s] + 1 >= ResetInterval
           next == IF use_arena[s] THEN batch[s] + 1 ELSE 0
       IN  /\ batch' = [batch EXCEPT ![s] = IF full THEN 0 ELSE next]
           /\ arena' = IF full THEN [arena EXCEPT ![s] = Reset(@)] ELSE arena
           /\ Bump("total_arena_resets", IF full THEN 1 ELSE 0)
    /\ Goto(s, "read")
    /\ UNCHANGED << use_arena, seen, received, replied, cancelled >>

\* Variant: returns at once, active_arenas is not given back.
AbortReturns(s) ==
    /\ At(s, "abort")
    /\ Bump("total_arena_resets", IF use_arena[s] THEN 1 ELSE 0)
    /\ Goto(s, "done")
    /\ UNCHANGED << local, cancelled >>

\* Cancelled, or the reply could not be written: the arena will be freed, which
\* counts as a reset.
Abort(s) ==
    /\ At(s, "abort")
    /\ Bump("total_arena_resets", IF use_arena[s] THEN 1 ELSE 0)
    /\ Goto(s, "close")
    /\ UNCHANGED << local, cancelled >>

\* The client ended the stream in the middle of a batch.
ResetTail(s) ==
    /\ At(s, "tail")
    /\ LET partial == use_arena[s] /\ 0 < batch[s] /\ batch[s] < ResetInterval
       IN  /\ arena' = IF partial THEN [arena EXCEPT ![s] = Reset(@)] ELSE arena
           /\ Bump("total_arena_resets", IF partial THEN 1 ELSE 0)
    /\ Goto(s, "close")
    /\ UNCHANGED << use_arena, batch, seen, received, replied, cancelled >>

Close(s) ==
    /\ At(s, "close")
    /\ stats' = IF use_arena[s] THEN [stats EXCEPT !["active_arenas"] = @ - 1] ELSE stats
    /\ Goto(s, "done")
    /\ UNCHANGED << local, cancelled >>

\* The client, or the deadline the gateway gives the call, cancels it.
Cancel(s) ==
    /\ pc[s] \notin {"idle", "done"}
    /\ ~ cancelled[s]
    /\ cancelled' = [cancelled EXCEPT ![s] = TRUE]
    /\ UNCHANGED << pc, local, stats >>

Handler(s) ==
    \/ Open(s) \/ ReadChunk(s) \/ ReadEnd(s) \/ Check(s)
    \/ ProcessArena(s) \/ ProcessHeap(s) \/ CountTotal(s) \/ CountMode(s)
    \/ Publish(s) \/ LoadPeak(s) \/ RaisePeak(s)
    \/ WriteReply(s) \/ WriteFail(s) \/ CountBatch(s)
    \/ Abort(s) \/ ResetTail(s) \/ Close(s)

Done == \A s \in Stream : pc[s] = "done"

Next ==
    \/ (\E s \in Stream : Handler(s) \/ Cancel(s)) /\ UNCHANGED clients
    \/ Done /\ UNCHANGED vars

\* Each handler has a thread that the system schedules, and gRPC returns from
\* Read: with a chunk, or with false once the client has ended or is gone.
Fairness == \A s \in Stream : WF_vars(Handler(s) /\ UNCHANGED clients)

Spec == Init /\ [][Next]_vars /\ Fairness

-----------------------------------------------------------------------------
(* Properties.                                                             *)

ArenaStreams == { s \in Stream : use_arena[s] }

\* The arena-mode handlers in progress.
InProgress == { s \in ArenaStreams : pc[s] \notin {"idle", "done"} }

\* Between the two increments for a frame.
BetweenCounts == { s \in Stream : pc[s] = "mode" }

\* Resets of arenas, and ends of streams that were cancelled or not answered.
ArenaResets ==
    SumFunctionOnSet([s \in Stream |-> arena[s].reset_count], ArenaStreams)
    + Cardinality({ s \in ArenaStreams : pc[s] \in {"close", "done"} /\ replied[s] < received[s] })

\* The shared counters tell what happened: every way out of the handler (end of
\* stream, cancellation, failed write) takes back exactly once what its entry
\* added to active_arenas; a frame is counted in the total and in its mode, and a
\* chunk that is refused, throws or belongs to a cancelled stream in neither; and
\* each reset of an arena and each early end is counted once.
CountersExact ==
    /\ stats["active_arenas"] = Cardinality(InProgress)
    /\ stats["total_frames_processed"] =
          stats["arena_mode_frames"] + stats["heap_mode_frames"] + Cardinality(BetweenCounts)
    /\ stats["total_arena_resets"] = ArenaResets

\* Whoever wins the compare-exchange race, the published peak covers the peak of
\* every arena whose handler is past its update, and is the peak of some arena.
PeakIsHighWater ==
    LET peak == stats["peak_arena_size_bytes"]
    IN  /\ \A s \in ArenaStreams :
              pc[s] \notin {"total", "mode", "publish", "load", "cas"}
              => arena[s].peak_usage <= peak
        /\ peak = 0 \/ \E s \in ArenaStreams : arena[s].peak_usage >= peak

\* At most one chunk of a stream is without its reply, and a stream that ends
\* because its client ended it has answered every chunk it read.
OneReplyPerChunk ==
    \A s \in Stream :
        /\ replied[s] <= received[s] /\ received[s] <= replied[s] + 1
        /\ pc[s] \in {"read", "batch", "tail"} => replied[s] = received[s]
        /\ received[s] # replied[s] /\ pc[s] \in {"close", "done"} => cancelled[s]

\* The most that a frame's requests can take, their padding included.
Demand(requests) ==
    SumFunction([i \in DOMAIN requests |->
                    requests[i].size + EffectiveAlignment(requests[i].align)])

LargestFrame == Max({ Demand(requests) : requests \in FrameRequests })

\* What a stream holds of its arena is bounded by one batch of frames, however
\* long the stream: the reset comes before the frame that would exceed it.
UseBounded ==
    \A s \in ArenaStreams : arena[s].used_bytes <= ResetInterval * LargestFrame

\* A handler whose stream ends or is cancelled returns and gives its arena back.
StreamsClose == \A s \in Stream : pc[s] = "read" ~> pc[s] = "done"
=============================================================================
