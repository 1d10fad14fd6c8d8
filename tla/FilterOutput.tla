---------------------------- MODULE FilterOutput ----------------------------
(***************************************************************************)
(* Which bytes of a reply a filter of the C++ processor computes, and what *)
(* the others hold (processor-cpp/src/processing/image_processor.cpp, and  *)
(* process_chunk_arena, process_chunk_heap and apply_filter_heap in        *)
(* server/grpc_server.cpp:144-431).                                        *)
(*                                                                         *)
(* A byte of memory is abstracted to its origin: the number of the frame   *)
(* it was computed from, Zero when a vector was filled, or Unset while new *)
(* memory was never written.  The three channels of a pixel are written    *)
(* together and stand as one byte here; a float takes FloatSize of them.   *)
(* The arena keeps its bytes over a reset; that is what it is for.         *)
(***************************************************************************)
EXTENDS ArenaState, Integers, SequencesExt

CONSTANTS Width, Height,   \* of every frame, in pixels
          Lanes,           \* floats of a vector register, 8 in the code
          KernelSize,      \* floats of the blur's kernel
          FloatSize,       \* sizeof(float) and alignof(float)
          Requests,        \* the pairs << mode, filter >> the streams ask for
          ResetInterval,   \* frames between two resets of the arena
          MaxFrames,       \* bound: frames of the stream
          BlockSize,       \* the arena's block size
          Base             \* the address of its blocks

Filter == {"blur", "sharpen", "edge", "grayscale"}
Mode == {"arena", "heap"}
Zero == 0
Unset == -1

VARIABLES mode,    \* the stream's memory mode
          arena,   \* its arena
          memory,  \* the origin of each byte of each block of the arena
          frame,   \* frames processed
          batch,   \* frames since the last reset
          reply    \* the origins of the last reply's bytes, by pixel

vars == << mode, arena, memory, frame, batch, reply >>

Pixels == Width * Height

Fresh(size) == [o \in 0 .. size - 1 |-> Unset]

Init ==
    /\ mode \in { request[1] : request \in Requests }
    /\ arena = Constructed(BlockSize, Base)
    /\ memory = << Fresh(BlockSize) >>
    /\ frame = 0 /\ batch = 0
    /\ reply = << >>

-----------------------------------------------------------------------------
(* The filters.                                                            *)

\* The columns of a row that the vertical pass stores Lanes at a time, and those
\* its second loop stores one by one.
VectorColumns ==
    UNION { x .. x + Lanes - 1 : x \in { n \in 0 .. Width - Lanes : n % Lanes = 0 } }

TailColumns == (Width \div Lanes) * Lanes .. Width - 1

Blurred ==
    { y * Width + x : y \in 0 .. Height - 1, x \in VectorColumns \cup TailColumns }

\* The pixels that have all eight neighbours.
Interior ==
    { y * Width + x : y \in 1 .. Height - 2, x \in 1 .. Width - 2 }

\* What a filter writes of its output in arena mode.
Written(filter) ==
    CASE filter = "blur" -> Blurred
      [] filter \in {"sharpen", "edge"} -> Interior
      [] filter = "grayscale" -> 0 .. Pixels - 1

\* The temporaries of a filter, in the order of their allocation: kernel and
\* temp of a blur, gray of an edge detection.
Temporaries(filter) ==
    CASE filter = "blur" -> << [size |-> KernelSize * FloatSize, align |-> FloatSize],
                               [size |-> Pixels * FloatSize, align |-> FloatSize] >>
      [] filter = "edge" -> << [size |-> Pixels, align |-> 1] >>
      [] OTHER -> << >>

\* apply_filter_heap: a sharpened frame begins as a copy of its input, the
\* edges of a frame as zeros, and every other pixel is computed.
HeapReply(filter, n) ==
    [p \in 0 .. Pixels - 1 |->
        IF filter = "edge" /\ p \notin Interior THEN Zero ELSE n]

-----------------------------------------------------------------------------
(* The arena's memory.                                                     *)

\* An arena, its memory and the regions taken so far, after one more request.
Take(m, q) ==
    LET al   == EffectiveAlignment(q.align)
        fits == FitsCurrent(m.arena, q.size, al)
        from == IF fits THEN m.arena ELSE Grown(m.arena, q.size, al, Base)
    IN  [arena   |-> Allocated(m.arena, q.size, al, Base),
         memory  |-> IF fits THEN m.memory
                     ELSE Append(m.memory, Fresh(Last(from.blocks).size)),
         regions |-> Append(m.regions, RegionTaken(from, q.size, al))]

\* Frame n is written to the given offsets of a region.
Stored(mem, region, offsets, n) ==
    [mem EXCEPT ![region.block] =
        [o \in DOMAIN @ |-> IF o - region.at \in offsets THEN n ELSE @[o]]]

Content(mem, region) == [p \in 0 .. Pixels - 1 |-> mem[region.block][region.at + p]]

\* process_chunk_arena: the output is allocated, the filter fills its own
\* temporaries and writes its output, and the output is copied to the reply.
\* ProcessMediaStream resets the arena once in ResetInterval frames.
ProcessArena(filter) ==
    LET n == frame + 1
        requests == << [size |-> Pixels, align |-> 1] >> \o Temporaries(filter)
        taken == FoldLeft(Take, [arena |-> arena, memory |-> memory, regions |-> << >>], requests)
        filled == FoldLeft(LAMBDA mem, r : Stored(mem, r, 0 .. r.len - 1, n),
                           taken.memory, Tail(taken.regions))
        stored == Stored(filled, taken.regions[1], Written(filter), n)
    IN  /\ mode = "arena" /\ frame < MaxFrames
        /\ frame' = n
        /\ reply' = Content(stored, taken.regions[1])
        /\ memory' = stored
        /\ batch' = (batch + 1) % ResetInterval
        /\ arena' = IF batch + 1 = ResetInterval THEN Reset(taken.arena) ELSE taken.arena
        /\ UNCHANGED mode

\* process_chunk_heap; the arena of the stream is not used.
ProcessHeap(filter) ==
    /\ mode = "heap" /\ frame < MaxFrames
    /\ frame' = frame + 1
    /\ reply' = HeapReply(filter, frame + 1)
    /\ UNCHANGED << mode, arena, memory, batch >>

Next ==
    \E request \in Requests :
        /\ request[1] = mode
        /\ ProcessArena(request[2]) \/ ProcessHeap(request[2])

Spec == Init /\ [][Next]_vars

-----------------------------------------------------------------------------
(* Properties.                                                             *)

\* Type invariant; memory mirrors the blocks of the arena byte for byte.
TypeOK ==
    /\ mode \in Mode
    /\ arena \in ArenaRecord
    /\ frame \in 0 .. MaxFrames /\ batch \in 0 .. ResetInterval - 1
    /\ Len(memory) = Len(arena.blocks)
    /\ \A i \in DOMAIN memory :
          /\ DOMAIN memory[i] = 0 .. arena.blocks[i].size - 1
          /\ \A o \in DOMAIN memory[i] : memory[i][o] \in -1 .. frame

\* Every byte of a reply is computed from the frame it answers or is a constant:
\* "the same algorithm works through usual heap allocations" (README.md:57, on
\* the mode without an arena), so no mode shows another frame's pixels or bytes
\* nobody wrote.
ReplyFromItsFrame == \A p \in DOMAIN reply : reply[p] \in {frame, Zero}

=============================================================================
