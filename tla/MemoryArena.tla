---------------------------- MODULE MemoryArena ----------------------------
(***************************************************************************)
(* A set of arena::MemoryArena objects used by their owners                *)
(* (processor-cpp/src/arena).  Every member function takes the arena's     *)
(* mutex for its whole body, so one call is one step; the two moves take   *)
(* none, and C++ lets nobody else use either object meanwhile.             *)
(*                                                                         *)
(* regions records, for every arena, the memory its callers may still use: *)
(* what allocate() returned since the last reset() or clear().  The code   *)
(* keeps no such list; it is what the pointers in the callers' hands mean. *)
(***************************************************************************)
EXTENDS ArenaState, FiniteSetsExt

CONSTANTS Arena,           \* the arena objects
          Sizes,           \* the sizes callers ask for, 0 among them
          MaxBlocks,       \* bounds: blocks of one arena,
          MaxAllocations,  \* its successful allocations
          MaxResets        \* and its resets

ASSUME MemoryArenaAssumption ==
    /\ Sizes \subseteq Nat
    /\ MaxBlocks \in Nat
    /\ MaxAllocations \in Nat
    /\ MaxResets \in Nat

VARIABLES arena,    \* the object of each name
          regions   \* the regions of each arena its callers may still use

vars == << arena, regions >>

Region == [block : Nat, at : Nat, len : Nat, align : Nat]

TypeOK ==
    /\ arena \in [Arena -> ArenaRecord]
    /\ regions \in [Arena -> SUBSET Region]

\* The constructor, with and without memory for the first block.
Init ==
    /\ arena \in [Arena -> { Constructed(bs, base) :
                                bs \in BlockSizes, base \in BaseAddresses }
                           \cup { Blank(bs) : bs \in BlockSizes }]
    /\ regions = [a \in Arena |-> {}]

-----------------------------------------------------------------------------
\* allocate() served by the current block.
AllocateFast(a, n, al) ==
    /\ n > 0
    /\ arena[a].total_allocations < MaxAllocations
    /\ FitsCurrent(arena[a], n, al)
    /\ arena' = [arena EXCEPT ![a] = TakeFromCurrent(@, n, al)]
    /\ regions' = [regions EXCEPT ![a] = @ \cup {RegionTaken(arena[a], n, al)}]

\* allocate() served by a new block, at whatever address the system gives.
AllocateSlow(a, n, al, base) ==
    /\ n > 0
    /\ arena[a].total_allocations < MaxAllocations
    /\ Len(arena[a].blocks) < MaxBlocks
    /\ ~ FitsCurrent(arena[a], n, al)
    /\ arena' = [arena EXCEPT ![a] = TakeFromNew(@, n, al, base)]
    /\ regions' = [regions EXCEPT ![a] =
                     @ \cup {RegionTaken(Grown(arena[a], n, al, base), n, al)}]

\* allocate() returning nullptr: nothing asked for, or no memory (bad_alloc).
AllocateNull(a, n, al) ==
    /\ n = 0 \/ ~ FitsCurrent(arena[a], n, al)
    /\ UNCHANGED vars

Allocate(a) ==
    \E n \in Sizes, asked \in Alignments :
        LET al == EffectiveAlignment(asked)
        IN  \/ AllocateFast(a, n, al)
            \/ \E base \in BaseAddresses : AllocateSlow(a, n, al, base)
            \/ AllocateNull(a, n, al)

\* reset() ends the life of every region of the arena.
ResetArena(a) ==
    /\ arena[a].reset_count < MaxResets
    /\ arena' = [arena EXCEPT ![a] = Reset(@)]
    /\ regions' = [regions EXCEPT ![a] = {}]

\* clear(), also the destructor's body.
Clear(a) ==
    /\ arena' = [arena EXCEPT ![a] = Emptied(@)]
    /\ regions' = [regions EXCEPT ![a] = {}]

\* Variant: the source's counters are not reset.
MoveAssignKeepsCounters(dst, src) ==
    IF dst = src
    THEN UNCHANGED vars
    ELSE /\ arena' = [arena EXCEPT ![dst] = arena[src],
                                   ![src].blocks = << >>, ![src].current = 0]
         /\ regions' = [regions EXCEPT ![dst] = regions[src], ![src] = {}]

\* Variant: the blocks are shared instead of handed over.
MoveAssignShares(dst, src) ==
    /\ arena' = [arena EXCEPT ![dst] = arena[src]]
    /\ regions' = [regions EXCEPT ![dst] = regions[src]]

\* operator=(MemoryArena&&): the target's own blocks are freed, and the
\* source's blocks, with the regions in them, change owner.  Moving an arena
\* to itself does nothing.
MoveAssign(dst, src) ==
    IF dst = src
    THEN UNCHANGED vars
    ELSE /\ arena' = [arena EXCEPT ![dst] = arena[src], ![src] = Emptied(@)]
         /\ regions' = [regions EXCEPT ![dst] = regions[src], ![src] = {}]

Next ==
    \/ \E a \in Arena : Allocate(a) \/ ResetArena(a) \/ Clear(a)
    \/ \E dst, src \in Arena : MoveAssign(dst, src)

Spec == Init /\ [][Next]_vars

-----------------------------------------------------------------------------
(* Properties.                                                             *)

Overlap(r, s) ==
    /\ r.block = s.block
    /\ r.at < s.at + s.len
    /\ s.at < r.at + r.len

\* No two pointers a caller may still use designate a common byte: neither
\* the fall-back to a new block nor a reset followed by a fall-back to a block
\* that was full before hands a used byte out twice (allocate, reset).
RegionsDisjoint ==
    \A a \in Arena : \A r, s \in regions[a] : r # s => ~ Overlap(r, s)

\* Every usable region lies in the used part of a block its arena still owns,
\* which does not reach beyond the block, at an address with the alignment asked
\* for, even in a block that begins at an address with a smaller alignment
\* (allocate, both moves).
RegionsBacked ==
    \A a \in Arena : \A r \in regions[a] :
        /\ r.block \in DOMAIN arena[a].blocks
        /\ LET b == arena[a].blocks[r.block]
           IN  /\ r.at + r.len <= b.used /\ b.used <= b.size
               /\ (b.base + r.at) % r.align = 0

\* The counters other threads read without the mutex agree with the blocks:
\* used_bytes_ is the sum of the blocks' used parts, allocated_bytes_ the sum
\* of their sizes, and no accounted use exceeds the recorded peak, through
\* every mixture of allocate, reset, clear and moves.
CountersAgree ==
    \A a \in Arena :
        LET bs == arena[a].blocks
        IN  /\ arena[a].used_bytes = SumFunction([i \in DOMAIN bs |-> bs[i].used])
            /\ arena[a].allocated_bytes = SumFunction([i \in DOMAIN bs |-> bs[i].size])
            /\ arena[a].used_bytes <= arena[a].peak_usage

\* current_block_ never dangles: it is null exactly when there is no block, it
\* is the first or the last block, what lies behind it is unused, and no block
\* is filled beyond its size (reset, clear, both moves, allocate_block).
CurrentBlockOwned ==
    \A a \in Arena :
        LET ar == arena[a]
        IN  /\ ar.current \in {0, 1, Len(ar.blocks)}
            /\ ar.current = 0 <=> ar.blocks = << >>
            /\ \A i \in DOMAIN ar.blocks :
                  /\ ar.blocks[i].used <= ar.blocks[i].size
                  /\ i > ar.current => ar.blocks[i].used = 0

ExtentOf(r) == [block |-> r.block, at |-> r.at, len |-> r.len]

Promise == INSTANCE RegionAllocator WITH
    live <- [a \in Arena |-> { ExtentOf(r) : r \in regions[a] }]

\* The arenas implement the allocator their callers rely on: memory handed out
\* is disjoint from all memory in use and is taken back only as a whole.
ImplementsRegionAllocator == Promise!Spec
=============================================================================
