----------------------------- MODULE ArenaState -----------------------------
(***************************************************************************)
(* The value of one arena::MemoryArena object and what each of its member  *)
(* functions does to that value                                            *)
(* (processor-cpp/src/arena/memory_arena.hpp, memory_arena.cpp).           *)
(*                                                                         *)
(* There are no variables here: MemoryArena gives these operators to a set *)
(* of arena objects, MediaStream gives one arena to every gRPC stream and  *)
(* FilterOutput adds the bytes the blocks hold.                            *)
(***************************************************************************)
EXTENDS Naturals, Sequences

CONSTANTS BlockSizes,        \* the block sizes an arena is constructed with
          Alignments,        \* the alignments callers ask for (never 0)
          DefaultAlignment,  \* DEFAULT_ALIGNMENT
          BaseAddresses      \* the addresses new uint8_t[] may return

ASSUME ArenaAssumption ==
    /\ BlockSizes \subseteq Nat \ {0}
    /\ Alignments \subseteq Nat \ {0}
    /\ DefaultAlignment \in Nat \ {0}
    /\ BaseAddresses \subseteq Nat

Block == [base : Nat, size : Nat, used : Nat]

\* current is the index of current_block_ in blocks_, 0 standing for nullptr.
ArenaRecord ==
    [blocks            : Seq(Block),
     current           : Nat,
     block_size        : Nat,
     allocated_bytes   : Nat,
     used_bytes        : Nat,
     total_allocations : Nat,
     reset_count       : Nat,
     peak_usage        : Nat]

-----------------------------------------------------------------------------
(* Arithmetic.                                                             *)

Larger(m, n) == IF m >= n THEN m ELSE n

\* Variant: rounds down.
AlignDown(value, alignment) == value - (value % alignment)

\* (value + alignment - 1) & ~(alignment - 1): clearing the low bits of a
\* number takes its remainder away.
AlignUp(value, alignment) ==
    LET v == value + alignment - 1 IN v - (v % alignment)

\* An alignment that is no power of two is replaced by the default.
EffectiveAlignment(al) ==
    IF \E k \in 0 .. al : 2 ^ k = al THEN al ELSE DefaultAlignment

Padding(b, al) == AlignUp(b.base + b.used, al) - (b.base + b.used)

\* Variant: the padding is forgotten when the request is held against the block.
FitsUnpadded(b, n, al) == b.used + n <= b.size

Fits(b, n, al) == b.used + Padding(b, al) + n <= b.size

-----------------------------------------------------------------------------
(* The member functions.                                                   *)

\* The object before its first block is allocated.
Blank(bs) ==
    [blocks |-> << >>, current |-> 0, block_size |-> bs,
     allocated_bytes |-> 0, used_bytes |-> 0, total_allocations |-> 0,
     reset_count |-> 0, peak_usage |-> 0]

\* allocate_block when the system has the memory: the block is appended and
\* becomes the current one.
AppendBlock(ar, min_size, base) ==
    LET size == Larger(min_size, ar.block_size)
    IN  [ar EXCEPT !.blocks = Append(@, [base |-> base, size |-> size, used |-> 0]),
                   !.current = Len(ar.blocks) + 1,
                   !.allocated_bytes = @ + size]

\* The constructor allocates the first block; it ignores a failure to.
Constructed(bs, base) == AppendBlock(Blank(bs), bs, base)

\* Variant: the padding is not taken from the block.
TakeFromCurrentNoPadding(ar, n, al) ==
    [ar EXCEPT !.blocks[ar.current].used = @ + n,
               !.used_bytes = @ + n,
               !.total_allocations = @ + 1,
               !.peak_usage = Larger(@, ar.used_bytes + n)]

\* Take padding and n bytes from the current block and do the accounting.
TakeFromCurrent(ar, n, al) ==
    LET taken == Padding(ar.blocks[ar.current], al) + n
    IN  [ar EXCEPT !.blocks[ar.current].used = @ + taken,
                   !.used_bytes = @ + taken,
                   !.total_allocations = @ + 1,
                   !.peak_usage = Larger(@, ar.used_bytes + taken)]

FitsCurrent(ar, n, al) ==
    /\ ar.current # 0
    /\ Fits(ar.blocks[ar.current], n, al)

\* The slow path: a new block, large enough whatever its address.
Grown(ar, n, al, base) == AppendBlock(ar, n + al, base)

TakeFromNew(ar, n, al, base) == TakeFromCurrent(Grown(ar, n, al, base), n, al)

\* A whole allocate() call, the system granting the block it may need.
Allocated(ar, n, al, base) ==
    CASE n = 0 -> ar
      [] n > 0 /\ FitsCurrent(ar, n, al) -> TakeFromCurrent(ar, n, al)
      [] n > 0 /\ ~ FitsCurrent(ar, n, al) -> TakeFromNew(ar, n, al, base)

\* What the returned pointer designates: n bytes at offset at of a block.
RegionTaken(ar, n, al) ==
    LET b == ar.blocks[ar.current]
    IN  [block |-> ar.current, at |-> b.used + Padding(b, al),
         len |-> n, align |-> al]

Reset(ar) ==
    [ar EXCEPT !.blocks = [i \in DOMAIN @ |-> [@[i] EXCEPT !.used = 0]],
               !.current = IF ar.blocks = << >> THEN @ ELSE 1,
               !.used_bytes = 0,
               !.reset_count = @ + 1]

\* clear(), and what a move leaves behind in its source.
Emptied(ar) ==
    [ar EXCEPT !.blocks = << >>, !.current = 0,
               !.allocated_bytes = 0, !.used_bytes = 0]
=============================================================================
