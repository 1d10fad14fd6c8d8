--------------------------- MODULE MCMemoryArena ---------------------------
(* The arena allocator for TLC. *)
EXTENDS MemoryArena, TLC

ArenaSymmetry == Permutations(Arena)
=============================================================================
