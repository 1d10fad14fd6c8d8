------------------------- MODULE MemoryArenaProofs -------------------------
(***************************************************************************)
(* What is proved of the arena allocator for every set of arenas, block    *)
(* sizes, alignments and addresses.                                        *)
(***************************************************************************)
EXTENDS MemoryArena, SequenceTheorems, FiniteSetTheorems, TLAPS

(***************************************************************************)
(* Sums over finite sets.  The induction is the well-foundedness of strict *)
(* inclusion among finite sets: of the sets that contradict a claim one is *)
(* smallest.                                                               *)
(***************************************************************************)

\* Of any sets of elements of a finite set, one has none of the others inside.
LEMMA SmallestSet ==
    ASSUME NEW S, IsFiniteSet(S), NEW Sets, Sets \subseteq SUBSET S, Sets # {}
    PROVE  \E T \in Sets : \A U \in Sets : U \subseteq T => U = T
<1> DEFINE R == StrictSubsetOrdering(S)
<1>1. IsWellFoundedOn(R, FiniteSubsetsOf(S))
    BY FS_StrictSubsetOrderingWellFounded
<1>2. Sets \subseteq FiniteSubsetsOf(S)
    BY FS_Subset DEF FiniteSubsetsOf
<1>3. \E T \in Sets : \A U \in Sets : ~ (<< U, T >> \in R)
  <2> HIDE DEF R
  <2> QED BY <1>1, <1>2, WFMin
<1>4. \A T, U \in Sets : U \subseteq T /\ U # T => << U, T >> \in R
    BY DEF StrictSubsetOrdering
<1> QED
    BY <1>3, <1>4

\* Induction over the subsets of a finite set.
LEMMA SetInduction ==
    ASSUME NEW S, IsFiniteSet(S), NEW P, {} \in P,
           \A T \in SUBSET S : \A x \in S \ T : T \in P => T \cup {x} \in P
    PROVE  S \in P
<1> SUFFICES ASSUME S \notin P PROVE FALSE
    OBVIOUS
<1>1. PICK T \in (SUBSET S) \ P : \A U \in (SUBSET S) \ P : U \subseteq T => U = T
  <2> DEFINE Bad == (SUBSET S) \ P
  <2>1. Bad \subseteq SUBSET S /\ Bad # {}
      OBVIOUS
  <2> HIDE DEF Bad
  <2>2. \E T \in Bad : \A U \in Bad : U \subseteq T => U = T
      BY <2>1, SmallestSet
  <2> QED
      BY <2>2 DEF Bad
<1>2. PICK x \in T : TRUE
    OBVIOUS
<1>3. T \ {x} \in P
    BY <1>1
<1>4. (T \ {x}) \cup {x} \in P
    BY <1>3
<1>5. (T \ {x}) \cup {x} = T
    OBVIOUS
<1> QED
    BY <1>4, <1>5

\* The sum of f over T as a set: f[x] pairs for each x.
Units(f, T) == UNION { {x} \X (1 .. f[x]) : x \in T }

\* One more element adds its own units.
LEMMA UnitsOfOneMore ==
    ASSUME NEW T, IsFiniteSet(T), NEW f, NEW x, x \notin T, f[x] \in Nat,
           IsFiniteSet(Units(f, T))
    PROVE  /\ IsFiniteSet(Units(f, T \cup {x}))
           /\ Cardinality(Units(f, T \cup {x})) = Cardinality(Units(f, T)) + f[x]
<1> DEFINE New == {x} \X (1 .. f[x])
           Old == Units(f, T)
<1>1. Units(f, T \cup {x}) = Old \cup New
    BY DEF Units
<1>2. Old \cap New = {}
    BY DEF Units
<1>3. IsFiniteSet(New) /\ Cardinality(New) = f[x]
  <2>1. IsFiniteSet({x}) /\ Cardinality({x}) = 1
      BY FS_Singleton
  <2>2. IsFiniteSet(1 .. f[x]) /\ Cardinality(1 .. f[x]) = f[x]
      BY FS_Interval
  <2> DEFINE Own == 1 .. f[x]
             One == {x}
  <2> HIDE DEF Own, One
  <2>3. /\ IsFiniteSet(One \X Own)
        /\ Cardinality(One \X Own) = Cardinality(One) * Cardinality(Own)
      BY <2>1, <2>2, FS_Product DEF One, Own
  <2>4. 1 * f[x] = f[x]
      OBVIOUS
  <2> QED
      BY <2>1, <2>2, <2>3, <2>4 DEF One, Own
<1>4. Cardinality({}) = 0
    BY FS_EmptySet
<1>5. Cardinality(Old) \in Nat
    BY FS_CardinalityType
<1> HIDE DEF Old, New
<1>6. Cardinality(Old \cup New) = Cardinality(Old) + Cardinality(New) - Cardinality(Old \cap New)
    BY <1>3, FS_Union DEF Old
<1>7. IsFiniteSet(Old \cup New)
    BY <1>3, FS_Union DEF Old
<1>8. Cardinality(Old \cup New) = Cardinality(Old) + f[x]
  <2>1. Cardinality(Old \cap New) = 0
      BY <1>2, <1>4
  <2>2. Cardinality(Old \cup New) = Cardinality(Old) + f[x] - 0
      BY <1>3, <1>6, <2>1
  <2> QED
      BY <1>5, <2>2
<1> QED
    BY <1>1, <1>7, <1>8 DEF Old

\* The units over any part of a finite set are finitely many.
LEMMA UnitsAreFinite ==
    ASSUME NEW S, IsFiniteSet(S), NEW f, \A x \in S : f[x] \in Nat
    PROVE  \A T \in SUBSET S : IsFiniteSet(Units(f, T))
<1> SUFFICES ASSUME NEW T \in SUBSET S PROVE IsFiniteSet(Units(f, T))
    OBVIOUS
<1> DEFINE P == { U \in SUBSET T : IsFiniteSet(Units(f, U)) }
<1>1. IsFiniteSet(T)
    BY FS_Subset
<1>2. {} \in P
    BY FS_EmptySet DEF Units
<1>3. ASSUME NEW U \in SUBSET T, NEW x \in T \ U, U \in P
      PROVE  U \cup {x} \in P
    BY <1>1, <1>3, UnitsOfOneMore, FS_Subset
<1>4. T \in P
  <2> HIDE DEF P
  <2> QED BY <1>1, <1>2, <1>3, SetInduction
<1> QED
    BY <1>4

\* The community modules' sum, a recursive function over subsets, counts them.
LEMMA SumIsCount ==
    ASSUME NEW S, IsFiniteSet(S), NEW f, \A x \in S : f[x] \in Nat
    PROVE  SumFunctionOnSet(f, S) = Cardinality(Units(f, S))
<1> DEFINE Sums(g) ==
             g = [s \in SUBSET S |->
                    IF s = {} THEN 0
                    ELSE LET x == CHOOSE x \in s : TRUE IN f[x] + g[s \ {x}]]
           g0 == [s \in SUBSET S |-> Cardinality(Units(f, s))]
           g == CHOOSE h : Sums(h)
<1>1. ASSUME NEW s \in SUBSET S
      PROVE  g0[s] = IF s = {} THEN 0
                     ELSE LET x == CHOOSE x \in s : TRUE IN f[x] + g0[s \ {x}]
  <2>1. CASE s = {}
      BY <2>1, FS_EmptySet DEF Units
  <2>2. CASE s # {}
    <3> DEFINE x == CHOOSE x \in s : TRUE
    <3>1. x \in s
        BY <2>2
    <3> HIDE DEF x
    <3>2. s \ {x} \in SUBSET S /\ (s \ {x}) \cup {x} = s /\ x \in S
        BY <3>1
    <3>3. IsFiniteSet(Units(f, s \ {x})) /\ IsFiniteSet(s \ {x})
        BY <3>2, UnitsAreFinite, FS_Subset
    <3>4. Cardinality(Units(f, s)) = Cardinality(Units(f, s \ {x})) + f[x]
      <4> DEFINE U == s \ {x}
      <4>1. x \notin U /\ f[x] \in Nat /\ IsFiniteSet(U) /\ IsFiniteSet(Units(f, U))
          BY <3>2, <3>3
      <4>2. U \cup {x} = s
          BY <3>2
      <4> HIDE DEF U, g0
      <4>3. Cardinality(Units(f, U \cup {x})) = Cardinality(Units(f, U)) + f[x]
          BY <4>1, UnitsOfOneMore
      <4> QED
          BY <4>2, <4>3 DEF U
    <3>5. Cardinality(Units(f, s \ {x})) \in Nat /\ f[x] \in Nat
        BY <3>2, <3>3, FS_CardinalityType
    <3>6. g0[s] = f[x] + g0[s \ {x}]
        BY <3>2, <3>4, <3>5
    <3> QED
        BY <3>6, <2>2 DEF x
  <2> QED
      BY <2>1, <2>2
<1>2. Sums(g0)
  <2> HIDE DEF Sums
  <2>1. DOMAIN g0 = SUBSET S
      OBVIOUS
  <2>2. g0 = [s \in SUBSET S |-> g0[s]]
      OBVIOUS
  <2> HIDE DEF g0
  <2> QED
      BY <1>1, <2>2 DEF Sums
<1>3. Sums(g)
  <2> HIDE DEF Sums
  <2> QED BY <1>2
<1>4. SumFunctionOnSet(f, S) = g[S]
    BY DEF SumFunctionOnSet, FoldFunctionOnSet, MapThenFoldSet
<1> HIDE DEF g, g0
<1>5. \A s \in SUBSET S :
         g[s] = IF s = {} THEN 0 ELSE LET x == CHOOSE x \in s : TRUE IN f[x] + g[s \ {x}]
    BY <1>3
<1>6. \A s \in SUBSET S : g[s] = Cardinality(Units(f, s))
  <2> DEFINE Bad == { s \in SUBSET S : g[s] # Cardinality(Units(f, s)) }
  <2> SUFFICES ASSUME Bad # {} PROVE FALSE
      OBVIOUS
  <2>1. PICK s \in Bad : \A u \in Bad : u \subseteq s => u = s
    <3> Bad \subseteq SUBSET S
        OBVIOUS
    <3> HIDE DEF Bad
    <3> QED BY SmallestSet
  <2>2. s \in SUBSET S /\ g[s] # g0[s]
      BY <2>1 DEF g0
  <2>3. s # {}
      BY <1>1, <1>5, <2>2
  <2> DEFINE x == CHOOSE x \in s : TRUE
  <2>4. x \in s
      BY <2>3
  <2> HIDE DEF x
  <2>5. s \ {x} \in SUBSET S /\ s \ {x} # s /\ s \ {x} \subseteq s
      BY <2>2, <2>4
  <2>6. g[s \ {x}] = g0[s \ {x}]
      BY <2>1, <2>5 DEF g0
  <2>7. g[s] = f[x] + g[s \ {x}]
      BY <1>5, <2>2, <2>3 DEF x
  <2>8. g0[s] = f[x] + g0[s \ {x}]
      BY <1>1, <2>2, <2>3 DEF x
  <2> QED
      BY <2>2, <2>6, <2>7, <2>8
<1> QED
    BY <1>4, <1>6

\* A sum of naturals is one.
LEMMA SumIsNat ==
    ASSUME NEW S, IsFiniteSet(S), NEW f, \A x \in S : f[x] \in Nat
    PROVE  SumFunctionOnSet(f, S) \in Nat
<1>1. IsFiniteSet(Units(f, S))
    BY UnitsAreFinite
<1> QED
    BY <1>1, SumIsCount, FS_CardinalityType

\* A sum changes by what one of its terms does.
LEMMA SumOfOneMore ==
    ASSUME NEW S, IsFiniteSet(S), NEW f, \A x \in S : f[x] \in Nat,
           NEW y, y \notin S, f[y] \in Nat
    PROVE  /\ SumFunctionOnSet(f, S) \in Nat
           /\ SumFunctionOnSet(f, S \cup {y}) = SumFunctionOnSet(f, S) + f[y]
<1>1. \A x \in S \cup {y} : f[x] \in Nat
    OBVIOUS
<1>2. IsFiniteSet(S \cup {y})
    BY FS_AddElement
<1>3. IsFiniteSet(Units(f, S))
    BY UnitsAreFinite
<1>4. Cardinality(Units(f, S)) \in Nat
    BY <1>3, FS_CardinalityType
<1>5. SumFunctionOnSet(f, S) = Cardinality(Units(f, S))
    BY SumIsCount
<1>6. SumFunctionOnSet(f, S \cup {y}) = Cardinality(Units(f, S \cup {y}))
    BY <1>1, <1>2, SumIsCount
<1>7. Cardinality(Units(f, S \cup {y})) = Cardinality(Units(f, S)) + f[y]
    BY <1>3, UnitsOfOneMore
<1> QED
    BY <1>4, <1>5, <1>6, <1>7

\* Equal terms, equal sums.
LEMMA SumSame ==
    ASSUME NEW S, IsFiniteSet(S), NEW f, NEW g, \A x \in S : f[x] = g[x] /\ f[x] \in Nat
    PROVE  SumFunctionOnSet(f, S) = SumFunctionOnSet(g, S)
<1>1. Units(f, S) = Units(g, S)
    BY DEF Units
<1> QED
    BY <1>1, SumIsCount

\* One term grows.
LEMMA SumOfGrown ==
    ASSUME NEW S, IsFiniteSet(S), NEW f, \A x \in S : f[x] \in Nat,
           NEW y \in S, NEW n \in Nat, NEW g, \A x \in S \ {y} : g[x] = f[x], g[y] = f[y] + n
    PROVE  SumFunctionOnSet(g, S) = SumFunctionOnSet(f, S) + n
<1> DEFINE Rest == S \ {y}
<1>1. IsFiniteSet(Rest) /\ Rest \cup {y} = S /\ y \notin Rest
    BY FS_Subset
<1>2. /\ \A x \in Rest : f[x] \in Nat /\ g[x] \in Nat /\ f[x] = g[x]
      /\ f[y] \in Nat /\ g[y] \in Nat
    OBVIOUS
<1> HIDE DEF Rest
<1>3. SumFunctionOnSet(f, Rest) \in Nat /\ SumFunctionOnSet(f, Rest \cup {y}) = SumFunctionOnSet(f, Rest) + f[y]
    BY <1>1, <1>2, SumOfOneMore
<1>4. SumFunctionOnSet(g, Rest \cup {y}) = SumFunctionOnSet(g, Rest) + g[y]
    BY <1>1, <1>2, SumOfOneMore
<1>5. SumFunctionOnSet(g, Rest) = SumFunctionOnSet(f, Rest)
    BY <1>1, <1>2, SumSame
<1> QED
    BY <1>1, <1>2, <1>3, <1>4, <1>5

\* Terms that are all zero.
LEMMA SumOfZeros ==
    ASSUME NEW S, IsFiniteSet(S), NEW f, \A x \in S : f[x] = 0
    PROVE  SumFunctionOnSet(f, S) = 0
<1>1. Units(f, S) = {}
    BY DEF Units
<1> QED
    BY <1>1, SumIsCount, FS_EmptySet

(***************************************************************************)
(* Arithmetic of allocate().                                               *)
(***************************************************************************)

\* A multiple of a leaves no remainder.
LEMMA MultipleHasNoRemainder ==
    ASSUME NEW a \in Nat \ {0}, NEW q \in Nat
    PROVE  (a * q) % a = 0
<1> DEFINE x == a * q
           d == x \div a
           r == x % a
<1>1. x \in Nat  OBVIOUS
<1>2. d \in Int /\ r \in 0 .. (a - 1) /\ x = a * d + r
  BY <1>1
<1> HIDE DEF d, r
<1>3. r = a * (q - d)
  BY <1>2
<1>4. CASE q - d >= 1
  <2>1. a * (q - d) >= a  BY <1>2, <1>4
  <2> QED BY <2>1, <1>2, <1>3
<1>5. CASE q - d <= -1
  <2>1. a * (q - d) <= -a  BY <1>2, <1>5
  <2> QED BY <2>1, <1>2, <1>3
<1>6. CASE q - d = 0
  BY <1>6, <1>3, <1>2 DEF r
<1> QED BY <1>2, <1>4, <1>5, <1>6

\* align_up() returns the first aligned address at or after the one given.
LEMMA AlignUpIsNextAligned ==
    ASSUME NEW v \in Nat, NEW a \in Nat \ {0}
    PROVE  /\ AlignUp(v, a) \in Nat
           /\ v <= AlignUp(v, a)
           /\ AlignUp(v, a) < v + a
           /\ AlignUp(v, a) % a = 0
<1> DEFINE w == v + a - 1
           q == w \div a
<1>1. w \in Nat  OBVIOUS
<1>2. q \in Nat /\ w % a \in 0 .. (a - 1) /\ w = a * q + (w % a)
  BY <1>1
<1>3. AlignUp(v, a) = a * q
  BY <1>2 DEF AlignUp
<1>4. AlignUp(v, a) % a = 0
  BY <1>2, <1>3, MultipleHasNoRemainder
<1> QED BY <1>1, <1>2, <1>4 DEF AlignUp

\* The alignment allocate() goes on with (memory_arena.cpp:56-58) is never 0.
LEMMA EffectiveAlignmentPositive ==
    ASSUME NEW al \in Alignments
    PROVE  EffectiveAlignment(al) \in Nat \ {0}
BY ArenaAssumption DEF EffectiveAlignment

(***************************************************************************)
(* One arena: what its member functions preserve and what a returned       *)
(* region is.                                                              *)
(***************************************************************************)

\* What CurrentBlockOwned and TypeOK say of one arena.
WellFormed(ar) ==
    /\ ar \in ArenaRecord
    /\ ar.current \in {0, 1, Len(ar.blocks)}
    /\ ar.current = 0 <=> ar.blocks = << >>
    /\ \A i \in DOMAIN ar.blocks :
          /\ ar.blocks[i].used <= ar.blocks[i].size
          /\ i > ar.current => ar.blocks[i].used = 0

\* What RegionsBacked says of one region of one arena.
BackedBy(r, ar) ==
    /\ r.block \in DOMAIN ar.blocks
    /\ r.at + r.len <= ar.blocks[r.block].used
    /\ (ar.blocks[r.block].base + r.at) % r.align = 0

\* A well-formed arena together with regions in use that fit it.
Consistent(ar, rs) ==
    /\ WellFormed(ar)
    /\ rs \in SUBSET Region
    /\ \A r \in rs : BackedBy(r, ar)
    /\ \A r, s \in rs : r # s => ~ Overlap(r, s)

\* Every block of an arena is a record of three naturals.
LEMMA BlocksAreTyped ==
    ASSUME NEW ar, WellFormed(ar)
    PROVE  /\ ar.blocks \in Seq(Block)
           /\ Len(ar.blocks) \in Nat
           /\ DOMAIN ar.blocks = 1 .. Len(ar.blocks)
           /\ ar.current \in 0 .. Len(ar.blocks)
           /\ \A i \in DOMAIN ar.blocks :
                 /\ ar.blocks[i] \in Block
                 /\ ar.blocks[i].base \in Nat
                 /\ ar.blocks[i].size \in Nat
                 /\ ar.blocks[i].used \in Nat
<1>1. ar.blocks \in Seq(Block) /\ ar.current \in Nat
  BY DEF WellFormed, ArenaRecord
<1>2. /\ Len(ar.blocks) \in Nat
      /\ DOMAIN ar.blocks = 1 .. Len(ar.blocks)
      /\ \A i \in DOMAIN ar.blocks : ar.blocks[i] \in Block
  BY <1>1, LenProperties, ElementOfSeq
<1>3. ar.current \in 0 .. Len(ar.blocks)
  BY <1>1, <1>2, EmptySeq DEF WellFormed
<1> QED
  BY <1>1, <1>2, <1>3 DEF Block

\* The padding of memory_arena.cpp:66-69 is below the alignment, and leads to
\* an aligned address.
LEMMA PaddingBounds ==
    ASSUME NEW b \in Block, NEW al \in Nat \ {0}
    PROVE  /\ Padding(b, al) \in Nat
           /\ Padding(b, al) < al
           /\ (b.base + (b.used + Padding(b, al))) % al = 0
<1>1. b.base \in Nat /\ b.used \in Nat
  BY DEF Block
<1>2. b.base + b.used \in Nat
  BY <1>1
<1>3. /\ AlignUp(b.base + b.used, al) \in Nat
      /\ b.base + b.used <= AlignUp(b.base + b.used, al)
      /\ AlignUp(b.base + b.used, al) < b.base + b.used + al
      /\ AlignUp(b.base + b.used, al) % al = 0
  BY <1>2, AlignUpIsNextAligned
<1>4. Padding(b, al) = AlignUp(b.base + b.used, al) - (b.base + b.used)
  BY DEF Padding
<1>5. b.base + (b.used + Padding(b, al)) = AlignUp(b.base + b.used, al)
  BY <1>1, <1>3, <1>4
<1> QED
  BY <1>1, <1>3, <1>4, <1>5

\* The blocks and counters after an allocation from the current block.
LEMMA TakeFromCurrentEffect ==
    ASSUME NEW ar, WellFormed(ar), NEW n \in Nat \ {0}, NEW al \in Nat \ {0},
           FitsCurrent(ar, n, al)
    PROVE  LET new == TakeFromCurrent(ar, n, al)
               c == ar.current
           IN  /\ WellFormed(new)
               /\ DOMAIN new.blocks = DOMAIN ar.blocks
               /\ \A i \in DOMAIN ar.blocks :
                     /\ new.blocks[i].base = ar.blocks[i].base
                     /\ new.blocks[i].used =
                          ar.blocks[i].used + (IF i = c THEN Padding(ar.blocks[c], al) + n ELSE 0)
<1> DEFINE new == TakeFromCurrent(ar, n, al)
           c == ar.current
           taken == Padding(ar.blocks[c], al) + n
           filled == [ar.blocks[c] EXCEPT !.used = @ + taken]
<1>1. /\ ar.blocks \in Seq(Block)
      /\ Len(ar.blocks) \in Nat
      /\ DOMAIN ar.blocks = 1 .. Len(ar.blocks)
      /\ c \in 1 .. Len(ar.blocks)
      /\ ar.blocks[c] \in Block
      /\ ar.blocks[c].used \in Nat
      /\ ar.blocks[c].size \in Nat
  BY BlocksAreTyped DEF FitsCurrent
<1>2. taken \in Nat \ {0}
  <2>1. Padding(ar.blocks[c], al) \in Nat
    BY <1>1, PaddingBounds
  <2> QED BY <2>1
<1>3. ar.blocks[c].used + taken <= ar.blocks[c].size
  <2>1. Padding(ar.blocks[c], al) \in Nat
    BY <1>1, PaddingBounds
  <2> QED BY <1>1, <2>1 DEF FitsCurrent, Fits
<1>4. /\ new.blocks = [ar.blocks EXCEPT ![c] = filled]
      /\ new.current = c
      /\ new.block_size = ar.block_size
      /\ new.allocated_bytes = ar.allocated_bytes
      /\ new.reset_count = ar.reset_count
      /\ new.used_bytes = ar.used_bytes + taken
      /\ new.total_allocations = ar.total_allocations + 1
      /\ new.peak_usage = Larger(ar.peak_usage, ar.used_bytes + taken)
      /\ new = [ar EXCEPT !.blocks = new.blocks, !.used_bytes = new.used_bytes,
                          !.total_allocations = new.total_allocations,
                          !.peak_usage = new.peak_usage]
  BY DEF TakeFromCurrent, WellFormed, ArenaRecord
<1> HIDE DEF new, taken
<1>5. filled \in Block /\ filled.used = ar.blocks[c].used + taken
                       /\ filled.base = ar.blocks[c].base
                       /\ filled.size = ar.blocks[c].size
  <2>1. ar.blocks[c].used + taken \in Nat
    BY <1>1, <1>2
  <2> QED BY <1>1, <2>1 DEF Block
<1> HIDE DEF filled
<1>6. /\ new.blocks \in Seq(Block)
      /\ Len(new.blocks) = Len(ar.blocks)
      /\ \A i \in 1 .. Len(ar.blocks) :
            new.blocks[i] = IF i = c THEN filled ELSE ar.blocks[i]
  BY <1>1, <1>4, <1>5, ExceptSeq
<1>7. DOMAIN new.blocks = 1 .. Len(ar.blocks)
  BY <1>6, LenProperties
<1>8. new \in ArenaRecord
  <2>1. /\ new.used_bytes \in Nat
        /\ new.total_allocations \in Nat
        /\ new.peak_usage \in Nat
    BY <1>2, <1>4 DEF WellFormed, ArenaRecord, Larger
  <2> QED BY <1>4, <1>6, <2>1 DEF WellFormed, ArenaRecord
<1>9. \A i \in DOMAIN ar.blocks :
         /\ new.blocks[i].base = ar.blocks[i].base
         /\ new.blocks[i].size = ar.blocks[i].size
         /\ new.blocks[i].used = ar.blocks[i].used + (IF i = c THEN taken ELSE 0)
  <2> TAKE i \in DOMAIN ar.blocks
  <2>1. ar.blocks[i].used \in Nat
    BY BlocksAreTyped
  <2>2. new.blocks[i] = IF i = c THEN filled ELSE ar.blocks[i]
    BY <1>1, <1>6
  <2>3. CASE i = c
    BY <1>5, <2>2, <2>3
  <2>4. CASE i # c
    BY <2>1, <2>2, <2>4
  <2> QED BY <2>3, <2>4
<1>10. WellFormed(new)
  <2>1. new.current \in {0, 1, Len(new.blocks)}
    BY <1>4, <1>6 DEF WellFormed
  <2>2. new.current = 0 <=> new.blocks = << >>
    BY <1>1, <1>4, <1>6
  <2>3. ASSUME NEW i \in DOMAIN new.blocks
        PROVE  new.blocks[i].used <= new.blocks[i].size
    <3>1. i \in DOMAIN ar.blocks /\ ar.blocks[i].used <= ar.blocks[i].size
      BY <1>1, <1>7 DEF WellFormed
    <3>2. CASE i = c
      BY <1>3, <1>5, <1>6, <1>1, <3>2
    <3>3. CASE i # c
      BY <1>1, <1>6, <3>1, <3>3
    <3> QED BY <3>2, <3>3
  <2>4. \A i \in DOMAIN new.blocks : i > new.current => new.blocks[i].used = 0
    BY <1>1, <1>4, <1>7, <1>9 DEF WellFormed
  <2> QED BY <1>8, <2>1, <2>2, <2>3, <2>4 DEF WellFormed
<1> QED
  BY <1>1, <1>7, <1>9, <1>10 DEF new, taken

\* A new block leaves the old ones as they are and has room for the request.
LEMMA GrownEffect ==
    ASSUME NEW ar, WellFormed(ar), NEW n \in Nat \ {0}, NEW al \in Nat \ {0},
           NEW base \in BaseAddresses
    PROVE  LET new == Grown(ar, n, al, base)
           IN  /\ WellFormed(new)
               /\ new.current = Len(ar.blocks) + 1
               /\ DOMAIN new.blocks = DOMAIN ar.blocks \cup {new.current}
               /\ \A i \in DOMAIN ar.blocks : new.blocks[i] = ar.blocks[i]
               /\ new.blocks[new.current].used = 0
               /\ FitsCurrent(new, n, al)
<1> DEFINE new == Grown(ar, n, al, base)
           size == Larger(n + al, ar.block_size)
           b == [base |-> base, size |-> size, used |-> 0]
<1>1. /\ ar.blocks \in Seq(Block)
      /\ Len(ar.blocks) \in Nat
      /\ DOMAIN ar.blocks = 1 .. Len(ar.blocks)
      /\ ar.block_size \in Nat
      /\ ar.allocated_bytes \in Nat
      /\ base \in Nat
  BY BlocksAreTyped, ArenaAssumption DEF WellFormed, ArenaRecord
<1>2. size \in Nat /\ size >= n + al
  BY <1>1 DEF Larger
<1> HIDE DEF size
<1>3. b \in Block /\ b.used = 0 /\ b.size = size
  BY <1>1, <1>2 DEF Block
<1>4. /\ new.blocks = Append(ar.blocks, b)
      /\ new.current = Len(ar.blocks) + 1
      /\ new.allocated_bytes = ar.allocated_bytes + size
      /\ new = [ar EXCEPT !.blocks = new.blocks, !.current = new.current,
                          !.allocated_bytes = new.allocated_bytes]
  BY DEF Grown, AppendBlock, WellFormed, ArenaRecord, size
<1> HIDE DEF new, b
<1>5. /\ new.blocks \in Seq(Block)
      /\ Len(new.blocks) = Len(ar.blocks) + 1
      /\ \A i \in 1 .. Len(ar.blocks) : new.blocks[i] = ar.blocks[i]
      /\ new.blocks[Len(ar.blocks) + 1] = b
  BY <1>1, <1>3, <1>4
<1>6. DOMAIN new.blocks = 1 .. Len(ar.blocks) + 1
  BY <1>5, LenProperties
<1>7. new \in ArenaRecord
  <2>1. new.current \in Nat /\ new.allocated_bytes \in Nat
    BY <1>1, <1>2, <1>4
  <2> QED BY <1>4, <1>5, <2>1 DEF WellFormed, ArenaRecord
<1>8. WellFormed(new)
  <2>1. new.blocks # << >>
    BY <1>1, <1>5, EmptySeq
  <2>2. \A i \in DOMAIN new.blocks : new.blocks[i].used <= new.blocks[i].size
    <3> TAKE i \in DOMAIN new.blocks
    <3>1. CASE i \in DOMAIN ar.blocks
      BY <1>5, <1>1, <3>1 DEF WellFormed
    <3>2. CASE i = Len(ar.blocks) + 1
      BY <1>2, <1>3, <1>5, <3>2
    <3> QED BY <1>1, <1>6, <3>1, <3>2
  <2> QED
    BY <1>1, <1>4, <1>5, <1>6, <1>7, <2>1, <2>2 DEF WellFormed
<1>9. FitsCurrent(new, n, al)
  <2>1. Padding(b, al) \in Nat /\ Padding(b, al) < al
    BY <1>3, PaddingBounds
  <2>2. Fits(b, n, al)
    BY <1>2, <1>3, <2>1 DEF Fits
  <2> QED
    BY <1>1, <1>4, <1>5, <2>2 DEF FitsCurrent
<1>10. DOMAIN new.blocks = DOMAIN ar.blocks \cup {new.current}
  BY <1>1, <1>4, <1>6
<1> QED
  BY <1>1, <1>3, <1>4, <1>5, <1>8, <1>9, <1>10 DEF new

\* An allocation from the current block keeps the arena consistent with the
\* regions in use and the new one, which overlaps none of them: they all end
\* where the block was used up to, and the new one begins no earlier.
LEMMA TakeFromCurrentConsistent ==
    ASSUME NEW ar, NEW rs, Consistent(ar, rs),
           NEW n \in Nat \ {0}, NEW al \in Nat \ {0},
           FitsCurrent(ar, n, al)
    PROVE  /\ Consistent(TakeFromCurrent(ar, n, al), rs \cup {RegionTaken(ar, n, al)})
           /\ \A s \in rs : ~ Overlap(RegionTaken(ar, n, al), s)
           /\ RegionTaken(ar, n, al) \in Region
<1> DEFINE new == TakeFromCurrent(ar, n, al)
           c == ar.current
           pad == Padding(ar.blocks[c], al)
           r == RegionTaken(ar, n, al)
<1>1. /\ WellFormed(ar)
      /\ c \in DOMAIN ar.blocks
      /\ c \in Nat
      /\ ar.blocks[c] \in Block
      /\ ar.blocks[c].used \in Nat
      /\ ar.blocks[c].base \in Nat
  BY BlocksAreTyped DEF FitsCurrent, Consistent
<1>2. pad \in Nat /\ (ar.blocks[c].base + (ar.blocks[c].used + pad)) % al = 0
  BY <1>1, PaddingBounds
<1>3. /\ WellFormed(new)
      /\ DOMAIN new.blocks = DOMAIN ar.blocks
      /\ \A i \in DOMAIN ar.blocks :
            /\ new.blocks[i].base = ar.blocks[i].base
            /\ new.blocks[i].used = ar.blocks[i].used + (IF i = c THEN pad + n ELSE 0)
  BY <1>1, TakeFromCurrentEffect
<1>4. r = [block |-> c, at |-> ar.blocks[c].used + pad, len |-> n, align |-> al]
  BY DEF RegionTaken
<1> HIDE DEF new, pad, r
<1>5. r \in Region
  BY <1>1, <1>2, <1>4 DEF Region
<1>6. BackedBy(r, new)
  BY <1>1, <1>2, <1>3, <1>4 DEF BackedBy
<1>7. \A s \in rs : BackedBy(s, new)
  <2> TAKE s \in rs
  <2>1. BackedBy(s, ar) /\ s.at \in Nat /\ s.len \in Nat
    BY DEF Consistent, Region
  <2>2. ar.blocks[s.block].used \in Nat
    BY <1>1, <2>1, BlocksAreTyped DEF BackedBy
  <2>3. /\ s.block \in DOMAIN new.blocks
        /\ new.blocks[s.block].base = ar.blocks[s.block].base
        /\ new.blocks[s.block].used >= ar.blocks[s.block].used
    BY <1>2, <1>3, <2>1, <2>2 DEF BackedBy
  <2>4. new.blocks[s.block].used \in Nat
    BY <1>3, <2>3, BlocksAreTyped
  <2> QED BY <2>1, <2>2, <2>3, <2>4 DEF BackedBy
<1>8. \A s \in rs : ~ Overlap(r, s) /\ ~ Overlap(s, r)
  <2> TAKE s \in rs
  <2>1. BackedBy(s, ar) /\ s.at \in Nat /\ s.len \in Nat
    BY DEF Consistent, Region
  <2>2. CASE s.block = c
    <3>1. s.at + s.len <= ar.blocks[c].used
      BY <2>1, <2>2 DEF BackedBy
    <3>2. s.at + s.len <= r.at
      BY <1>1, <1>2, <1>4, <2>1, <3>1
    <3> QED BY <1>5, <2>1, <3>2 DEF Overlap, Region
  <2>3. CASE s.block # c
    BY <1>4, <2>3 DEF Overlap
  <2> QED BY <2>2, <2>3
<1>9. Consistent(new, rs \cup {r})
  BY <1>3, <1>5, <1>6, <1>7, <1>8 DEF Consistent
<1> QED
  BY <1>5, <1>8, <1>9 DEF new, r

\* A new block invalidates nothing.
LEMMA GrownConsistent ==
    ASSUME NEW ar, NEW rs, Consistent(ar, rs),
           NEW n \in Nat \ {0}, NEW al \in Nat \ {0}, NEW base \in BaseAddresses
    PROVE  /\ Consistent(Grown(ar, n, al, base), rs)
           /\ FitsCurrent(Grown(ar, n, al, base), n, al)
<1> DEFINE new == Grown(ar, n, al, base)
<1>1. /\ WellFormed(new)
      /\ DOMAIN new.blocks = DOMAIN ar.blocks \cup {new.current}
      /\ \A i \in DOMAIN ar.blocks : new.blocks[i] = ar.blocks[i]
      /\ FitsCurrent(new, n, al)
  <2>1. WellFormed(ar)
    BY DEF Consistent
  <2> QED BY <2>1, GrownEffect
<1> HIDE DEF new
<1>2. \A s \in rs : BackedBy(s, new)
  BY <1>1 DEF Consistent, BackedBy
<1> QED
  BY <1>1, <1>2 DEF Consistent, new

\* After reset() the arena is well-formed and every block is unused.
LEMMA ResetWellFormed ==
    ASSUME NEW ar, WellFormed(ar)
    PROVE  WellFormed(Reset(ar))
<1> DEFINE new == Reset(ar)
           emptied(i) == [ar.blocks[i] EXCEPT !.used = 0]
<1>1. /\ ar.blocks \in Seq(Block)
      /\ Len(ar.blocks) \in Nat
      /\ DOMAIN ar.blocks = 1 .. Len(ar.blocks)
      /\ \A i \in DOMAIN ar.blocks : ar.blocks[i] \in Block /\ ar.blocks[i].size \in Nat
  BY BlocksAreTyped
<1>2. \A i \in DOMAIN ar.blocks :
         emptied(i) \in Block /\ emptied(i).used = 0 /\ emptied(i).size = ar.blocks[i].size
  BY <1>1 DEF Block
<1>3. /\ new.blocks = [i \in DOMAIN ar.blocks |-> emptied(i)]
      /\ new.current = IF ar.blocks = << >> THEN ar.current ELSE 1
      /\ new.used_bytes = 0
      /\ new.reset_count = ar.reset_count + 1
      /\ new = [ar EXCEPT !.blocks = new.blocks, !.current = new.current,
                          !.used_bytes = new.used_bytes,
                          !.reset_count = new.reset_count]
  BY DEF Reset, WellFormed, ArenaRecord
<1> HIDE DEF new, emptied
<1>4. /\ new.blocks \in Seq(Block)
      /\ DOMAIN new.blocks = 1 .. Len(ar.blocks)
      /\ \A i \in DOMAIN new.blocks : new.blocks[i] = emptied(i)
  BY <1>1, <1>2, <1>3
<1>5. Len(new.blocks) = Len(ar.blocks)
  BY <1>1, <1>4, LenProperties
<1>6. new \in ArenaRecord
  <2>1. new.current \in Nat /\ new.used_bytes \in Nat /\ new.reset_count \in Nat
    BY <1>3 DEF WellFormed, ArenaRecord
  <2> QED BY <1>3, <1>4, <2>1 DEF WellFormed, ArenaRecord
<1>7. new.current = 0 <=> new.blocks = << >>
  BY <1>1, <1>3, <1>4, <1>5, EmptySeq DEF WellFormed
<1>8. new.current \in {0, 1, Len(new.blocks)}
  BY <1>3 DEF WellFormed
<1>9. \A i \in DOMAIN new.blocks : new.blocks[i].used = 0 /\ new.blocks[i].size \in Nat
  BY <1>1, <1>2, <1>4
<1>10. WellFormed(new)
  BY <1>6, <1>7, <1>8, <1>9 DEF WellFormed
<1> QED
  BY <1>10 DEF new

\* clear() and being moved from leave a well-formed arena without blocks.
LEMMA EmptiedWellFormed ==
    ASSUME NEW ar, WellFormed(ar)
    PROVE  WellFormed(Emptied(ar))
<1> DEFINE new == Emptied(ar)
<1>1. /\ new.blocks = << >>
      /\ new.current = 0
      /\ new.allocated_bytes = 0
      /\ new.used_bytes = 0
      /\ new = [ar EXCEPT !.blocks = new.blocks, !.current = new.current,
                          !.allocated_bytes = new.allocated_bytes,
                          !.used_bytes = new.used_bytes]
  BY DEF Emptied, WellFormed, ArenaRecord
<1>2. << >> \in Seq(Block) /\ DOMAIN << >> = {} /\ Len(<< >>) = 0
  BY EmptySeq
<1> HIDE DEF new
<1>3. new \in ArenaRecord
  <2>1. new.blocks \in Seq(Block)
    BY <1>1, <1>2
  <2>2. new.current \in Nat /\ new.allocated_bytes \in Nat /\ new.used_bytes \in Nat
    BY <1>1
  <2>3. new = [ar EXCEPT !.blocks = new.blocks, !.current = new.current,
                        !.allocated_bytes = new.allocated_bytes,
                        !.used_bytes = new.used_bytes]
    BY <1>1
  <2> QED BY <2>1, <2>2, <2>3 DEF WellFormed, ArenaRecord
<1>4. WellFormed(new)
  BY <1>1, <1>2, <1>3 DEF WellFormed
<1> QED
  BY <1>4 DEF new

\* The constructor, with and without memory for the first block.
LEMMA ConstructedWellFormed ==
    ASSUME NEW bs \in BlockSizes, NEW base \in BaseAddresses
    PROVE  WellFormed(Blank(bs)) /\ WellFormed(Constructed(bs, base))
<1>1. bs \in Nat /\ base \in Nat
  BY ArenaAssumption
<1>2. WellFormed(Blank(bs))
  BY <1>1, EmptySeq DEF Blank, WellFormed, ArenaRecord
<1> DEFINE new == Constructed(bs, base)
           b == [base |-> base, size |-> bs, used |-> 0]
<1>3. b \in Block
  BY <1>1 DEF Block
<1>4. /\ new.blocks = Append(<< >>, b)
      /\ new.current = 1
      /\ new = [Blank(bs) EXCEPT !.blocks = new.blocks, !.current = 1, !.allocated_bytes = bs]
  <2>1. /\ Larger(bs, bs) = bs
        /\ Len(<< >>) + 1 = 1
        /\ 0 + bs = bs
    BY <1>1 DEF Larger
  <2> QED BY <2>1 DEF Constructed, AppendBlock, Blank
<1> HIDE DEF b, new
<1>5. /\ new.blocks = << b >>
      /\ << b >> \in Seq(Block)
      /\ new \in ArenaRecord
  <2>1. Append(<< >>, b) = << b >> /\ << b >> \in Seq(Block)
    BY <1>3
  <2>2. new.blocks \in Seq(Block)
    BY <1>4, <2>1
  <2>3. new = [blocks |-> new.blocks, current |-> 1, block_size |-> bs,
               allocated_bytes |-> bs, used_bytes |-> 0, total_allocations |-> 0,
               reset_count |-> 0, peak_usage |-> 0]
    BY <1>4 DEF Blank
  <2>4. new \in ArenaRecord
    BY <1>1, <2>2, <2>3 DEF ArenaRecord
  <2> QED BY <1>4, <2>1, <2>4
<1>6. b.used = 0 /\ b.size = bs
  BY DEF b
<1>7. WellFormed(new)
  BY <1>1, <1>4, <1>5, <1>6 DEF WellFormed
<1> QED
  BY <1>2, <1>7 DEF new

(***************************************************************************)
(* The counters that are read without the mutex.                           *)
(***************************************************************************)

UsedOf(ar) == [i \in DOMAIN ar.blocks |-> ar.blocks[i].used]
SizeOf(ar) == [i \in DOMAIN ar.blocks |-> ar.blocks[i].size]

\* What CountersAgree says of one arena.
Accounted(ar) ==
    /\ ar.used_bytes = SumFunction(UsedOf(ar))
    /\ ar.allocated_bytes = SumFunction(SizeOf(ar))
    /\ ar.used_bytes <= ar.peak_usage

\* The terms of the two sums are naturals, over finitely many blocks.
LEMMA TermsAreNat ==
    ASSUME NEW ar, WellFormed(ar)
    PROVE  /\ IsFiniteSet(DOMAIN ar.blocks)
           /\ DOMAIN UsedOf(ar) = DOMAIN ar.blocks
           /\ DOMAIN SizeOf(ar) = DOMAIN ar.blocks
           /\ \A i \in DOMAIN ar.blocks :
                 /\ UsedOf(ar)[i] = ar.blocks[i].used /\ UsedOf(ar)[i] \in Nat
                 /\ SizeOf(ar)[i] = ar.blocks[i].size /\ SizeOf(ar)[i] \in Nat
           /\ ar.used_bytes \in Nat /\ ar.peak_usage \in Nat
           /\ ar.allocated_bytes \in Nat /\ ar.reset_count \in Nat
<1>1. /\ Len(ar.blocks) \in Nat
      /\ DOMAIN ar.blocks = 1 .. Len(ar.blocks)
      /\ \A i \in DOMAIN ar.blocks : ar.blocks[i].used \in Nat /\ ar.blocks[i].size \in Nat
  BY BlocksAreTyped
<1>2. IsFiniteSet(DOMAIN ar.blocks)
  BY <1>1, FS_Interval
<1>3. /\ ar.used_bytes \in Nat /\ ar.peak_usage \in Nat
      /\ ar.allocated_bytes \in Nat /\ ar.reset_count \in Nat
  BY DEF WellFormed, ArenaRecord
<1> QED
  BY <1>1, <1>2, <1>3 DEF UsedOf, SizeOf

\* What the current block gives is added once to its use, to used_bytes_ and,
\* where that exceeds it, to peak_usage_ (memory_arena.cpp:74-88).
LEMMA TakeFromCurrentCounts ==
    ASSUME NEW ar, WellFormed(ar), NEW n \in Nat \ {0}, NEW al \in Nat \ {0},
           FitsCurrent(ar, n, al)
    PROVE  LET new == TakeFromCurrent(ar, n, al)
               taken == Padding(ar.blocks[ar.current], al) + n
           IN  /\ new.used_bytes = ar.used_bytes + taken
               /\ taken \in Nat /\ taken < n + al
               /\ new.peak_usage = Larger(ar.peak_usage, ar.used_bytes + taken)
               /\ new.reset_count = ar.reset_count
               /\ Accounted(ar) => Accounted(new)
<1> DEFINE new == TakeFromCurrent(ar, n, al)
           c == ar.current
           taken == Padding(ar.blocks[c], al) + n
<1>1. /\ c \in DOMAIN ar.blocks
      /\ ar.blocks[c] \in Block
      /\ ar.blocks \in Seq(Block)
  BY BlocksAreTyped DEF FitsCurrent
<1>2. Padding(ar.blocks[c], al) \in Nat /\ Padding(ar.blocks[c], al) < al
  BY <1>1, PaddingBounds
<1>3. taken \in Nat /\ taken < n + al
  BY <1>2
<1>4. /\ WellFormed(new)
      /\ DOMAIN new.blocks = DOMAIN ar.blocks
      /\ \A i \in DOMAIN ar.blocks :
            new.blocks[i].used = ar.blocks[i].used + (IF i = c THEN taken ELSE 0)
  BY TakeFromCurrentEffect
<1>5. /\ new.used_bytes = ar.used_bytes + taken
      /\ new.peak_usage = Larger(ar.peak_usage, ar.used_bytes + taken)
      /\ new.reset_count = ar.reset_count
      /\ new.allocated_bytes = ar.allocated_bytes
      /\ new.blocks = [ar.blocks EXCEPT ![c].used = @ + taken]
  BY DEF TakeFromCurrent, WellFormed, ArenaRecord
<1>6. \A i \in DOMAIN ar.blocks : new.blocks[i].size = ar.blocks[i].size
  <2> TAKE i \in DOMAIN ar.blocks
  <2>1. new.blocks[i] = IF i = c THEN [ar.blocks[c] EXCEPT !.used = @ + taken] ELSE ar.blocks[i]
    BY <1>5
  <2> QED BY <1>1, <2>1 DEF Block
<1> HIDE DEF new, taken
<1>7. ASSUME Accounted(ar)
      PROVE  Accounted(new)
  <2>1. /\ IsFiniteSet(DOMAIN ar.blocks)
        /\ \A i \in DOMAIN ar.blocks :
              /\ UsedOf(ar)[i] = ar.blocks[i].used /\ UsedOf(ar)[i] \in Nat
              /\ SizeOf(ar)[i] = ar.blocks[i].size /\ SizeOf(ar)[i] \in Nat
        /\ DOMAIN UsedOf(ar) = DOMAIN ar.blocks /\ DOMAIN SizeOf(ar) = DOMAIN ar.blocks
        /\ ar.used_bytes \in Nat /\ ar.peak_usage \in Nat
    BY TermsAreNat
  <2>2. /\ \A i \in DOMAIN ar.blocks : UsedOf(new)[i] = new.blocks[i].used
        /\ \A i \in DOMAIN ar.blocks : SizeOf(new)[i] = new.blocks[i].size
        /\ DOMAIN UsedOf(new) = DOMAIN ar.blocks /\ DOMAIN SizeOf(new) = DOMAIN ar.blocks
    BY <1>4 DEF UsedOf, SizeOf
  <2>3. /\ \A i \in DOMAIN ar.blocks \ {c} : UsedOf(new)[i] = UsedOf(ar)[i]
        /\ UsedOf(new)[c] = UsedOf(ar)[c] + taken
    BY <1>1, <1>3, <1>4, <2>1, <2>2
  <2>4. SumFunctionOnSet(UsedOf(new), DOMAIN ar.blocks)
          = SumFunctionOnSet(UsedOf(ar), DOMAIN ar.blocks) + taken
    <3> DEFINE S == DOMAIN ar.blocks
               f == UsedOf(ar)
               g == UsedOf(new)
    <3>1. /\ c \in S /\ IsFiniteSet(S) /\ taken \in Nat
          /\ \A i \in S : f[i] \in Nat
          /\ \A i \in S \ {c} : g[i] = f[i]
          /\ g[c] = f[c] + taken
      BY <1>1, <1>3, <2>1, <2>3
    <3> HIDE DEF S, f, g, c
    <3> QED BY <3>1, SumOfGrown DEF S, f, g
  <2>5. SumFunctionOnSet(SizeOf(ar), DOMAIN ar.blocks)
          = SumFunctionOnSet(SizeOf(new), DOMAIN ar.blocks)
    BY <1>6, <2>1, <2>2, SumSame
  <2>6. new.used_bytes <= new.peak_usage
    BY <1>3, <1>5, <2>1 DEF Larger
  <2> QED BY <1>5, <1>7, <2>1, <2>2, <2>4, <2>5, <2>6 DEF Accounted, SumFunction
<1> QED
  BY <1>3, <1>5, <1>7 DEF new, taken

\* A new block adds its size to allocated_bytes_ and nothing to the use.
LEMMA GrownCounts ==
    ASSUME NEW ar, WellFormed(ar), NEW n \in Nat \ {0}, NEW al \in Nat \ {0},
           NEW base \in BaseAddresses
    PROVE  LET new == Grown(ar, n, al, base)
           IN  /\ new.used_bytes = ar.used_bytes
               /\ new.peak_usage = ar.peak_usage
               /\ new.reset_count = ar.reset_count
               /\ Accounted(ar) => Accounted(new)
<1> DEFINE new == Grown(ar, n, al, base)
           size == Larger(n + al, ar.block_size)
           last == Len(ar.blocks) + 1
           b == [base |-> base, size |-> size, used |-> 0]
<1>1. /\ ar.blocks \in Seq(Block)
      /\ Len(ar.blocks) \in Nat
      /\ DOMAIN ar.blocks = 1 .. Len(ar.blocks)
      /\ ar.block_size \in Nat
  BY BlocksAreTyped DEF WellFormed, ArenaRecord
<1>2. size \in Nat
  BY <1>1 DEF Larger
<1>3. /\ new.used_bytes = ar.used_bytes
      /\ new.peak_usage = ar.peak_usage
      /\ new.reset_count = ar.reset_count
      /\ new.allocated_bytes = ar.allocated_bytes + size
      /\ new.blocks = Append(ar.blocks, b)
  BY DEF Grown, AppendBlock, WellFormed, ArenaRecord
<1>4. /\ WellFormed(new)
      /\ DOMAIN new.blocks = DOMAIN ar.blocks \cup {last}
      /\ \A i \in DOMAIN ar.blocks : new.blocks[i] = ar.blocks[i]
      /\ last \notin DOMAIN ar.blocks
  <2>1. new.current = last
    BY GrownEffect
  <2>2. last \notin DOMAIN ar.blocks
    BY <1>1
  <2>3. /\ WellFormed(new)
        /\ DOMAIN new.blocks = DOMAIN ar.blocks \cup {new.current}
        /\ \A i \in DOMAIN ar.blocks : new.blocks[i] = ar.blocks[i]
    BY GrownEffect
  <2> QED BY <2>1, <2>2, <2>3
<1>5. new.blocks[last].size = size /\ new.blocks[last].used = 0
  BY <1>1, <1>3
<1> HIDE DEF new, size, b, last
<1>6. ASSUME Accounted(ar)
      PROVE  Accounted(new)
  <2> DEFINE S == DOMAIN ar.blocks
  <2>1. /\ IsFiniteSet(S)
        /\ \A i \in S : /\ UsedOf(ar)[i] = ar.blocks[i].used /\ UsedOf(ar)[i] \in Nat
                        /\ SizeOf(ar)[i] = ar.blocks[i].size /\ SizeOf(ar)[i] \in Nat
        /\ DOMAIN UsedOf(ar) = S /\ DOMAIN SizeOf(ar) = S
        /\ ar.used_bytes \in Nat
    BY TermsAreNat
  <2>2. /\ \A i \in S \cup {last} : UsedOf(new)[i] = new.blocks[i].used
        /\ \A i \in S \cup {last} : SizeOf(new)[i] = new.blocks[i].size
        /\ DOMAIN UsedOf(new) = S \cup {last} /\ DOMAIN SizeOf(new) = S \cup {last}
    BY <1>4 DEF UsedOf, SizeOf
  <2>3. /\ \A i \in S : UsedOf(ar)[i] = UsedOf(new)[i] /\ SizeOf(ar)[i] = SizeOf(new)[i]
        /\ UsedOf(new)[last] = 0 /\ SizeOf(new)[last] = size
    BY <1>4, <1>5, <2>1, <2>2
  <2>4. last \notin S
    BY <1>4
  <2> HIDE DEF S
  <2>5. /\ SumFunctionOnSet(UsedOf(ar), S) = SumFunctionOnSet(UsedOf(new), S)
        /\ SumFunctionOnSet(SizeOf(ar), S) = SumFunctionOnSet(SizeOf(new), S)
    BY <2>1, <2>3, SumSame
  <2>6. /\ SumFunctionOnSet(UsedOf(new), S) \in Nat
        /\ SumFunctionOnSet(UsedOf(new), S \cup {last}) = SumFunctionOnSet(UsedOf(new), S) + 0
    <3>1. \A i \in S : UsedOf(new)[i] \in Nat
      BY <2>1, <2>3
    <3>2. /\ SumFunctionOnSet(UsedOf(new), S) \in Nat
          /\ SumFunctionOnSet(UsedOf(new), S \cup {last})
               = SumFunctionOnSet(UsedOf(new), S) + UsedOf(new)[last]
      <4>1. UsedOf(new)[last] \in Nat
        BY <2>3
      <4> QED BY <2>1, <2>4, <3>1, <4>1, SumOfOneMore
    <3> QED BY <2>3, <3>2
  <2>7. SumFunctionOnSet(SizeOf(new), S \cup {last}) = SumFunctionOnSet(SizeOf(new), S) + size
    <3>1. \A i \in S : SizeOf(new)[i] \in Nat
      BY <2>1, <2>3
    <3> QED BY <1>2, <2>1, <2>3, <2>4, <3>1, SumOfOneMore DEF size
  <2>8. SumFunctionOnSet(UsedOf(new), S \cup {last}) = SumFunctionOnSet(UsedOf(ar), S)
    BY <2>5, <2>6
  <2> QED BY <1>3, <1>6, <2>1, <2>2, <2>5, <2>7, <2>8 DEF Accounted, SumFunction
<1> QED
  BY <1>3, <1>6 DEF new

\* Whatever allocate() is asked for, it takes at most the size and an alignment
\* of padding, and lowers neither the use nor the peak.
LEMMA AllocatedEffect ==
    ASSUME NEW ar, WellFormed(ar), NEW n \in Nat, NEW al \in Nat \ {0},
           NEW base \in BaseAddresses
    PROVE  LET new == Allocated(ar, n, al, base)
           IN  /\ WellFormed(new)
               /\ ar.used_bytes <= new.used_bytes
               /\ new.used_bytes <= ar.used_bytes + (n + al)
               /\ ar.peak_usage <= new.peak_usage
               /\ new.reset_count = ar.reset_count
<1> DEFINE new == Allocated(ar, n, al, base)
<1>1. ar.used_bytes \in Nat /\ ar.peak_usage \in Nat
  BY TermsAreNat
<1>2. CASE n = 0
  <2>1. new = ar
    BY <1>2 DEF Allocated
  <2> QED BY <1>1, <2>1
<1>3. ASSUME NEW from, WellFormed(from), FitsCurrent(from, n, al), n > 0,
             from.used_bytes = ar.used_bytes, from.peak_usage = ar.peak_usage,
             from.reset_count = ar.reset_count, new = TakeFromCurrent(from, n, al)
      PROVE  /\ WellFormed(new)
             /\ ar.used_bytes <= new.used_bytes
             /\ new.used_bytes <= ar.used_bytes + (n + al)
             /\ ar.peak_usage <= new.peak_usage
             /\ new.reset_count = ar.reset_count
  <2> DEFINE taken == Padding(from.blocks[from.current], al) + n
  <2>1. n \in Nat \ {0}
    BY <1>3
  <2>2. /\ new.used_bytes = from.used_bytes + taken
        /\ taken \in Nat /\ taken < n + al
        /\ new.peak_usage = Larger(from.peak_usage, from.used_bytes + taken)
        /\ new.reset_count = from.reset_count
    BY <1>3, <2>1, TakeFromCurrentCounts
  <2>3. WellFormed(new)
    BY <1>3, <2>1, TakeFromCurrentEffect
  <2> HIDE DEF new, taken
  <2> QED BY <1>1, <1>3, <2>2, <2>3 DEF Larger
<1>4. CASE n > 0 /\ FitsCurrent(ar, n, al)
  <2>1. new = TakeFromCurrent(ar, n, al)
    BY <1>4 DEF Allocated
  <2> QED BY <1>3, <1>4, <2>1
<1>5. CASE n > 0 /\ ~ FitsCurrent(ar, n, al)
  <2> DEFINE grown == Grown(ar, n, al, base)
  <2>1. new = TakeFromCurrent(grown, n, al)
    BY <1>5 DEF Allocated, TakeFromNew
  <2>2. n \in Nat \ {0}
    BY <1>5
  <2>3. WellFormed(grown) /\ FitsCurrent(grown, n, al)
    BY <2>2, GrownEffect
  <2>4. /\ grown.used_bytes = ar.used_bytes
        /\ grown.peak_usage = ar.peak_usage
        /\ grown.reset_count = ar.reset_count
    BY <2>2, GrownCounts
  <2> HIDE DEF grown
  <2> QED BY <1>3, <1>5, <2>1, <2>3, <2>4
<1> QED
  BY <1>2, <1>4, <1>5

\* reset() takes the use back from every block and from used_bytes_, and keeps
\* the peak.
LEMMA ResetCounts ==
    ASSUME NEW ar, WellFormed(ar)
    PROVE  LET new == Reset(ar)
           IN  /\ new.used_bytes = 0
               /\ new.peak_usage = ar.peak_usage
               /\ new.reset_count = ar.reset_count + 1
               /\ Accounted(ar) => Accounted(new)
<1> DEFINE new == Reset(ar)
<1>1. /\ new.used_bytes = 0
      /\ new.peak_usage = ar.peak_usage
      /\ new.allocated_bytes = ar.allocated_bytes
      /\ new.reset_count = ar.reset_count + 1
      /\ new.blocks = [i \in DOMAIN ar.blocks |-> [ar.blocks[i] EXCEPT !.used = 0]]
  BY DEF Reset, WellFormed, ArenaRecord
<1>2. \A i \in DOMAIN ar.blocks :
         new.blocks[i].used = 0 /\ new.blocks[i].size = ar.blocks[i].size
  BY <1>1, BlocksAreTyped DEF Block
<1>3. DOMAIN new.blocks = DOMAIN ar.blocks
  BY <1>1
<1> HIDE DEF new
<1>4. ASSUME Accounted(ar)
      PROVE  Accounted(new)
  <2> DEFINE S == DOMAIN ar.blocks
  <2>1. /\ IsFiniteSet(S)
        /\ \A i \in S : SizeOf(ar)[i] = ar.blocks[i].size /\ SizeOf(ar)[i] \in Nat
        /\ DOMAIN SizeOf(ar) = S
        /\ ar.peak_usage \in Nat
    BY TermsAreNat
  <2>2. /\ \A i \in S : UsedOf(new)[i] = 0
        /\ \A i \in S : SizeOf(ar)[i] = SizeOf(new)[i]
        /\ DOMAIN UsedOf(new) = S /\ DOMAIN SizeOf(new) = S
    BY <1>2, <1>3, <2>1 DEF UsedOf, SizeOf
  <2> HIDE DEF S
  <2>3. SumFunctionOnSet(UsedOf(new), S) = 0
    BY <2>1, <2>2, SumOfZeros
  <2>4. SumFunctionOnSet(SizeOf(ar), S) = SumFunctionOnSet(SizeOf(new), S)
    BY <2>1, <2>2, SumSame
  <2> QED BY <1>1, <1>4, <2>1, <2>2, <2>3, <2>4 DEF Accounted, SumFunction
<1> QED
  BY <1>1, <1>4 DEF new

\* An arena without blocks has nothing in use and nothing allocated.
LEMMA NoBlocksAccounted ==
    ASSUME NEW ar, ar.blocks = << >>, ar.used_bytes = 0, ar.allocated_bytes = 0,
           ar.peak_usage \in Nat
    PROVE  Accounted(ar)
<1>1. DOMAIN ar.blocks = {}
  BY EmptySeq
<1>2. IsFiniteSet({})
  BY FS_EmptySet
<1>3. DOMAIN UsedOf(ar) = {} /\ DOMAIN SizeOf(ar) = {}
  BY <1>1 DEF UsedOf, SizeOf
<1>4. SumFunctionOnSet(UsedOf(ar), {}) = 0 /\ SumFunctionOnSet(SizeOf(ar), {}) = 0
  BY <1>2, SumOfZeros
<1> QED
  BY <1>3, <1>4 DEF Accounted, SumFunction

\* The constructor counts its block, if it gets one.
LEMMA ConstructedCounts ==
    ASSUME NEW bs \in BlockSizes, NEW base \in BaseAddresses
    PROVE  /\ Accounted(Blank(bs))
           /\ Accounted(Constructed(bs, base))
           /\ Constructed(bs, base).used_bytes = 0
           /\ Constructed(bs, base).peak_usage = 0
           /\ Constructed(bs, base).reset_count = 0
<1> DEFINE new == Constructed(bs, base)
           b == [base |-> base, size |-> bs, used |-> 0]
<1>1. bs \in Nat
  BY ArenaAssumption
<1>2. Accounted(Blank(bs))
  BY NoBlocksAccounted DEF Blank
<1>3. /\ new.blocks = << b >>
      /\ new.used_bytes = 0
      /\ new.peak_usage = 0
      /\ new.reset_count = 0
      /\ new.allocated_bytes = bs
  <2>1. Larger(bs, bs) = bs /\ 0 + bs = bs
    BY <1>1 DEF Larger
  <2> QED BY <2>1 DEF Constructed, AppendBlock, Blank
<1>4. DOMAIN new.blocks = {1} /\ new.blocks[1].used = 0 /\ new.blocks[1].size = bs
  BY <1>3
<1> HIDE DEF new, b
<1>5. /\ DOMAIN UsedOf(new) = {1} /\ DOMAIN SizeOf(new) = {1}
      /\ UsedOf(new)[1] = 0 /\ SizeOf(new)[1] = bs
  BY <1>4 DEF UsedOf, SizeOf
<1>6. IsFiniteSet({1}) /\ IsFiniteSet({})
  BY FS_EmptySet, FS_Singleton
<1>7. SumFunctionOnSet(UsedOf(new), {1}) = 0
  BY <1>5, <1>6, SumOfZeros
<1>8. SumFunctionOnSet(SizeOf(new), {1}) = bs
  <2>1. SumFunctionOnSet(SizeOf(new), {}) = 0
    BY <1>6, SumOfZeros
  <2>2. SumFunctionOnSet(SizeOf(new), {} \cup {1}) = SumFunctionOnSet(SizeOf(new), {}) + bs
    BY <1>1, <1>5, <1>6, SumOfOneMore
  <2>3. {} \cup {1} = {1}
    OBVIOUS
  <2> QED BY <1>1, <2>1, <2>2, <2>3
<1>9. Accounted(new)
  BY <1>3, <1>5, <1>7, <1>8 DEF Accounted, SumFunction
<1> QED
  BY <1>2, <1>3, <1>9 DEF new

(***************************************************************************)
(* All arenas: the inductive invariant is the conjunction of the type      *)
(* invariant and of the invariants TLC checks; none of the last three is   *)
(* inductive alone (a region is disjoint from the next one because it is   *)
(* backed, it stays backed because the current block is not overfull).     *)
(***************************************************************************)
IInv == TypeOK /\ RegionsBacked /\ RegionsDisjoint /\ CurrentBlockOwned

\* The inductive invariant says of every arena by itself that it is consistent.
LEMMA IInvIsConsistency ==
    IInv <=> /\ TypeOK
             /\ \A a \in Arena : Consistent(arena[a], regions[a])
<1>1. ASSUME IInv, NEW a \in Arena
      PROVE  Consistent(arena[a], regions[a])
  <2>1. arena[a] \in ArenaRecord /\ regions[a] \in SUBSET Region
    BY <1>1 DEF IInv, TypeOK
  <2>2. WellFormed(arena[a])
    BY <1>1, <2>1 DEF IInv, CurrentBlockOwned, WellFormed
  <2>3. \A r \in regions[a] : BackedBy(r, arena[a])
    BY <1>1 DEF IInv, RegionsBacked, BackedBy
  <2>4. \A r, s \in regions[a] : r # s => ~ Overlap(r, s)
    BY <1>1 DEF IInv, RegionsDisjoint
  <2> QED BY <2>1, <2>2, <2>3, <2>4 DEF Consistent
<1>2. ASSUME TypeOK, \A a \in Arena : Consistent(arena[a], regions[a])
      PROVE  IInv
  <2>1. RegionsBacked
    BY <1>2 DEF RegionsBacked, Consistent, WellFormed, BackedBy
  <2>2. RegionsDisjoint
    BY <1>2 DEF RegionsDisjoint, Consistent
  <2>3. CurrentBlockOwned
    BY <1>2 DEF CurrentBlockOwned, Consistent, WellFormed
  <2> QED BY <1>2, <2>1, <2>2, <2>3 DEF IInv
<1> QED BY <1>1, <1>2 DEF IInv

\* Changing one arena to something consistent keeps the invariant.
LEMMA UpdateOne ==
    ASSUME IInv, NEW a \in Arena, NEW new, NEW rs, Consistent(new, rs),
           arena' = [arena EXCEPT ![a] = new],
           regions' = [regions EXCEPT ![a] = rs]
    PROVE  IInv'
<1>1. TypeOK /\ \A b \in Arena : Consistent(arena[b], regions[b])
  BY IInvIsConsistency
<1>2. new \in ArenaRecord /\ rs \in SUBSET Region
  BY DEF Consistent, WellFormed
<1>3. TypeOK'
  BY <1>1, <1>2 DEF TypeOK
<1>4. ASSUME NEW b \in Arena
      PROVE  Consistent(arena'[b], regions'[b])
  <2>1. /\ arena'[b] = IF b = a THEN new ELSE arena[b]
        /\ regions'[b] = IF b = a THEN rs ELSE regions[b]
    BY <1>1 DEF TypeOK
  <2>2. CASE b = a
    BY <2>1, <2>2
  <2>3. CASE b # a
    BY <1>1, <2>1, <2>3
  <2> QED BY <2>2, <2>3
<1>5. RegionsBacked'
  BY <1>4 DEF RegionsBacked, Consistent, WellFormed, BackedBy
<1>6. RegionsDisjoint'
  BY <1>4 DEF RegionsDisjoint, Consistent
<1>7. CurrentBlockOwned'
  BY <1>4 DEF CurrentBlockOwned, Consistent, WellFormed
<1> QED BY <1>3, <1>5, <1>6, <1>7 DEF IInv

\* Constructed arenas satisfy the invariant, with or without a first block.
LEMMA InitEstablishes == Init => IInv
<1> SUFFICES ASSUME Init PROVE IInv
  OBVIOUS
<1>1. ASSUME NEW a \in Arena
      PROVE  Consistent(arena[a], regions[a])
  <2>1. regions[a] = {}
    BY DEF Init
  <2>2. \/ \E bs \in BlockSizes, base \in BaseAddresses : arena[a] = Constructed(bs, base)
        \/ \E bs \in BlockSizes : arena[a] = Blank(bs)
    BY DEF Init
  <2>3. ASSUME NEW bs \in BlockSizes, arena[a] = Blank(bs)
        PROVE  WellFormed(arena[a])
    <3>1. bs \in Nat
      BY ArenaAssumption
    <3> QED
      BY <2>3, <3>1, EmptySeq DEF Blank, WellFormed, ArenaRecord
  <2>4. WellFormed(arena[a])
    BY <2>2, <2>3, ConstructedWellFormed
  <2> QED BY <2>1, <2>4 DEF Consistent
<1>2. TypeOK
  <2>1. \A a \in Arena : arena[a] \in ArenaRecord
    BY <1>1 DEF Consistent, WellFormed
  <2>2. arena = [a \in Arena |-> arena[a]]
    BY DEF Init
  <2> QED BY <2>1, <2>2 DEF TypeOK, Init
<1> QED BY <1>1, <1>2, IInvIsConsistency

\* allocate() keeps the invariant on its fast path, on its slow path and when it
\* fails (memory_arena.cpp:50-103).
LEMMA AllocateKeeps ==
    ASSUME IInv, NEW a \in Arena, Allocate(a)
    PROVE  IInv'
<1>1. PICK n \in Sizes, asked \in Alignments :
        \/ AllocateFast(a, n, EffectiveAlignment(asked))
        \/ \E base \in BaseAddresses : AllocateSlow(a, n, EffectiveAlignment(asked), base)
        \/ AllocateNull(a, n, EffectiveAlignment(asked))
  BY DEF Allocate
<1> DEFINE al == EffectiveAlignment(asked)
<1>2. al \in Nat \ {0}
  BY EffectiveAlignmentPositive
<1> HIDE DEF al
<1>3. n \in Nat
  BY MemoryArenaAssumption
<1>4. Consistent(arena[a], regions[a])
  BY IInvIsConsistency
<1>5. CASE AllocateFast(a, n, al)
  <2>1. n \in Nat \ {0} /\ FitsCurrent(arena[a], n, al)
    BY <1>3, <1>5 DEF AllocateFast
  <2>2. Consistent(TakeFromCurrent(arena[a], n, al),
                   regions[a] \cup {RegionTaken(arena[a], n, al)})
    BY <1>2, <1>4, <2>1, TakeFromCurrentConsistent
  <2>3. /\ arena' = [arena EXCEPT ![a] = TakeFromCurrent(arena[a], n, al)]
        /\ regions' = [regions EXCEPT ![a] = regions[a] \cup {RegionTaken(arena[a], n, al)}]
    BY <1>5 DEF AllocateFast
  <2> QED BY <2>2, <2>3, UpdateOne
<1>6. ASSUME NEW base \in BaseAddresses, AllocateSlow(a, n, al, base)
      PROVE  IInv'
  <2> DEFINE grown == Grown(arena[a], n, al, base)
  <2>1. n \in Nat \ {0}
    BY <1>3, <1>6 DEF AllocateSlow
  <2>2. Consistent(grown, regions[a]) /\ FitsCurrent(grown, n, al)
    BY <1>2, <1>4, <2>1, GrownConsistent
  <2>3. /\ arena' = [arena EXCEPT ![a] = TakeFromCurrent(grown, n, al)]
        /\ regions' = [regions EXCEPT ![a] = regions[a] \cup {RegionTaken(grown, n, al)}]
    BY <1>6 DEF AllocateSlow, TakeFromNew
  <2> HIDE DEF grown
  <2>4. Consistent(TakeFromCurrent(grown, n, al), regions[a] \cup {RegionTaken(grown, n, al)})
    BY <1>2, <2>1, <2>2, TakeFromCurrentConsistent
  <2> QED BY <2>3, <2>4, UpdateOne
<1>7. CASE AllocateNull(a, n, al)
  BY <1>7 DEF AllocateNull, vars, IInv, TypeOK, RegionsBacked, RegionsDisjoint, CurrentBlockOwned
<1> QED BY <1>1, <1>5, <1>6, <1>7 DEF al

\* reset() and clear() keep the invariant: they end every region of the arena.
LEMMA ReleaseKeeps ==
    ASSUME IInv, NEW a \in Arena, ResetArena(a) \/ Clear(a)
    PROVE  IInv'
<1>1. WellFormed(arena[a])
  BY IInvIsConsistency DEF Consistent
<1>2. Consistent(Reset(arena[a]), {}) /\ Consistent(Emptied(arena[a]), {})
  BY <1>1, ResetWellFormed, EmptiedWellFormed DEF Consistent
<1>3. CASE ResetArena(a)
  BY <1>2, <1>3, UpdateOne DEF ResetArena
<1>4. CASE Clear(a)
  BY <1>2, <1>4, UpdateOne DEF Clear
<1> QED BY <1>3, <1>4

\* A move is two updates: the source's arena and regions go to the target
\* together, and the source is left without either.
LEMMA MoveAssignKeeps ==
    ASSUME IInv, NEW dst \in Arena, NEW src \in Arena, MoveAssign(dst, src)
    PROVE  IInv'
<1>1. TypeOK /\ \A b \in Arena : Consistent(arena[b], regions[b])
  BY IInvIsConsistency
<1>2. CASE dst = src
  BY <1>2 DEF MoveAssign, vars, IInv, TypeOK, RegionsBacked, RegionsDisjoint, CurrentBlockOwned
<1>3. CASE dst # src
  <2>1. Consistent(Emptied(arena[src]), {})
    BY <1>1, EmptiedWellFormed DEF Consistent
  <2>2. /\ arena' = [arena EXCEPT ![dst] = arena[src], ![src] = Emptied(arena[src])]
        /\ regions' = [regions EXCEPT ![dst] = regions[src], ![src] = {}]
    BY <1>1, <1>3 DEF MoveAssign, TypeOK
  <2> DEFINE left == Emptied(arena[src])
  <2> HIDE DEF left
  <2>3. ASSUME NEW b \in Arena
        PROVE  Consistent(arena'[b], regions'[b])
    <3>1. /\ arena'[b] = IF b = src THEN left ELSE IF b = dst THEN arena[src] ELSE arena[b]
          /\ regions'[b] = IF b = src THEN {} ELSE IF b = dst THEN regions[src] ELSE regions[b]
      BY <1>1, <1>3, <2>2 DEF TypeOK, left
    <3>2. Consistent(left, {})
      BY <2>1 DEF left
    <3>3. CASE b = src
      BY <3>1, <3>2, <3>3
    <3>4. CASE b # src /\ b = dst
      BY <1>1, <3>1, <3>4
    <3>5. CASE b # src /\ b # dst
      BY <1>1, <3>1, <3>5
    <3> QED BY <3>3, <3>4, <3>5
  <2>4. TypeOK'
    <3>1. \A b \in Arena : arena'[b] \in ArenaRecord /\ regions'[b] \in SUBSET Region
      BY <2>3 DEF Consistent, WellFormed
    <3>2. arena' = [b \in Arena |-> arena'[b]] /\ regions' = [b \in Arena |-> regions'[b]]
      BY <1>1, <2>2 DEF TypeOK
    <3> QED BY <3>1, <3>2 DEF TypeOK
  <2>5. RegionsBacked'
    BY <2>3 DEF RegionsBacked, Consistent, WellFormed, BackedBy
  <2>6. RegionsDisjoint'
    BY <2>3 DEF RegionsDisjoint, Consistent
  <2>7. CurrentBlockOwned'
    BY <2>3 DEF CurrentBlockOwned, Consistent, WellFormed
  <2> QED BY <2>4, <2>5, <2>6, <2>7 DEF IInv
<1> QED BY <1>2, <1>3

\* The invariant speaks of the variables alone.
LEMMA StutterKeeps == IInv /\ UNCHANGED vars => IInv'
BY DEF vars, IInv, TypeOK, RegionsBacked, RegionsDisjoint, CurrentBlockOwned

\* The invariant holds after any sequence of calls.
LEMMA IInvInvariant == Spec => []IInv
<1>1. IInv /\ [Next]_vars => IInv'
  BY AllocateKeeps, ReleaseKeeps, MoveAssignKeeps, StutterKeeps DEF Next
<1> QED
  BY InitEstablishes, <1>1, PTL DEF Spec

\* Every arena keeps its shape: sequences of blocks, natural counters, regions
\* that are extents (all member functions of MemoryArena).
THEOREM TypeCorrect == Spec => []TypeOK
<1>1. IInv => TypeOK  BY DEF IInv
<1> QED BY IInvInvariant, <1>1, PTL

\* allocate() never hands out a byte that is in use, whatever sizes,
\* alignments, resets, clears and moves came before.
THEOREM NoOverlap == Spec => []RegionsDisjoint
<1>1. IInv => RegionsDisjoint  BY DEF IInv
<1> QED BY IInvInvariant, <1>1, PTL

\* Every pointer a caller may still use is aligned as asked and lies in the
\* used part of a block its arena owns, which ends before the block does.
THEOREM RegionsStayBacked == Spec => []RegionsBacked
<1>1. IInv => RegionsBacked  BY DEF IInv
<1> QED BY IInvInvariant, <1>1, PTL

\* current_block_ is null, the first or the last block, never dangling, and no
\* block is filled beyond its size.
THEOREM CurrentBlockStaysOwned == Spec => []CurrentBlockOwned
<1>1. IInv => CurrentBlockOwned  BY DEF IInv
<1> QED BY IInvInvariant, <1>1, PTL

\* clear() and a move leave a source that counts nothing.
LEMMA EmptiedCounts ==
    ASSUME NEW ar, WellFormed(ar)
    PROVE  Accounted(Emptied(ar))
<1>1. /\ Emptied(ar).blocks = << >>
      /\ Emptied(ar).used_bytes = 0
      /\ Emptied(ar).allocated_bytes = 0
      /\ Emptied(ar).peak_usage = ar.peak_usage
  BY DEF Emptied, WellFormed, ArenaRecord
<1>2. ar.peak_usage \in Nat
  BY TermsAreNat
<1> QED
  BY <1>1, <1>2, NoBlocksAccounted

\* Changing one arena to something accounted keeps the counters.
LEMMA AccountOne ==
    ASSUME TypeOK, CountersAgree, NEW a \in Arena, NEW new, Accounted(new),
           arena' = [arena EXCEPT ![a] = new]
    PROVE  CountersAgree'
<1>1. ASSUME NEW b \in Arena
      PROVE  Accounted(arena'[b])
  <2>1. arena'[b] = IF b = a THEN new ELSE arena[b]
    BY DEF TypeOK
  <2>2. Accounted(arena[b])
    BY DEF CountersAgree, Accounted, UsedOf, SizeOf
  <2> QED BY <2>1, <2>2
<1> QED
  BY <1>1 DEF CountersAgree, Accounted, UsedOf, SizeOf

\* Every call keeps the counters in agreement with the blocks.
LEMMA CountersKept ==
    ASSUME IInv, CountersAgree, Next
    PROVE  CountersAgree'
<1>1. TypeOK /\ \A a \in Arena : WellFormed(arena[a]) /\ Accounted(arena[a])
  BY IInvIsConsistency DEF Consistent, CountersAgree, Accounted, UsedOf, SizeOf
<1>2. CASE UNCHANGED vars
  BY <1>2 DEF vars, CountersAgree
<1>3. ASSUME NEW a \in Arena, NEW n \in Sizes, NEW asked \in Alignments,
             AllocateFast(a, n, EffectiveAlignment(asked))
      PROVE  CountersAgree'
  <2> DEFINE al == EffectiveAlignment(asked)
  <2>1. al \in Nat \ {0} /\ n \in Nat \ {0}
    BY <1>3, EffectiveAlignmentPositive, MemoryArenaAssumption DEF AllocateFast
  <2>2. /\ FitsCurrent(arena[a], n, al)
        /\ arena' = [arena EXCEPT ![a] = TakeFromCurrent(arena[a], n, al)]
    BY <1>3 DEF AllocateFast
  <2> HIDE DEF al
  <2>3. Accounted(TakeFromCurrent(arena[a], n, al))
    BY <1>1, <2>1, <2>2, TakeFromCurrentCounts
  <2> QED BY <1>1, <2>2, <2>3, AccountOne
<1>4. ASSUME NEW a \in Arena, NEW n \in Sizes, NEW asked \in Alignments,
             NEW base \in BaseAddresses,
             AllocateSlow(a, n, EffectiveAlignment(asked), base)
      PROVE  CountersAgree'
  <2> DEFINE al == EffectiveAlignment(asked)
             grown == Grown(arena[a], n, al, base)
  <2>1. al \in Nat \ {0} /\ n \in Nat \ {0}
    BY <1>4, EffectiveAlignmentPositive, MemoryArenaAssumption DEF AllocateSlow
  <2>2. arena' = [arena EXCEPT ![a] = TakeFromCurrent(grown, n, al)]
    BY <1>4 DEF AllocateSlow, TakeFromNew
  <2> HIDE DEF al
  <2>3. WellFormed(grown) /\ FitsCurrent(grown, n, al) /\ Accounted(grown)
    BY <1>1, <2>1, GrownEffect, GrownCounts
  <2> HIDE DEF grown
  <2>4. Accounted(TakeFromCurrent(grown, n, al))
    BY <2>1, <2>3, TakeFromCurrentCounts
  <2> QED BY <1>1, <2>2, <2>4, AccountOne
<1>5. ASSUME NEW a \in Arena, ResetArena(a)
      PROVE  CountersAgree'
  BY <1>1, <1>5, ResetCounts, AccountOne DEF ResetArena
<1>6. ASSUME NEW a \in Arena, Clear(a)
      PROVE  CountersAgree'
  BY <1>1, <1>6, EmptiedCounts, AccountOne DEF Clear
<1>7. ASSUME NEW dst \in Arena, NEW src \in Arena, MoveAssign(dst, src), dst # src
      PROVE  CountersAgree'
  <2>1. arena' = [arena EXCEPT ![dst] = arena[src], ![src] = Emptied(arena[src])]
    BY <1>1, <1>7 DEF MoveAssign, TypeOK
  <2>2. Accounted(Emptied(arena[src]))
    BY <1>1, EmptiedCounts
  <2> DEFINE left == Emptied(arena[src])
  <2> HIDE DEF left
  <2>3. ASSUME NEW b \in Arena
        PROVE  Accounted(arena'[b])
    <3>1. arena'[b] = IF b = src THEN left ELSE IF b = dst THEN arena[src] ELSE arena[b]
      BY <1>1, <1>7, <2>1 DEF TypeOK, left
    <3> QED BY <1>1, <2>2, <3>1 DEF left
  <2> QED BY <2>3 DEF CountersAgree, Accounted, UsedOf, SizeOf
<1>8. ASSUME NEW a \in Arena, Allocate(a)
      PROVE  CountersAgree'
  BY <1>2, <1>3, <1>4, <1>8 DEF Allocate, AllocateNull
<1>9. ASSUME NEW dst \in Arena, NEW src \in Arena, MoveAssign(dst, src)
      PROVE  CountersAgree'
  BY <1>2, <1>7, <1>9 DEF MoveAssign
<1> QED
  BY <1>5, <1>6, <1>8, <1>9 DEF Next

\* used_bytes_ and allocated_bytes_ are the sums over the blocks, and no use
\* exceeds the recorded peak, after any sequence of calls and moves.
THEOREM CountersTellTheBlocks == Spec => []CountersAgree
<1>1. Init => CountersAgree
  <2> SUFFICES ASSUME Init, NEW a \in Arena PROVE Accounted(arena[a])
    BY DEF CountersAgree, Accounted, UsedOf, SizeOf
  <2>1. \/ \E bs \in BlockSizes, base \in BaseAddresses : arena[a] = Constructed(bs, base)
        \/ \E bs \in BlockSizes : arena[a] = Blank(bs)
    BY DEF Init
  <2>2. ASSUME NEW bs \in BlockSizes, arena[a] = Blank(bs)
        PROVE  Accounted(arena[a])
    <3>1. bs \in Nat
      BY ArenaAssumption
    <3> QED BY <2>2, NoBlocksAccounted DEF Blank
  <2> QED BY <2>1, <2>2, ConstructedCounts
<1>2. CountersAgree /\ UNCHANGED vars => CountersAgree'
  BY DEF vars, CountersAgree
<1>3. IInv /\ CountersAgree /\ [Next]_vars => CountersAgree'
  BY <1>2, CountersKept
<1> QED BY IInvInvariant, <1>1, <1>3, PTL DEF Spec

(***************************************************************************)
(* Refinement.                                                             *)
(***************************************************************************)
LiveExtents == [a \in Arena |-> { ExtentOf(r) : r \in regions[a] }]

\* An allocation hands out an extent disjoint from all live ones.
LEMMA AllocateHandsOut ==
    ASSUME IInv, NEW a \in Arena, NEW r \in Region, r.len > 0,
           regions' = [regions EXCEPT ![a] = @ \cup {r}],
           \A s \in regions[a] : ~ Overlap(r, s)
    PROVE  Promise!HandOut(a)
<1>1. regions \in [Arena -> SUBSET Region]
  BY DEF IInv, TypeOK
<1>2. ExtentOf(r) \in Promise!Extent /\ ExtentOf(r).len > 0
  BY DEF ExtentOf, Promise!Extent, Region
<1>3. \A s \in LiveExtents[a] : ~ Promise!Overlap(ExtentOf(r), s)
  BY DEF LiveExtents, ExtentOf, Promise!Overlap, Overlap
<1>4. LiveExtents' = [LiveExtents EXCEPT ![a] = @ \cup {ExtentOf(r)}]
  <2>1. \A b \in Arena : regions'[b] = IF b = a THEN regions[a] \cup {r} ELSE regions[b]
    BY <1>1
  <2>2. \A b \in Arena :
          LiveExtents'[b] = IF b = a THEN LiveExtents[a] \cup {ExtentOf(r)} ELSE LiveExtents[b]
    BY <2>1 DEF LiveExtents
  <2> QED BY <2>2 DEF LiveExtents
<1>5. ExtentOf(r) \in LiveExtents'[a]
  BY <1>4 DEF LiveExtents
<1> QED BY <1>2, <1>3, <1>4, <1>5 DEF Promise!HandOut, LiveExtents

\* Every call on an arena is a step of the abstract allocator, or no step of it.
LEMMA StepRefines ==
    ASSUME IInv, [Next]_vars
    PROVE  Promise!Next \/ UNCHANGED LiveExtents
<1>1. regions \in [Arena -> SUBSET Region]
  BY DEF IInv, TypeOK
<1>2. ASSUME NEW a \in Arena, Allocate(a)
      PROVE  Promise!Next \/ UNCHANGED LiveExtents
  <2>1. PICK n \in Sizes, asked \in Alignments :
          \/ AllocateFast(a, n, EffectiveAlignment(asked))
          \/ \E base \in BaseAddresses : AllocateSlow(a, n, EffectiveAlignment(asked), base)
          \/ AllocateNull(a, n, EffectiveAlignment(asked))
    BY <1>2 DEF Allocate
  <2> DEFINE al == EffectiveAlignment(asked)
  <2>2. al \in Nat \ {0} /\ n \in Nat
    BY EffectiveAlignmentPositive, MemoryArenaAssumption
  <2> HIDE DEF al
  <2>3. Consistent(arena[a], regions[a])
    BY IInvIsConsistency
  <2>4. CASE AllocateFast(a, n, al)
    <3>1. n \in Nat \ {0} /\ FitsCurrent(arena[a], n, al)
      BY <2>2, <2>4 DEF AllocateFast
    <3> DEFINE r == RegionTaken(arena[a], n, al)
    <3>2. r \in Region /\ \A s \in regions[a] : ~ Overlap(r, s)
      BY <2>2, <2>3, <3>1, TakeFromCurrentConsistent
    <3>3. r.len > 0
      BY <3>1 DEF RegionTaken
    <3>4. regions' = [regions EXCEPT ![a] = @ \cup {r}]
      BY <2>4 DEF AllocateFast
    <3> HIDE DEF r
    <3>5. Promise!HandOut(a)
      BY <2>2, <3>1, <3>2, <3>3, <3>4, AllocateHandsOut
    <3> QED BY <3>5 DEF Promise!Next
  <2>5. ASSUME NEW base \in BaseAddresses, AllocateSlow(a, n, al, base)
        PROVE  Promise!Next
    <3> DEFINE grown == Grown(arena[a], n, al, base)
               r == RegionTaken(grown, n, al)
    <3>1. n \in Nat \ {0}
      BY <2>2, <2>5 DEF AllocateSlow
    <3>2. Consistent(grown, regions[a]) /\ FitsCurrent(grown, n, al)
      BY <2>2, <2>3, <3>1, GrownConsistent
    <3>3. regions' = [regions EXCEPT ![a] = @ \cup {r}]
      BY <2>5 DEF AllocateSlow
    <3> HIDE DEF grown
    <3>4. r \in Region /\ \A s \in regions[a] : ~ Overlap(r, s)
      BY <2>2, <3>1, <3>2, TakeFromCurrentConsistent
    <3>5. r.len > 0
      BY <3>1 DEF RegionTaken
    <3> HIDE DEF r
    <3>6. Promise!HandOut(a)
      BY <2>2, <3>1, <3>3, <3>4, <3>5, AllocateHandsOut
    <3> QED BY <3>6 DEF Promise!Next
  <2>6. CASE AllocateNull(a, n, al)
    BY <2>6 DEF AllocateNull, vars, LiveExtents
  <2> QED BY <2>1, <2>4, <2>5, <2>6 DEF al
<1>3. ASSUME NEW a \in Arena, ResetArena(a) \/ Clear(a)
      PROVE  Promise!Next
  <2>1. regions' = [regions EXCEPT ![a] = {}]
    BY <1>3 DEF ResetArena, Clear
  <2>2. \A b \in Arena : LiveExtents'[b] = IF b = a THEN {} ELSE LiveExtents[b]
    BY <1>1, <2>1 DEF LiveExtents
  <2>3. LiveExtents' = [LiveExtents EXCEPT ![a] = {}]
    BY <2>2 DEF LiveExtents
  <2> QED BY <2>3 DEF Promise!Next, Promise!Release, LiveExtents
<1>4. ASSUME NEW dst \in Arena, NEW src \in Arena, MoveAssign(dst, src)
      PROVE  Promise!Next \/ UNCHANGED LiveExtents
  <2>1. CASE dst = src
    BY <1>4, <2>1 DEF MoveAssign, vars, LiveExtents
  <2>2. CASE dst # src
    <3>1. regions' = [regions EXCEPT ![dst] = regions[src], ![src] = {}]
      BY <1>4, <2>2 DEF MoveAssign
    <3>2. \A b \in Arena :
            LiveExtents'[b] = IF b = src THEN {}
                              ELSE IF b = dst THEN LiveExtents[src] ELSE LiveExtents[b]
      BY <1>1, <2>2, <3>1 DEF LiveExtents
    <3>3. LiveExtents' = [LiveExtents EXCEPT ![dst] = LiveExtents[src], ![src] = {}]
      BY <2>2, <3>2 DEF LiveExtents
    <3> QED BY <2>2, <3>3 DEF Promise!Next, Promise!Hand, LiveExtents
  <2> QED BY <2>1, <2>2
<1>5. CASE UNCHANGED vars
  BY <1>5 DEF vars, LiveExtents
<1> QED BY <1>2, <1>3, <1>4, <1>5 DEF Next

\* The arenas keep the promise of a region allocator: disjoint extents, taken
\* back only by reset, clear and moves (the whole of MemoryArena).
THEOREM Refinement == Spec => ImplementsRegionAllocator
<1>1. Init => Promise!Init
  BY DEF Init, Promise!Init
<1>2. IInv /\ [Next]_vars => [Promise!Next]_LiveExtents
  BY StepRefines
<1> QED
  BY IInvInvariant, <1>1, <1>2, PTL DEF Spec, ImplementsRegionAllocator, Promise!Spec, LiveExtents
=============================================================================
