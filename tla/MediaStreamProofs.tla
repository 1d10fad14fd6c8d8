-------------------------- MODULE MediaStreamProofs --------------------------
(***************************************************************************)
(* What is proved of the C++ processor's stream handlers and of the        *)
(* reports on them, for any finite set of streams, any number of chunks,   *)
(* any frames and any interval between two resets.                         *)
(***************************************************************************)
EXTENDS MetricsScrape, FiniteSetTheorems, SequenceTheorems, TLAPS

(***************************************************************************)
(* What one arena does is proved in MemoryArenaProofs, of the same         *)
(* operators of ArenaState; no set of arena objects is involved here.      *)
(***************************************************************************)
Mem == INSTANCE MemoryArenaProofs WITH
    Arena <- Stream, regions <- [s \in Stream |-> {}],
    Sizes <- {}, MaxBlocks <- 0, MaxAllocations <- 0, MaxResets <- 0

\* The instance's operators are those that MediaStream uses.
LEMMA SameAllocated ==
    ASSUME NEW ar, NEW n, NEW al, NEW base
    PROVE  Mem!Allocated(ar, n, al, base) = Allocated(ar, n, al, base)
BY DEF Allocated, FitsCurrent, Fits, TakeFromNew, Grown, AppendBlock, TakeFromCurrent,
       Padding, AlignUp, Larger,
       Mem!Allocated, Mem!FitsCurrent, Mem!Fits, Mem!TakeFromNew, Mem!Grown,
       Mem!AppendBlock, Mem!TakeFromCurrent, Mem!Padding, Mem!AlignUp, Mem!Larger

\* reset() is the instance's.
LEMMA SameReset ==
    ASSUME NEW ar
    PROVE  Mem!Reset(ar) = Reset(ar)
BY DEF Reset, Mem!Reset

\* So is the constructor.
LEMMA SameConstructed ==
    ASSUME NEW bs, NEW base
    PROVE  Mem!Constructed(bs, base) = Constructed(bs, base)
BY DEF Constructed, Blank, AppendBlock, Larger,
       Mem!Constructed, Mem!Blank, Mem!AppendBlock, Mem!Larger

\* So is the alignment that allocate() goes by.
LEMMA SameAlignment ==
    ASSUME NEW al
    PROVE  Mem!EffectiveAlignment(al) = EffectiveAlignment(al)
BY DEF EffectiveAlignment, Mem!EffectiveAlignment

\* So is what is finite.
LEMMA SameFinite ==
    ASSUME NEW S
    PROVE  Mem!IsFiniteSet(S) = IsFiniteSet(S)
BY DEF IsFiniteSet, Mem!IsFiniteSet

\* So are the sums over an arena's blocks.
LEMMA SameSum ==
    ASSUME NEW f, NEW S
    PROVE  Mem!SumFunctionOnSet(f, S) = SumFunctionOnSet(f, S)
BY DEF SumFunctionOnSet, FoldFunctionOnSet, MapThenFoldSet,
       Mem!SumFunctionOnSet, Mem!FoldFunctionOnSet, Mem!MapThenFoldSet

\* Of any sets of elements of a finite set, one has none of the others inside.
LEMMA SmallestSet ==
    ASSUME NEW S, IsFiniteSet(S), NEW Sets, Sets \subseteq SUBSET S, Sets # {}
    PROVE  \E T \in Sets : \A U \in Sets : U \subseteq T => U = T
<1>1. Mem!IsFiniteSet(S)
    BY SameFinite
<1> QED
    BY <1>1, ArenaAssumption, Mem!SmallestSet

\* Induction over the subsets of a finite set.
LEMMA SetInduction ==
    ASSUME NEW S, IsFiniteSet(S), NEW P, {} \in P,
           \A T \in SUBSET S : \A x \in S \ T : T \in P => T \cup {x} \in P
    PROVE  S \in P
<1>1. Mem!IsFiniteSet(S)
    BY SameFinite
<1> QED
    BY <1>1, ArenaAssumption, Mem!SetInduction

\* One request: the arena stays well-formed, and takes at most size and padding.
LEMMA ServedOnce ==
    ASSUME NEW ar, Mem!WellFormed(ar), NEW n \in Nat, NEW al \in Nat \ {0},
           NEW base \in BaseAddresses
    PROVE  LET new == Allocated(ar, n, al, base)
           IN  /\ Mem!WellFormed(new)
               /\ ar.used_bytes <= new.used_bytes
               /\ new.used_bytes <= ar.used_bytes + (n + al)
               /\ ar.peak_usage <= new.peak_usage
               /\ new.reset_count = ar.reset_count
BY SameAllocated, ArenaAssumption, Mem!AllocatedEffect

\* Facts of sums, from MemoryArenaProofs.
LEMMA SumOfOneMore ==
    ASSUME NEW S, IsFiniteSet(S), NEW f, \A x \in S : f[x] \in Nat,
           NEW y, y \notin S, f[y] \in Nat
    PROVE  /\ SumFunctionOnSet(f, S) \in Nat
           /\ SumFunctionOnSet(f, S \cup {y}) = SumFunctionOnSet(f, S) + f[y]
<1>1. Mem!IsFiniteSet(S)
    BY SameFinite
<1> QED
    BY <1>1, SameSum, ArenaAssumption, Mem!SumOfOneMore

\* A sum of naturals is one.
LEMMA SumIsNat ==
    ASSUME NEW S, IsFiniteSet(S), NEW f, \A x \in S : f[x] \in Nat
    PROVE  SumFunctionOnSet(f, S) \in Nat
<1>1. Mem!IsFiniteSet(S)
    BY SameFinite
<1> QED
    BY <1>1, SameSum, ArenaAssumption, Mem!SumIsNat

\* A sum depends on what it adds up only.
LEMMA SumSame ==
    ASSUME NEW S, IsFiniteSet(S), NEW f, NEW g, \A x \in S : f[x] = g[x] /\ f[x] \in Nat
    PROVE  SumFunctionOnSet(f, S) = SumFunctionOnSet(g, S)
<1>1. Mem!IsFiniteSet(S)
    BY SameFinite
<1> QED
    BY <1>1, SameSum, ArenaAssumption, Mem!SumSame

\* A sum grows with one of its terms, and by as much.
LEMMA SumOfGrown ==
    ASSUME NEW S, IsFiniteSet(S), NEW f, \A x \in S : f[x] \in Nat,
           NEW y \in S, NEW n \in Nat,
           NEW g, \A x \in S \ {y} : g[x] = f[x], g[y] = f[y] + n
    PROVE  SumFunctionOnSet(g, S) = SumFunctionOnSet(f, S) + n
<1>1. Mem!IsFiniteSet(S)
    BY SameFinite
<1> QED
    BY <1>1, SameSum, ArenaAssumption, Mem!SumOfGrown

\* A sum of zeros is zero.
LEMMA SumOfZeros ==
    ASSUME NEW S, IsFiniteSet(S), NEW f, \A x \in S : f[x] = 0
    PROVE  SumFunctionOnSet(f, S) = 0
<1>1. Mem!IsFiniteSet(S)
    BY SameFinite
<1> QED
    BY <1>1, SameSum, ArenaAssumption, Mem!SumOfZeros

(***************************************************************************)
(* A frame's requests.  Served is a fold; what it does is found by         *)
(* induction over the requests, and over the sets of their indices that    *)
(* the fold goes through.                                                  *)
(***************************************************************************)

\* Induction over the first numbers.
LEMMA NumberInduction ==
    ASSUME NEW n \in Nat, NEW P, 0 \in P,
           \A k \in 0 .. n : k \in P /\ k + 1 \in 0 .. n => k + 1 \in P
    PROVE  n \in P
<1> SUFFICES ASSUME n \notin P PROVE FALSE
    OBVIOUS
<1> DEFINE Sets == { 0 .. k : k \in (0 .. n) \ P }
<1>1. Sets \subseteq SUBSET (0 .. n) /\ 0 .. n \in Sets
    OBVIOUS
<1>2. IsFiniteSet(0 .. n)
    BY FS_Interval
<1>3. PICK T \in Sets : \A U \in Sets : U \subseteq T => U = T
  <2> DEFINE N == 0 .. n
  <2>1. IsFiniteSet(N) /\ Sets \subseteq SUBSET N /\ Sets # {}
      BY <1>1, <1>2
  <2> HIDE DEF Sets, N
  <2>2. \E T \in Sets : \A U \in Sets : U \subseteq T => U = T
      BY <2>1, SmallestSet
  <2> QED BY <2>2
<1>4. PICK k \in (0 .. n) \ P : T = 0 .. k
    OBVIOUS
<1>5. k # 0 /\ k - 1 \in 0 .. n /\ (k - 1) + 1 = k
    BY <1>4
<1>6. k - 1 \notin P
    BY <1>4, <1>5
<1>7. 0 .. (k - 1) \in Sets /\ 0 .. (k - 1) \subseteq T
    BY <1>4, <1>5, <1>6
<1>8. k \in T /\ k \notin 0 .. (k - 1)
    BY <1>4
<1> QED
    BY <1>3, <1>7, <1>8

\* The greatest of finitely many integers is one of them.
LEMMA MaxIsGreatest ==
    ASSUME NEW S, IsFiniteSet(S), S \subseteq Int, S # {}
    PROVE  Max(S) \in S /\ \A x \in S : x <= Max(S)
<1> DEFINE P == { T \in SUBSET S : T = {} \/ \E x \in T : \A y \in T : x >= y }
<1>1. ASSUME NEW T \in SUBSET S, NEW x \in S \ T, T \in P
      PROVE  T \cup {x} \in P
  <2>1. CASE T = {}
      BY <2>1
  <2>2. CASE T # {}
    <3>1. PICK m \in T : \A y \in T : m >= y
        BY <1>1, <2>2
    <3>2. m \in Int /\ x \in Int /\ T \subseteq Int
        OBVIOUS
    <3>3. CASE m >= x
        BY <3>1, <3>3
    <3>4. CASE x > m
        BY <3>1, <3>2, <3>4
    <3> QED BY <3>2, <3>3, <3>4
  <2> QED BY <2>1, <2>2
<1>2. {} \in P
    OBVIOUS
<1> HIDE DEF P
<1>3. S \in P
    BY <1>1, <1>2, SetInduction
<1> QED
    BY <1>3 DEF Max, P

\* One step of the fold: the last request of s after the others.
LastServed(g, ar, requests, base, s) ==
    IF s = {} THEN ar
    ELSE Allocated(g[s \ {Max(s)}], requests[Max(s)].size,
                   EffectiveAlignment(requests[Max(s)].align), base)

\* g is the fold's function over the sets of the first n indices.
IsFold(g, ar, requests, base, n) ==
    g = [s \in SUBSET (1 .. n) |-> LastServed(g, ar, requests, base, s)]

\* The fold's function exists.
LEMMA FoldExists ==
    ASSUME NEW ar, NEW requests, NEW base, NEW n \in Nat
    PROVE  \E g : IsFold(g, ar, requests, base, n)
<1> DEFINE Folds(g, k) == IsFold(g, ar, requests, base, k)
           P == { k \in 0 .. n : \E g : Folds(g, k) }
<1>1. 0 \in P
  <2> DEFINE g0 == [s \in SUBSET (1 .. 0) |-> ar]
  <2>1. \A s \in SUBSET (1 .. 0) : LastServed(g0, ar, requests, base, s) = ar
      BY DEF LastServed
  <2>2. g0 = [s \in SUBSET (1 .. 0) |-> LastServed(g0, ar, requests, base, s)]
      BY <2>1
  <2>3. Folds(g0, 0)
      BY <2>2 DEF IsFold
  <2> HIDE DEF g0, Folds
  <2>4. 0 \in 0 .. n /\ \E g : Folds(g, 0)
      BY <2>3
  <2> QED
      BY <2>4
<1>2. ASSUME NEW k \in 0 .. n, k \in P, k + 1 \in 0 .. n
      PROVE  k + 1 \in P
  <2>1. PICK g : Folds(g, k)
      BY <1>2
  <2>6. g = [s \in SUBSET (1 .. k) |-> LastServed(g, ar, requests, base, s)]
      BY <2>1 DEF IsFold
  <2> DEFINE All == SUBSET (1 .. k + 1)
             Step(h, s) == LastServed(h, ar, requests, base, s)
             g1 == [s \in All |-> IF k + 1 \in s THEN Step(g, s) ELSE g[s]]
  <2>2. ASSUME NEW s \in All
        PROVE  g1[s] = Step(g1, s)
    <3>1. IsFiniteSet(1 .. k + 1) /\ 1 .. k + 1 \subseteq Int
        BY FS_Interval
    <3>2. IsFiniteSet(s) /\ s \subseteq Int
        BY <3>1, FS_Subset
    <3>3. CASE k + 1 \in s
      <4>1. Max(s) \in s /\ \A x \in s : x <= Max(s)
          BY <3>2, <3>3, MaxIsGreatest
      <4>2. Max(s) = k + 1
        <5>1. Max(s) \in 1 .. k + 1 /\ k + 1 <= Max(s)
            BY <3>3, <4>1
        <5> HIDE DEF All
        <5> QED BY <5>1
      <4>3. s \ {k + 1} \in All /\ k + 1 \notin s \ {k + 1}
          OBVIOUS
      <4>4. g1[s \ {k + 1}] = g[s \ {k + 1}]
          BY <4>3
      <4>5. g1[s] = Step(g, s)
          BY <3>3
      <4> HIDE DEF g1, All
      <4>6. Step(g, s) = Step(g1, s)
          BY <3>3, <4>2, <4>4 DEF LastServed
      <4> QED BY <4>5, <4>6
    <3>4. CASE k + 1 \notin s
      <4>1. s \in SUBSET (1 .. k)
          BY <3>4
      <4>2. g1[s] = g[s]
          BY <3>4
      <4>3. g[s] = Step(g, s)
          BY <2>6, <4>1
      <4>4. CASE s = {}
          BY <4>2, <4>3, <4>4 DEF LastServed
      <4>5. CASE s # {}
        <5>1. Max(s) \in s
            BY <3>2, <4>5, MaxIsGreatest
        <5>2. s \ {Max(s)} \in All /\ k + 1 \notin s \ {Max(s)}
            BY <3>4
        <5>3. g1[s \ {Max(s)}] = g[s \ {Max(s)}]
            BY <5>2
        <5> HIDE DEF g1, All
        <5>4. Step(g, s) = Step(g1, s)
            BY <4>5, <5>3 DEF LastServed
        <5> QED BY <4>2, <4>3, <5>4
      <4> QED BY <4>4, <4>5
    <3> QED BY <3>3, <3>4
  <2>3. g1 = [s \in All |-> g1[s]]
      OBVIOUS
  <2> HIDE DEF g1, Step
  <2>4. g1 = [s \in All |-> Step(g1, s)]
      BY <2>2, <2>3
  <2>5. Folds(g1, k + 1)
      BY <2>4 DEF Step, IsFold
  <2> QED
      BY <1>2, <2>5
<1>3. n \in P
  <2> HIDE DEF P
  <2> QED BY <1>1, <1>2, NumberInduction
<1> QED
    BY <1>3

\* What each request of a frame may take of the arena.
Demands(requests) ==
    [i \in DOMAIN requests |-> requests[i].size + EffectiveAlignment(requests[i].align)]

\* The requests of one frame take at most what they demand, and lower no peak.
LEMMA ServedEffect ==
    ASSUME NEW ar, Mem!WellFormed(ar), NEW base \in BaseAddresses,
           NEW requests \in Seq([size : Nat, align : Alignments])
    PROVE  LET new == Served(ar, requests, base)
           IN  /\ Mem!WellFormed(new)
               /\ Demand(requests) \in Nat
               /\ new.used_bytes <= ar.used_bytes + Demand(requests)
               /\ ar.peak_usage <= new.peak_usage
               /\ new.reset_count = ar.reset_count
<1> DEFINE All == DOMAIN requests
           d == Demands(requests)
           Folds(h) == h = [s \in SUBSET All |-> LastServed(h, ar, requests, base, s)]
           g == CHOOSE h : Folds(h)
           Good(s) == /\ Mem!WellFormed(g[s])
                      /\ g[s].used_bytes <= ar.used_bytes + SumFunctionOnSet(d, s)
                      /\ ar.peak_usage <= g[s].peak_usage
                      /\ g[s].reset_count = ar.reset_count
<1>1. Len(requests) \in Nat /\ All = 1 .. Len(requests)
    OBVIOUS
<1>2. IsFiniteSet(All) /\ All \subseteq Int
    BY <1>1, FS_Interval
<1>3. \A i \in All : /\ requests[i].size \in Nat
                     /\ EffectiveAlignment(requests[i].align) \in Nat \ {0}
                     /\ d[i] = requests[i].size + EffectiveAlignment(requests[i].align)
                     /\ d[i] \in Nat
  <2> TAKE i \in All
  <2>1. requests[i] \in [size : Nat, align : Alignments]
    <3> DEFINE R == [size : Nat, align : Alignments]
    <3>1. requests \in Seq(R) /\ i \in 1 .. Len(requests)
        BY <1>1
    <3> HIDE DEF R
    <3>2. requests[i] \in R
        BY <3>1, ElementOfSeq
    <3> QED BY <3>2 DEF R
  <2>2. requests[i].size \in Nat /\ requests[i].align \in Alignments
      BY <2>1
  <2>3. EffectiveAlignment(requests[i].align) \in Nat \ {0}
      BY <2>2, SameAlignment, ArenaAssumption, Mem!EffectiveAlignmentPositive
  <2>4. d[i] = requests[i].size + EffectiveAlignment(requests[i].align)
      BY DEF Demands
  <2> QED BY <2>2, <2>3, <2>4
<1>4. Folds(g)
  <2>1. \E h : IsFold(h, ar, requests, base, Len(requests))
      BY <1>1, FoldExists
  <2>2. \A h : IsFold(h, ar, requests, base, Len(requests)) => Folds(h)
      BY <1>1 DEF IsFold
  <2> HIDE DEF Folds
  <2> QED BY <2>1, <2>2
<1>5. Served(ar, requests, base) = g[All]
    BY DEF Served, FoldLeft, MapThenFoldSet, LastServed
<1>6. Demand(requests) = SumFunctionOnSet(d, All)
    BY DEF Demand, SumFunction, Demands
<1>7. \A s \in SUBSET All : g[s] = LastServed(g, ar, requests, base, s)
    BY <1>4
<1> HIDE DEF g, d, Folds, All
<1>8. ar.used_bytes \in Nat /\ ar.peak_usage \in Nat
    BY ArenaAssumption, Mem!TermsAreNat
<1>9. Good({})
  <2>1. g[{}] = ar
      BY <1>7 DEF LastServed
  <2>2. SumFunctionOnSet(d, {}) = 0
      BY SumOfZeros, FS_EmptySet
  <2> QED BY <1>8, <2>1, <2>2
<1>10. ASSUME NEW s \in SUBSET All, s # {}, Good(s \ {Max(s)})
       PROVE  Good(s)
  <2> DEFINE i == Max(s)
             r == s \ {i}
             al == EffectiveAlignment(requests[i].align)
  <2>1. IsFiniteSet(s) /\ s \subseteq Int
      BY <1>2, FS_Subset
  <2>2. i \in s /\ i \in All
      BY <1>10, <2>1, MaxIsGreatest
  <2>3. requests[i].size \in Nat /\ al \in Nat \ {0} /\ d[i] = requests[i].size + al
        /\ d[i] \in Nat
      BY <1>3, <2>2
  <2>4. g[s] = Allocated(g[r], requests[i].size, al, base)
      BY <1>7, <1>10 DEF LastServed
  <2>5. r \cup {i} = s /\ i \notin r /\ r \in SUBSET All
      BY <2>2
  <2>6. Good(r)
      BY <1>10
  <2> HIDE DEF i, al, r
  <2>7. /\ Mem!WellFormed(g[s])
        /\ g[s].used_bytes <= g[r].used_bytes + (requests[i].size + al)
        /\ g[r].peak_usage <= g[s].peak_usage
        /\ g[s].reset_count = g[r].reset_count
    <3> DEFINE before == g[r]
               n == requests[i].size
    <3>1. Mem!WellFormed(before) /\ n \in Nat /\ al \in Nat \ {0}
        BY <2>3, <2>6
    <3>2. g[s] = Allocated(before, n, al, base)
        BY <2>4
    <3> HIDE DEF before, n
    <3>3. LET new == Allocated(before, n, al, base)
          IN  /\ Mem!WellFormed(new)
              /\ new.used_bytes <= before.used_bytes + (n + al)
              /\ before.peak_usage <= new.peak_usage
              /\ new.reset_count = before.reset_count
        BY <3>1, ServedOnce
    <3> QED BY <3>2, <3>3 DEF before, n
  <2>8. /\ SumFunctionOnSet(d, r) \in Nat
        /\ SumFunctionOnSet(d, r \cup {i}) = SumFunctionOnSet(d, r) + d[i]
    <3>1. IsFiniteSet(r) /\ \A x \in r : d[x] \in Nat
        BY <1>2, <1>3, <2>5, FS_Subset
    <3> QED BY <2>3, <2>5, <3>1, SumOfOneMore
  <2>9. /\ g[s].used_bytes \in Nat /\ g[r].used_bytes \in Nat
        /\ g[s].peak_usage \in Nat /\ g[r].peak_usage \in Nat
      BY <2>6, <2>7, ArenaAssumption, Mem!TermsAreNat
  <2>10. SumFunctionOnSet(d, s) = SumFunctionOnSet(d, r) + (requests[i].size + al)
      BY <2>3, <2>5, <2>8
  <2>11. g[s].used_bytes <= ar.used_bytes + SumFunctionOnSet(d, s)
    <3> DEFINE total == SumFunctionOnSet(d, r)
               more == requests[i].size + al
    <3>1. total \in Nat /\ more \in Nat
        BY <2>3, <2>8
    <3>2. g[r].used_bytes <= ar.used_bytes + total
        BY <2>6
    <3>3. g[s].used_bytes <= g[r].used_bytes + more
        BY <2>7
    <3>4. SumFunctionOnSet(d, s) = total + more
        BY <2>10
    <3> HIDE DEF total, more
    <3> QED BY <1>8, <2>9, <3>1, <3>2, <3>3, <3>4
  <2>12. ar.peak_usage <= g[s].peak_usage
      BY <1>8, <2>6, <2>7, <2>9
  <2> QED BY <2>6, <2>7, <2>11, <2>12
<1>11. Good(All)
  <2> DEFINE Bad == { s \in SUBSET All : ~ Good(s) }
  <2> HIDE DEF Good
  <2> SUFFICES ASSUME Bad # {} PROVE FALSE
      OBVIOUS
  <2>1. Bad \subseteq SUBSET All
      OBVIOUS
  <2>2. \E s \in Bad : \A u \in Bad : u \subseteq s => u = s
    <3>1. IsFiniteSet(All)
        BY <1>2
    <3>2. Bad # {}
        OBVIOUS
    <3> HIDE DEF Bad
    <3> QED BY <2>1, <3>1, <3>2, SmallestSet
  <2>3. PICK s \in Bad : \A u \in Bad : u \subseteq s => u = s
      BY <2>2
  <2>4. s # {}
      BY <1>9
  <2>5. Max(s) \in s
    <3>1. IsFiniteSet(s) /\ s \subseteq Int
        BY <1>2, FS_Subset
    <3> QED BY <2>4, <3>1, MaxIsGreatest
  <2>6. s \ {Max(s)} \notin Bad
      BY <2>3, <2>5
  <2> QED BY <1>10, <2>4, <2>6
<1>12. Demand(requests) \in Nat
  <2>1. SumFunctionOnSet(d, All) \in Nat
      BY <1>2, <1>3, SumIsNat
  <2> QED BY <1>6, <2>1
<1> QED
    BY <1>5, <1>6, <1>11, <1>12

\* No frame demands more than the largest one.
LEMMA FrameWithinLargest ==
    ASSUME NEW requests \in FrameRequests
    PROVE  /\ requests \in Seq([size : Nat, align : Alignments])
           /\ Demand(requests) \in Nat
           /\ LargestFrame \in Nat
           /\ Demand(requests) <= LargestFrame
<1> DEFINE Demanded == { Demand(r) : r \in FrameRequests }
<1>1. PICK bs \in BlockSizes, base \in BaseAddresses : TRUE
    BY MediaStreamAssumption
<1>2. Mem!WellFormed(Constructed(bs, base))
    BY SameConstructed, ArenaAssumption, Mem!ConstructedWellFormed
<1>3. ASSUME NEW r \in FrameRequests
      PROVE  r \in Seq([size : Nat, align : Alignments]) /\ Demand(r) \in Nat
  <2>1. r \in Seq([size : Nat, align : Alignments])
      BY MediaStreamAssumption
  <2> DEFINE ar == Constructed(bs, base)
  <2>2. Mem!WellFormed(ar) /\ base \in BaseAddresses
      BY <1>2
  <2> HIDE DEF ar
  <2>3. LET new == Served(ar, r, base) IN Demand(r) \in Nat
      BY <2>1, <2>2, ServedEffect
  <2> QED
      BY <2>1, <2>3
<1>4. IsFiniteSet(Demanded)
  <2> DEFINE f == [r \in FrameRequests |-> Demand(r)]
  <2>1. f \in Surjection(FrameRequests, Demanded)
      BY Zenon DEF Surjection
  <2> HIDE DEF f, Demanded
  <2> QED
      BY <2>1, MediaStreamAssumption, FS_Surjection
<1>5. Demanded \subseteq Int /\ Demanded \subseteq Nat /\ Demanded # {}
    BY <1>3
<1>6. LargestFrame = Max(Demanded)
    BY DEF LargestFrame
<1>7. Demand(requests) \in Demanded
    OBVIOUS
<1> HIDE DEF Demanded
<1>8. Max(Demanded) \in Demanded /\ \A x \in Demanded : x <= Max(Demanded)
    BY <1>4, <1>5, MaxIsGreatest
<1> QED
    BY <1>3, <1>5, <1>6, <1>7, <1>8

(***************************************************************************)
(* The shape of the state, and what one step leaves alone.                 *)
(***************************************************************************)

\* What each handler and counter holds.
Shapes ==
    /\ pc \in [Stream -> PC]
    /\ use_arena \in [Stream -> BOOLEAN]
    /\ cancelled \in [Stream -> BOOLEAN]
    /\ DOMAIN arena = Stream
    /\ arena = [s \in Stream |-> arena[s]]
    /\ \A s \in Stream : Mem!WellFormed(arena[s])
    /\ batch \in [Stream -> 0 .. ResetInterval]
    /\ seen \in [Stream -> Nat]
    /\ received \in [Stream -> Nat]
    /\ replied \in [Stream -> Nat]
    /\ stats \in [Counter -> Int]
    /\ \A c \in Counter \ {"active_arenas"} : stats[c] \in Nat

\* The counters of an arena are naturals.
LEMMA ArenaCountsAreNat ==
    ASSUME Shapes, NEW s \in Stream
    PROVE  /\ Mem!WellFormed(arena[s])
           /\ arena[s].used_bytes \in Nat /\ arena[s].peak_usage \in Nat
           /\ arena[s].reset_count \in Nat
BY ArenaAssumption, Mem!TermsAreNat DEF Shapes

\* reset() of a well-formed arena.
LEMMA ResetEffect ==
    ASSUME NEW ar, Mem!WellFormed(ar)
    PROVE  /\ Mem!WellFormed(Reset(ar))
           /\ Reset(ar).used_bytes = 0
           /\ Reset(ar).peak_usage = ar.peak_usage
           /\ Reset(ar).reset_count = ar.reset_count + 1
BY SameReset, ArenaAssumption, Mem!ResetWellFormed, Mem!ResetCounts

\* The arena of a stream that has not begun.
LEMMA FreshArenaIs ==
    /\ Mem!WellFormed(FreshArena)
    /\ FreshArena.used_bytes = 0
    /\ FreshArena.peak_usage = 0
    /\ FreshArena.reset_count = 0
<1> DEFINE bs == CHOOSE bs \in BlockSizes : TRUE
           base == CHOOSE base \in BaseAddresses : TRUE
<1>1. bs \in BlockSizes /\ base \in BaseAddresses
    BY MediaStreamAssumption
<1>2. FreshArena = Constructed(bs, base)
    BY DEF FreshArena
<1> HIDE DEF bs, base
<1> QED
    BY <1>1, <1>2, SameConstructed, ArenaAssumption, Mem!ConstructedWellFormed, Mem!ConstructedCounts

\* A step of a handler, or the cancellation of its call, is that stream's own.
LEMMA OthersStay ==
    ASSUME Shapes, NEW s \in Stream, Handler(s) \/ Cancel(s), NEW t \in Stream, t # s
    PROVE  /\ pc'[t] = pc[t] /\ use_arena'[t] = use_arena[t] /\ arena'[t] = arena[t]
           /\ batch'[t] = batch[t] /\ seen'[t] = seen[t] /\ cancelled'[t] = cancelled[t]
           /\ received'[t] = received[t] /\ replied'[t] = replied[t]
<1> USE DEF Shapes, Goto, Bump, local
<1>1. CASE Open(s)  BY <1>1 DEF Open
<1>2. CASE ReadChunk(s)  BY <1>2 DEF ReadChunk
<1>3. CASE ReadEnd(s)  BY <1>3 DEF ReadEnd
<1>4. CASE Check(s)  BY <1>4 DEF Check
<1>5. CASE ProcessArena(s)  BY <1>5 DEF ProcessArena
<1>6. CASE ProcessHeap(s)  BY <1>6 DEF ProcessHeap
<1>7. CASE CountTotal(s)  BY <1>7 DEF CountTotal
<1>8. CASE CountMode(s)  BY <1>8 DEF CountMode
<1>9. CASE Publish(s)  BY <1>9 DEF Publish
<1>10. CASE LoadPeak(s)  BY <1>10 DEF LoadPeak
<1>11. CASE RaisePeak(s)  BY <1>11 DEF RaisePeak
<1>12. CASE WriteReply(s)  BY <1>12 DEF WriteReply
<1>13. CASE WriteFail(s)  BY <1>13 DEF WriteFail
<1>14. CASE CountBatch(s)  BY <1>14 DEF CountBatch
<1>15. CASE Abort(s)  BY <1>15 DEF Abort
<1>16. CASE ResetTail(s)  BY <1>16 DEF ResetTail
<1>17. CASE Close(s)  BY <1>17 DEF Close
<1>18. CASE Cancel(s)  BY <1>18 DEF Cancel
<1> QED
    BY <1>1, <1>2, <1>3, <1>4, <1>5, <1>6, <1>7, <1>8, <1>9, <1>10, <1>11, <1>12,
       <1>13, <1>14, <1>15, <1>16, <1>17, <1>18 DEF Handler

\* Every step of a stream keeps the shape of the state.
LEMMA ShapesKept ==
    ASSUME Shapes, NEW s \in Stream, Handler(s) \/ Cancel(s)
    PROVE  Shapes'
<1> USE DEF Shapes, Goto, Bump, local, At, PC, Counter
<1>1. CASE Open(s)
  <2>1. PICK header \in ModeHeader :
            /\ use_arena' = [use_arena EXCEPT ![s] = UsesArena(header)]
            /\ Bump("active_arenas", IF UsesArena(header) THEN 1 ELSE 0)
      BY <1>1 DEF Open
  <2>2. /\ stats' \in [Counter -> Int]
        /\ \A c \in Counter \ {"active_arenas"} : stats'[c] \in Nat
      BY <2>1
  <2>3. use_arena' \in [Stream -> BOOLEAN]
      BY <2>1 DEF UsesArena
  <2> QED BY <1>1, <2>2, <2>3 DEF Open
<1>2. CASE ReadChunk(s)  BY <1>2 DEF ReadChunk
<1>3. CASE ReadEnd(s)  BY <1>3 DEF ReadEnd
<1>4. CASE Check(s)  BY <1>4 DEF Check
<1>5. CASE ProcessArena(s)
  <2>1. PICK requests \in FrameRequests, base \in BaseAddresses, threw \in BOOLEAN :
            /\ arena' = [arena EXCEPT ![s] = Served(@, requests, base)]
            /\ pc' = [pc EXCEPT ![s] = IF threw THEN "publish" ELSE "total"]
      BY <1>5 DEF ProcessArena
  <2>2. Mem!WellFormed(Served(arena[s], requests, base))
    <3> DEFINE ar == arena[s]
    <3>1. Mem!WellFormed(ar) /\ requests \in Seq([size : Nat, align : Alignments])
        BY FrameWithinLargest
    <3> HIDE DEF ar
    <3>2. LET new == Served(ar, requests, base) IN Mem!WellFormed(new)
        BY <3>1, ServedEffect
    <3> QED BY <3>2 DEF ar
  <2> QED BY <1>5, <2>1, <2>2 DEF ProcessArena
<1>6. CASE ProcessHeap(s)
  <2>1. PICK n \in Nat : stats' = [stats EXCEPT !["total_heap_allocations"] = @ + n]
      BY <1>6, MediaStreamAssumption DEF ProcessHeap
  <2>2. /\ stats' \in [Counter -> Int]
        /\ \A c \in Counter \ {"active_arenas"} : stats'[c] \in Nat
      BY <2>1
  <2> QED BY <1>6, <2>2 DEF ProcessHeap
<1>7. CASE CountTotal(s)  BY <1>7 DEF CountTotal
<1>8. CASE CountMode(s)  BY <1>8 DEF CountMode
<1>9. CASE Publish(s)
  <2>1. arena[s].used_bytes \in Nat
      BY ArenaCountsAreNat
  <2>2. /\ stats' \in [Counter -> Int]
        /\ \A c \in Counter \ {"active_arenas"} : stats'[c] \in Nat
      BY <1>9, <2>1 DEF Publish
  <2> QED BY <1>9, <2>2 DEF Publish
<1>10. CASE LoadPeak(s)  BY <1>10 DEF LoadPeak
<1>11. CASE RaisePeak(s)
  <2>1. arena[s].peak_usage \in Nat
      BY ArenaCountsAreNat
  <2>2. /\ stats' \in [Counter -> Int]
        /\ \A c \in Counter \ {"active_arenas"} : stats'[c] \in Nat
      BY <1>11, <2>1 DEF RaisePeak
  <2>3. seen' \in [Stream -> Nat]
      BY <1>11, <2>1 DEF RaisePeak
  <2>4. pc' \in [Stream -> PC]
      BY <1>11 DEF RaisePeak
  <2> QED BY <1>11, <2>2, <2>3, <2>4 DEF RaisePeak
<1>12. CASE WriteReply(s)  BY <1>12 DEF WriteReply
<1>13. CASE WriteFail(s)  BY <1>13 DEF WriteFail
<1>14. CASE CountBatch(s)
  <2>1. Mem!WellFormed(arena[s]) /\ Mem!WellFormed(Reset(arena[s]))
      BY ResetEffect
  <2>2. /\ stats' \in [Counter -> Int]
        /\ \A c \in Counter \ {"active_arenas"} : stats'[c] \in Nat
      BY <1>14 DEF CountBatch
  <2>3. batch' \in [Stream -> 0 .. ResetInterval]
      BY <1>14, MediaStreamAssumption DEF CountBatch
  <2>4. /\ arena' = [t \in Stream |-> arena'[t]] /\ DOMAIN arena' = Stream
        /\ \A t \in Stream : Mem!WellFormed(arena'[t])
      BY <1>14, <2>1 DEF CountBatch
  <2>5. pc' \in [Stream -> PC]
      BY <1>14 DEF CountBatch
  <2> QED BY <1>14, <2>2, <2>3, <2>4, <2>5 DEF CountBatch
<1>15. CASE Abort(s)  BY <1>15 DEF Abort
<1>16. CASE ResetTail(s)
  <2>1. Mem!WellFormed(arena[s]) /\ Mem!WellFormed(Reset(arena[s]))
      BY ResetEffect
  <2> QED BY <1>16, <2>1 DEF ResetTail
<1>17. CASE Close(s)  BY <1>17 DEF Close
<1>18. CASE Cancel(s)  BY <1>18 DEF Cancel
<1> QED
    BY <1>1, <1>2, <1>3, <1>4, <1>5, <1>6, <1>7, <1>8, <1>9, <1>10, <1>11,
       <1>12, <1>13, <1>14, <1>15, <1>16, <1>17, <1>18 DEF Handler

\* The handlers begin well-shaped.
LEMMA ShapesInit == Init => Shapes
<1> SUFFICES ASSUME Init PROVE Shapes
    OBVIOUS
<1>1. /\ arena = [s \in Stream |-> arena[s]] /\ DOMAIN arena = Stream
      /\ \A s \in Stream : Mem!WellFormed(arena[s])
    BY FreshArenaIs DEF Init
<1> QED
    BY <1>1, MediaStreamAssumption DEF Init, Shapes, PC

\* The handlers' steps, with or without reports beside them.
Streams == Init /\ [][Next]_vars

\* What reads a report changes nothing of the handlers.
LEMMA ReportsOnlyRead == ScrapeSpec => Streams
<1>1. ScrapeInit => Init
    BY DEF ScrapeInit
<1>2. [ScrapeNext]_scrapeVars => [Next]_vars
    BY DEF ScrapeNext, scrapeVars, Load, SendReport
<1> QED
    BY <1>1, <1>2, PTL DEF ScrapeSpec, Streams

\* And stay so.
LEMMA ShapesStep == Shapes /\ [Next]_vars => Shapes'
<1> SUFFICES ASSUME Shapes, [Next]_vars PROVE Shapes'
    OBVIOUS
<1>1. CASE \E s \in Stream : Handler(s) \/ Cancel(s)
    BY <1>1, ShapesKept
<1>2. CASE UNCHANGED vars
    BY <1>2 DEF vars, local, Shapes
<1> QED
    BY <1>1, <1>2 DEF Next

\* Hence at any time.
LEMMA ShapesInvariance == Streams => []Shapes
    BY ShapesInit, ShapesStep, PTL DEF Streams

(***************************************************************************)
(* Every chunk that is read is answered before the next one is read: how   *)
(* far the replies are behind the chunks is told by where the handler is.  *)
(***************************************************************************)

\* Where a handler has a chunk in its hands, not answered yet.
Answering == {"check", "process", "total", "mode", "publish", "load", "cas", "write", "abort"}

\* How many chunks are unanswered, by where the handler is.
Places(s) ==
    /\ pc[s] = "idle" => arena[s] = FreshArena
    /\ pc[s] \in {"idle", "read", "batch", "tail"} => received[s] = replied[s]
    /\ pc[s] \in Answering => received[s] = replied[s] + 1
    /\ pc[s] = "abort" => cancelled[s]
    /\ pc[s] \in {"close", "done"}
       => \/ received[s] = replied[s]
          \/ received[s] = replied[s] + 1 /\ cancelled[s]

\* Each step of a handler, and its client's cancellation, keeps its place's promise.
LEMMA PlacesKept ==
    ASSUME Shapes, NEW s \in Stream, Handler(s) \/ Cancel(s), Places(s)
    PROVE  Places(s)'
<1> USE DEF Shapes, Goto, Bump, local, At, Places, Answering
<1>1. CASE Open(s)  BY <1>1 DEF Open
<1>2. CASE ReadChunk(s)  BY <1>2 DEF ReadChunk
<1>3. CASE ReadEnd(s)  BY <1>3 DEF ReadEnd
<1>4. CASE Check(s)  BY <1>4 DEF Check
<1>5. CASE ProcessArena(s)  BY <1>5 DEF ProcessArena
<1>6. CASE ProcessHeap(s)  BY <1>6 DEF ProcessHeap
<1>7. CASE CountTotal(s)  BY <1>7 DEF CountTotal
<1>8. CASE CountMode(s)  BY <1>8 DEF CountMode
<1>9. CASE Publish(s)  BY <1>9 DEF Publish
<1>10. CASE LoadPeak(s)  BY <1>10 DEF LoadPeak
<1>11. CASE RaisePeak(s)  BY <1>11 DEF RaisePeak
<1>12. CASE WriteReply(s)  BY <1>12 DEF WriteReply
<1>13. CASE WriteFail(s)  BY <1>13 DEF WriteFail
<1>14. CASE CountBatch(s)  BY <1>14 DEF CountBatch
<1>15. CASE Abort(s)  BY <1>15 DEF Abort
<1>16. CASE ResetTail(s)  BY <1>16 DEF ResetTail
<1>17. CASE Close(s)  BY <1>17 DEF Close
<1>18. CASE Cancel(s)  BY <1>18 DEF Cancel
<1> QED
    BY <1>1, <1>2, <1>3, <1>4, <1>5, <1>6, <1>7, <1>8, <1>9, <1>10, <1>11,
       <1>12, <1>13, <1>14, <1>15, <1>16, <1>17, <1>18 DEF Handler

\* Hence all places' promises hold at any time.
LEMMA PlacesInvariance == Streams => [](Shapes /\ \A s \in Stream : Places(s))
<1> DEFINE Inv == Shapes /\ \A s \in Stream : Places(s)
<1>1. Init => Inv
  <2>1. Init => \A s \in Stream : Places(s)
      BY DEF Init, Places, Answering
  <2> QED BY <2>1, ShapesInit
<1>2. Inv /\ [Next]_vars => Inv'
  <2> SUFFICES ASSUME Inv, [Next]_vars PROVE Inv'
      OBVIOUS
  <2>1. Shapes'
      BY ShapesStep
  <2>2. ASSUME NEW s \in Stream, Handler(s) \/ Cancel(s), NEW t \in Stream
        PROVE  Places(t)'
    <3>1. CASE t = s
        BY <2>2, <3>1, PlacesKept
    <3>2. CASE t # s
      <4>1. /\ pc'[t] = pc[t] /\ arena'[t] = arena[t] /\ cancelled'[t] = cancelled[t]
            /\ received'[t] = received[t] /\ replied'[t] = replied[t]
          BY <2>2, <3>2, OthersStay
      <4> QED BY <4>1 DEF Places
    <3> QED BY <3>1, <3>2
  <2>3. CASE UNCHANGED vars
    <3>1. pc' = pc /\ arena' = arena /\ cancelled' = cancelled /\ received' = received
          /\ replied' = replied
        BY <2>3 DEF vars, local
    <3> QED BY <2>1, <3>1 DEF Places
  <2> QED BY <2>1, <2>2, <2>3 DEF Next
<1> QED BY <1>1, <1>2, PTL DEF Streams

\* No stream is ever more than one chunk behind, and none that its client ended
\* leaves a chunk without its reply (ProcessMediaStream's read loop).
THEOREM RepliesFollowChunks == ScrapeSpec => []OneReplyPerChunk
<1>1. Shapes /\ (\A s \in Stream : Places(s)) => OneReplyPerChunk
  <2> SUFFICES ASSUME Shapes, NEW s \in Stream, Places(s)
               PROVE  /\ replied[s] <= received[s] /\ received[s] <= replied[s] + 1
                      /\ pc[s] \in {"read", "batch", "tail"} => replied[s] = received[s]
                      /\ received[s] # replied[s] /\ pc[s] \in {"close", "done"} => cancelled[s]
      BY DEF OneReplyPerChunk
  <2>1. received[s] \in Nat /\ replied[s] \in Nat /\ pc[s] \in PC
      BY DEF Shapes
  <2>2. received[s] = replied[s] \/ received[s] = replied[s] + 1
      BY <2>1 DEF Places, Answering, PC
  <2> QED BY <2>1, <2>2 DEF Places
<1> QED BY <1>1, PlacesInvariance, ReportsOnlyRead, PTL

(***************************************************************************)
(* The use of an arena within a batch of frames, and its recorded peak.    *)
(***************************************************************************)

\* A frame adds at most the largest frame's demand.
LEMMA ProcessEffect ==
    ASSUME Shapes, NEW s \in Stream, ProcessArena(s)
    PROVE  /\ arena'[s].used_bytes <= arena[s].used_bytes + LargestFrame
           /\ arena[s].peak_usage <= arena'[s].peak_usage
           /\ arena'[s].reset_count = arena[s].reset_count
<1>1. PICK requests \in FrameRequests, base \in BaseAddresses :
          arena' = [arena EXCEPT ![s] = Served(@, requests, base)]
    BY DEF ProcessArena
<1> DEFINE ar == arena[s]
<1>2. arena'[s] = Served(ar, requests, base)
    BY <1>1 DEF Shapes
<1>3. Mem!WellFormed(ar) /\ ar.used_bytes \in Nat
    BY ArenaCountsAreNat
<1> HIDE DEF ar
<1>4. LET new == Served(ar, requests, base)
      IN  /\ Mem!WellFormed(new)
          /\ new.used_bytes <= ar.used_bytes + Demand(requests)
          /\ ar.peak_usage <= new.peak_usage
          /\ new.reset_count = ar.reset_count
    BY <1>3, FrameWithinLargest, ServedEffect
<1>5. Demand(requests) \in Nat /\ LargestFrame \in Nat /\ Demand(requests) <= LargestFrame
    BY FrameWithinLargest
<1>6. Served(ar, requests, base).used_bytes \in Nat
    BY <1>4, ArenaAssumption, Mem!TermsAreNat
<1>7. Served(ar, requests, base).used_bytes <= ar.used_bytes + LargestFrame
    BY <1>3, <1>4, <1>5, <1>6
<1> QED
    BY <1>2, <1>4, <1>7 DEF ar

\* The counters of an arena stay naturals.
LEMMA ArenaCountsNext ==
    ASSUME Shapes, NEW s \in Stream, Handler(s) \/ Cancel(s)
    PROVE  /\ arena'[s].used_bytes \in Nat /\ arena'[s].peak_usage \in Nat
           /\ arena'[s].reset_count \in Nat
<1>1. Mem!WellFormed(arena'[s])
    BY ShapesKept DEF Shapes
<1> QED BY <1>1, ArenaAssumption, Mem!TermsAreNat

\* What the rest of a handler does to its arena.
LEMMA ArenaSteps ==
    ASSUME Shapes, NEW s \in Stream, Handler(s) \/ Cancel(s), ~ ProcessArena(s)
    PROVE  \/ arena' = arena
           \/ (CountBatch(s) \/ ResetTail(s)) /\ arena'[s] = Reset(arena[s])
<1> USE DEF Shapes, local
<1>1. CASE Open(s)  BY <1>1 DEF Open
<1>2. CASE ReadChunk(s)  BY <1>2 DEF ReadChunk
<1>3. CASE ReadEnd(s)  BY <1>3 DEF ReadEnd
<1>4. CASE Check(s)  BY <1>4 DEF Check
<1>5. CASE ProcessHeap(s)  BY <1>5 DEF ProcessHeap
<1>6. CASE CountTotal(s)  BY <1>6 DEF CountTotal
<1>7. CASE CountMode(s)  BY <1>7 DEF CountMode
<1>8. CASE Publish(s)  BY <1>8 DEF Publish
<1>9. CASE LoadPeak(s)  BY <1>9 DEF LoadPeak
<1>10. CASE RaisePeak(s)  BY <1>10 DEF RaisePeak
<1>11. CASE WriteReply(s)  BY <1>11 DEF WriteReply
<1>12. CASE WriteFail(s)  BY <1>12 DEF WriteFail
<1>13. CASE CountBatch(s)  BY <1>13 DEF CountBatch
<1>14. CASE Abort(s)  BY <1>14 DEF Abort
<1>15. CASE ResetTail(s)  BY <1>15 DEF ResetTail
<1>16. CASE Close(s)  BY <1>16 DEF Close
<1>17. CASE Cancel(s)  BY <1>17 DEF Cancel
<1> QED
    BY <1>1, <1>2, <1>3, <1>4, <1>5, <1>6, <1>7, <1>8, <1>9, <1>10, <1>11,
       <1>12, <1>13, <1>14, <1>15, <1>16, <1>17 DEF Handler

\* The largest frame has a size.
LEMMA LargestIsNat == LargestFrame \in Nat
<1>1. PICK requests \in FrameRequests : TRUE
    BY MediaStreamAssumption
<1> QED BY <1>1, FrameWithinLargest

\* The frames that count against the batch: the one in the works included.
Counted(s) ==
    IF pc[s] \in {"idle", "read", "check", "process"} THEN batch[s]
    ELSE IF pc[s] \in {"total", "mode", "publish", "load", "cas", "write", "batch"}
    THEN batch[s] + 1
    ELSE ResetInterval

\* An arena holds at most its batch's frames.
Budget(s) ==
    /\ batch[s] < ResetInterval
    /\ use_arena[s] => arena[s].used_bytes <= Counted(s) * LargestFrame

\* One more frame of a batch, and of those that fit in it.
LEMMA BatchGrows ==
    ASSUME NEW b \in Nat, b < ResetInterval
    PROVE  /\ b * LargestFrame \in Nat /\ ResetInterval * LargestFrame \in Nat
           /\ (b + 1) * LargestFrame = b * LargestFrame + LargestFrame
           /\ (b + 1) * LargestFrame <= ResetInterval * LargestFrame
           /\ b * LargestFrame <= ResetInterval * LargestFrame
<1> DEFINE L == LargestFrame
           d == ResetInterval - (b + 1)
<1>1. L \in Nat /\ ResetInterval \in Nat /\ d \in Nat /\ ResetInterval = b + 1 + d
    BY LargestIsNat, MediaStreamAssumption
<1> HIDE DEF L, d
<1>2. b * L \in Nat /\ d * L \in Nat /\ (b + 1) * L = b * L + L
    BY <1>1
<1>3. (b + 1 + d) * L = (b + 1) * L + d * L
    BY <1>1
<1> QED BY <1>1, <1>2, <1>3 DEF L

\* Each step keeps what its stream's batch may use.
LEMMA BudgetKept ==
    ASSUME Shapes, NEW s \in Stream, Handler(s) \/ Cancel(s), Places(s), Budget(s)
    PROVE  Budget(s)'
<1>1. /\ batch[s] \in Nat /\ batch[s] < ResetInterval /\ ResetInterval \in Nat \ {0}
      /\ pc[s] \in PC
    BY MediaStreamAssumption DEF Shapes, Budget
<1>2. /\ LargestFrame \in Nat
      /\ batch[s] * LargestFrame \in Nat /\ ResetInterval * LargestFrame \in Nat
      /\ (batch[s] + 1) * LargestFrame = batch[s] * LargestFrame + LargestFrame
      /\ (batch[s] + 1) * LargestFrame <= ResetInterval * LargestFrame
      /\ batch[s] * LargestFrame <= ResetInterval * LargestFrame
    BY <1>1, BatchGrows, LargestIsNat
<1>3. arena[s].used_bytes \in Nat
    BY ArenaCountsAreNat
<1> USE <1>1, <1>2, <1>3 DEF Shapes, Goto, Bump, local, At, Budget, Counted, PC
<1>4. CASE Open(s)
  <2>1. arena'[s] = arena[s] /\ arena[s].used_bytes = 0 /\ batch'[s] = batch[s]
      BY <1>4, FreshArenaIs DEF Open, Places
  <2> QED BY <1>4, <2>1 DEF Open
<1>5. CASE ReadChunk(s)  BY <1>5 DEF ReadChunk
<1>6. CASE ReadEnd(s)  BY <1>6 DEF ReadEnd
<1>7. CASE Check(s)  BY <1>7 DEF Check
<1>8. CASE ProcessArena(s)
  <2>1. /\ arena'[s].used_bytes \in Nat
        /\ arena'[s].used_bytes <= arena[s].used_bytes + LargestFrame
      BY <1>8, ProcessEffect, ArenaCountsNext
  <2>2. pc[s] = "process" /\ pc'[s] \in {"publish", "total"} /\ batch'[s] = batch[s]
        /\ use_arena'[s] = use_arena[s]
      BY <1>8 DEF ProcessArena
  <2>3. arena'[s].used_bytes <= (batch[s] + 1) * LargestFrame \/ ~ use_arena[s]
      BY <2>1, <2>2
  <2> QED BY <2>2, <2>3
<1>9. CASE ProcessHeap(s)  BY <1>9 DEF ProcessHeap
<1>10. CASE CountTotal(s)  BY <1>10 DEF CountTotal
<1>11. CASE CountMode(s)  BY <1>11 DEF CountMode
<1>12. CASE Publish(s)  BY <1>12 DEF Publish
<1>13. CASE LoadPeak(s)  BY <1>13 DEF LoadPeak
<1>14. CASE RaisePeak(s)  BY <1>14 DEF RaisePeak
<1>15. CASE WriteReply(s)  BY <1>15 DEF WriteReply
<1>16. CASE WriteFail(s)  BY <1>16 DEF WriteFail
<1>17. CASE CountBatch(s)
  <2>1. CASE use_arena[s] /\ batch[s] + 1 >= ResetInterval
    <3>1. arena'[s] = Reset(arena[s]) /\ batch'[s] = 0 /\ pc'[s] = "read"
        BY <1>17, <2>1 DEF CountBatch
    <3>2. arena'[s].used_bytes = 0
        BY <3>1, ResetEffect
    <3>3. 0 * LargestFrame = 0
        OBVIOUS
    <3> QED BY <3>1, <3>2, <3>3
  <2>2. CASE use_arena[s] /\ ~ (batch[s] + 1 >= ResetInterval)
    <3>1. arena'[s] = arena[s] /\ batch'[s] = batch[s] + 1 /\ pc'[s] = "read"
        BY <1>17, <2>2 DEF CountBatch
    <3> QED BY <1>17, <2>2, <3>1 DEF CountBatch
  <2>3. CASE ~ use_arena[s]
    <3>1. ~ use_arena'[s] /\ batch'[s] = 0
        BY <1>17, <2>3 DEF CountBatch
    <3> QED BY <3>1
  <2> QED BY <2>1, <2>2, <2>3
<1>18. CASE Abort(s)  BY <1>18 DEF Abort
<1>19. CASE ResetTail(s)
  <2>1. pc'[s] = "close" /\ batch'[s] = batch[s] /\ use_arena'[s] = use_arena[s]
      BY <1>19 DEF ResetTail
  <2>2. arena'[s] = arena[s] \/ arena'[s] = Reset(arena[s])
      BY <1>19 DEF ResetTail
  <2>3. arena'[s].used_bytes = 0 \/ arena'[s] = arena[s]
      BY <2>2, ResetEffect
  <2> QED BY <1>19, <2>1, <2>3 DEF ResetTail
<1>20. CASE Close(s)  BY <1>20 DEF Close
<1>21. CASE Cancel(s)  BY <1>21 DEF Cancel
<1> QED
    BY <1>4, <1>5, <1>6, <1>7, <1>8, <1>9, <1>10, <1>11, <1>12, <1>13,
       <1>14, <1>15, <1>16, <1>17, <1>18, <1>19, <1>20, <1>21 DEF Handler

\* Hence all batches keep within it.
LEMMA BudgetInvariance == Streams => [](\A s \in Stream : Budget(s))
<1> DEFINE Inv == \A s \in Stream : Budget(s)
           Known == Shapes /\ \A s \in Stream : Places(s)
<1>1. Init => Inv
  <2> SUFFICES ASSUME Init, NEW s \in Stream PROVE Budget(s)
      OBVIOUS
  <2>1. arena[s].used_bytes = 0 /\ pc[s] = "idle" /\ batch[s] = 0
      BY FreshArenaIs DEF Init
  <2> QED BY <2>1, LargestIsNat, MediaStreamAssumption DEF Budget, Counted
<1>2. Known /\ Inv /\ [Next]_vars => Inv'
  <2> SUFFICES ASSUME Known, Inv, [Next]_vars PROVE Inv'
      OBVIOUS
  <2>1. ASSUME NEW s \in Stream, Handler(s) \/ Cancel(s), NEW t \in Stream
        PROVE  Budget(t)'
    <3>1. CASE t = s
        BY <2>1, <3>1, BudgetKept
    <3>2. CASE t # s
      <4>1. /\ pc'[t] = pc[t] /\ arena'[t] = arena[t] /\ batch'[t] = batch[t]
            /\ use_arena'[t] = use_arena[t]
          BY <2>1, <3>2, OthersStay
      <4> QED BY <4>1 DEF Budget, Counted
    <3> QED BY <3>1, <3>2
  <2>2. CASE UNCHANGED vars
    <3>1. pc' = pc /\ arena' = arena /\ batch' = batch /\ use_arena' = use_arena
        BY <2>2 DEF vars, local
    <3> QED BY <3>1 DEF Budget, Counted
  <2> QED BY <2>1, <2>2 DEF Next
<1> QED BY <1>1, <1>2, PlacesInvariance, PTL DEF Streams

\* A stream of any length holds at most a batch of frames of its arena, refused
\* chunks and frames that threw counted against the batch as well (CountBatch).
THEOREM ArenasWithinBatch == ScrapeSpec => []UseBounded
<1>1. Shapes /\ (\A s \in Stream : Budget(s)) => UseBounded
  <2> SUFFICES ASSUME Shapes, NEW s \in Stream, use_arena[s], Budget(s)
               PROVE  arena[s].used_bytes <= ResetInterval * LargestFrame
      BY DEF UseBounded, ArenaStreams
  <2>1. batch[s] \in Nat /\ batch[s] < ResetInterval
      BY MediaStreamAssumption DEF Shapes, Budget
  <2>2. /\ (batch[s] + 1) * LargestFrame <= ResetInterval * LargestFrame
        /\ batch[s] * LargestFrame <= ResetInterval * LargestFrame
        /\ batch[s] * LargestFrame \in Nat /\ ResetInterval * LargestFrame \in Nat
        /\ (batch[s] + 1) * LargestFrame \in Nat
      BY <2>1, BatchGrows, LargestIsNat
  <2>3. arena[s].used_bytes \in Nat
      BY ArenaCountsAreNat
  <2> QED BY <2>1, <2>2, <2>3 DEF Budget, Counted
<1> QED BY <1>1, ShapesInvariance, BudgetInvariance, ReportsOnlyRead, PTL

\* What the published peak covers of a stream's arena, and of what it has seen.
Covered(s) ==
    LET peak == stats["peak_arena_size_bytes"]
    IN  /\ use_arena[s] /\ pc[s] \notin {"total", "mode", "publish", "load", "cas"}
           => arena[s].peak_usage <= peak
        /\ pc[s] \in {"load", "cas"} => use_arena[s]
        /\ seen[s] <= peak

\* Where the published peak came from.
PeakSource ==
    LET peak == stats["peak_arena_size_bytes"]
    IN  peak = 0 \/ \E s \in Stream : use_arena[s] /\ arena[s].peak_usage >= peak

\* An arena's own peak never falls, whatever its handler does.
LEMMA OwnPeakGrows ==
    ASSUME Shapes, NEW s \in Stream, Handler(s) \/ Cancel(s)
    PROVE  \A t \in Stream : arena[t].peak_usage <= arena'[t].peak_usage
<1> SUFFICES ASSUME NEW t \in Stream PROVE arena[t].peak_usage <= arena'[t].peak_usage
    OBVIOUS
<1>1. arena[t].peak_usage \in Nat
    BY ArenaCountsAreNat
<1>2. CASE t # s
    BY <1>1, <1>2, OthersStay
<1>3. CASE t = s /\ ProcessArena(s)
    BY <1>3, ProcessEffect
<1>4. CASE t = s /\ ~ ProcessArena(s)
  <2>1. arena'[s] = arena[s] \/ arena'[s] = Reset(arena[s])
      BY <1>4, ArenaSteps
  <2>2. Reset(arena[s]).peak_usage = arena[s].peak_usage
      BY ResetEffect, ArenaCountsAreNat
  <2> QED BY <1>1, <1>4, <2>1, <2>2
<1> QED BY <1>2, <1>3, <1>4

\* The published peak moves only when a handler has won the compare-exchange,
\* and then up, to its own arena's peak.
LEMMA PublishedPeak ==
    ASSUME Shapes, NEW s \in Stream, Handler(s) \/ Cancel(s)
    PROVE  LET peak == "peak_arena_size_bytes"
           IN  \/ stats'[peak] = stats[peak]
               \/ /\ pc[s] = "cas" /\ pc'[s] = "write" /\ arena' = arena
                  /\ use_arena' = use_arena
                  /\ stats[peak] < stats'[peak] /\ stats'[peak] = arena[s].peak_usage
<1> USE DEF Shapes, Goto, Bump, local, At, Counter
<1>1. CASE Open(s)  BY <1>1 DEF Open
<1>2. CASE ReadChunk(s)  BY <1>2 DEF ReadChunk
<1>3. CASE ReadEnd(s)  BY <1>3 DEF ReadEnd
<1>4. CASE Check(s)  BY <1>4 DEF Check
<1>5. CASE ProcessArena(s)  BY <1>5 DEF ProcessArena
<1>6. CASE ProcessHeap(s)  BY <1>6 DEF ProcessHeap
<1>7. CASE CountTotal(s)  BY <1>7 DEF CountTotal
<1>8. CASE CountMode(s)  BY <1>8 DEF CountMode
<1>9. CASE Publish(s)  BY <1>9 DEF Publish
<1>10. CASE LoadPeak(s)  BY <1>10 DEF LoadPeak
<1>11. CASE RaisePeak(s)  BY <1>11 DEF RaisePeak
<1>12. CASE WriteReply(s)  BY <1>12 DEF WriteReply
<1>13. CASE WriteFail(s)  BY <1>13 DEF WriteFail
<1>14. CASE CountBatch(s)  BY <1>14 DEF CountBatch
<1>15. CASE Abort(s)  BY <1>15 DEF Abort
<1>16. CASE ResetTail(s)  BY <1>16 DEF ResetTail
<1>17. CASE Close(s)  BY <1>17 DEF Close
<1>18. CASE Cancel(s)  BY <1>18 DEF Cancel
<1> QED
    BY <1>1, <1>2, <1>3, <1>4, <1>5, <1>6, <1>7, <1>8, <1>9, <1>10, <1>11,
       <1>12, <1>13, <1>14, <1>15, <1>16, <1>17, <1>18 DEF Handler

\* Each step leaves its own arena covered; the published peak never falls.
LEMMA CoveredKept ==
    ASSUME Shapes, NEW s \in Stream, Handler(s) \/ Cancel(s), Places(s), Covered(s)
    PROVE  Covered(s)'
<1>1. /\ stats["peak_arena_size_bytes"] \in Nat /\ seen[s] \in Nat
      /\ pc[s] \in PC
    BY DEF Shapes, Counter
<1>2. arena[s].peak_usage \in Nat
    BY ArenaCountsAreNat
<1> USE <1>1, <1>2 DEF Shapes, Goto, Bump, local, At, Covered, PC, Counter
<1>3. CASE Open(s)
  <2>1. arena'[s].peak_usage = 0 /\ stats'["peak_arena_size_bytes"] \in Nat
      BY <1>3, FreshArenaIs DEF Open, Places
  <2> QED BY <1>3, <2>1 DEF Open
<1>4. CASE ReadChunk(s)  BY <1>4 DEF ReadChunk
<1>5. CASE ReadEnd(s)  BY <1>5 DEF ReadEnd
<1>6. CASE Check(s)  BY <1>6 DEF Check
<1>7. CASE ProcessArena(s)
  <2>1. pc'[s] \in {"publish", "total"} /\ seen'[s] = seen[s] /\ use_arena'[s] = use_arena[s]
        /\ stats'["peak_arena_size_bytes"] = stats["peak_arena_size_bytes"]
      BY <1>7 DEF ProcessArena
  <2> QED BY <2>1
<1>8. CASE ProcessHeap(s)  BY <1>8 DEF ProcessHeap
<1>9. CASE CountTotal(s)  BY <1>9 DEF CountTotal
<1>10. CASE CountMode(s)  BY <1>10 DEF CountMode
<1>11. CASE Publish(s)  BY <1>11 DEF Publish
<1>12. CASE LoadPeak(s)  BY <1>12 DEF LoadPeak
<1>13. CASE RaisePeak(s)  BY <1>13 DEF RaisePeak
<1>14. CASE WriteReply(s)  BY <1>14 DEF WriteReply
<1>15. CASE WriteFail(s)  BY <1>15 DEF WriteFail
<1>16. CASE CountBatch(s)
  <2>1. pc[s] = "batch" /\ pc'[s] = "read" /\ seen'[s] = seen[s] /\ use_arena'[s] = use_arena[s]
        /\ stats'["peak_arena_size_bytes"] = stats["peak_arena_size_bytes"]
      BY <1>16 DEF CountBatch
  <2>2. arena'[s] = arena[s] \/ arena'[s] = Reset(arena[s])
      BY <1>16 DEF CountBatch
  <2>3. arena'[s].peak_usage = arena[s].peak_usage
      BY <2>2, ResetEffect
  <2> QED BY <2>1, <2>3
<1>17. CASE Abort(s)  BY <1>17 DEF Abort
<1>18. CASE ResetTail(s)
  <2>1. pc[s] = "tail" /\ pc'[s] = "close" /\ seen'[s] = seen[s] /\ use_arena'[s] = use_arena[s]
        /\ stats'["peak_arena_size_bytes"] = stats["peak_arena_size_bytes"]
      BY <1>18 DEF ResetTail
  <2>2. arena'[s] = arena[s] \/ arena'[s] = Reset(arena[s])
      BY <1>18 DEF ResetTail
  <2>3. arena'[s].peak_usage = arena[s].peak_usage
      BY <2>2, ResetEffect
  <2> QED BY <2>1, <2>3
<1>19. CASE Close(s)  BY <1>19 DEF Close
<1>20. CASE Cancel(s)  BY <1>20 DEF Cancel
<1> QED
    BY <1>3, <1>4, <1>5, <1>6, <1>7, <1>8, <1>9, <1>10, <1>11, <1>12, <1>13,
       <1>14, <1>15, <1>16, <1>17, <1>18, <1>19, <1>20 DEF Handler

\* A stream's memory mode is settled when it opens.
LEMMA ModeSettled ==
    ASSUME Shapes, NEW s \in Stream, Handler(s) \/ Cancel(s), ~ Open(s)
    PROVE  use_arena' = use_arena
<1> USE DEF local
<1>1. CASE ReadChunk(s)  BY <1>1 DEF ReadChunk
<1>2. CASE ReadEnd(s)  BY <1>2 DEF ReadEnd
<1>3. CASE Check(s)  BY <1>3 DEF Check
<1>4. CASE ProcessArena(s)  BY <1>4 DEF ProcessArena
<1>5. CASE ProcessHeap(s)  BY <1>5 DEF ProcessHeap
<1>6. CASE CountTotal(s)  BY <1>6 DEF CountTotal
<1>7. CASE CountMode(s)  BY <1>7 DEF CountMode
<1>8. CASE Publish(s)  BY <1>8 DEF Publish
<1>9. CASE LoadPeak(s)  BY <1>9 DEF LoadPeak
<1>10. CASE RaisePeak(s)  BY <1>10 DEF RaisePeak
<1>11. CASE WriteReply(s)  BY <1>11 DEF WriteReply
<1>12. CASE WriteFail(s)  BY <1>12 DEF WriteFail
<1>13. CASE CountBatch(s)  BY <1>13 DEF CountBatch
<1>14. CASE Abort(s)  BY <1>14 DEF Abort
<1>15. CASE ResetTail(s)  BY <1>15 DEF ResetTail
<1>16. CASE Close(s)  BY <1>16 DEF Close
<1>17. CASE Cancel(s)  BY <1>17 DEF Cancel
<1> QED
    BY <1>1, <1>2, <1>3, <1>4, <1>5, <1>6, <1>7, <1>8, <1>9, <1>10, <1>11,
       <1>12, <1>13, <1>14, <1>15, <1>16, <1>17 DEF Handler

\* The published peak is raised only to what some arena has reached.
LEMMA PeakSourceKept ==
    ASSUME Shapes, NEW s \in Stream, Handler(s) \/ Cancel(s), Places(s), Covered(s), PeakSource
    PROVE  PeakSource'
<1> DEFINE peak == stats["peak_arena_size_bytes"]
<1>1. peak \in Nat
    BY DEF Shapes, Counter
<1>2. CASE peak' = peak /\ peak = 0
    BY <1>2 DEF PeakSource
<1>3. CASE peak' = peak /\ peak # 0
  <2>1. PICK t \in Stream : use_arena[t] /\ arena[t].peak_usage >= peak
      BY <1>3 DEF PeakSource
  <2>2. ~ (Open(s) /\ t = s)
    <3> SUFFICES ASSUME Open(s), t = s PROVE FALSE
        OBVIOUS
    <3>1. arena[s].peak_usage = 0
        BY FreshArenaIs DEF Open, At, Places
    <3> QED BY <1>1, <1>3, <2>1, <3>1
  <2>3. use_arena'[t]
      BY <2>1, <2>2, ModeSettled, OthersStay
  <2>4. arena[t].peak_usage <= arena'[t].peak_usage
      BY OwnPeakGrows
  <2>5. arena[t].peak_usage \in Nat /\ arena'[t].peak_usage \in Nat
    <3>1. Shapes'
        BY ShapesKept
    <3>2. Mem!WellFormed(arena[t]) /\ Mem!WellFormed(arena'[t])
        BY <3>1 DEF Shapes
    <3> QED BY <3>2, ArenaAssumption, Mem!TermsAreNat
  <2>6. arena'[t].peak_usage >= peak'
      BY <1>1, <1>3, <2>1, <2>4, <2>5
  <2> QED BY <2>3, <2>6 DEF PeakSource
<1>4. CASE peak' # peak
  <2>1. /\ pc[s] = "cas" /\ arena' = arena /\ use_arena' = use_arena
        /\ peak' = arena[s].peak_usage
      BY <1>4, PublishedPeak
  <2>2. use_arena'[s] /\ arena'[s].peak_usage = peak' /\ peak' \in Nat
      BY <2>1, ArenaCountsAreNat DEF Covered
  <2>3. use_arena'[s] /\ arena'[s].peak_usage >= peak'
      BY <2>2
  <2> QED BY <2>3 DEF PeakSource
<1> QED BY <1>2, <1>3, <1>4

\* Hence the peak is the high-water mark at any time.
LEMMA PeakInvariance == Streams => [](PeakSource /\ \A s \in Stream : Covered(s))
<1> DEFINE Inv == PeakSource /\ \A s \in Stream : Covered(s)
           Known == Shapes /\ \A s \in Stream : Places(s)
<1>1. Init => Inv
  <2> SUFFICES ASSUME Init PROVE Inv
      OBVIOUS
  <2>1. stats["peak_arena_size_bytes"] = 0
      BY DEF Init, Counter
  <2>2. \A s \in Stream : arena[s].peak_usage = 0 /\ pc[s] = "idle" /\ seen[s] = 0
      BY FreshArenaIs DEF Init
  <2> QED BY <2>1, <2>2 DEF PeakSource, Covered
<1>2. Known /\ Inv /\ [Next]_vars => Inv'
  <2> SUFFICES ASSUME Known, Inv, [Next]_vars PROVE Inv'
      OBVIOUS
  <2>1. ASSUME NEW s \in Stream, Handler(s) \/ Cancel(s), NEW t \in Stream
        PROVE  Covered(t)'
    <3>1. CASE t = s
        BY <2>1, <3>1, CoveredKept
    <3>2. CASE t # s
      <4> DEFINE peak == stats["peak_arena_size_bytes"]
      <4>1. /\ pc'[t] = pc[t] /\ arena'[t] = arena[t] /\ seen'[t] = seen[t]
            /\ use_arena'[t] = use_arena[t]
          BY <2>1, <3>2, OthersStay
      <4>2. peak \in Nat /\ peak' \in Nat /\ seen[t] \in Nat /\ arena[t].peak_usage \in Nat
          BY <2>1, ShapesKept, ArenaCountsAreNat DEF Shapes, Counter
      <4>3. peak <= peak'
          BY <2>1, <4>2, PublishedPeak
      <4> HIDE DEF peak
      <4>4. Covered(t)
          OBVIOUS
      <4> QED BY <4>1, <4>2, <4>3, <4>4 DEF Covered, peak
    <3> QED BY <3>1, <3>2
  <2>2. ASSUME NEW s \in Stream, Handler(s) \/ Cancel(s)
        PROVE  PeakSource'
      BY <2>2, PeakSourceKept
  <2>3. CASE UNCHANGED vars
    <3>1. pc' = pc /\ arena' = arena /\ stats' = stats /\ use_arena' = use_arena /\ seen' = seen
        BY <2>3 DEF vars, local
    <3> QED BY <3>1 DEF PeakSource, Covered
  <2> QED BY <2>1, <2>2, <2>3 DEF Next
<1> QED BY <1>1, <1>2, PlacesInvariance, PTL DEF Streams

\* However the handlers' compare-exchanges interleave, the published peak covers
\* every handler past its update and is some arena's own.
THEOREM PeakIsPublished == ScrapeSpec => []PeakIsHighWater
<1>1. PeakSource /\ (\A s \in Stream : Covered(s)) => PeakIsHighWater
    BY DEF PeakSource, Covered, PeakIsHighWater, ArenaStreams
<1> QED BY <1>1, PeakInvariance, ReportsOnlyRead, PTL

(***************************************************************************)
(* The counters.  A step moves its own stream only, in or out of a set, so *)
(* the size of a set of streams goes with one stream's membership.         *)
(***************************************************************************)

\* The sizes of two sets of streams that differ at most in s.
LEMMA OneMoves ==
    ASSUME NEW S \in SUBSET Stream, NEW T \in SUBSET Stream, NEW s \in Stream,
           \A t \in Stream \ {s} : t \in T <=> t \in S
    PROVE  /\ Cardinality(S) \in Nat /\ Cardinality(T) \in Nat
           /\ (s \in S <=> s \in T) => Cardinality(T) = Cardinality(S)
           /\ s \notin S /\ s \in T => Cardinality(T) = Cardinality(S) + 1
           /\ s \in S /\ s \notin T => Cardinality(T) = Cardinality(S) - 1
<1>1. IsFiniteSet(S) /\ IsFiniteSet(T)
    BY MediaStreamAssumption, FS_Subset
<1>2. Cardinality(S) \in Nat /\ Cardinality(T) \in Nat
    BY <1>1, FS_CardinalityType
<1>3. CASE s \in S <=> s \in T
  <2>1. S = T
      BY <1>3
  <2> QED BY <1>2, <1>3, <2>1
<1>4. CASE s \notin S /\ s \in T
  <2>1. T = S \cup {s}
      BY <1>4
  <2> QED BY <1>1, <1>2, <1>4, <2>1, FS_AddElement
<1>5. CASE s \in S /\ s \notin T
  <2>1. T = S \ {s}
      BY <1>5
  <2> QED BY <1>1, <1>2, <1>5, <2>1, FS_RemoveElement
<1> QED BY <1>3, <1>4, <1>5

\* Streams that ended early, or are about to.
Early == { s \in ArenaStreams : pc[s] \in {"close", "done"} /\ replied[s] < received[s] }

\* Where frames are whose allocation is counted, and not yet the frame.
AtTotal == { s \in Stream : pc[s] = "total" }

\* A step of one stream moves no other in or out of a set told by its place.
LEMMA OthersMembership ==
    ASSUME Shapes, NEW s \in Stream, Handler(s) \/ Cancel(s), NEW t \in Stream \ {s}
    PROVE  /\ t \in InProgress' <=> t \in InProgress
           /\ t \in BetweenCounts' <=> t \in BetweenCounts
           /\ t \in Early' <=> t \in Early
           /\ t \in AtTotal' <=> t \in AtTotal
           /\ t \in ArenaStreams' <=> t \in ArenaStreams
<1>1. /\ pc'[t] = pc[t] /\ use_arena'[t] = use_arena[t]
      /\ received'[t] = received[t] /\ replied'[t] = replied[t]
    BY OthersStay
<1> QED BY <1>1, Zenon DEF InProgress, BetweenCounts, Early, AtTotal, ArenaStreams

\* active_arenas goes with the entry and the exit of an arena stream.
LEMMA ActiveMoves ==
    ASSUME Shapes, NEW s \in Stream, Handler(s) \/ Cancel(s)
    PROVE  LET n == "active_arenas"
           IN  \/ stats'[n] = stats[n] /\ (s \in InProgress <=> s \in InProgress')
               \/ stats'[n] = stats[n] + 1 /\ s \notin InProgress /\ s \in InProgress'
               \/ stats'[n] = stats[n] - 1 /\ s \in InProgress /\ s \notin InProgress'
<1> USE DEF Shapes, Goto, Bump, local, At, Counter, InProgress, ArenaStreams
<1>1. CASE Open(s)  BY <1>1 DEF Open
<1>2. CASE ReadChunk(s)  BY <1>2 DEF ReadChunk
<1>3. CASE ReadEnd(s)  BY <1>3 DEF ReadEnd
<1>4. CASE Check(s)  BY <1>4 DEF Check
<1>5. CASE ProcessArena(s)  BY <1>5 DEF ProcessArena
<1>6. CASE ProcessHeap(s)  BY <1>6 DEF ProcessHeap
<1>7. CASE CountTotal(s)  BY <1>7 DEF CountTotal
<1>8. CASE CountMode(s)  BY <1>8 DEF CountMode
<1>9. CASE Publish(s)  BY <1>9 DEF Publish
<1>10. CASE LoadPeak(s)  BY <1>10 DEF LoadPeak
<1>11. CASE RaisePeak(s)  BY <1>11 DEF RaisePeak
<1>12. CASE WriteReply(s)  BY <1>12 DEF WriteReply
<1>13. CASE WriteFail(s)  BY <1>13 DEF WriteFail
<1>14. CASE CountBatch(s)  BY <1>14 DEF CountBatch
<1>15. CASE Abort(s)  BY <1>15 DEF Abort
<1>16. CASE ResetTail(s)  BY <1>16 DEF ResetTail
<1>17. CASE Close(s)  BY <1>17 DEF Close
<1>18. CASE Cancel(s)  BY <1>18 DEF Cancel
<1> QED
    BY <1>1, <1>2, <1>3, <1>4, <1>5, <1>6, <1>7, <1>8, <1>9, <1>10, <1>11,
       <1>12, <1>13, <1>14, <1>15, <1>16, <1>17, <1>18 DEF Handler

\* A frame is counted in the total, and then in one of the modes.
LEMMA FrameMoves ==
    ASSUME Shapes, NEW s \in Stream, Handler(s) \/ Cancel(s)
    PROVE  LET total == stats["total_frames_processed"]
               modes == stats["arena_mode_frames"] + stats["heap_mode_frames"]
           IN  \/ total' = total /\ modes' = modes /\ (s \in BetweenCounts <=> s \in BetweenCounts')
               \/ total' = total + 1 /\ modes' = modes /\ s \notin BetweenCounts /\ s \in BetweenCounts'
               \/ total' = total /\ modes' = modes + 1 /\ s \in BetweenCounts /\ s \notin BetweenCounts'
<1> USE DEF Shapes, Goto, Bump, local, At, Counter, BetweenCounts
<1>1. CASE Open(s)  BY <1>1 DEF Open
<1>2. CASE ReadChunk(s)  BY <1>2 DEF ReadChunk
<1>3. CASE ReadEnd(s)  BY <1>3 DEF ReadEnd
<1>4. CASE Check(s)  BY <1>4 DEF Check
<1>5. CASE ProcessArena(s)  BY <1>5 DEF ProcessArena
<1>6. CASE ProcessHeap(s)  BY <1>6 DEF ProcessHeap
<1>7. CASE CountTotal(s)  BY <1>7 DEF CountTotal
<1>8. CASE CountMode(s)  BY <1>8 DEF CountMode
<1>9. CASE Publish(s)  BY <1>9 DEF Publish
<1>10. CASE LoadPeak(s)  BY <1>10 DEF LoadPeak
<1>11. CASE RaisePeak(s)  BY <1>11 DEF RaisePeak
<1>12. CASE WriteReply(s)  BY <1>12 DEF WriteReply
<1>13. CASE WriteFail(s)  BY <1>13 DEF WriteFail
<1>14. CASE CountBatch(s)  BY <1>14 DEF CountBatch
<1>15. CASE Abort(s)  BY <1>15 DEF Abort
<1>16. CASE ResetTail(s)  BY <1>16 DEF ResetTail
<1>17. CASE Close(s)  BY <1>17 DEF Close
<1>18. CASE Cancel(s)  BY <1>18 DEF Cancel
<1> QED
    BY <1>1, <1>2, <1>3, <1>4, <1>5, <1>6, <1>7, <1>8, <1>9, <1>10, <1>11,
       <1>12, <1>13, <1>14, <1>15, <1>16, <1>17, <1>18 DEF Handler

\* A frame's allocations are counted before the frame.
LEMMA AllocationMoves ==
    ASSUME Shapes, NEW s \in Stream, Handler(s) \/ Cancel(s)
    PROVE  LET total == stats["total_frames_processed"]
               allocations == stats["total_arena_allocations"] + stats["total_heap_allocations"]
           IN  \/ total' = total /\ allocations' >= allocations /\ (s \in AtTotal <=> s \in AtTotal')
               \/ total' = total /\ allocations' >= allocations + 1 /\ s \notin AtTotal
               \/ /\ total' = total + 1 /\ allocations' = allocations
                  /\ s \in AtTotal /\ s \notin AtTotal'
<1> USE DEF Shapes, Goto, Bump, local, At, Counter, AtTotal
<1>1. CASE Open(s)  BY <1>1 DEF Open
<1>2. CASE ReadChunk(s)  BY <1>2 DEF ReadChunk
<1>3. CASE ReadEnd(s)  BY <1>3 DEF ReadEnd
<1>4. CASE Check(s)  BY <1>4 DEF Check
<1>5. CASE ProcessArena(s)  BY <1>5 DEF ProcessArena
<1>6. CASE ProcessHeap(s)
  <2>1. PICK n \in HeapRequests \cup {0} :
            /\ stats' = [stats EXCEPT !["total_heap_allocations"] = @ + n]
            /\ n = 0 => pc' = [pc EXCEPT ![s] = "publish"]
      BY <1>6 DEF ProcessHeap
  <2>2. n \in Nat
      BY MediaStreamAssumption
  <2>3. /\ stats'["total_frames_processed"] = stats["total_frames_processed"]
        /\ stats'["total_arena_allocations"] = stats["total_arena_allocations"]
        /\ stats'["total_heap_allocations"] = stats["total_heap_allocations"] + n
        /\ stats["total_arena_allocations"] \in Nat /\ stats["total_heap_allocations"] \in Nat
      BY <2>1, <2>2
  <2>4. s \notin AtTotal
      BY <1>6 DEF ProcessHeap
  <2>5. CASE n = 0
    <3>1. s \notin AtTotal'
        BY <2>1, <2>5
    <3> QED BY <2>2, <2>3, <2>4, <2>5, <3>1
  <2>6. CASE n >= 1
      BY <2>2, <2>3, <2>4, <2>6
  <2> QED BY <2>2, <2>5, <2>6
<1>7. CASE CountTotal(s)  BY <1>7 DEF CountTotal
<1>8. CASE CountMode(s)  BY <1>8 DEF CountMode
<1>9. CASE Publish(s)  BY <1>9 DEF Publish
<1>10. CASE LoadPeak(s)  BY <1>10 DEF LoadPeak
<1>11. CASE RaisePeak(s)  BY <1>11 DEF RaisePeak
<1>12. CASE WriteReply(s)  BY <1>12 DEF WriteReply
<1>13. CASE WriteFail(s)  BY <1>13 DEF WriteFail
<1>14. CASE CountBatch(s)  BY <1>14 DEF CountBatch
<1>15. CASE Abort(s)  BY <1>15 DEF Abort
<1>16. CASE ResetTail(s)  BY <1>16 DEF ResetTail
<1>17. CASE Close(s)  BY <1>17 DEF Close
<1>18. CASE Cancel(s)  BY <1>18 DEF Cancel
<1> QED
    BY <1>1, <1>2, <1>3, <1>4, <1>5, <1>6, <1>7, <1>8, <1>9, <1>10, <1>11,
       <1>12, <1>13, <1>14, <1>15, <1>16, <1>17, <1>18 DEF Handler

\* A reset is counted with the reset itself, or with the early end of a stream.
LEMMA ResetMoves ==
    ASSUME Shapes, NEW s \in Stream, Handler(s) \/ Cancel(s), Places(s)
    PROVE  LET n == "total_arena_resets"
               mine == arena[s].reset_count
           IN  \/ /\ stats'[n] = stats[n] /\ mine' = mine
                  /\ (s \in Early <=> s \in Early')
                  /\ (s \in ArenaStreams <=> s \in ArenaStreams') \/ mine = 0
               \/ /\ stats'[n] = stats[n] + 1 /\ mine' = mine + 1
                  /\ s \in ArenaStreams /\ s \in ArenaStreams'
                  /\ (s \in Early <=> s \in Early')
               \/ /\ stats'[n] = stats[n] + 1 /\ mine' = mine
                  /\ s \notin Early /\ s \in Early'
                  /\ (s \in ArenaStreams <=> s \in ArenaStreams')
<1> USE DEF Shapes, Goto, Bump, local, At, Counter, Early, ArenaStreams, Places, Answering
<1>1. CASE Open(s)
  <2>1. /\ stats'["total_arena_resets"] = stats["total_arena_resets"]
        /\ arena'[s].reset_count = arena[s].reset_count /\ arena[s].reset_count = 0
      BY <1>1, FreshArenaIs DEF Open
  <2>2. s \notin Early /\ s \notin Early'
      BY <1>1 DEF Open
  <2> QED BY <2>1, <2>2
<1>2. CASE ReadChunk(s)  BY <1>2 DEF ReadChunk
<1>3. CASE ReadEnd(s)  BY <1>3 DEF ReadEnd
<1>4. CASE Check(s)  BY <1>4 DEF Check
<1>5. CASE ProcessArena(s)
  <2>1. arena'[s].reset_count = arena[s].reset_count
      BY <1>5, ProcessEffect
  <2>2. stats'["total_arena_resets"] = stats["total_arena_resets"]
      BY <1>5 DEF ProcessArena
  <2>3. s \notin Early /\ s \notin Early' /\ (s \in ArenaStreams <=> s \in ArenaStreams')
      BY <1>5 DEF ProcessArena
  <2> QED BY <2>1, <2>2, <2>3
<1>6. CASE ProcessHeap(s)  BY <1>6 DEF ProcessHeap
<1>7. CASE CountTotal(s)  BY <1>7 DEF CountTotal
<1>8. CASE CountMode(s)  BY <1>8 DEF CountMode
<1>9. CASE Publish(s)  BY <1>9 DEF Publish
<1>10. CASE LoadPeak(s)  BY <1>10 DEF LoadPeak
<1>11. CASE RaisePeak(s)  BY <1>11 DEF RaisePeak
<1>12. CASE WriteReply(s)  BY <1>12 DEF WriteReply
<1>13. CASE WriteFail(s)  BY <1>13 DEF WriteFail
<1>14. CASE CountBatch(s)
  <2>1. Reset(arena[s]).reset_count = arena[s].reset_count + 1
      BY ResetEffect
  <2>2. s \notin Early /\ s \notin Early' /\ (s \in ArenaStreams <=> s \in ArenaStreams')
      BY <1>14 DEF CountBatch
  <2>3. CASE use_arena[s] /\ batch[s] + 1 >= ResetInterval
    <3>1. /\ arena'[s] = Reset(arena[s]) /\ s \in ArenaStreams
          /\ stats'["total_arena_resets"] = stats["total_arena_resets"] + 1
        BY <1>14, <2>3 DEF CountBatch
    <3> QED BY <2>1, <2>2, <3>1
  <2>4. CASE ~ (use_arena[s] /\ batch[s] + 1 >= ResetInterval)
    <3>1. arena' = arena /\ stats'["total_arena_resets"] = stats["total_arena_resets"]
        BY <1>14, <2>4 DEF CountBatch
    <3> QED BY <2>2, <3>1
  <2> QED BY <2>3, <2>4
<1>15. CASE Abort(s)  BY <1>15 DEF Abort
<1>16. CASE ResetTail(s)
  <2>1. Reset(arena[s]).reset_count = arena[s].reset_count + 1
      BY ResetEffect
  <2>2. s \notin Early /\ s \notin Early' /\ (s \in ArenaStreams <=> s \in ArenaStreams')
      BY <1>16 DEF ResetTail
  <2>3. CASE use_arena[s] /\ 0 < batch[s] /\ batch[s] < ResetInterval
    <3>1. /\ arena'[s] = Reset(arena[s]) /\ s \in ArenaStreams
          /\ stats'["total_arena_resets"] = stats["total_arena_resets"] + 1
        BY <1>16, <2>3 DEF ResetTail
    <3> QED BY <2>1, <2>2, <3>1
  <2>4. CASE ~ (use_arena[s] /\ 0 < batch[s] /\ batch[s] < ResetInterval)
    <3>1. arena' = arena /\ stats'["total_arena_resets"] = stats["total_arena_resets"]
        BY <1>16, <2>4 DEF ResetTail
    <3> QED BY <2>2, <3>1
  <2> QED BY <2>3, <2>4
<1>17. CASE Close(s)  BY <1>17 DEF Close
<1>18. CASE Cancel(s)  BY <1>18 DEF Cancel
<1> QED
    BY <1>1, <1>2, <1>3, <1>4, <1>5, <1>6, <1>7, <1>8, <1>9, <1>10, <1>11,
       <1>12, <1>13, <1>14, <1>15, <1>16, <1>17, <1>18 DEF Handler

\* The number of resets of the arenas of the streams in S.
LEMMA ResetsOf ==
    ASSUME Shapes, NEW S \in SUBSET Stream
    PROVE  LET f == [s \in Stream |-> arena[s].reset_count]
           IN  IsFiniteSet(S) /\ (\A s \in S : f[s] \in Nat) /\ SumFunctionOnSet(f, S) \in Nat
<1> DEFINE f == [s \in Stream |-> arena[s].reset_count]
<1>1. IsFiniteSet(S)
    BY MediaStreamAssumption, FS_Subset
<1>2. \A s \in S : f[s] \in Nat
    BY ArenaCountsAreNat
<1> HIDE DEF f
<1>3. SumFunctionOnSet(f, S) \in Nat
    BY <1>1, <1>2, SumIsNat
<1> QED BY <1>1, <1>2, <1>3 DEF f

\* A stream whose arena was never reset adds nothing.
LEMMA SumWithoutZero ==
    ASSUME NEW S, IsFiniteSet(S), NEW f, \A x \in S : f[x] \in Nat, NEW y, f[y] = 0
    PROVE  SumFunctionOnSet(f, S) = SumFunctionOnSet(f, S \ {y})
<1>1. CASE y \notin S
  <2>1. S \ {y} = S
      BY <1>1
  <2> QED BY <2>1
<1>2. CASE y \in S
  <2> DEFINE T == S \ {y}
  <2>1. IsFiniteSet(T) /\ (\A x \in T : f[x] \in Nat) /\ y \notin T /\ f[y] \in Nat
      BY FS_Subset
  <2>2. T \cup {y} = S
      BY <1>2
  <2> HIDE DEF T
  <2>3. /\ SumFunctionOnSet(f, T) \in Nat
        /\ SumFunctionOnSet(f, T \cup {y}) = SumFunctionOnSet(f, T) + f[y]
      BY <2>1, SumOfOneMore
  <2>4. SumFunctionOnSet(f, S) = SumFunctionOnSet(f, T) + 0
      BY <2>2, <2>3
  <2>5. \A n \in Nat : n + 0 = n
      OBVIOUS
  <2> QED BY <2>3, <2>4, <2>5 DEF T
<1> QED BY <1>1, <1>2

\* The resets of all arenas, when one step moves one stream.
LEMMA ResetsStep ==
    ASSUME Shapes, NEW s \in Stream, Handler(s) \/ Cancel(s), Places(s)
    PROVE  LET f == [t \in Stream |-> arena[t].reset_count]
               sum == SumFunctionOnSet(f, ArenaStreams)
               mine == arena[s].reset_count
           IN  /\ mine' = mine /\ ((s \in ArenaStreams <=> s \in ArenaStreams') \/ mine = 0)
                  => sum' = sum
               /\ mine' = mine + 1 /\ s \in ArenaStreams /\ s \in ArenaStreams'
                  => sum' = sum + 1
<1> DEFINE f == [t \in Stream |-> arena[t].reset_count]
           g == [t \in Stream |-> arena'[t].reset_count]
           S == ArenaStreams
           T == ArenaStreams'
           mine == arena[s].reset_count
<1>1. Shapes'
    BY ShapesKept
<1>2. S \in SUBSET Stream /\ T \in SUBSET Stream
    BY DEF ArenaStreams
<1>3. IsFiniteSet(S) /\ IsFiniteSet(T)
    BY <1>2, MediaStreamAssumption, FS_Subset
<1>4. \A t \in Stream : f[t] \in Nat
    BY ArenaCountsAreNat
<1>5. \A t \in Stream : g[t] \in Nat
  <2> TAKE t \in Stream
  <2>1. Mem!WellFormed(arena'[t])
      BY <1>1 DEF Shapes
  <2> QED BY <2>1, ArenaAssumption, Mem!TermsAreNat
<1>6. \A t \in Stream \ {s} : g[t] = f[t]
    BY OthersStay
<1>7. \A t \in Stream \ {s} : t \in T <=> t \in S
    BY OthersMembership
<1>8. f[s] = mine /\ g[s] = mine'
    OBVIOUS
<1>9. SumFunctionOnSet(f, ArenaStreams)' = SumFunctionOnSet(g, T)
    OBVIOUS
<1> HIDE DEF f, g, S, T
<1>10. ASSUME mine' = mine, s \in S <=> s \in T
       PROVE  SumFunctionOnSet(g, T) = SumFunctionOnSet(f, S)
  <2>1. S = T
      BY <1>2, <1>7, <1>10
  <2>2. \A x \in S : g[x] = f[x] /\ g[x] \in Nat
      BY <1>2, <1>5, <1>6, <1>8, <1>10
  <2>3. SumFunctionOnSet(g, S) = SumFunctionOnSet(f, S)
      BY <1>3, <2>2, SumSame
  <2> QED BY <2>1, <2>3
<1>11. ASSUME mine' = mine, mine = 0
       PROVE  SumFunctionOnSet(g, T) = SumFunctionOnSet(f, S)
  <2> DEFINE R == S \ {s}
  <2>1. SumFunctionOnSet(f, S) = SumFunctionOnSet(f, S \ {s})
      BY <1>2, <1>3, <1>4, <1>8, <1>11, SumWithoutZero
  <2>2. SumFunctionOnSet(g, T) = SumFunctionOnSet(g, T \ {s})
      BY <1>2, <1>3, <1>5, <1>8, <1>11, SumWithoutZero
  <2>3. T \ {s} = R
      BY <1>2, <1>7
  <2>4. IsFiniteSet(R) /\ \A x \in R : g[x] = f[x] /\ g[x] \in Nat
      BY <1>2, <1>3, <1>5, <1>6, FS_Subset
  <2>5. SumFunctionOnSet(g, R) = SumFunctionOnSet(f, R)
    <3> HIDE DEF R
    <3> QED BY <2>4, SumSame
  <2> QED BY <2>1, <2>2, <2>3, <2>5
<1>12. ASSUME mine' = mine + 1, s \in S, s \in T
       PROVE  SumFunctionOnSet(g, T) = SumFunctionOnSet(f, S) + 1
  <2>1. S = T
      BY <1>2, <1>7, <1>12
  <2>2. /\ \A x \in S : f[x] \in Nat
        /\ \A x \in S \ {s} : g[x] = f[x]
        /\ g[s] = f[s] + 1 /\ 1 \in Nat
      BY <1>2, <1>4, <1>6, <1>8, <1>12
  <2>3. SumFunctionOnSet(g, S) = SumFunctionOnSet(f, S) + 1
      BY <1>3, <1>12, <2>2, SumOfGrown
  <2> QED BY <2>1, <2>3
<1> QED BY <1>9, <1>10, <1>11, <1>12 DEF f, S, T

\* Frames counted, with those about to be, are covered by the allocations.
FramesAllocated ==
    stats["total_frames_processed"] + Cardinality(AtTotal)
    <= stats["total_arena_allocations"] + stats["total_heap_allocations"]

\* The three counts, and the frames' allocations, in every step of a stream.
LEMMA CountersKept ==
    ASSUME Shapes, NEW s \in Stream, Handler(s) \/ Cancel(s), Places(s),
           CountersExact, FramesAllocated
    PROVE  CountersExact' /\ FramesAllocated'
<1>1. Shapes'
    BY ShapesKept
<1>2. /\ InProgress \in SUBSET Stream /\ InProgress' \in SUBSET Stream
      /\ BetweenCounts \in SUBSET Stream /\ BetweenCounts' \in SUBSET Stream
      /\ Early \in SUBSET Stream /\ Early' \in SUBSET Stream
      /\ AtTotal \in SUBSET Stream /\ AtTotal' \in SUBSET Stream
      /\ ArenaStreams \in SUBSET Stream
    BY DEF InProgress, BetweenCounts, Early, AtTotal, ArenaStreams
<1>3. (stats["active_arenas"] = Cardinality(InProgress))'
  <2> DEFINE S == InProgress
             T == InProgress'
  <2>1. \A t \in Stream \ {s} : t \in T <=> t \in S
      BY OthersMembership
  <2>2. S \in SUBSET Stream /\ T \in SUBSET Stream
      BY <1>2
  <2>3. stats["active_arenas"] = Cardinality(S)
      BY DEF CountersExact
  <2>4. \/ stats'["active_arenas"] = stats["active_arenas"] /\ (s \in S <=> s \in T)
        \/ stats'["active_arenas"] = stats["active_arenas"] + 1 /\ s \notin S /\ s \in T
        \/ stats'["active_arenas"] = stats["active_arenas"] - 1 /\ s \in S /\ s \notin T
      BY ActiveMoves
  <2>5. Cardinality(InProgress)' = Cardinality(T)
      OBVIOUS
  <2> HIDE DEF S, T
  <2>6. /\ Cardinality(S) \in Nat /\ Cardinality(T) \in Nat
        /\ (s \in S <=> s \in T) => Cardinality(T) = Cardinality(S)
        /\ s \notin S /\ s \in T => Cardinality(T) = Cardinality(S) + 1
        /\ s \in S /\ s \notin T => Cardinality(T) = Cardinality(S) - 1
      BY <2>1, <2>2, OneMoves
  <2>7. stats'["active_arenas"] = Cardinality(T)
      BY <2>3, <2>4, <2>6
  <2> QED BY <2>5, <2>7
<1>4. (stats["total_frames_processed"] =
          stats["arena_mode_frames"] + stats["heap_mode_frames"] + Cardinality(BetweenCounts))'
  <2> DEFINE S == BetweenCounts
             T == BetweenCounts'
             total == stats["total_frames_processed"]
             modes == stats["arena_mode_frames"] + stats["heap_mode_frames"]
  <2>1. \A t \in Stream \ {s} : t \in T <=> t \in S
      BY OthersMembership
  <2>2. S \in SUBSET Stream /\ T \in SUBSET Stream
      BY <1>2
  <2>3. total = modes + Cardinality(S) /\ modes \in Nat
      BY DEF CountersExact, Shapes, Counter
  <2>4. \/ total' = total /\ modes' = modes /\ (s \in S <=> s \in T)
        \/ total' = total + 1 /\ modes' = modes /\ s \notin S /\ s \in T
        \/ total' = total /\ modes' = modes + 1 /\ s \in S /\ s \notin T
      BY FrameMoves
  <2>5. Cardinality(BetweenCounts)' = Cardinality(T)
      OBVIOUS
  <2> HIDE DEF S, T, total, modes
  <2>6. /\ Cardinality(S) \in Nat /\ Cardinality(T) \in Nat
        /\ (s \in S <=> s \in T) => Cardinality(T) = Cardinality(S)
        /\ s \notin S /\ s \in T => Cardinality(T) = Cardinality(S) + 1
        /\ s \in S /\ s \notin T => Cardinality(T) = Cardinality(S) - 1
      BY <2>1, <2>2, OneMoves
  <2>7. total' = modes' + Cardinality(T)
      BY <2>3, <2>4, <2>6
  <2> QED BY <2>5, <2>7 DEF total, modes
<1>5. (stats["total_arena_resets"] = ArenaResets)'
  <2> DEFINE S == Early
             T == Early'
             n == stats["total_arena_resets"]
             sum == SumFunctionOnSet([t \in Stream |-> arena[t].reset_count], ArenaStreams)
             mine == arena[s].reset_count
             kept == s \in ArenaStreams <=> s \in ArenaStreams'
             both == s \in ArenaStreams /\ s \in ArenaStreams'
  <2>1. \A t \in Stream \ {s} : t \in T <=> t \in S
      BY OthersMembership
  <2>2. S \in SUBSET Stream /\ T \in SUBSET Stream
      BY <1>2
  <2>3. n = sum + Cardinality(S)
      BY DEF CountersExact, ArenaResets, Early
  <2>4. sum \in Nat
      BY <1>2, ResetsOf
  <2>5. \/ n' = n /\ mine' = mine /\ (s \in S <=> s \in T) /\ (kept \/ mine = 0)
        \/ n' = n + 1 /\ mine' = mine + 1 /\ both /\ (s \in S <=> s \in T)
        \/ n' = n + 1 /\ mine' = mine /\ s \notin S /\ s \in T /\ kept
      BY ResetMoves
  <2>6. /\ mine' = mine /\ (kept \/ mine = 0) => sum' = sum
        /\ mine' = mine + 1 /\ both => sum' = sum + 1
      BY ResetsStep
  <2>7. ArenaResets' = sum' + Cardinality(T)
      BY DEF ArenaResets, Early
  <2>8. n' = stats'["total_arena_resets"]
      OBVIOUS
  <2> HIDE DEF S, T, n, sum, mine, kept, both
  <2>9. /\ Cardinality(S) \in Nat /\ Cardinality(T) \in Nat
        /\ (s \in S <=> s \in T) => Cardinality(T) = Cardinality(S)
        /\ s \notin S /\ s \in T => Cardinality(T) = Cardinality(S) + 1
        /\ s \in S /\ s \notin T => Cardinality(T) = Cardinality(S) - 1
      BY <2>1, <2>2, OneMoves
  <2>10. n' = sum' + Cardinality(T)
      BY <2>3, <2>4, <2>5, <2>6, <2>9
  <2> QED BY <2>7, <2>8, <2>10
<1>6. FramesAllocated'
  <2> DEFINE S == AtTotal
             T == AtTotal'
             total == stats["total_frames_processed"]
             made == stats["total_arena_allocations"] + stats["total_heap_allocations"]
  <2>1. \A t \in Stream \ {s} : t \in T <=> t \in S
      BY OthersMembership
  <2>2. S \in SUBSET Stream /\ T \in SUBSET Stream
      BY <1>2
  <2>3. total + Cardinality(S) <= made /\ total \in Nat /\ made \in Nat /\ made' \in Nat
      BY <1>1 DEF FramesAllocated, Shapes, Counter
  <2>4. \/ total' = total /\ made' >= made /\ (s \in S <=> s \in T)
        \/ total' = total /\ made' >= made + 1 /\ s \notin S
        \/ total' = total + 1 /\ made' = made /\ s \in S /\ s \notin T
      BY AllocationMoves
  <2>5. Cardinality(AtTotal)' = Cardinality(T)
      OBVIOUS
  <2> HIDE DEF S, T, total, made
  <2>6. /\ Cardinality(S) \in Nat /\ Cardinality(T) \in Nat
        /\ (s \in S <=> s \in T) => Cardinality(T) = Cardinality(S)
        /\ s \notin S /\ s \in T => Cardinality(T) = Cardinality(S) + 1
        /\ s \in S /\ s \notin T => Cardinality(T) = Cardinality(S) - 1
      BY <2>1, <2>2, OneMoves
  <2>7. total' + Cardinality(T) <= made'
      BY <2>3, <2>4, <2>6
  <2> QED BY <2>5, <2>7 DEF total, made, FramesAllocated
<1> QED BY <1>3, <1>4, <1>5 , <1>6 DEF CountersExact

\* Nothing is counted before a stream is opened.
LEMMA CountersInit == Init => CountersExact /\ FramesAllocated
<1> SUFFICES ASSUME Init PROVE CountersExact /\ FramesAllocated
    OBVIOUS
<1>1. InProgress = {} /\ BetweenCounts = {} /\ Early = {} /\ AtTotal = {}
  <2>1. \A s \in Stream : pc[s] = "idle"
      BY DEF Init
  <2>2. InProgress = {} /\ Early = {}
      BY <2>1 DEF InProgress, Early, ArenaStreams
  <2>3. BetweenCounts = {} /\ AtTotal = {}
      BY <2>1 DEF BetweenCounts, AtTotal
  <2> QED BY <2>2, <2>3
<1>2. Cardinality({}) = 0
    BY FS_EmptySet
<1>3. \A c \in Counter : stats[c] = 0
    BY DEF Init
<1>4. SumFunctionOnSet([s \in Stream |-> arena[s].reset_count], ArenaStreams) = 0
  <2> DEFINE f == [s \in Stream |-> arena[s].reset_count]
  <2>1. IsFiniteSet(ArenaStreams)
      BY MediaStreamAssumption, FS_Subset DEF ArenaStreams
  <2>2. \A s \in ArenaStreams : f[s] = 0
      BY FreshArenaIs DEF Init, ArenaStreams
  <2> HIDE DEF f
  <2>3. SumFunctionOnSet(f, ArenaStreams) = 0
      BY <2>1, <2>2, SumOfZeros
  <2> QED BY <2>3 DEF f
<1>5. ArenaResets = 0
    BY <1>1, <1>2, <1>4 DEF ArenaResets, Early
<1> QED
    BY <1>1, <1>2, <1>3, <1>5 DEF CountersExact, FramesAllocated, Counter

\* Hence the counts are exact at any time.
LEMMA CountersInvariance == Streams => [](CountersExact /\ FramesAllocated)
<1> DEFINE Inv == CountersExact /\ FramesAllocated
           Known == Shapes /\ \A s \in Stream : Places(s)
<1>1. Init => Inv
    BY CountersInit
<1>2. Known /\ Inv /\ [Next]_vars => Inv'
  <2> SUFFICES ASSUME Known, Inv, [Next]_vars PROVE Inv'
      OBVIOUS
  <2>1. CASE \E s \in Stream : Handler(s) \/ Cancel(s)
      BY <2>1, CountersKept
  <2>2. CASE UNCHANGED vars
    <3>1. /\ pc' = pc /\ arena' = arena /\ use_arena' = use_arena /\ stats' = stats
          /\ received' = received /\ replied' = replied
        BY <2>2 DEF vars, local
    <3>2. InProgress' = InProgress /\ BetweenCounts' = BetweenCounts /\ AtTotal' = AtTotal
          /\ ArenaResets' = ArenaResets
        BY <3>1 DEF InProgress, BetweenCounts, AtTotal, ArenaResets, ArenaStreams
    <3> QED BY <3>1, <3>2 DEF CountersExact, FramesAllocated
  <2> QED BY <2>1, <2>2 DEF Next
<1> QED BY <1>1, <1>2, PlacesInvariance, PTL DEF Streams

\* The counters that all handlers share, each update a step of its own, always
\* tell the streams in progress, the frames of either mode and the resets.
THEOREM CountersTold == ScrapeSpec => []CountersExact
    BY CountersInvariance, ReportsOnlyRead, PTL

(***************************************************************************)
(* A report reads the counters one by one, between the handlers' steps.    *)
(***************************************************************************)

\* The counters of allocations never fall.
LEMMA AllocationsGrow ==
    ASSUME Shapes, [Next]_vars
    PROVE  /\ stats["total_arena_allocations"] <= stats'["total_arena_allocations"]
           /\ stats["total_heap_allocations"] <= stats'["total_heap_allocations"]
<1>1. stats["total_arena_allocations"] \in Nat /\ stats["total_heap_allocations"] \in Nat
    BY DEF Shapes, Counter
<1>2. CASE UNCHANGED vars
    BY <1>1, <1>2 DEF vars
<1>3. ASSUME NEW s \in Stream, Handler(s) \/ Cancel(s)
      PROVE  /\ stats["total_arena_allocations"] <= stats'["total_arena_allocations"]
             /\ stats["total_heap_allocations"] <= stats'["total_heap_allocations"]
  <2> USE <1>1 DEF Shapes, Goto, Bump, local, Counter
  <2>1. CASE Open(s)  BY <2>1 DEF Open
  <2>2. CASE ReadChunk(s)  BY <2>2 DEF ReadChunk
  <2>3. CASE ReadEnd(s)  BY <2>3 DEF ReadEnd
  <2>4. CASE Check(s)  BY <2>4 DEF Check
  <2>5. CASE ProcessArena(s)  BY <2>5 DEF ProcessArena
  <2>6. CASE ProcessHeap(s)
    <3>1. PICK n \in HeapRequests \cup {0} : stats' = [stats EXCEPT !["total_heap_allocations"] = @ + n]
        BY <2>6 DEF ProcessHeap
    <3>2. n \in Nat
        BY MediaStreamAssumption
    <3> QED BY <3>1, <3>2
  <2>7. CASE CountTotal(s)  BY <2>7 DEF CountTotal
  <2>8. CASE CountMode(s)  BY <2>8 DEF CountMode
  <2>9. CASE Publish(s)  BY <2>9 DEF Publish
  <2>10. CASE LoadPeak(s)  BY <2>10 DEF LoadPeak
  <2>11. CASE RaisePeak(s)  BY <2>11 DEF RaisePeak
  <2>12. CASE WriteReply(s)  BY <2>12 DEF WriteReply
  <2>13. CASE WriteFail(s)  BY <2>13 DEF WriteFail
  <2>14. CASE CountBatch(s)  BY <2>14 DEF CountBatch
  <2>15. CASE Abort(s)  BY <2>15 DEF Abort
  <2>16. CASE ResetTail(s)  BY <2>16 DEF ResetTail
  <2>17. CASE Close(s)  BY <2>17 DEF Close
  <2>18. CASE Cancel(s)  BY <2>18 DEF Cancel
  <2> QED
      BY <2>1, <2>2, <2>3, <2>4, <2>5, <2>6, <2>7, <2>8, <2>9, <2>10, <2>11,
         <2>12, <2>13, <2>14, <2>15, <2>16, <2>17, <2>18, <1>3 DEF Handler
<1> QED BY <1>2, <1>3 DEF Next

\* What the report in progress has read, against what is counted by now.
ReportSoFar ==
    LET arenas == stats["total_arena_allocations"]
        heaps == stats["total_heap_allocations"]
    IN  /\ report \in Seq(Nat) /\ Len(report) <= 3
        /\ Len(report) = 1 => report[1] <= arenas + heaps
        /\ Len(report) = 2 => report[1] <= report[2] + heaps
        /\ Len(report) = 3 => report[1] <= report[2] + report[3]

\* A report reads the frames before the allocations, and neither ever falls.
LEMMA ReportStep ==
    ASSUME Shapes, FramesAllocated, ReportSoFar, [ScrapeNext]_scrapeVars
    PROVE  ReportSoFar'
<1> DEFINE frames == stats["total_frames_processed"]
           arenas == stats["total_arena_allocations"]
           heaps == stats["total_heap_allocations"]
<1>1. frames \in Nat /\ arenas \in Nat /\ heaps \in Nat
    BY DEF Shapes, Counter
<1>2. frames <= arenas + heaps
  <2>1. Cardinality(AtTotal) \in Nat
      BY MediaStreamAssumption, FS_Subset, FS_CardinalityType DEF AtTotal
  <2> QED BY <1>1, <2>1 DEF FramesAllocated
<1>3. report \in Seq(Nat) /\ Len(report) <= 3 /\ Len(report) \in Nat
    BY DEF ReportSoFar
<1>4. \A i \in 1 .. Len(report) : report[i] \in Nat
    BY <1>3, ElementOfSeq
<1>5. CASE [Next]_vars /\ report' = report
  <2>1. arenas <= arenas' /\ heaps <= heaps' /\ arenas' \in Nat /\ heaps' \in Nat
      BY <1>5, AllocationsGrow, ShapesStep DEF Shapes, Counter
  <2>2. /\ Len(report) = 1 => report[1] \in Nat
        /\ Len(report) = 2 => report[1] \in Nat /\ report[2] \in Nat
      BY <1>3, <1>4
  <2>3. /\ Len(report) = 1 => report[1] <= arenas + heaps
        /\ Len(report) = 2 => report[1] <= report[2] + heaps
        /\ Len(report) = 3 => report[1] <= report[2] + report[3]
      BY DEF ReportSoFar
  <2> DEFINE r1 == report[1]
             r2 == report[2]
  <2>4. Len(report) = 1 => r1 <= arenas' + heaps'
    <3> HIDE DEF arenas, heaps
    <3> QED BY <1>1, <2>1, <2>2, <2>3
  <2>5. Len(report) = 2 => r1 <= r2 + heaps'
    <3> HIDE DEF heaps, arenas
    <3> QED BY <1>1, <2>1, <2>2, <2>3
  <2>6. report' = report
      BY <1>5
  <2> QED BY <1>3, <2>3, <2>4, <2>5, <2>6 DEF ReportSoFar
<1>6. CASE Load
  <2>1. /\ LoadOrder[1] = "total_frames_processed" /\ LoadOrder[2] = "total_arena_allocations"
        /\ LoadOrder[3] = "total_heap_allocations" /\ Len(LoadOrder) = 3
      BY DEF LoadOrder
  <2>2. report \in Seq(Nat) /\ Len(report) \in {0, 1, 2}
    <3>1. Len(report) < 3
        BY <1>6, <2>1 DEF Load
    <3> DEFINE n == Len(report)
    <3>2. n \in Nat /\ n < 3
        BY <1>3, <3>1
    <3> HIDE DEF n
    <3>3. n \in {0, 1, 2}
        BY <3>2
    <3> QED BY <1>3, <3>3 DEF n
  <2>3. stats' = stats
      BY <1>6 DEF Load, vars
  <2>4. CASE Len(report) = 0
    <3>1. report' = Append(report, frames)
        BY <1>6, <2>1, <2>4 DEF Load
    <3>2. report' \in Seq(Nat) /\ Len(report') = 1 /\ report'[1] = frames
        BY <1>1, <2>2, <2>4, <3>1, AppendProperties
    <3> QED BY <1>2, <2>3, <3>2 DEF ReportSoFar
  <2>5. CASE Len(report) = 1
    <3>1. report' = Append(report, arenas)
        BY <1>6, <2>1, <2>5 DEF Load
    <3>2. /\ report' \in Seq(Nat) /\ Len(report') = 2
          /\ report'[1] = report[1] /\ report'[2] = arenas
        BY <1>1, <2>2, <2>5, <3>1, AppendProperties
    <3> QED BY <2>3, <2>5, <3>2 DEF ReportSoFar
  <2>6. CASE Len(report) = 2
    <3>1. report' = Append(report, heaps)
        BY <1>6, <2>1, <2>6 DEF Load
    <3>2. /\ report' \in Seq(Nat) /\ Len(report') = 3
          /\ report'[1] = report[1] /\ report'[2] = report[2] /\ report'[3] = heaps
      <4>1. /\ report' \in Seq(Nat) /\ Len(report') = Len(report) + 1
            /\ \A i \in 1 .. Len(report) : report'[i] = report[i]
            /\ report'[Len(report) + 1] = heaps
          BY <1>1, <1>3, <3>1, AppendProperties
      <4> QED BY <2>6, <4>1
    <3>3. report'[1] <= report'[2] + report'[3]
        BY <2>6, <3>2 DEF ReportSoFar
    <3> QED BY <3>2, <3>3 DEF ReportSoFar
  <2> QED BY <2>2, <2>4, <2>5, <2>6
<1>7. CASE SendReport
  <2>1. report' = << >>
      BY <1>7 DEF SendReport
  <2> QED BY <2>1 DEF ReportSoFar
<1> QED BY <1>5, <1>6, <1>7 DEF ScrapeNext, scrapeVars

\* A report that mixes moments of the handlers' progress still shows an
\* allocation for every frame: the loads' order matches the handlers'.
THEOREM ReportsCoverFrames == ScrapeSpec => []ReportCoversFrames
<1>1. ScrapeInit => ReportSoFar
    BY DEF ScrapeInit, ReportSoFar
<1>2. ReportSoFar => ReportCoversFrames
  <2> SUFFICES ASSUME ReportSoFar, Len(report) = Len(LoadOrder)
               PROVE  InReport("total_frames_processed") <=
                        InReport("total_arena_allocations") + InReport("total_heap_allocations")
      BY DEF ReportCoversFrames
  <2>1. /\ LoadOrder[1] = "total_frames_processed" /\ LoadOrder[2] = "total_arena_allocations"
        /\ LoadOrder[3] = "total_heap_allocations" /\ Len(LoadOrder) = 3
      BY DEF LoadOrder
  <2>2. /\ InReport("total_frames_processed") = report[1]
        /\ InReport("total_arena_allocations") = report[2]
        /\ InReport("total_heap_allocations") = report[3]
    <3>1. 1 .. Len(report) = {1, 2, 3}
        BY <2>1
    <3> HIDE DEF LoadOrder
    <3> QED BY <2>1, <3>1 DEF InReport
  <2> QED BY <2>1, <2>2 DEF ReportSoFar
<1>3. ScrapeSpec => [](Shapes /\ FramesAllocated)
    BY ShapesInvariance, CountersInvariance, ReportsOnlyRead, PTL
<1> QED
    BY <1>1, <1>2, <1>3, ReportStep, PTL DEF ScrapeSpec

\* Every variable keeps its type; no stream reads more chunks than its client
\* sends, and no counter, active_arenas included, falls below zero.
THEOREM StreamsTyped == ScrapeSpec => []TypeOK
<1> DEFINE Sent == clients \in [Stream -> Nat] /\ \A s \in Stream : received[s] <= clients[s]
<1>1. Init => Sent
    BY MediaStreamAssumption DEF Init
<1>2. Shapes /\ Sent /\ [Next]_vars => Sent'
  <2> SUFFICES ASSUME Shapes, Sent, [Next]_vars PROVE Sent'
      OBVIOUS
  <2>1. clients' = clients
      BY DEF Next, vars
  <2>2. ASSUME NEW s \in Stream, Handler(s) \/ Cancel(s), NEW t \in Stream
        PROVE  received'[t] <= clients[t]
    <3>1. CASE t # s
        BY <2>2, <3>1, OthersStay
    <3>2. CASE t = s
      <4> USE <3>2 DEF Shapes, local
      <4>1. CASE Open(s)  BY <4>1 DEF Open
      <4>2. CASE ReadChunk(s)  BY <4>2 DEF ReadChunk
      <4>3. CASE ReadEnd(s)  BY <4>3 DEF ReadEnd
      <4>4. CASE Check(s)  BY <4>4 DEF Check
      <4>5. CASE ProcessArena(s)  BY <4>5 DEF ProcessArena
      <4>6. CASE ProcessHeap(s)  BY <4>6 DEF ProcessHeap
      <4>7. CASE CountTotal(s)  BY <4>7 DEF CountTotal
      <4>8. CASE CountMode(s)  BY <4>8 DEF CountMode
      <4>9. CASE Publish(s)  BY <4>9 DEF Publish
      <4>10. CASE LoadPeak(s)  BY <4>10 DEF LoadPeak
      <4>11. CASE RaisePeak(s)  BY <4>11 DEF RaisePeak
      <4>12. CASE WriteReply(s)  BY <4>12 DEF WriteReply
      <4>13. CASE WriteFail(s)  BY <4>13 DEF WriteFail
      <4>14. CASE CountBatch(s)  BY <4>14 DEF CountBatch
      <4>15. CASE Abort(s)  BY <4>15 DEF Abort
      <4>16. CASE ResetTail(s)  BY <4>16 DEF ResetTail
      <4>17. CASE Close(s)  BY <4>17 DEF Close
      <4>18. CASE Cancel(s)  BY <4>18 DEF Cancel
      <4> QED
        BY <4>1, <4>2, <4>3, <4>4, <4>5, <4>6, <4>7, <4>8, <4>9, <4>10,
             <4>11, <4>12, <4>13, <4>14, <4>15, <4>16, <4>17, <4>18, <2>2 DEF Handler
    <3> QED BY <3>1, <3>2
  <2>3. CASE UNCHANGED vars
      BY <2>3 DEF vars, local
  <2> QED BY <2>1, <2>2, <2>3 DEF Next
<1>3. ASSUME Shapes, Sent, \A s \in Stream : Places(s), CountersExact
      PROVE  TypeOK
  <2>1. \A s \in Stream : received[s] \in 0 .. clients[s] /\ replied[s] \in 0 .. clients[s]
    <3> TAKE s \in Stream
    <3>1. /\ received[s] \in Nat /\ replied[s] \in Nat /\ clients[s] \in Nat
          /\ received[s] <= clients[s] /\ pc[s] \in PC /\ Places(s)
        BY <1>3 DEF Shapes
    <3>2. received[s] = replied[s] \/ received[s] = replied[s] + 1
        BY <3>1 DEF Places, Answering, PC
    <3> QED BY <3>1, <3>2
  <2>2. stats \in [Counter -> Nat]
    <3>1. stats["active_arenas"] \in Nat
        BY <1>3, MediaStreamAssumption, FS_Subset, FS_CardinalityType
           DEF CountersExact, InProgress, ArenaStreams
    <3> QED BY <1>3, <3>1 DEF Shapes
  <2>3. arena \in [Stream -> ArenaRecord]
      BY <1>3 DEF Shapes, Mem!WellFormed, ArenaRecord, Block, Mem!ArenaRecord, Mem!Block
  <2> QED BY <1>3, <2>1, <2>2, <2>3 DEF TypeOK, Shapes
<1>4. Streams => []Sent
    BY <1>1, <1>2, ShapesInvariance, PTL DEF Streams
<1> QED
    BY <1>3, <1>4, PlacesInvariance, CountersInvariance, ReportsOnlyRead, PTL
=============================================================================
