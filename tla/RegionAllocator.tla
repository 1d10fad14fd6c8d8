-------------------------- MODULE RegionAllocator --------------------------
(***************************************************************************)
(* What a bump allocator promises its callers, without blocks, padding or  *)
(* statistics: every region handed out is disjoint from every region still *)
(* in use, stays in use until its arena is released as a whole, and moves  *)
(* with its arena.                                                         *)
(***************************************************************************)
EXTENDS Naturals

CONSTANT Arena

VARIABLE live   \* the regions in use of each arena

Extent == [block : Nat, at : Nat, len : Nat]

Overlap(r, s) ==
    /\ r.block = s.block
    /\ r.at < s.at + s.len
    /\ s.at < r.at + r.len

Init == live = [a \in Arena |-> {}]

HandOut(a) ==
    \E r \in live'[a] :
        /\ r \in Extent
        /\ r.len > 0
        /\ \A s \in live[a] : ~ Overlap(r, s)
        /\ live' = [live EXCEPT ![a] = @ \cup {r}]

Release(a) == live' = [live EXCEPT ![a] = {}]

Hand(dst, src) ==
    live' = [live EXCEPT ![dst] = live[src], ![src] = {}]

Next ==
    \/ \E a \in Arena : HandOut(a) \/ Release(a)
    \/ \E dst, src \in Arena : dst # src /\ Hand(dst, src)

Spec == Init /\ [][Next]_live
=============================================================================
