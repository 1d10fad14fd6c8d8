--------------------------- MODULE MCMediaStream ---------------------------
(* Two concurrent streams of the C++ processor, and reports on them, for TLC. *)
EXTENDS MetricsScrape, TLC

CONSTANTS s1, s2

\* What a frame takes of the arena: a block holds one frame, and not two.
MCFrameRequests == { << [size |-> 6, align |-> 1] >> }

\* One stream outlives a batch of two frames beside a short one; or it has
\* reports taken on it, beside one that opens and closes.
Long == s1 :> 3 @@ s2 :> 1
Reported == s1 :> 3 @@ s2 :> 0
MCClients == {Long, Reported}
MCReportedClients == {Reported}
=============================================================================
