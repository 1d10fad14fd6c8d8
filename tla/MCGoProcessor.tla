--------------------------- MODULE MCGoProcessor ---------------------------
(* Two concurrent streams of the Go processor and one report for TLC. *)
EXTENDS GoProcessor, TLC

CONSTANTS s1, s2

\* A wide blur (the default) and a narrow one, a filter without a kernel, and a
\* chunk that is refused.
Wide == [type |-> "video", fits |-> TRUE, params |-> NoParams]
Narrow == [type |-> "image", fits |-> TRUE, params |-> [filter |-> "unspecified", radius |-> 1]]
Sharp == [type |-> "video", fits |-> TRUE, params |-> [filter |-> "sharpen", radius |-> 0]]
Short == [type |-> "video", fits |-> FALSE, params |-> NoParams]

MCChunks == s1 :> {Narrow, Sharp, Short} @@ s2 :> {Wide}

MCMaxChunks == s1 :> 2 @@ s2 :> 1
=============================================================================
