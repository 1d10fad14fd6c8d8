---------------------------- MODULE MCFilterOutput ----------------------------
(* Streams of small frames for TLC. *)
EXTENDS FilterOutput

\* Every filter in either mode.
AnyRequest == Mode \X Filter
=============================================================================
