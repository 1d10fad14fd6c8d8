------------------------------ MODULE MCGateway ------------------------------
(***************************************************************************)
(* Constants for model-checking Gateway.                                   *)
(***************************************************************************)
EXTENDS Gateway

\* Round-robin, asked for by a negative index that is not the -1 stored for it, the
\* first processor, and an index no pool of two has.
MCIndices == {-3, 0, 2}
=============================================================================
