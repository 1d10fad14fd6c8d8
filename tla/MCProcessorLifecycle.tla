------------------------ MODULE MCProcessorLifecycle ------------------------
(* One processor process, a metrics client and a gRPC client or two for TLC. *)
EXTENDS ProcessorLifecycle

\* A client of the metrics port that sends its request, and one that does not.
Prompt == {"prompt"}
Silent == {"silent"}
=============================================================================
