-------------------------- MODULE MCStreamPipeline --------------------------
(* Requests through channels of capacity one for TLC.  A pooled buffer of one *)
(* unit holds a frame of 640 x 480.                                           *)
EXTENDS StreamPipeline

\* A client that reads while it sends and that no deadline cuts.
Prompt(n, sizes) == [frames : 0 .. n, size : sizes, duplex : {TRUE}, slow : {FALSE}]

\* Any client that a deadline may cut.
Slow(n, sizes) == [frames : 0 .. n, size : sizes, duplex : BOOLEAN, slow : {TRUE}]

\* A client that reads nothing before its body is taken, with more frames than all
\* the queues and hands between it and itself hold: only a deadline ends it.
Stalled == [frames : {10}, size : {1}, duplex : {FALSE}, slow : {TRUE}]

\* Sizes: 640 x 480, a larger frame, and a negative width.
AnyRequest == Prompt(3, {-1, 1, 2}) \cup Slow(3, {-1, 1, 2}) \cup Stalled

ShortRequest == Prompt(2, {1})
=============================================================================
