---------------------------- MODULE InOrderPipe ----------------------------
(***************************************************************************)
(* What a client of POST /api/stream can rely on: its frames 1, 2, ... are *)
(* taken in turn, and it receives the results of a prefix of them, each    *)
(* once and in the order sent.                                             *)
(***************************************************************************)
EXTENDS Naturals, Sequences

CONSTANT Frames   \* how many frames the client may send

VARIABLES sent,      \* frames taken from the client
          received   \* results it has received

vars == << sent, received >>

Init == sent = 0 /\ received = << >>

Send == sent < Frames /\ sent' = sent + 1 /\ UNCHANGED received

Receive ==
    /\ Len(received) < sent
    /\ received' = Append(received, Len(received) + 1)
    /\ UNCHANGED sent

Next == Send \/ Receive

Spec == Init /\ [][Next]_vars
=============================================================================
