-------------------------- MODULE MCControlPanel ----------------------------
(* Visits of two tabs, of one browser or of two, for TLC. *)
EXTENDS ControlPanel, TLC

CONSTANTS t1, t2, b1, b2

Shared == t1 :> b1 @@ t2 :> b1
Apart == t1 :> b1 @@ t2 :> b2

Bounds(opens, auths, frames) == [opens |-> opens, auths |-> auths, frames |-> frames]

AnnX == [name |-> "ann", password |-> "x"]
AnnY == [name |-> "ann", password |-> "y"]
BobY == [name |-> "bob", password |-> "y"]
Colon == [name |-> "a:b", password |-> "x"]
MCCredentials == {AnnX, AnnY, BobY, Colon}

Alone(opens, auths, frames) == t1 :> Bounds(opens, auths, frames) @@ t2 :> Bounds(0, 0, 0)
Each == t1 :> Bounds(1, 1, 0) @@ t2 :> Bounds(1, 1, 0)

Visit(of, forms, uses, by) ==
    [browserOf |-> of, forms |-> forms, ticks |-> 0, troubles |-> 0, uses |-> uses, by |-> by]

\* Many frames for up to two starts, one for three.
MCCaptures == << 4, 4, 1 >>

\* One tab for longer than its tokens live; two browsers that want one name; two
\* tabs of one browser; one tab in which one person follows another; and one tab
\* for each part of the panel, of which one is left again.
MCVisits ==
    { [Visit(Apart, {AnnX, Colon}, "account", Alone(2, 2, 0)) EXCEPT !.ticks = 2, !.troubles = 1],
      Visit(Apart, {AnnX, AnnY}, "account", Each),
      Visit(Shared, {AnnX, Colon}, "account", Each),
      Visit(Apart, {AnnX, BobY}, "account", Alone(2, 2, 1)),
      Visit(Apart, {AnnX}, "video", Alone(1, 1, 0)),
      Visit(Apart, {AnnX}, "load", Alone(2, 1, 0)),
      Visit(Apart, {AnnX}, "routing", Alone(1, 1, 0)) }
=============================================================================
