---------------------------- MODULE MCRecording ----------------------------
(* Instances of Recording for TLC: two calls of a busy user and one of      *)
(* another; the busy user acknowledges twice, any alert, also the other's.  *)
EXTENDS Recording, TLC

CONSTANTS u1, u2, c1, c2, c3, r1, r2, k1, k2

BusyAndOther == (c1 :> u1) @@ (c2 :> u1) @@ (c3 :> u2)
TwoCalls == (c1 :> u1) @@ (c2 :> u1)
NoAcks == <<>>
SameKey == (r1 :> k1) @@ (r2 :> k1)
\* Either is below the threshold beside the other: signs cancel.
OppositeSigns == {-20, 10}
KeysOfTwoUsers == (k1 :> u1) @@ (k2 :> u2)
=============================================================================
