---------------------------- MODULE MCDelegation ----------------------------
(* Two runs, for one target or for two.                                      *)
EXTENDS Delegation, TLC

CONSTANTS r1, r2, p, q, c1

SameTarget == r1 :> p @@ r2 :> p
OtherTarget == r1 :> p @@ r2 :> q
=============================================================================
