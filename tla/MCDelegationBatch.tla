-------------------------- MODULE MCDelegationBatch --------------------------
(* A fan-out to two projects.                                                *)
EXTENDS DelegationBatch, TLC

CONSTANTS r1, r2, p, q, c1, u

MCTarget == r1 :> p @@ r2 :> q
MCBatch == <<r1, r2>>
=============================================================================
