------------------------------ MODULE MCFanOut ------------------------------
(* A fan-out to two projects whose run file may fail at every access, and an  *)
(* agent loop, which asks for such fan-outs.  A behaviour chooses one of them. *)
EXTENDS DelegationBatch, AgentTurn, TLC

CONSTANTS r1, r2, p, q, u, app

VARIABLE part       \* the part this behaviour is about

MCTarget == r1 :> p @@ r2 :> q
MCBatch == <<r1, r2>>

MCInit == part \in {"fan-out", "loop"} /\ BatchInit /\ AgentInit

MCNext ==
    /\ UNCHANGED part
    /\ \/ part = "fan-out" /\ BatchNext /\ UNCHANGED agentVars
       \/ part = "loop" /\ AgentNext /\ UNCHANGED allVars

MCFairSpec ==
    /\ MCInit /\ [][MCNext]_<<allVars, agentVars, part>>
    /\ BatchFairness /\ AgentFairness
=============================================================================
