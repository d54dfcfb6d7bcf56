------------------------------- MODULE MCSafety -------------------------------
(* What must never happen to the words of a chat, wherever they are kept and  *)
(* whatever the agent loop makes of them; and to a fan-out that is refused    *)
(* while the run file works.  Two turns and one clear suffice for a save, a   *)
(* log, an answer and a side question of a cleared turn to meet those of the  *)
(* turn that follows it; two turns with two tool calls, for what an           *)
(* interrupted turn leaves in the transcript to meet a request of the next.   *)
(* The parts share no state, so a behaviour chooses one of them.              *)
EXTENDS ChatHistory, DelegationBatch, AgentTurn, TLC

CONSTANTS r1, r2, p, q, c1, u

VARIABLE part       \* the part this behaviour is about

MCTarget == r1 :> p @@ r2 :> q
MCBatch == <<r1, r2>>

MCInit ==
    /\ part \in {"history", "loop", "fan-out"}
    /\ HistoryInit /\ AgentInit /\ BatchInit

\* The foreign canceller goes for the member that the unwinding cancels, too.
MCNext ==
    /\ UNCHANGED part
    /\ \/ part = "history" /\ HistoryNext /\ UNCHANGED <<agentVars, allVars>>
       \/ part = "loop" /\ AgentNext /\ UNCHANGED <<historyVars, allVars>>
       \/ part = "fan-out" /\ BatchNext /\ crun'[c1] # r2
          /\ UNCHANGED <<historyVars, agentVars>>

MCSpec == MCInit /\ [][MCNext]_<<historyVars, agentVars, allVars, part>>

\* Transcript, file, log and loop keep their types.
ChatTypesOK == HistoryTypeOK /\ AgentTypeOK
=============================================================================
