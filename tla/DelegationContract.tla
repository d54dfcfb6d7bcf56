------------------------- MODULE DelegationContract -------------------------
(***************************************************************************)
(* What delegation promises of each run while the run file works: it is    *)
(* published once, it ends once with one verdict that never changes, and   *)
(* the frontend hears of its end at most once, after the end, and hears    *)
(* the verdict of the file (README.md, "Agent coordination").              *)
(***************************************************************************)
EXTENDS Sequences

CONSTANT Runs

VARIABLES
    status,   \* what the file says of each run
    told      \* what the frontend was told of its end

Verdicts == {"completed", "stopped", "error"}

Init ==
    /\ status = [r \in Runs |-> "absent"]
    /\ told = [r \in Runs |-> <<>>]

Publish(r) == status[r] = "absent" /\ status'[r] = "running" /\ told'[r] = told[r]

End(r) == status[r] = "running" /\ status'[r] \in Verdicts /\ told'[r] = told[r]

Tell(r) ==
    /\ status[r] \in Verdicts /\ told[r] = <<>>
    /\ told'[r] = <<status[r]>> /\ status'[r] = status[r]

Same(r) == status'[r] = status[r] /\ told'[r] = told[r]

\* A restart may end several runs at once.
Next ==
    /\ DOMAIN status' = Runs /\ DOMAIN told' = Runs
    /\ \A r \in Runs : Publish(r) \/ End(r) \/ Tell(r) \/ Same(r)

Spec == Init /\ [][Next]_<<status, told>>
=============================================================================
