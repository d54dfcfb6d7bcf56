-------------------------------- MODULE MCChat --------------------------------
(* What must happen at last: the turns of a chat, the questions to a person,  *)
(* the runs of a scheduled task, the sleep of the machine and a background    *)
(* shell; and what a turn may do while the checkout of its chat is removed.   *)
(* The parts share no state here, so a behaviour chooses one of them; the     *)
(* others rest in initial states in which nothing fair is enabled.            *)
EXTENDS ChatQueue, AskUser, WakeManager, ScheduledTasks, TaskManager,
        SessionWorktree

CONSTANTS d1, d2, h1, h2, a1, a2, chatA, chatB, w1, w2, sh1

VARIABLE part       \* the part this behaviour is about

MCMessages == {d1, d2, h1, h2}
MCDelegated == {d1, d2}
MCProcs == {sh1}

Parts == {"queue", "ask", "wake", "tasks", "procs", "tree"}

MCInit ==
    /\ part \in Parts
    /\ Init /\ AskInit /\ WakeInit /\ TaskInit /\ ProcInit /\ TreeInit
    /\ scheduler = (IF part = "tasks" THEN "starting" ELSE "loop")
    /\ part # "tasks" => task = NoTask
    /\ part # "wake" => ~timed /\ ~shelved /\ ~wakeEnabled

MCNext ==
    /\ UNCHANGED part
    /\ \/ /\ part = "queue" /\ Next
          /\ UNCHANGED <<askVars, wakeVars, taskVars, procVars, treeVars>>
       \/ /\ part = "ask" /\ AskNext
          /\ UNCHANGED <<vars, wakeVars, taskVars, procVars, treeVars>>
       \/ /\ part = "wake" /\ WakeNext
          /\ UNCHANGED <<vars, askVars, taskVars, procVars, treeVars>>
       \/ /\ part = "tasks" /\ TaskNext
          /\ UNCHANGED <<vars, askVars, wakeVars, procVars, treeVars>>
       \/ /\ part = "procs" /\ ProcNext
          /\ UNCHANGED <<vars, askVars, wakeVars, taskVars, treeVars>>
       \/ /\ part = "tree" /\ TreeNext
          /\ UNCHANGED <<vars, askVars, wakeVars, taskVars, procVars>>

MCFairSpec ==
    /\ MCInit /\ [][MCNext]_<<vars, askVars, wakeVars, taskVars, procVars, treeVars,
                          part>>
    /\ QueueFairness /\ AskFairness /\ WakeFairness /\ TaskFairness /\ ProcFairness

\* What every part owes at last, see the modules.
PartsSettle == AskSettles /\ DisabledReleases /\ RunsAreSettled /\ CancelledEnds

\* Every part keeps its types.
ChatTypeOK == TypeOK /\ AskTypeOK /\ WakeTypeOK /\ TaskTypeOK /\ ProcTypeOK
              /\ TreeTypeOK
=============================================================================
