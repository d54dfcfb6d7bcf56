------------------------------ MODULE MCRoutines ------------------------------
(* The safety of the parts that keep their own books: the stamps of delegated *)
(* turns, one scheduled task, the questions to a person, the exchange of the  *)
(* configuration directory, the background shells and the registered          *)
(* projects.  They share no state, so a behaviour chooses one of them and the *)
(* others rest in their initial states.                                       *)
EXTENDS DelegationChain, ScheduledTasks, AskUser, ConfigRestore, TaskManager,
        ProjectRegistry

CONSTANTS p1, p2, p3, a1, a2, a3, chatA, chatB, b1, sh1, sh2

VARIABLE part       \* the part this behaviour is about

MCProjects == {p1, p2, p3}
MCAskers == {a1, a2, a3}
MCRoutes == {chatA, chatB}
MCBackups == {b1}
MCProcs == {sh1, sh2}
MCReached == {sh1}      \* a command of each kind

Parts == {"chain", "tasks", "ask", "restore", "procs", "registry"}

MCInit ==
    /\ part \in Parts
    /\ Init /\ TaskInit /\ AskInit /\ RestoreInit /\ ProcInit /\ RegInit
    /\ part # "tasks" => task = NoTask /\ scheduler = "loop"
    /\ part # "restore" => old = {}

\* Bounds of the instance: a second event at clock 1 only, and the clock waits
\* for it; a person continues a chat only if nothing else has happened.
FewEvents ==
    /\ clock' # clock => Cardinality(spent) <= 1
    /\ Cardinality(spent') > Cardinality(spent) /\ spent # {} => clock = 1
    /\ \A d \in Runs : chat'[d] = "human" => spent' = {}

\* Calls are alike: they begin in one order, and the first question is asked in
\* the first chat.
CallsInOrder ==
    /\ asker'[a3] \in {"idle", asker[a3]} \/ asker[a2] # "idle"
    /\ asker'[a2] \in {"idle", asker[a2]} \/ asker[a1] # "idle"
    /\ chatOf'[a1] # chatB

\* Only one of the commands may be without a log.
FewLogs == logFile'[sh2] = "none" => verdictOf'[sh2] = "none"

MCNext ==
    /\ UNCHANGED part
    /\ \/ /\ part = "chain" /\ Next
          /\ UNCHANGED <<taskVars, askVars, restoreVars, procVars, regVars>>
       \/ /\ part = "tasks" /\ TaskNext /\ FewEvents
          /\ UNCHANGED <<vars, askVars, restoreVars, procVars, regVars>>
       \/ /\ part = "ask" /\ AskNext /\ CallsInOrder
          /\ UNCHANGED <<vars, taskVars, restoreVars, procVars, regVars>>
       \/ /\ part = "restore" /\ RestoreNext
          /\ UNCHANGED <<vars, taskVars, askVars, procVars, regVars>>
       \/ /\ part = "procs" /\ ProcNext /\ FewLogs
          /\ UNCHANGED <<vars, taskVars, askVars, restoreVars, regVars>>
       \/ /\ part = "registry" /\ RegNext
          /\ UNCHANGED <<vars, taskVars, askVars, restoreVars, procVars>>

MCSpec ==
    MCInit /\ [][MCNext]_<<vars, taskVars, askVars, restoreVars, procVars, regVars, part>>

\* Every part keeps its types.
RoutinesTypeOK == TypeOK /\ TaskTypeOK /\ AskTypeOK /\ RestoreTypeOK /\ ProcTypeOK /\ RegTypeOK
=============================================================================
