----------------------------- MODULE TaskManager -----------------------------
(***************************************************************************)
(* The background shells of a project or a chat (internal/engine/tasks).   *)
(* Every process has a goroutine that starts it, waits for it and gives it *)
(* its verdict, and an observer that sees it done.  Tools, Stop and the    *)
(* teardown cancel it in three steps: they take the verdict, they end its  *)
(* context, and they kill its process group, each without the lock that    *)
(* the other side holds.  The shell itself may exit and leave descendants: *)
(* Wait returns when those that keep its output open are gone too, and     *)
(* knows nothing of those that have redirected theirs.                     *)
(***************************************************************************)
EXTENDS Naturals, FiniteSets

CONSTANTS
    Procs,      \* the background commands of one manager
    Reached     \* those that killProcessGroup reaches whole: on Unix, the commands
                \* whose processes all stay in their group; on Windows, none

ASSUME ReachAssumption == Reached \subseteq Procs

VARIABLES
    verdictOf,   \* Task.Status; "none" before Start
    runner,      \* where the goroutine of Task.run is
    started,     \* the tasks whose processStarted is set
    living,      \* what runs of its command: "shell", "holder", "quiet"
    exitOK,      \* the shells that exited with success
    ctxOver,     \* the tasks whose exec context is cancelled
    watcher,     \* the tasks for which exec still watches that context
    killed,      \* the tasks whose Wait will report the interruption
    waitFailed,  \* the tasks whose Wait returned an error
    canceller,   \* the steps that the call which won Task.Cancel still owes
    logFile,     \* "none", "open", "closed", "removed"
    listed,      \* Manager.tasks
    observed,    \* the tasks whose monitorTask has not returned yet
    shutGate,    \* Manager.closed
    closer       \* the call of Close: its phase, the tasks it has found, its last call of Cancel

osVars == <<living, exitOK, watcher, killed>>
runVars == <<verdictOf, runner, started, waitFailed, ctxOver, logFile>>
closeVars == <<shutGate, closer>>
procVars == <<osVars, runVars, canceller, listed, observed, closeVars>>

Verdicts == {"completed", "failed", "cancelled"}
RunnerSteps == {"off", "launching", "refused", "launched", "killing", "waiting",
                "draining", "drained", "over"}
NoCloser == [pc |-> "off", all |-> {}, call |-> {}]

\* Who may be left of a command when its shell has gone: descendants that hold its
\* output, and descendants that have redirected theirs.
Descendants == {"holder", "quiet"}

Moves(t, from, to) == runner[t] = from /\ runner' = [runner EXCEPT ![t] = to]
IsDone(t) == runner[t] = "over"

\* taskkill follows the tree of a shell that still runs, and finds no other; a signal
\* does not reach who has left the group.
Survivors(t) ==
    IF t \in Reached THEN {{}}
    ELSE SUBSET (IF "shell" \in living[t] THEN Descendants ELSE living[t])

\* killProcessGroup, with or without the shell.
Kill(t) ==
    /\ \E left \in Survivors(t) : living' = [living EXCEPT ![t] = left]
    /\ UNCHANGED exitOK

ProcInit ==
    /\ verdictOf = [t \in Procs |-> "none"] /\ runner = [t \in Procs |-> "off"]
    /\ living = [t \in Procs |-> {}] /\ logFile = [t \in Procs |-> "none"]
    /\ canceller = [t \in Procs |-> "none"]
    /\ started = {} /\ exitOK = {} /\ ctxOver = {} /\ watcher = {} /\ killed = {}
    /\ waitFailed = {} /\ listed = {} /\ observed = {}
    /\ shutGate = FALSE /\ closer = NoCloser

-----------------------------------------------------------------------------
(* Task.Start and Task.run. *)

\* Under Manager.mu: a command that cannot be prepared leaves nothing behind; a
\* log that cannot be made is done without.
StartProc(t) ==
    /\ ~shutGate /\ verdictOf[t] = "none"
    /\ verdictOf' = [verdictOf EXCEPT ![t] = "running"]
    /\ Moves(t, "off", "launching")
    /\ \E l \in {"none", "open"} : logFile' = [logFile EXCEPT ![t] = l]
    /\ listed' = listed \union {t} /\ observed' = observed \union {t}
    /\ UNCHANGED <<osVars, started, waitFailed, ctxOver, canceller, closeVars>>

\* cmd.Start fails when its context is over, and may fail otherwise.
LaunchOK(t) ==
    /\ t \notin ctxOver /\ Moves(t, "launching", "launched")
    /\ living' = [living EXCEPT ![t] = {"shell"}]
    /\ watcher' = watcher \union {t}
    /\ UNCHANGED <<exitOK, killed, verdictOf, started, waitFailed, ctxOver, logFile,
                   canceller, listed, observed, closeVars>>

LogCloses(t) == logFile' = [logFile EXCEPT ![t] = IF @ = "open" THEN "closed" ELSE @]

LaunchFails(t) ==
    /\ Moves(t, "launching", "refused") /\ LogCloses(t)
    /\ UNCHANGED <<osVars, verdictOf, started, waitFailed, ctxOver, canceller, listed,
                   observed, closeVars>>

\* run settles a command that never started.
Refused(t) ==
    /\ Moves(t, "refused", "over")
    /\ verdictOf' = [verdictOf EXCEPT ![t] =
            IF @ = "cancelled" \/ t \in ctxOver THEN "cancelled" ELSE "failed"]
    /\ ctxOver' = ctxOver \union {t}
    /\ UNCHANGED <<osVars, started, waitFailed, logFile, canceller, listed, observed,
                   closeVars>>

\* A cancellation that saw no process yet leaves the kill to run.
AfterLaunch(t) == IF verdictOf[t] = "cancelled" THEN "killing" ELSE "waiting"

Launched(t) ==
    /\ Moves(t, "launched", AfterLaunch(t))
    /\ started' = started \union {t}
    /\ UNCHANGED <<osVars, verdictOf, waitFailed, ctxOver, logFile, canceller, listed,
                   observed, closeVars>>

RunKills(t) ==
    /\ Moves(t, "killing", "waiting") /\ Kill(t)
    /\ UNCHANGED <<watcher, killed, verdictOf, started, waitFailed, ctxOver, logFile,
                   canceller, listed, observed, closeVars>>

\* Wait has the exit of the shell, and from here on exec watches no context.
ShellReaped(t) ==
    /\ "shell" \notin living[t]
    /\ Moves(t, "waiting", "draining")
    /\ watcher' = watcher \ {t}
    /\ waitFailed' = IF t \in exitOK \ killed THEN waitFailed ELSE waitFailed \union {t}
    /\ UNCHANGED <<living, exitOK, killed, verdictOf, started, ctxOver, logFile,
                   canceller, listed, observed, closeVars>>

\* Wait returns when nobody holds the output any more; then the log is closed.
Drained(t) ==
    /\ "holder" \notin living[t]
    /\ Moves(t, "draining", "drained") /\ LogCloses(t)
    /\ UNCHANGED <<osVars, verdictOf, started, waitFailed, ctxOver, canceller, listed,
                   observed, closeVars>>

\* Mutant: the verdict is that of the exit, whoever cancelled the task.
SettledAs_ExitOnly(t) == IF t \in waitFailed THEN {"failed"} ELSE {"completed", "failed"}
\* A cancellation keeps its verdict; a log that cannot be closed is a failure.
SettledAs(t) ==
    IF verdictOf[t] = "cancelled" \/ (t \in waitFailed /\ t \in ctxOver)
    THEN {"cancelled"}
    ELSE IF t \in waitFailed THEN {"failed"} ELSE {"completed", "failed"}

Settled(t) ==
    /\ Moves(t, "drained", "over")
    /\ \E v \in SettledAs(t) : verdictOf' = [verdictOf EXCEPT ![t] = v]
    /\ ctxOver' = ctxOver \union {t}
    /\ UNCHANGED <<osVars, started, waitFailed, logFile, canceller, listed, observed,
                   closeVars>>

\* monitorTask: the handler is called and returns, or panics and is recovered.
Observe(t) ==
    /\ t \in observed /\ IsDone(t)
    /\ observed' = observed \ {t}
    /\ UNCHANGED <<osVars, runVars, canceller, listed, closeVars>>

-----------------------------------------------------------------------------
(* The operating system and exec. *)

ShellExits(t) ==
    /\ "shell" \in living[t]
    /\ \E left \in SUBSET Descendants : living' = [living EXCEPT ![t] = left]
    /\ exitOK' \in {exitOK, exitOK \union {t}}
    /\ UNCHANGED <<watcher, killed, runVars, canceller, listed, observed, closeVars>>

DescendantEnds(t) ==
    /\ \E d \in living[t] \ {"shell"} : living' = [living EXCEPT ![t] = @ \ {d}]
    /\ UNCHANGED <<exitOK, watcher, killed, runVars, canceller, listed, observed, closeVars>>

\* The goroutine of exec that watches the context calls cmd.Cancel, which kills
\* the group; a shell that has exited may or may not have been reaped by then.
ContextKills(t) ==
    /\ t \in watcher /\ t \in ctxOver
    /\ watcher' = watcher \ {t}
    /\ killed' \in IF "shell" \in living[t] THEN {killed \union {t}}
                   ELSE {killed, killed \union {t}}
    /\ Kill(t)
    /\ UNCHANGED <<runVars, canceller, listed, observed, closeVars>>

-----------------------------------------------------------------------------
(* Task.Cancel, by a tool, by Stop or by Close. *)

CancelWins(t) ==
    /\ verdictOf[t] = "running"
    /\ verdictOf' = [verdictOf EXCEPT ![t] = "cancelled"]
    /\ canceller' = [canceller EXCEPT ![t] = IF t \in started THEN "contextKill" ELSE "context"]

CancelBegins(t) ==
    /\ CancelWins(t)
    /\ UNCHANGED <<osVars, runner, started, waitFailed, ctxOver, logFile, listed,
                   observed, closeVars>>

CancelContext(t) ==
    /\ canceller[t] \in {"context", "contextKill"}
    /\ ctxOver' = ctxOver \union {t}
    /\ canceller' = [canceller EXCEPT ![t] = IF @ = "contextKill" THEN "kill" ELSE "done"]
    /\ UNCHANGED <<osVars, verdictOf, runner, started, waitFailed, logFile, listed,
                   observed, closeVars>>

CancelKills(t) ==
    /\ canceller[t] = "kill"
    /\ canceller' = [canceller EXCEPT ![t] = "done"]
    /\ Kill(t)
    /\ UNCHANGED <<watcher, killed, runVars, listed, observed, closeVars>>

-----------------------------------------------------------------------------
(* Manager.Cleanup and Manager.Close. *)

\* IsCompleteAndBefore: a cancelled task has its verdict before its log is closed.
MayClean(t) == IsDone(t) /\ verdictOf[t] \in Verdicts

\* The log of an old task is removed, or the task is kept for another try.
CleanupOne(t) ==
    /\ t \in listed /\ MayClean(t)
    /\ listed' = listed \ {t}
    /\ logFile' = [logFile EXCEPT ![t] = IF @ = "none" THEN @ ELSE "removed"]
    /\ UNCHANGED <<osVars, verdictOf, runner, started, waitFailed, ctxOver, canceller,
                   observed, closeVars>>

CloseBegins ==
    /\ closer.pc \in {"off", "timedOut"}
    /\ shutGate' = TRUE
    /\ closer' = [pc |-> "cancelling", all |-> listed, call |-> {}]
    /\ UNCHANGED <<osVars, runVars, canceller, listed, observed>>

\* Each call of Cancel returns before the loop goes on; that of somebody else may
\* still be on its way.
CallReturned == \A t \in closer.call : canceller[t] = "done"

CloseCancels(t) ==
    /\ closer.pc = "cancelling" /\ t \in closer.all /\ CallReturned
    /\ CancelWins(t)
    /\ closer' = [closer EXCEPT !.call = {t}]
    /\ UNCHANGED <<osVars, runner, started, waitFailed, ctxOver, logFile, listed,
                   observed, shutGate>>

CloseWaits ==
    /\ closer.pc = "cancelling" /\ CallReturned
    /\ \A t \in closer.all : verdictOf[t] \in Verdicts
    /\ closer' = [closer EXCEPT !.pc = "waiting", !.call = {}]
    /\ UNCHANGED <<osVars, runVars, canceller, listed, observed, shutGate>>

\* Mutant: Close looks at the verdicts instead of waiting for the goroutines.
MayReturn_ByVerdict == \A t \in closer.all : verdictOf[t] \in Verdicts
MayReturn == (\A t \in closer.all : IsDone(t)) /\ observed = {}

CloseReturns ==
    /\ closer.pc = "waiting" /\ MayReturn
    /\ closer' = [NoCloser EXCEPT !.pc = "returned"]
    /\ UNCHANGED <<osVars, runVars, canceller, listed, observed, shutGate>>

\* The caller's deadline; Close may be called again.
CloseTimesOut ==
    /\ closer.pc = "waiting" /\ ~MayReturn
    /\ closer' = [NoCloser EXCEPT !.pc = "timedOut"]
    /\ UNCHANGED <<osVars, runVars, canceller, listed, observed, shutGate>>

RunStep(t) ==
    \/ LaunchOK(t) \/ LaunchFails(t) \/ Refused(t) \/ Launched(t) \/ RunKills(t)
    \/ ShellReaped(t) \/ Drained(t) \/ Settled(t)
CancelStep(t) == CancelContext(t) \/ CancelKills(t)

ProcNext ==
    \/ \E t \in Procs :
        \/ StartProc(t) \/ RunStep(t) \/ Observe(t)
        \/ ShellExits(t) \/ DescendantEnds(t) \/ ContextKills(t)
        \/ CancelBegins(t) \/ CancelStep(t) \/ CleanupOne(t) \/ CloseCancels(t)
    \/ CloseBegins \/ CloseWaits \/ CloseReturns \/ CloseTimesOut

\* The goroutines run.  No command ends by itself.
ProcFairness ==
    /\ \A t \in Procs :
        /\ WF_procVars(RunStep(t)) /\ WF_procVars(ContextKills(t))
        /\ WF_procVars(CancelStep(t))

ProcSpec == ProcInit /\ [][ProcNext]_procVars
ProcFairSpec == ProcSpec /\ ProcFairness

-----------------------------------------------------------------------------
(* Properties. *)

\* The tasks, the operating system's view of them and the calls keep their types.
ProcTypeOK ==
    /\ verdictOf \in [Procs -> {"none", "running"} \union Verdicts]
    /\ runner \in [Procs -> RunnerSteps]
    /\ living \in [Procs -> SUBSET ({"shell"} \union Descendants)]
    /\ logFile \in [Procs -> {"none", "open", "closed", "removed"}]
    /\ canceller \in [Procs -> {"none", "context", "contextKill", "kill", "done"}]
    /\ \A s \in {started, exitOK, ctxOver, watcher, killed, waitFailed, listed,
                 observed} : s \subseteq Procs
    /\ shutGate \in BOOLEAN
    /\ closer \in [pc : {"off", "cancelling", "waiting", "returned", "timedOut"},
                   all : SUBSET Procs, call : SUBSET Procs]

\* The first verdict of a task stands: whoever cancels it and however its shell
\* ends, the two goroutines never contradict each other.
VerdictStands ==
    [][\A t \in Procs : verdictOf[t] \in Verdicts => verdictOf'[t] = verdictOf[t]]_procVars

\* When Close has returned, and ever after, no shell of the manager runs, nobody holds
\* its output, no log is open and no observer is at work.  A descendant that has
\* redirected its output is left only of a command that ended before it was cancelled,
\* or that no kill reaches whole, or whose kill another canceller still owes.
CloseIsBarrier ==
    closer.pc = "returned" =>
        /\ observed = {}
        /\ \A t \in Procs :
            /\ living[t] \subseteq {"quiet"} /\ logFile[t] # "open"
            /\ t \in Reached /\ verdictOf[t] = "cancelled" /\ living[t] # {} =>
                    canceller[t] \in {"contextKill", "kill"}

\* Cleanup never takes a log away under a command that still writes it.
LogOutlivesWriters ==
    \A t \in Procs : logFile[t] = "removed" => living[t] \subseteq {"quiet"} /\ IsDone(t)

\* What the teardown relies on.
TeardownIsSafe == CloseIsBarrier /\ LogOutlivesWriters

\* A cancelled task that a kill reaches whole comes to its end, whenever the cancellation
\* met its start and whatever descendants its shell left behind.
CancelledEnds == \A t \in Reached : verdictOf[t] = "cancelled" ~> IsDone(t)
=============================================================================
