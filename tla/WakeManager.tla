----------------------------- MODULE WakeManager -----------------------------
(***************************************************************************)
(* The inhibitor of the machine's sleep (wake_manager.go).  A lease is     *)
(* wanted while the setting allows it and either a turn runs or some       *)
(* scheduled task could become due.  Whether one could is a cached flag:   *)
(* after every change of the tasks or of the archived projects the caller  *)
(* refreshes it, in steps of their own (the tasks are read under            *)
(* scheduledTasksMu, the archive is looked up, the flag is stored, the     *)
(* lease is reconciled under wakeMu), and refreshes of different callers   *)
(* may overlap.                                                            *)
(***************************************************************************)
EXTENDS Integers, FiniteSets

CONSTANTS
    WakeCallers,     \* goroutines that change what the lease depends on
    MaxWakeRuns      \* bound of the model: turns that run at once

ASSUME WakeAssumption == MaxWakeRuns \in Nat

VARIABLES
    timed,           \* the tasks file holds an enabled task with a schedule
    shelved,         \* its project is archived
    wakeEnabled,     \* the setting KeepAwakeEnabled
    wakeRuns,        \* turns that hold a beginWakeRun
    wakeScheduled,   \* the cached need
    wakeLease,       \* the lease is held
    wakeError,       \* the last acquisition failed
    caller,          \* where each caller is, and what it has read
    stale            \* auxiliary: two refreshes overlapped, or one could not read

wakeVars == <<timed, shelved, wakeEnabled, wakeRuns, wakeScheduled, wakeLease,
              wakeError, caller, stale>>

CallerStates == {"idle", "changed", "read", "decided", "stored"}

\* A task that may become due: refreshScheduledWakeNeed's condition.
Need == timed /\ ~shelved

Wanted == wakeEnabled /\ (wakeRuns > 0 \/ wakeScheduled)

Idle == [pc |-> "idle", need |-> FALSE]

Refreshing(c) == caller[c].pc \in {"read", "decided"}

WakeInit ==
    /\ timed \in BOOLEAN /\ shelved \in BOOLEAN
    /\ wakeEnabled \in BOOLEAN /\ wakeRuns = 0
    /\ wakeScheduled = FALSE /\ wakeLease = FALSE /\ wakeError = FALSE
    /\ caller = [c \in WakeCallers |-> Idle]
    /\ stale = Need          \* until startup has refreshed

-----------------------------------------------------------------------------
\* reconcileWakeLocked.  A lease is closed by killing a helper, which counts as
\* closed whatever the kill says; taking one may fail.
Reconciled(enabled, runs, scheduled) ==
    LET wanted == enabled /\ (runs > 0 \/ scheduled)
    IN  \/ /\ ~wanted
           /\ wakeLease' = FALSE
           /\ wakeError' \in IF wakeLease THEN BOOLEAN ELSE {wakeError}
        \/ /\ wanted /\ wakeLease
           /\ UNCHANGED <<wakeLease, wakeError>>
        \/ /\ wanted /\ ~wakeLease
           /\ wakeLease' \in BOOLEAN
           /\ wakeError' = ~wakeLease'

\* beginWakeRun and the function it returns.
BeginWakeRun ==
    /\ wakeRuns < MaxWakeRuns
    /\ wakeRuns' = wakeRuns + 1
    /\ Reconciled(wakeEnabled, wakeRuns', wakeScheduled)
    /\ UNCHANGED <<timed, shelved, wakeEnabled, wakeScheduled, caller, stale>>

\* Mutant: a turn is counted off twice.
EndWakeRun_Twice ==
    /\ wakeRuns > 0
    /\ wakeRuns' = wakeRuns - 2
    /\ Reconciled(wakeEnabled, wakeRuns', wakeScheduled)
    /\ UNCHANGED <<timed, shelved, wakeEnabled, wakeScheduled, caller, stale>>

EndWakeRun ==
    /\ wakeRuns > 0
    /\ wakeRuns' = wakeRuns - 1
    /\ Reconciled(wakeEnabled, wakeRuns', wakeScheduled)
    /\ UNCHANGED <<timed, shelved, wakeEnabled, wakeScheduled, caller, stale>>

\* setWakeEnabled stores the setting, then reconciles: SaveConfig, and shutdown
\* with FALSE.
StoreEnabled(c, enabled) ==
    /\ caller[c].pc = "idle"
    /\ wakeEnabled' = enabled
    /\ caller' = [caller EXCEPT ![c].pc = "stored"]
    /\ UNCHANGED <<timed, shelved, wakeRuns, wakeScheduled, wakeLease, wakeError,
                   stale>>

-----------------------------------------------------------------------------
(* refreshScheduledWakeNeed, after a change of the tasks or of the archive. *)

\* SaveScheduledTask, its deletions, the removal of its chat or project.
ChangeTasks(c) ==
    /\ caller[c].pc = "idle"
    /\ timed' \in BOOLEAN
    /\ caller' = [caller EXCEPT ![c].pc = "changed"]
    /\ UNCHANGED <<shelved, wakeEnabled, wakeRuns, wakeScheduled, wakeLease,
                   wakeError, stale>>

\* ArchiveProject and RestoreProject.
ChangeArchive(c) ==
    /\ caller[c].pc = "idle"
    /\ shelved' = ~shelved
    /\ caller' = [caller EXCEPT ![c].pc = "changed"]
    /\ UNCHANGED <<timed, wakeEnabled, wakeRuns, wakeScheduled, wakeLease,
                   wakeError, stale>>

\* The tasks are read, under their lock; or they cannot be read.
ReadTasks(c) ==
    /\ caller[c].pc = "changed"
    /\ \/ /\ caller' = [caller EXCEPT ![c] = [pc |-> "read", need |-> timed]]
          /\ stale' = \E b \in WakeCallers \ {c} : Refreshing(b)
       \/ /\ caller' = [caller EXCEPT ![c] = Idle]
          /\ stale' = TRUE
    /\ UNCHANGED <<timed, shelved, wakeEnabled, wakeRuns, wakeScheduled, wakeLease,
                   wakeError>>

\* Mutant: archived projects keep the machine awake.
Decided_AnyTask(c) == caller[c].need
\* isProjectArchived of a task that could become due.
Decided(c) == caller[c].need /\ ~shelved

LookUpArchive(c) ==
    /\ caller[c].pc = "read"
    /\ caller' = [caller EXCEPT ![c] = [pc |-> "decided", need |-> Decided(c)]]
    /\ UNCHANGED <<timed, shelved, wakeEnabled, wakeRuns, wakeScheduled, wakeLease,
                   wakeError, stale>>

StoreNeed(c) ==
    /\ caller[c].pc = "decided"
    /\ wakeScheduled' = caller[c].need
    /\ caller' = [caller EXCEPT ![c].pc = "stored"]
    /\ UNCHANGED <<timed, shelved, wakeEnabled, wakeRuns, wakeLease, wakeError,
                   stale>>

\* The last step of both: what counts is what the flags say now.
Reconcile(c) ==
    /\ caller[c].pc = "stored"
    /\ caller' = [caller EXCEPT ![c] = Idle]
    /\ Reconciled(wakeEnabled, wakeRuns, wakeScheduled)
    /\ UNCHANGED <<timed, shelved, wakeEnabled, wakeRuns, wakeScheduled, stale>>

WakeStep(c) == ReadTasks(c) \/ LookUpArchive(c) \/ StoreNeed(c) \/ Reconcile(c)

WakeNext ==
    \/ BeginWakeRun \/ EndWakeRun
    \/ \E c \in WakeCallers :
        \/ \E enabled \in BOOLEAN : StoreEnabled(c, enabled)
        \/ ChangeTasks(c) \/ ChangeArchive(c) \/ WakeStep(c)

\* A caller that has begun goes on.
WakeFairness == \A c \in WakeCallers : WF_wakeVars(WakeStep(c))

WakeSpec == WakeInit /\ [][WakeNext]_wakeVars
WakeFairSpec == WakeSpec /\ WakeFairness

-----------------------------------------------------------------------------
(* Properties. *)

\* The flags, the count and the callers have their types.
WakeTypeOK ==
    /\ {timed, shelved, wakeEnabled, wakeScheduled, wakeLease, wakeError,
        stale} \subseteq BOOLEAN
    /\ wakeRuns \in 0..MaxWakeRuns
    /\ caller \in [WakeCallers -> [pc : CallerStates, need : BOOLEAN]]

\* Whenever no caller is between a store and its reconciliation, the lease is
\* held exactly when it is wanted, or an acquisition has failed and says so:
\* no order of turns, settings and refreshes loses or leaks it.
LeaseFollowsFlags ==
    (\A c \in WakeCallers : caller[c].pc # "stored")
        => (wakeLease => Wanted) /\ (Wanted => wakeLease \/ wakeError)

\* Refreshes that did not overlap leave the truth about the tasks behind.
NeedIsCurrent ==
    (\A c \in WakeCallers : caller[c].pc \in {"idle", "stored"}) /\ ~stale
        => wakeScheduled = Need

\* The cached need and the lease follow the tasks, the turns and the setting.
WakeFollowsTasks == LeaseFollowsFlags /\ NeedIsCurrent

\* Once the setting is off, by the user or by shutdown, the machine may sleep,
\* whatever runs or is due, unless the setting is turned on again.
DisabledReleases == ~wakeEnabled ~> (~wakeLease \/ wakeEnabled)
=============================================================================
