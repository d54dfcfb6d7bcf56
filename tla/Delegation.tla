----------------------------- MODULE Delegation -----------------------------
(***************************************************************************)
(* Delegated work (delegation.go, delegation_runs.go).  A run owns a slot  *)
(* of an in-memory registry, a row of a durable file and a child chat that *)
(* works for money.  The goroutine that starts the run goes on as its      *)
(* monitor; cancellations come from the panel, from Stop, Clear and the    *)
(* deletion of chats.  The row decides who ends a run; when the file fails *)
(* the registry does.                                                      *)
(*                                                                         *)
(* One action is one critical section of delegationMu, delegationRunsMu or *)
(* the child's session.mu.                                                 *)
(***************************************************************************)
EXTENDS Integers, Sequences, FiniteSets

CONSTANTS
    Runs,            \* run IDs, each used once
    Projects,        \* target projects
    Target,          \* the target of each run
    Asks,            \* the runs of kind "ask", which have a deadline
    Cancellers,      \* goroutines that cancel
    MaxConcurrent,   \* maxConcurrentDelegations
    MaxRows,         \* maxDelegationRuns
    StoreMayFail,    \* loads and saves of the run file may fail
    NoRun

ASSUME DelegationAssumption ==
    /\ Target \in [Runs -> Projects]
    /\ Asks \subseteq Runs
    /\ MaxConcurrent \in Nat /\ MaxRows \in Nat
    /\ StoreMayFail \in BOOLEAN
    /\ NoRun \notin Runs
    /\ IsFiniteSet(Runs)

VARIABLES
    registry,   \* delegations: a slot is "reserved" (batch), then "live"
    row,        \* the durable status of each run
    born,       \* StartedAt of its row: the order of the appends
    child,      \* the chat that does the work
    pc,         \* the goroutine that starts and then monitors the run
    verdict,    \* the status that goroutine wrote to the row
    cpc,        \* a cancelling goroutine: where it is,
    crun,       \*   its run,
    clive,      \*   whether it found the run in the registry,
    cwon,       \*   and whether it ended the row
    closing,    \* shutdown has begun
    told        \* auxiliary: the terminal events of each run, in order

owner == <<pc, verdict>>
cancel == <<cpc, crun, clive, cwon>>
vars == <<registry, row, born, child, owner, cancel, closing, told>>

Terminal == {"completed", "stopped", "error"}

\* "started": the child works, no monitor yet.  "unstarted": the row is
\* published, the child could not be started.  "looping" .. "progress": the
\* monitor's round.  "finish": it ends the row.  "failing", "halt",
\* "tellFailed": the file failed.
OwnerPhases == {"new", "unstarted", "started", "cutoff", "looping", "alive",
                "sawBusy", "sawIdle", "progress", "finish", "release", "tell",
                "failing", "halt", "tellFailed", "exit", "done"}

CancelPhases == {"off", "finish", "stop", "release", "tell",
                 "failing", "halt", "tellFailed", "stopOnly"}

Init ==
    /\ registry = [r \in Runs |-> "none"]
    /\ row = [r \in Runs |-> "absent"]
    /\ born = [r \in Runs |-> 0]
    /\ child = [r \in Runs |-> "none"]
    /\ pc = [r \in Runs |-> "new"]
    /\ verdict = [r \in Runs |-> "none"]
    /\ cpc = [c \in Cancellers |-> "off"]
    /\ crun = [c \in Cancellers |-> NoRun]
    /\ clive = [c \in Cancellers |-> FALSE]
    /\ cwon = [c \in Cancellers |-> FALSE]
    /\ closing = FALSE
    /\ told = [r \in Runs |-> <<>>]

OwnerAt(r, p) == pc[r] = p
OwnerGoes(r, p) == pc' = [pc EXCEPT ![r] = p]
CancelGoes(c, p) == cpc' = [cpc EXCEPT ![c] = p] /\ UNCHANGED <<crun, clive>>
CancelEnds(c) ==
    /\ cpc' = [cpc EXCEPT ![c] = "off"]
    /\ crun' = [crun EXCEPT ![c] = NoRun]
    /\ clive' = [clive EXCEPT ![c] = FALSE]
    /\ cwon' = [cwon EXCEPT ![c] = FALSE]
CancelGoesOrEnds(c, on, p) ==
    IF on THEN CancelGoes(c, p) /\ UNCHANGED cwon ELSE CancelEnds(c)

-----------------------------------------------------------------------------
(* The registry and the file. *)

InUse == {r \in Runs : registry[r] # "none"}

SlotFree_NoTarget(r) == Cardinality(InUse) < MaxConcurrent
\* validateDelegationClaimLocked: the global limit, and one run per target.
SlotFree(r) ==
    /\ Cardinality(InUse) < MaxConcurrent
    /\ \A q \in InUse : Target[q] # Target[r]

\* appendDelegationRun refuses a second live row for the target.
TargetRowFree(r) == \A q \in Runs : row[q] = "running" => Target[q] # Target[r]

Droppable_AnyRow(rows) == {r \in Runs : rows[r] # "absent"}
\* fitDelegationRuns never drops a live row.
Droppable(rows) == {r \in Runs : rows[r] \in Terminal}

\* saveDelegationRunsRaw: the rows that are kept.  An append makes at most one
\* row too many; the oldest terminal one goes, and without one the save fails.
Fitted(rows, ages) ==
    IF Cardinality({r \in Runs : rows[r] # "absent"}) <= MaxRows THEN {rows}
    ELSE {[rows EXCEPT ![r] = "absent"] :
             r \in {d \in Droppable(rows) :
                       \A e \in Droppable(rows) : ages[d] <= ages[e]}}

EndsRow_Overwrites(r) == row[r] # "absent"
\* finishDelegationRun refuses a row that is already terminal ...
EndsRow(r) == row[r] = "running"

\* ... and fails when the file does or when the row is gone.
FinishFails(r) == row[r] = "absent" \/ StoreMayFail

Halted(r) == [child EXCEPT ![r] = IF @ = "busy" THEN "halting" ELSE @]
StopChild(r) == child' = Halted(r)

Tell(r, status) == told' = [told EXCEPT ![r] = Append(@, status)]

-----------------------------------------------------------------------------
(* Starting a run. *)

\* reserveDelegationBatchForSession: every target of a fan-out, or none.
Reserve(B) ==
    /\ B # {}
    /\ \A r \in B : OwnerAt(r, "new") /\ registry[r] = "none"
    /\ \A r, q \in B : r # q => Target[r] # Target[q]
    /\ Cardinality(InUse) + Cardinality(B) <= MaxConcurrent
    /\ \A q \in InUse, r \in B : Target[q] # Target[r]
    /\ registry' = [r \in Runs |-> IF r \in B THEN "reserved" ELSE registry[r]]
    /\ UNCHANGED <<row, born, child, owner, cancel, closing, told>>

Releasable_Any(r) == registry[r] # "none"
\* "intentionally compare-by-state": a live run is not released.
Releasable(r) == registry[r] = "reserved"

\* releaseDelegationReservation: a slot that was not activated.
ReleaseReservation(r) ==
    /\ Releasable(r)
    /\ registry' = [registry EXCEPT ![r] = "none"]
    /\ UNCHANGED <<row, born, child, owner, cancel, closing, told>>

\* publishAndStartDelegation: slot, row and child in one critical section.  A
\* start that is refused leaves nothing behind; one whose child could not be
\* started is published all the same.
Publish(r) ==
    /\ OwnerAt(r, "new")
    /\ registry[r] = "reserved" \/ (registry[r] = "none" /\ SlotFree(r))
    /\ row[r] = "absent" /\ TargetRowFree(r)
    /\ born' = [born EXCEPT ![r] = 1 + Cardinality({q \in Runs : born[q] > 0})]
    /\ row' \in Fitted([row EXCEPT ![r] = "running"], born')
    /\ registry' = [registry EXCEPT ![r] = "live"]
    /\ \/ ~closing /\ child' = [child EXCEPT ![r] = "busy"] /\ OwnerGoes(r, "started")
       \/ OwnerGoes(r, "unstarted") /\ UNCHANGED child
    /\ UNCHANGED <<verdict, cancel, closing, told>>

\* startBackground of the monitor, or the end of the run at a shutdown.
SpawnMonitor(r) ==
    /\ OwnerAt(r, "started")
    /\ \/ ~closing /\ OwnerGoes(r, "looping") /\ UNCHANGED child
       \/ closing /\ StopChild(r) /\ OwnerGoes(r, "cutoff")
    /\ UNCHANGED <<registry, row, born, verdict, cancel, closing, told>>

-----------------------------------------------------------------------------
(* Ending a run from its own goroutine. *)

\* finishDelegationRun, called by the owner with one of the verdicts.
OwnerFinish(r, verdicts, afterWin) ==
    /\ \/ FinishFails(r) /\ OwnerGoes(r, "failing") /\ UNCHANGED <<row, verdict>>
       \/ row[r] \in Terminal /\ ~EndsRow(r) /\ OwnerGoes(r, "exit") /\ UNCHANGED <<row, verdict>>
       \/ \E v \in verdicts :
             /\ EndsRow(r)
             /\ row' = [row EXCEPT ![r] = v]
             /\ verdict' = [verdict EXCEPT ![r] = v]
             /\ OwnerGoes(r, afterWin)
    /\ UNCHANGED <<registry, born, child, cancel, closing, told>>

\* startDelegation: no child, or no monitor.
FinishUnstarted(r) == OwnerAt(r, "unstarted") /\ OwnerFinish(r, {"error"}, "release")
FinishCutoff(r) == OwnerAt(r, "cutoff") /\ OwnerFinish(r, {"stopped"}, "release")

\* A blank answer is an error, and so is a deadline without an answer.
FinalStatuses == {"completed", "error"}

\* finalizeDelegationRun.
Finalize(r) == OwnerAt(r, "finish") /\ OwnerFinish(r, FinalStatuses, "tell")

\* releaseDelegationOwner before the event (starter) ...
Release(r) ==
    /\ OwnerAt(r, "release")
    /\ registry' = [registry EXCEPT ![r] = "none"]
    /\ OwnerGoes(r, "tell")
    /\ UNCHANGED <<row, born, child, verdict, cancel, closing, told>>

TellVerdict(r) ==
    /\ OwnerAt(r, "tell")
    /\ Tell(r, verdict[r])
    /\ verdict' = [verdict EXCEPT ![r] = "none"]
    /\ OwnerGoes(r, "exit")
    /\ UNCHANGED <<registry, row, born, child, cancel, closing>>

Exit_KeepsSlot(r) ==
    /\ OwnerAt(r, "exit")
    /\ OwnerGoes(r, "done")
    /\ UNCHANGED <<registry, row, born, child, verdict, cancel, closing, told>>
\* ... or when the monitor returns.
Exit(r) ==
    /\ OwnerAt(r, "exit")
    /\ registry' = [registry EXCEPT ![r] = "none"]
    /\ OwnerGoes(r, "done")
    /\ UNCHANGED <<row, born, child, verdict, cancel, closing, told>>

\* failDelegationForStorage: whoever takes the registry entry ends the run.
TakeOwner(r) ==
    /\ OwnerAt(r, "failing")
    /\ \/ /\ registry[r] = "live"
          /\ registry' = [registry EXCEPT ![r] = "none"]
          /\ OwnerGoes(r, "halt")
       \/ /\ registry[r] # "live"
          /\ OwnerGoes(r, "exit")
          /\ UNCHANGED registry
    /\ UNCHANGED <<row, born, child, verdict, cancel, closing, told>>

HaltFailed(r) ==
    /\ OwnerAt(r, "halt")
    /\ StopChild(r)
    /\ OwnerGoes(r, "tellFailed")
    /\ UNCHANGED <<registry, row, born, verdict, cancel, closing, told>>

TellFailed(r) ==
    /\ OwnerAt(r, "tellFailed")
    /\ Tell(r, "storage")
    /\ OwnerGoes(r, "exit")
    /\ UNCHANGED <<registry, row, born, child, verdict, cancel, closing>>

-----------------------------------------------------------------------------
(* The monitor's round: owner, child, row, progress. *)

StillOwner_Always(r) == TRUE
\* delegationOwnerAlive.
StillOwner(r) == registry[r] = "live"

Tick(r) ==
    /\ OwnerAt(r, "looping")
    /\ \/ closing /\ OwnerGoes(r, "exit")
       \/ ~StillOwner(r) /\ OwnerGoes(r, "exit")
       \/ StillOwner(r) /\ OwnerGoes(r, "alive")
    /\ UNCHANGED <<registry, row, born, child, verdict, cancel, closing, told>>

ChildRuns_Forever(r) == child[r] # "none"
\* active || queueWorker of the child.
ChildRuns(r) == child[r] \in {"busy", "halting"}

Look(r) ==
    /\ OwnerAt(r, "alive")
    /\ OwnerGoes(r, IF ChildRuns(r) THEN "sawBusy" ELSE "sawIdle")
    /\ UNCHANGED <<registry, row, born, child, verdict, cancel, closing, told>>

\* A question that outlived its deadline: the child is stopped first.
DeadlineStop(r) == StopChild(r)

Load(r) ==
    /\ pc[r] \in {"sawBusy", "sawIdle"}
    /\ \/ /\ FinishFails(r)
          /\ OwnerGoes(r, "failing") /\ UNCHANGED child
       \/ /\ row[r] \in Terminal
          /\ OwnerGoes(r, "exit") /\ UNCHANGED child
       \/ /\ row[r] = "running" /\ OwnerAt(r, "sawIdle")
          /\ OwnerGoes(r, "finish") /\ UNCHANGED child
       \/ /\ row[r] = "running" /\ OwnerAt(r, "sawBusy")
          /\ \/ pc' \in {[pc EXCEPT ![r] = p] : p \in {"looping", "progress"}} /\ UNCHANGED child
             \/ r \in Asks /\ DeadlineStop(r) /\ OwnerGoes(r, "finish")
    /\ UNCHANGED <<registry, row, born, verdict, cancel, closing, told>>

\* updateDelegationRunProgress, and the second look at a row it did not touch.
Progress(r) ==
    /\ OwnerAt(r, "progress")
    /\ \/ FinishFails(r) /\ OwnerGoes(r, "failing")
       \/ row[r] \in Terminal /\ OwnerGoes(r, "exit")
       \/ row[r] = "running" /\ OwnerGoes(r, "looping")
    /\ UNCHANGED <<registry, row, born, child, verdict, cancel, closing, told>>

-----------------------------------------------------------------------------
(* Cancelling: read the registry, end the row, stop the child, give the slot *)
(* back, tell.                                                               *)

CancelBegin(c, r) ==
    /\ cpc[c] = "off"
    /\ \/ /\ registry[r] = "reserved"
          /\ registry' = [registry EXCEPT ![r] = "none"]
          /\ UNCHANGED cancel
       \/ /\ registry[r] # "reserved"
          /\ registry[r] = "live" \/ row[r] # "absent"
          /\ cpc' = [cpc EXCEPT ![c] = "finish"]
          /\ crun' = [crun EXCEPT ![c] = r]
          /\ clive' = [clive EXCEPT ![c] = registry[r] = "live"]
          /\ UNCHANGED <<registry, cwon>>
    /\ UNCHANGED <<row, born, child, owner, closing, told>>

AfterCancelWin_Return(c) == "tell"
\* The child of a run that was live is stopped before anything else.
AfterCancelWin(c) == IF clive[c] THEN "stop" ELSE "tell"

CancelFinish(c) ==
    /\ cpc[c] = "finish"
    /\ \/ /\ FinishFails(crun[c])
          /\ CancelGoesOrEnds(c, clive[c], "failing")
          /\ UNCHANGED row
       \/ /\ row[crun[c]] \in Terminal /\ ~EndsRow(crun[c])
          /\ CancelGoesOrEnds(c, clive[c], "stop")
          /\ UNCHANGED row
       \/ /\ EndsRow(crun[c])
          /\ row' = [row EXCEPT ![crun[c]] = "stopped"]
          /\ cwon' = [cwon EXCEPT ![c] = TRUE]
          /\ CancelGoes(c, AfterCancelWin(c))
    /\ UNCHANGED <<registry, born, child, owner, closing, told>>

CancelStop(c) ==
    /\ cpc[c] = "stop"
    /\ StopChild(crun[c])
    /\ CancelGoes(c, "release")
    /\ UNCHANGED <<registry, row, born, owner, cwon, closing, told>>

\* releaseDelegation does not look at the state of the slot.
CancelRelease(c) ==
    /\ cpc[c] = "release"
    /\ registry' = [registry EXCEPT ![crun[c]] = "none"]
    /\ CancelGoesOrEnds(c, cwon[c], "tell")
    /\ UNCHANGED <<row, born, child, owner, closing, told>>

CancelTell(c) ==
    /\ cpc[c] = "tell"
    /\ Tell(crun[c], "stopped")
    /\ CancelEnds(c)
    /\ UNCHANGED <<registry, row, born, child, owner, closing>>

CancelTakeOwner(c) ==
    /\ cpc[c] = "failing"
    /\ \/ /\ registry[crun[c]] = "live"
          /\ registry' = [registry EXCEPT ![crun[c]] = "none"]
          /\ CancelGoes(c, "halt")
       \/ /\ registry[crun[c]] # "live"
          /\ CancelGoes(c, "stopOnly")
          /\ UNCHANGED registry
    /\ UNCHANGED <<row, born, child, owner, cwon, closing, told>>

CancelHalt(c) ==
    /\ cpc[c] \in {"halt", "stopOnly"}
    /\ StopChild(crun[c])
    /\ CancelGoesOrEnds(c, cpc[c] = "halt", "tellFailed")
    /\ UNCHANGED <<registry, row, born, owner, closing, told>>

CancelTellFailed(c) ==
    /\ cpc[c] = "tellFailed"
    /\ Tell(crun[c], "storage")
    /\ CancelEnds(c)
    /\ UNCHANGED <<registry, row, born, child, owner, closing>>

-----------------------------------------------------------------------------
(* The child, the end of the program and its next start. *)

\* The turn of the child ends, by itself or because it was stopped.
ChildDone(r) ==
    /\ child[r] \in {"busy", "halting"}
    /\ child' = [child EXCEPT ![r] = "idle"]
    /\ UNCHANGED <<registry, row, born, owner, cancel, closing, told>>

BeginShutdown ==
    /\ ~closing
    /\ closing' = TRUE
    /\ UNCHANGED <<registry, row, born, child, owner, cancel, told>>

\* Project.Stop of every project.
ShutdownStop ==
    /\ closing
    /\ \E r \in Runs : child[r] = "busy"
    /\ child' = [r \in Runs |-> IF child[r] = "busy" THEN "halting" ELSE child[r]]
    /\ UNCHANGED <<registry, row, born, owner, cancel, closing, told>>

\* The process ends, at any point, and is started again: of a run only its
\* row is left, and reconcileInterruptedDelegationRuns ends the live rows.
Restart ==
    /\ registry' = [r \in Runs |-> "none"]
    /\ child' = [r \in Runs |-> "none"]
    /\ pc' = [r \in Runs |-> IF pc[r] = "new" THEN "new" ELSE "done"]
    /\ cpc' = [c \in Cancellers |-> "off"]
    /\ crun' = [c \in Cancellers |-> NoRun]
    /\ clive' = [c \in Cancellers |-> FALSE]
    /\ cwon' = [c \in Cancellers |-> FALSE]
    /\ verdict' = [r \in Runs |-> "none"]
    /\ closing' = FALSE
    /\ \/ row' = [r \in Runs |-> IF row[r] = "running" THEN "stopped" ELSE row[r]]
       \/ StoreMayFail /\ UNCHANGED row
    /\ UNCHANGED <<born, told>>

OwnerStep(r) ==
    \/ SpawnMonitor(r) \/ FinishUnstarted(r) \/ FinishCutoff(r) \/ Finalize(r)
    \/ Release(r) \/ TellVerdict(r) \/ Exit(r)
    \/ TakeOwner(r) \/ HaltFailed(r) \/ TellFailed(r)
    \/ Tick(r) \/ Look(r) \/ Load(r) \/ Progress(r)

CancelStep(c) ==
    \/ CancelFinish(c) \/ CancelStop(c) \/ CancelRelease(c) \/ CancelTell(c)
    \/ CancelTakeOwner(c) \/ CancelHalt(c) \/ CancelTellFailed(c)

Next ==
    \/ \E B \in SUBSET Runs : Reserve(B)
    \/ \E r \in Runs : ReleaseReservation(r) \/ Publish(r) \/ OwnerStep(r) \/ ChildDone(r)
    \/ \E c \in Cancellers, r \in Runs : CancelBegin(c, r)
    \/ \E c \in Cancellers : CancelStep(c)
    \/ BeginShutdown \/ ShutdownStop
    \/ Restart

Spec == Init /\ [][Next]_vars

\* Goroutines are scheduled, and the turn of a child ends at the latest at its
\* 30-minute ceiling.
FairSpec ==
    /\ Spec
    /\ \A r \in Runs : WF_vars(OwnerStep(r)) /\ WF_vars(ChildDone(r))
    /\ \A c \in Cancellers : WF_vars(CancelStep(c))

-----------------------------------------------------------------------------
(* Properties. *)

\* The registry, the file and the goroutines keep their types.
TypeOK ==
    /\ registry \in [Runs -> {"none", "reserved", "live"}]
    /\ row \in [Runs -> {"absent", "running"} \union Terminal]
    /\ born \in [Runs -> Nat]
    /\ child \in [Runs -> {"none", "busy", "halting", "idle"}]
    /\ pc \in [Runs -> OwnerPhases]
    /\ verdict \in [Runs -> {"none"} \union Terminal]
    /\ cpc \in [Cancellers -> CancelPhases]
    /\ crun \in [Cancellers -> Runs \union {NoRun}]
    /\ clive \in [Cancellers -> BOOLEAN]
    /\ cwon \in [Cancellers -> BOOLEAN]
    /\ closing \in BOOLEAN
    /\ told \in [Runs -> Seq(Terminal \union {"storage"})]

\* However single runs and fan-outs compete, the registry holds at most
\* MaxConcurrent runs and at most one for a target.
OneOwnerPerTarget ==
    /\ Cardinality(InUse) <= MaxConcurrent
    /\ \A r, q \in InUse : Target[r] = Target[q] => r = q

\* Never two children at work for the same target ("Two agents writing in one
\* worktree is not a feature"), one that was told to stop not counted.
ExclusiveWork ==
    \A r, q \in Runs :
        child[r] = "busy" /\ child[q] = "busy" /\ Target[r] = Target[q] => r = q

\* Someone is about to stop the child of r.
WillStop(r) ==
    \/ pc[r] = "halt"
    \/ \E c \in Cancellers :
          /\ crun[c] = r
          /\ \/ cpc[c] = "finish" /\ clive[c]
             \/ cpc[c] \in {"stop", "failing", "halt", "stopOnly"}

Watching == {"started", "looping", "alive", "sawBusy", "progress", "failing"}

\* A child that works for money has a monitor that owns it or someone who is
\* about to stop it, whatever the file does.
NoOrphan ==
    \A r \in Runs :
        child[r] = "busy" =>
            closing \/ WillStop(r) \/ (registry[r] = "live" /\ pc[r] \in Watching)

\* A run that the file says is running is in the registry, unless the program
\* is closing: waitForDelegationBatch treats anything else as a failure.
RunningIsOwned ==
    \A r \in Runs : row[r] = "running" => registry[r] = "live" \/ closing

\* A row that is terminal never changes its verdict; retention may drop it.
VerdictStable ==
    [][\A r \in Runs : row[r] \in Terminal => row'[r] \in {row[r], "absent"}]_vars

\* Retention never drops the row of a live run.
LiveRowsKept == [][\A r \in Runs : row[r] = "running" => row'[r] # "absent"]_vars

\* The file of the runs only ever tells more.
RowsAreKept == VerdictStable /\ LiveRowsKept

\* While the file works and retention has room, delegation keeps its contract.
Contract == INSTANCE DelegationContract WITH status <- row
ContractHolds == Contract!Spec

\* A run that is running ends, unless the program is closed.
RunEnds ==
    \A r \in Runs : row[r] = "running" ~> row[r] # "running" \/ closing

\* The slot of a live run becomes free again, also when the file fails.
SlotFreed == \A r \in Runs : registry[r] = "live" ~> registry[r] # "live"
=============================================================================
