--------------------------- MODULE DelegationBatch ---------------------------
(***************************************************************************)
(* A fan-out (delegation_batch.go) on top of Delegation: the goroutine of  *)
(* the caller's tool call reserves every target, starts the runs one after *)
(* the other, takes back what it started when one is refused, and leaves a *)
(* second goroutine waiting for the answers, which it queues as a          *)
(* synthesis turn in the caller's chat.                                    *)
(*                                                                         *)
(* The runs, their monitors and the cancellations are those of Delegation; *)
(* a step of the fan-out that changes a run is conjoined with the action   *)
(* of Delegation it performs.                                              *)
(***************************************************************************)
EXTENDS Delegation

CONSTANTS
    Batch,     \* the runs of the fan-out, in the order of its targets
    Unwinder   \* the caller's goroutine, as a cancelling one

Members == {Batch[i] : i \in 1..Len(Batch)}

ASSUME BatchAssumption ==
    /\ Batch \in Seq(Runs) /\ Len(Batch) >= 2
    /\ \A i, j \in 1..Len(Batch) : Batch[i] = Batch[j] => i = j
    /\ Unwinder \in Cancellers

VARIABLES
    bpc,     \* the goroutine of the tool call
    at,      \* the next member it starts, cancels or releases
    begun,   \* the members it has started
    wpc,     \* the goroutine that waits for the answers
    seen,    \* the member it looks at
    caller,  \* the worker of the caller's chat: "turn", "idle" or "halted"
    synth    \* what became of the synthesis turn

starter == <<bpc, at, begun>>
waiter == <<wpc, seen, synth>>
bvars == <<starter, waiter, caller>>
allVars == <<vars, bvars>>

BatchInit ==
    /\ Init
    /\ bpc = "new" /\ at = 1 /\ begun = {}
    /\ wpc = "off" /\ seen = 1
    /\ caller = "turn" /\ synth = "none"

BatchGoes(p) == bpc' = p /\ UNCHANGED <<at, begun>>
WaiterGoes(p) == wpc' = p /\ UNCHANGED <<seen, synth>>

-----------------------------------------------------------------------------
(* Starting. *)

\* reserveDelegationBatchForSession, or a refusal without a trace.
ReserveBatch ==
    /\ bpc = "new" /\ caller = "turn"
    /\ \/ Reserve(Members) /\ BatchGoes("starting")
       \/ BatchGoes("refused") /\ UNCHANGED vars
    /\ UNCHANGED <<waiter, caller>>

\* startDelegation of the next member.
StartMember ==
    /\ bpc = "starting" /\ at <= Len(Batch)
    /\ registry[Batch[at]] = "reserved" /\ Publish(Batch[at])
    /\ bpc' = IF pc'[Batch[at]] = "started" THEN "spawning" ELSE "failing"
    /\ UNCHANGED <<at, begun, waiter, caller>>

SpawnMember ==
    /\ bpc = "spawning" /\ SpawnMonitor(Batch[at])
    /\ IF pc'[Batch[at]] = "looping"
       THEN bpc' = "starting" /\ at' = at + 1 /\ begun' = begun \union {Batch[at]}
       ELSE BatchGoes("failing")
    /\ UNCHANGED <<waiter, caller>>

Unwind_Skipped == bpc' = "cleanup" /\ at' = 1 /\ UNCHANGED begun
\* "a half-started fan-out is worse than none".
Unwind == bpc' = "unwind" /\ at' = 1 /\ UNCHANGED begun

\* The member was refused: its reservation was withdrawn, the file failed, the
\* chat, the policy or the budget changed.
RefuseMember ==
    /\ bpc = "starting" /\ at <= Len(Batch)
    /\ Unwind
    /\ ReleaseReservation(Batch[at]) \/ UNCHANGED vars
    /\ UNCHANGED <<waiter, caller>>

\* startDelegation has ended the run it could not start.
MemberFailed ==
    /\ bpc = "failing" /\ pc[Batch[at]] = "done"
    /\ Unwind
    /\ UNCHANGED <<vars, waiter, caller>>

\* CancelDelegationRun of every member that was started.
UnwindMember ==
    /\ bpc = "unwind" /\ at <= Len(Batch) /\ cpc[Unwinder] = "off"
    /\ at' = at + 1
    /\ \/ Batch[at] \in begun /\ CancelBegin(Unwinder, Batch[at])
       \/ /\ Batch[at] \notin begun \/ (registry[Batch[at]] = "none" /\ row[Batch[at]] = "absent")
          /\ UNCHANGED vars
    /\ UNCHANGED <<bpc, begun, waiter, caller>>

Unwound ==
    /\ bpc = "unwind" /\ at > Len(Batch) /\ cpc[Unwinder] = "off"
    /\ bpc' = "cleanup" /\ at' = 1
    /\ UNCHANGED <<begun, vars, waiter, caller>>

\* scheduleBatchSynthesis: startBackground is refused when the program closes.
Schedule ==
    /\ bpc = "starting" /\ at > Len(Batch)
    /\ bpc' = "cleanup" /\ at' = 1
    /\ \/ ~closing /\ WaiterGoes("wait")
       \/ closing /\ UNCHANGED waiter
    /\ UNCHANGED <<begun, vars, caller>>

Cleanup_Skipped == UNCHANGED vars
\* The deferred release of whatever was not activated.
Cleanup ==
    IF Releasable(Batch[at]) THEN ReleaseReservation(Batch[at]) ELSE UNCHANGED vars

CleanupMember ==
    /\ bpc = "cleanup" /\ at <= Len(Batch)
    /\ Cleanup
    /\ at' = at + 1
    /\ UNCHANGED <<bpc, begun, waiter, caller>>

Return ==
    /\ bpc = "cleanup" /\ at > Len(Batch)
    /\ BatchGoes(IF begun = Members THEN "returned" ELSE "refused")
    /\ UNCHANGED <<vars, waiter, caller>>

-----------------------------------------------------------------------------
(* Waiting: waitForDelegationBatch reads the row of a member and, when it is *)
(* not terminal, its owner.                                                  *)

LastMember_OffByOne(i) == i > Len(Batch)
LastMember(i) == i = Len(Batch)

Settled_ChildIdle(r) == child[r] # "busy"
Settled(r) == row[r] \in Terminal

ReadMember ==
    /\ wpc = "wait"
    /\ UNCHANGED synth
    /\ \/ closing /\ wpc' = "closed" /\ UNCHANGED seen
       \/ (StoreMayFail \/ row[Batch[seen]] = "absent") /\ wpc' = "unread" /\ UNCHANGED seen
       \/ /\ Settled(Batch[seen])
          /\ IF LastMember(seen) THEN wpc' = "ready" /\ UNCHANGED seen
             ELSE seen' = seen + 1 /\ wpc' = "wait"
       \/ ~Settled(Batch[seen]) /\ row[Batch[seen]] = "running" /\ WaiterGoes("sawRunning")
    /\ UNCHANGED <<vars, starter, caller>>

\* A live owner: look again from the first member at the next tick.
AskOwner ==
    /\ wpc = "sawRunning"
    /\ UNCHANGED synth
    /\ IF StillOwner(Batch[seen]) THEN wpc' = "wait" /\ seen' = 1
       ELSE wpc' = "lost" /\ UNCHANGED seen
    /\ UNCHANGED <<vars, starter, caller>>

\* QueueMessage into the caller's chat.
QueueSynthesis ==
    /\ wpc = "ready"
    /\ wpc' = "done" /\ UNCHANGED seen
    /\ synth' \in IF caller = "turn" THEN {"queued", "full"}
                  ELSE IF caller = "halted" THEN {"stopped"} ELSE {"idle"}
    /\ UNCHANGED <<vars, starter, caller>>

-----------------------------------------------------------------------------
(* The caller's chat. *)

\* The tool call has returned and the turn, with its follow-ups, is over.
CallerEnds ==
    /\ caller \in {"turn", "halted"} /\ bpc \in {"new", "refused", "returned"}
    /\ caller' = "idle"
    /\ UNCHANGED <<vars, starter, waiter>>

\* A message of the user.
CallerTurns ==
    /\ caller = "idle" /\ ~closing
    /\ caller' = "turn"
    /\ UNCHANGED <<vars, starter, waiter>>

\* Stop; the runs of the chat are cancelled by Delegation's cancellers.
CallerStops ==
    /\ caller = "turn"
    /\ caller' = "halted"
    /\ UNCHANGED <<vars, starter, waiter>>

BatchRestart ==
    /\ Restart
    /\ bpc' = (IF bpc = "new" THEN "new" ELSE "gone") /\ at' = 1 /\ begun' = {}
    /\ wpc' = (IF wpc = "off" THEN "off" ELSE "gone") /\ seen' = 1
    /\ caller' = "idle"
    /\ UNCHANGED synth

\* What Delegation does by itself.
RunStep ==
    /\ \/ \E r \in Runs \ Members : Publish(r) \/ SpawnMonitor(r)
       \/ \E r \in Runs : (OwnerStep(r) /\ pc[r] # "started") \/ ChildDone(r)
       \/ \E c \in Cancellers \ {Unwinder}, r \in Runs : CancelBegin(c, r)
       \/ \E c \in Cancellers : CancelStep(c)
       \/ BeginShutdown \/ ShutdownStop
    /\ UNCHANGED bvars

StarterStep ==
    \/ ReserveBatch \/ StartMember \/ SpawnMember \/ RefuseMember \/ MemberFailed
    \/ UnwindMember \/ Unwound \/ Schedule \/ CleanupMember \/ Return

WaiterStep == ReadMember \/ AskOwner \/ QueueSynthesis

CallerStep == CallerEnds \/ CallerTurns \/ CallerStops

BatchNext == StarterStep \/ WaiterStep \/ CallerStep \/ RunStep \/ BatchRestart

BatchSpec == BatchInit /\ [][BatchNext]_allVars

\* Goroutines are scheduled and turns end.
BatchFairness ==
    /\ WF_allVars(StarterStep /\ bpc # "new") /\ WF_allVars(WaiterStep)
    /\ \A r \in Runs :
          /\ WF_allVars(OwnerStep(r) /\ pc[r] # "started" /\ UNCHANGED bvars)
          /\ WF_allVars(ChildDone(r) /\ UNCHANGED bvars)
    /\ \A c \in Cancellers : WF_allVars(CancelStep(c) /\ UNCHANGED bvars)

-----------------------------------------------------------------------------
(* Properties. *)

\* The runs, the two goroutines of a fan-out and the chat keep their types.
BatchTypeOK ==
    /\ TypeOK
    /\ bpc \in {"new", "starting", "spawning", "failing", "unwind", "cleanup",
                "returned", "refused", "gone"}
    /\ at \in 1..Len(Batch) + 1
    /\ begun \subseteq Members
    /\ wpc \in {"off", "wait", "sawRunning", "ready", "closed", "unread", "lost",
                "done", "gone"}
    /\ seen \in 1..Len(Batch)
    /\ caller \in {"turn", "idle", "halted"}
    /\ synth \in {"none", "queued", "full", "stopped", "idle"}

\* A fan-out that was refused leaves no member running ("a half-started
\* fan-out is worse than none").
NoHalfBatch == bpc = "refused" => \A r \in Members : row[r] # "running"

\* A fan-out that has returned holds no slot it does not use: a reservation
\* has no monitor and would block its target for good.
NoSlotLeft ==
    bpc \in {"refused", "returned"} => \A r \in Members : registry[r] # "reserved"

\* The synthesis is built from runs that ended ("batch synthesis refuses
\* incomplete state", README.md).
SynthesisOfEnded ==
    wpc \in {"ready", "done"} => \A r \in Members : row[r] \in Terminal \union {"absent"}

\* Waiting comes to an end.
WaiterEnds == wpc \in {"wait", "sawRunning"} ~> wpc \notin {"wait", "sawRunning"}

\* The wait gives a run up only when it really has no owner
\* (waitForDelegationBatch "blocks until every run reaches a terminal state").
WaitIsPatient == [][wpc' = "lost" /\ wpc # "lost" => row[Batch[seen]] = "running"]_allVars
=============================================================================
