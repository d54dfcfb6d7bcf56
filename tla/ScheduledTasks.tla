---------------------------- MODULE ScheduledTasks ----------------------------
(***************************************************************************)
(* One scheduled task and its runs (scheduled_tasks.go).  The task and the *)
(* index of its runs are two files under one lock (scheduledTasksMu).  A   *)
(* run is dispatched by the scheduler when it is due or by hand at any     *)
(* time: a child chat is made, its row is published, the card of the task  *)
(* and the child's turn are started under the lock, and a monitor settles  *)
(* row and card when the turn is over.  Edits, deletions, retention,       *)
(* shutdown, crashes and failed writes may land between any two critical   *)
(* sections.                                                               *)
(*                                                                         *)
(* A run and its child chat carry the same number, in the order in which   *)
(* the dispatches began.                                                   *)
(***************************************************************************)
EXTENDS Integers, FiniteSets

CONSTANTS
    MaxRuns,       \* bound of the model: dispatches of a behaviour
    MaxVersions,   \* bound of the model: different prompts of the task
    KeptRuns,      \* maxRunsPerScheduledTask
    HumanChats,    \* bound of the model: runs whose chat a person continues
    MaxClock,      \* bound of the model: values of time.Now, in milliseconds
    Events,        \* bound of the model: which of a save, a deletion, a restart
                   \* and a failed read or write a behaviour may have
    MaxEvents,     \* bound of the model: how many kinds of them
    Repeated       \* bound of the model: kinds it may have more than once

ASSUME ScheduledAssumption ==
    /\ {MaxRuns, MaxVersions, KeptRuns, MaxClock} \subseteq Nat \ {0}
    /\ Events \subseteq {"save", "delete", "restart", "fault"} /\ MaxEvents \in Nat
    /\ Repeated \subseteq Events
    /\ HumanChats \subseteq 1..MaxRuns

VARIABLES
    task,       \* scheduled_tasks.json: the task, its last* fields being its card
    runs,       \* scheduled_task_runs.json: the row of each run, or NoRow
    recorded,   \* how many rows it has ever had: the order of rows that began
                \* in the same millisecond
    chat,       \* the child chats
    job,        \* the goroutines that dispatch and monitor each run
    scheduler,  \* runScheduledTasks: "starting", "repairing" or "loop"
    due,        \* the run that goroutine is dispatching
    source,     \* the task's own chat exists
    deleter,    \* the deletion in progress
    reaping,    \* chats of evicted rows, for the retention goroutine
    quitting,   \* shutdown has begun
    clock,      \* time.Now
    spent,      \* bound of the model: the events that have happened
    disowned    \* auxiliary: runs whose row a deletion, a restart or a failed
                \* read took from their monitor, chats that could not be reaped

taskVars == <<task, runs, recorded, chat, job, scheduler, due, source, deleter,
              reaping, quitting, clock, spent, disowned>>

index == <<runs, recorded>>
files == <<task, index>>
others == <<source, deleter, reaping, quitting, clock, disowned>>

Runs == 1..MaxRuns
None == 0
NoTask == [version |-> 0, lastAt |-> 0, lastID |-> None, lastStatus |-> ""]

Terminal == {"completed", "stopped", "error"}
LiveSummary == {"running", "dispatching"}

JobPhases == {"unused", "taken", "created", "discarding", "refused", "appended",
              "claimed", "watching", "finishing", "settling", "done"}

\* "idle": made, its turn not started.  "working": the run's own turn.
\* "human": a person continues the chat.  "stopping": its turn is cancelled.
ChatStates == {"none", "idle", "working", "stopping", "human", "ended", "gone"}
Active == {"working", "stopping", "human"}

NoJob == [pc |-> "unused", version |-> 0, at |-> 0, verdict |-> ""]
NoDeleter == [pc |-> "none", data |-> FALSE, expected |-> {}, todo |-> {}]

-----------------------------------------------------------------------------
(* The run index. *)

NoRow == [at |-> 0, end |-> 0, born |-> 0, status |-> "none"]

Emptied == [d \in Runs |-> NoRow]
RowIDs == {d \in Runs : runs[d] # NoRow}
LiveRows == {d \in Runs : runs[d].status = "running"}
OverRows == {d \in Runs : runs[d].status \in Terminal}

\* The stable newest-first sort of an index to which rows are appended.
Precedes(rows, d, e) ==
    \/ rows[d].at > rows[e].at
    \/ rows[d].at = rows[e].at /\ rows[d].born < rows[e].born

\* fitScheduledTaskRuns: every live row is kept, then the newest terminal ones.
FitRows(rows) ==
    LET live == {d \in Runs : rows[d].status = "running"}
        over == {d \in Runs : rows[d].status \in Terminal}
        room(d) == Cardinality(live) + Cardinality({e \in over : Precedes(rows, e, d)}) < KeptRuns
        kept == live \union {d \in over : room(d)}
    IN  [d \in Runs |-> IF d \in kept THEN rows[d] ELSE NoRow]

-----------------------------------------------------------------------------
(* The card: LastRunAt, LastRunID and LastStatus of the task. *)

Card(t, at, id, status) ==
    [t EXCEPT !.lastAt = at, !.lastID = id, !.lastStatus = status]

\* Mutant: the terminal callback of a run always writes the card.
CardAfterRun_Unguarded(t, d, at, status) ==
    IF t = NoTask THEN t ELSE Card(t, at, d, status)

\* updateScheduledTaskRunResult with a run ID: a newer run's claim stands.
CardAfterRun(t, d, at, status) ==
    IF \/ t = NoTask
       \/ t.lastID \notin {None, d}
       \/ t.lastID = None /\ t.lastAt > at
    THEN t
    ELSE Card(t, at, d, status)

\* updateScheduledTaskResult: the failure of a dispatch that has no row.
CardAfterRefusal(t, at, status) ==
    IF t = NoTask \/ (t.lastID # None /\ t.lastStatus \in LiveSummary)
    THEN t
    ELSE Card(t, at, None, status)

\* reconcileInterruptedScheduledRuns, second half: the rows are authoritative.
CardAfterRestart(t) ==
    LET latest == CHOOSE d \in OverRows : \A e \in OverRows : ~Precedes(runs, e, d)
        copy(d) == Card(t, runs[d].end, d, runs[d].status)
        failed(s) == [t EXCEPT !.lastStatus = s]
        older == OverRows = {} \/ runs[latest].end < t.lastAt
    IN  CASE t = NoTask -> t
          [] t # NoTask /\ t.lastID # None ->
                IF t.lastID \in OverRows
                THEN copy(t.lastID)
                ELSE IF t.lastStatus \in LiveSummary THEN failed("error") ELSE t
          [] t # NoTask /\ t.lastID = None ->
                CASE t.lastStatus = "dispatching" /\ older -> failed("stopped")
                  [] t.lastStatus = "running" /\ older -> failed("error")
                  [] t.lastStatus \notin LiveSummary
                        /\ (OverRows = {} \/ t.lastAt >= runs[latest].end) -> t
                  [] OTHER -> copy(latest)

-----------------------------------------------------------------------------
TaskInit ==
    /\ task \in {NoTask, [NoTask EXCEPT !.version = 1]} /\ runs = Emptied
    /\ recorded = 0
    /\ chat = [d \in Runs |-> "none"]
    /\ job = [d \in Runs |-> NoJob]
    /\ scheduler \in {"starting", "loop"} /\ due = None
    /\ source = TRUE /\ deleter = NoDeleter /\ reaping = {}
    /\ quitting = FALSE /\ clock = 1
    /\ spent = {} /\ disowned = {}

\* scheduledTasksMu is free: reconcileInterruptedScheduledRuns keeps it from
\* its first write to its second.  Every other holder is one action.
LockFree == scheduler # "repairing"

CanStill(event) ==
    \/ event \in Events \ spent /\ Cardinality(spent) < MaxEvents
    \/ event \in Repeated \intersect spent
Spend(event) == CanStill(event) /\ spent' = spent \union {event}

Fault == Spend("fault")
NoFault == spent' = spent

\* The next run to dispatch.
Fresh(d) == job[d].pc = "unused" /\ \A e \in 1..(d - 1) : job[e].pc # "unused"

Job(d, pc, at, verdict) ==
    job' = [job EXCEPT ![d].pc = pc, ![d].at = at, ![d].verdict = verdict]

\* A goroutine is over; when it was the scheduler's, the loop goes on.
Done(d) ==
    /\ job' = [job EXCEPT ![d] = [NoJob EXCEPT !.pc = "done"]]
    /\ due' = IF due = d THEN None ELSE due

\* session.Stop on the children of S.
Stopped(S) ==
    [d \in Runs |-> IF d \in S /\ chat[d] \in Active THEN "stopping" ELSE chat[d]]

\* sameScheduledTaskExecution with the stored task.
SameExecution_IDOnly(d) == task # NoTask
SameExecution(d) == task # NoTask /\ task.version = job[d].version

-----------------------------------------------------------------------------
(* The owner of the task. *)

\* SaveScheduledTask: the card survives an edit; a new task, or one saved
\* again after its deletion, starts with an empty card.
Save(v) ==
    /\ LockFree /\ source /\ Spend("save")
    /\ task' = [task EXCEPT !.version = v]
    /\ UNCHANGED <<index, chat, job, scheduler, due, others>>

\* DeleteScheduledTaskWithData(data = TRUE) reads the rows before it commits.
DeletePreview ==
    /\ LockFree /\ task # NoTask /\ deleter = NoDeleter /\ Spend("delete")
    /\ deleter' = [pc |-> "previewed", data |-> TRUE, expected |-> RowIDs, todo |-> {}]
    /\ UNCHANGED <<files, chat, job, scheduler, due, source, reaping,
                   quitting, clock, disowned>>

\* DeleteScheduledTask keeps the chats: nothing of the preview matters.
DeleteKeepingChats ==
    /\ LockFree /\ task # NoTask /\ deleter = NoDeleter /\ Spend("delete")
    /\ deleter' = [NoDeleter EXCEPT !.pc = "previewed"]
    /\ UNCHANGED <<files, chat, job, scheduler, due, source, reaping,
                   quitting, clock, disowned>>

\* deleteChatSession of the task's own chat, up to removeScheduledTasksFor.
DeleteSource ==
    /\ source /\ deleter = NoDeleter /\ Spend("delete")
    /\ source' = FALSE
    /\ deleter' = [NoDeleter EXCEPT !.pc = "previewed"]
    /\ UNCHANGED <<files, chat, job, scheduler, due, reaping, quitting,
                   clock, disowned>>

\* removeScheduledTaskRecords sees a run that was created since the preview
\* and the caller previews again (or gives up after the third time).
DeleteChanged ==
    /\ LockFree /\ deleter.pc = "previewed" /\ deleter.data
    /\ task # NoTask /\ deleter.expected # RowIDs
    /\ \E again \in BOOLEAN :
        deleter' = IF again THEN [deleter EXCEPT !.expected = RowIDs] ELSE NoDeleter
    /\ UNCHANGED <<files, chat, job, scheduler, due, source, reaping, quitting,
                   clock, disowned, spent>>

\* finishScheduledTaskDeletion, removeScheduledTasksFor: the children to stop,
\* or to delete, are those of the rows that were removed.
Doomed == IF deleter.data THEN RowIDs ELSE LiveRows

\* The preview, if there was one, still holds.
DeleteCommits ==
    /\ LockFree /\ deleter.pc = "previewed" /\ task # NoTask
    /\ deleter.data => deleter.expected = RowIDs

\* removeScheduledTaskRecords, removeScheduledTasksFor: both files, rows first.
DeleteRecords ==
    /\ LockFree /\ deleter.pc = "previewed"
    /\ \/ /\ task = NoTask                     \* deleted meanwhile
          /\ deleter' = NoDeleter
          /\ UNCHANGED <<task, runs, spent, disowned>>
       \/ /\ DeleteCommits
          /\ \/ /\ NoFault
                /\ task' = NoTask /\ runs' = Emptied
                /\ deleter' = [deleter EXCEPT !.pc = "finishing", !.todo = Doomed]
                /\ disowned' = disowned \union RowIDs
             \/ \* the write of the tasks fails, and the rows are put back
                /\ Fault
                /\ deleter' = NoDeleter
                /\ UNCHANGED <<task, runs, disowned>>
             \/ \* putting the rows back fails too
                /\ Fault
                /\ runs' = Emptied /\ disowned' = disowned \union RowIDs
                /\ deleter' = NoDeleter
                /\ UNCHANGED task
    /\ UNCHANGED <<recorded, chat, job, scheduler, due, source, reaping, quitting,
                   clock>>

\* finishScheduledTaskDeletion: one child after the other.  A chat that cannot
\* be deleted (its worktree is dirty) ends the deletion, with an error.
DeleteChild(d) ==
    /\ deleter.pc = "finishing" /\ d \in deleter.todo
    /\ \A e \in deleter.todo : d <= e
    /\ LET rest == [deleter EXCEPT !.todo = @ \ {d}]
       IN  \/ /\ deleter.data
              /\ chat' = [chat EXCEPT ![d] = "gone"]
              /\ deleter' = rest
           \/ /\ deleter.data /\ chat[d] # "gone"
              /\ chat' = Stopped({d})
              /\ deleter' = NoDeleter
           \/ /\ ~deleter.data
              /\ chat' = Stopped({d})
              /\ deleter' = rest
    /\ UNCHANGED <<files, job, scheduler, due, source, reaping, quitting,
                   clock, disowned, spent>>

DeleteDone ==
    /\ deleter.pc = "finishing" /\ deleter.todo = {}
    /\ deleter' = NoDeleter
    /\ UNCHANGED <<files, chat, job, scheduler, due, source, reaping, quitting,
                   clock, disowned, spent>>

-----------------------------------------------------------------------------
(* Dispatch. *)

\* RunScheduledTaskNow: the task is copied under the lock.
RunNow(d) ==
    /\ LockFree /\ task # NoTask /\ Fresh(d)
    /\ job' = [job EXCEPT ![d] = [NoJob EXCEPT !.pc = "taken", !.version = task.version]]
    /\ UNCHANGED <<files, chat, scheduler, due, others, spent>>

\* dispatchDueScheduledTasks: a task with a live run only moves its cadence.
DispatchDue(d) ==
    /\ LockFree /\ scheduler = "loop" /\ due = None
    /\ task # NoTask /\ LiveRows = {} /\ Fresh(d)
    /\ task' = Card(task, clock, None, "dispatching")
    /\ job' = [job EXCEPT ![d] = [NoJob EXCEPT !.pc = "taken", !.version = task.version]]
    /\ due' = d
    /\ UNCHANGED <<index, chat, scheduler, others, spent>>

\* dispatchScheduledTask refuses before it has a child: the source chat or the
\* project is gone, the model is unavailable, the child cannot be provisioned; or
\* the project was archived, which stops the run.
Refuse(d) ==
    /\ job[d].pc = "taken"
    /\ \E verdict \in {"error", "stopped"} : Job(d, "refused", clock, verdict)
    /\ UNCHANGED <<files, chat, scheduler, due, others, spent>>

\* createScheduledRunSession.
CreateChild(d) ==
    /\ job[d].pc = "taken" /\ source
    /\ chat' = [chat EXCEPT ![d] = "idle"]
    /\ Job(d, "created", clock, "")
    /\ UNCHANGED <<files, scheduler, due, others, spent>>

NoOtherRun_Unchecked == TRUE
\* appendScheduledTaskRunOwned: two executions of one task never overlap.
NoOtherRun == LiveRows = {}

\* appendScheduledTaskRunForTask, then reapEvictedScheduledRunSessions, which
\* startBackground refuses once shutdown has begun.
Publish(d) ==
    /\ LockFree /\ job[d].pc = "created"
    /\ LET row == [at |-> job[d].at, end |-> 0, born |-> recorded + 1, status |-> "running"]
           evicted == {e \in RowIDs : runs'[e] = NoRow}
       IN  \/ /\ NoFault
              /\ SameExecution(d) /\ NoOtherRun
              /\ runs' = FitRows([runs EXCEPT ![d] = row])
              /\ recorded' = recorded + 1
              /\ reaping' = IF quitting THEN reaping ELSE reaping \union evicted
              /\ job' = [job EXCEPT ![d].pc = "appended"]
           \/ /\ \/ ~(SameExecution(d) /\ NoOtherRun) /\ NoFault
                 \/ Fault
              /\ job' = [job EXCEPT ![d].pc = "discarding"]
              /\ UNCHANGED <<index, reaping>>
    /\ UNCHANGED <<task, chat, scheduler, due, source, deleter, quitting,
                   clock, disowned>>

\* discardScheduledRunSession takes the unpublished child back.
Discarded(d) == [chat EXCEPT ![d] = "gone"]

Discard(d) ==
    /\ job[d].pc = "discarding"
    /\ \/ NoFault /\ chat' = Discarded(d)
       \/ Fault /\ UNCHANGED chat
    /\ job' = [job EXCEPT ![d].pc = "refused", ![d].verdict = "error"]
    /\ UNCHANGED <<files, scheduler, due, others>>

\* updateScheduledTaskResult after a dispatch that published no row.
ReportRefusal(d) ==
    /\ LockFree /\ job[d].pc = "refused"
    /\ \/ NoFault /\ task' = CardAfterRefusal(task, job[d].at, job[d].verdict)
       \/ Fault /\ UNCHANGED task
    /\ Done(d)
    /\ UNCHANGED <<index, chat, scheduler, others>>

\* claimScheduledTaskRunStart: the card and the turn start under one lock.
\* The turn is refused when shutdown has begun; the card is written by then.
ClaimStart(d) ==
    /\ LockFree /\ job[d].pc = "appended"
    /\ \/ /\ NoFault
          /\ SameExecution(d) /\ d \in LiveRows
          /\ task' = Card(task, job[d].at, d, "running")
          /\ IF quitting
             THEN Job(d, "finishing", job[d].at, "error") /\ UNCHANGED chat
             ELSE /\ Job(d, "claimed", job[d].at, "")
                  /\ chat' = [chat EXCEPT ![d] = "working"]
       \/ /\ \/ ~(SameExecution(d) /\ d \in LiveRows) /\ NoFault
             \/ Fault
          /\ Job(d, "finishing", job[d].at, "error")
          /\ UNCHANGED <<task, chat>>
    /\ UNCHANGED <<index, scheduler, due, others>>

\* startBackground registers the monitor, and the dispatcher returns.
StartMonitor(d) ==
    /\ job[d].pc = "claimed"
    /\ IF quitting
       THEN /\ chat' = Stopped({d})
            /\ Job(d, "finishing", job[d].at, "stopped")
            /\ UNCHANGED due
       ELSE /\ Job(d, "watching", 0, "")
            /\ due' = IF due = d THEN None ELSE due
            /\ UNCHANGED chat
    /\ UNCHANGED <<files, scheduler, others, spent>>

-----------------------------------------------------------------------------
(* The monitor. *)

\* The monitor of a run whose row is gone or over stops the child.
LostRow(d) == Stopped({d})

\* monitorScheduledTaskRun, one tick: the child is read, then the two files.
\* A run is completed when the child's history holds any text of the model.
\* While the child is active the files are read once a second only.  The monitor
\* may still take the ticker when shutdown has begun.
Poll(d) ==
    /\ LockFree /\ job[d].pc = "watching"
    /\ \/ /\ NoFault /\ UNCHANGED disowned
          /\ \/ /\ task = NoTask \/ d \in RowIDs \ LiveRows
                /\ chat' = LostRow(d) /\ Done(d)
             \/ /\ task # NoTask /\ d \notin RowIDs
                /\ chat' = LostRow(d)
                /\ Job(d, "settling", clock, "error") /\ UNCHANGED due
             \/ /\ task # NoTask /\ d \in LiveRows /\ chat[d] \notin Active
                /\ \E verdict \in {"completed", "error"} : Job(d, "finishing", clock, verdict)
                /\ UNCHANGED <<chat, due>>
       \/ \* a file cannot be read
          /\ Fault /\ disowned' = disowned \union {d}
          /\ chat' = LostRow(d)
          /\ Job(d, "settling", clock, "error") /\ UNCHANGED due
    /\ UNCHANGED <<files, scheduler, source, deleter, reaping, quitting, clock>>

\* A cancelled monitor gives its run a verdict.
AfterCancel(d) == Job(d, "finishing", clock, "stopped") /\ UNCHANGED due

\* s.ctx is cancelled: shutdown ends every monitor.
MonitorCancelled(d) ==
    /\ job[d].pc = "watching" /\ quitting
    /\ AfterCancel(d)
    /\ UNCHANGED <<files, chat, scheduler, others, spent>>

\* finishScheduledTaskRun never overwrites a terminal row.
MayFinish(d) == d \in LiveRows

\* finishScheduledTaskRun.
Finish(d) ==
    /\ LockFree /\ job[d].pc = "finishing"
    /\ \/ /\ NoFault /\ MayFinish(d)
          /\ runs' = [runs EXCEPT ![d].status = job[d].verdict, ![d].end = clock]
          /\ job' = [job EXCEPT ![d].pc = "settling"]
          /\ UNCHANGED due
       \/ /\ NoFault /\ ~MayFinish(d) /\ d \in RowIDs
          /\ Done(d) /\ UNCHANGED runs
       \/ /\ \/ d \notin RowIDs /\ NoFault
             \/ Fault
          /\ job' = [job EXCEPT ![d].pc = "settling", ![d].verdict = "error"]
          /\ UNCHANGED <<runs, due>>
    /\ UNCHANGED <<task, recorded, chat, scheduler, others>>

\* updateScheduledTaskRunResult.
Settle(d) ==
    /\ LockFree /\ job[d].pc = "settling"
    /\ \/ NoFault /\ task' = CardAfterRun(task, d, job[d].at, job[d].verdict)
       \/ Fault /\ UNCHANGED task
    /\ Done(d)
    /\ UNCHANGED <<index, chat, scheduler, others>>

-----------------------------------------------------------------------------
(* The child chats. *)

ChatStep(d, from, to) ==
    /\ chat[d] \in from
    /\ chat' = [chat EXCEPT ![d] = to]
    /\ UNCHANGED <<files, job, scheduler, due, others, spent>>

\* The worker of the child leaves: queueWorker is false again.
TurnEnds(d) == ChatStep(d, {"working", "human"}, "ended")
StoppedTurnEnds(d) == ChatStep(d, {"stopping"}, "ended")

\* A person presses Stop in the child.
UserStop(d) == ChatStep(d, {"working"}, "stopping")

\* A person continues the child's chat once the run's turn is over.
HumanContinues(d) == d \in HumanChats /\ ~quitting /\ ChatStep(d, {"ended"}, "human")

\* reapEvictedScheduledRunSessions: deleteChatSession with no guard.  A dirty
\* worktree refuses, after the chat was stopped.
Reap(d) ==
    /\ d \in reaping
    /\ \/ chat' = [chat EXCEPT ![d] = "gone"] /\ UNCHANGED disowned
       \/ /\ chat[d] # "gone"
          /\ chat' = Stopped({d})
          /\ disowned' = disowned \union {d}
    /\ reaping' = reaping \ {d}
    /\ UNCHANGED <<files, job, scheduler, due, source, deleter, quitting,
                   clock, spent>>

-----------------------------------------------------------------------------
(* The life of the program. *)

Tick ==
    /\ clock < MaxClock
    /\ clock' = clock + 1
    /\ UNCHANGED <<files, chat, job, scheduler, due, source, deleter, reaping,
                   quitting, disowned, spent>>

\* shutdown: the gate of startBackground closes, and every turn is cancelled.
Shutdown ==
    /\ ~quitting /\ Spend("restart")
    /\ quitting' = TRUE
    /\ chat' = Stopped(Runs)
    /\ UNCHANGED <<files, job, scheduler, due, source, deleter, reaping, clock,
                   disowned>>

\* The program is gone, by a crash or at the end of a shutdown, and starts
\* again: the files, and the chats on disk, are all that is left.  The crash
\* may fall between the two writes of removeScheduledTaskRecords.
Restart ==
    /\ IF quitting THEN NoFault ELSE Spend("restart")
    /\ \/ UNCHANGED runs
       \/ DeleteCommits /\ runs' = Emptied
    /\ chat' = [d \in Runs |-> IF chat[d] \in Active THEN "ended" ELSE chat[d]]
    /\ job' = [d \in Runs |-> IF job[d].pc = "unused" THEN NoJob
                              ELSE [NoJob EXCEPT !.pc = "done"]]
    /\ scheduler' = "starting" /\ due' = None
    /\ deleter' = NoDeleter /\ reaping' = {} /\ quitting' = FALSE
    /\ UNCHANGED <<task, recorded, source, clock, disowned>>

\* Mutant: a verdict that scheduledTaskRunTerminal does not know.
Interrupted_Unknown == "interrupted"
Interrupted == "stopped"

\* reconcileInterruptedScheduledRuns, first half: no live row survives.
ReconcileRows ==
    /\ scheduler = "starting"
    /\ \/ /\ NoFault
          /\ runs' = [d \in Runs |->
                IF d \in LiveRows
                THEN [runs[d] EXCEPT !.status = Interrupted, !.end = clock]
                ELSE runs[d]]
          /\ disowned' = disowned \union LiveRows
          /\ scheduler' = "repairing"
       \/ /\ Fault /\ scheduler' = "loop"
          /\ UNCHANGED <<runs, disowned>>
    /\ UNCHANGED <<task, recorded, chat, job, due, source, deleter, reaping, quitting,
                   clock>>

\* Second half.
ReconcileCard ==
    /\ scheduler = "repairing"
    /\ \/ NoFault /\ task' = CardAfterRestart(task)
       \/ Fault /\ UNCHANGED task
    /\ scheduler' = "loop"
    /\ UNCHANGED <<index, chat, job, due, others>>

DispatchStep(d) ==
    \/ Refuse(d) \/ CreateChild(d) \/ Publish(d) \/ Discard(d)
    \/ ReportRefusal(d) \/ ClaimStart(d) \/ StartMonitor(d)
MonitorStep(d) == Poll(d) \/ MonitorCancelled(d) \/ Finish(d) \/ Settle(d)
DeleteStep ==
    \/ DeleteChanged \/ DeleteRecords \/ DeleteDone
    \/ \E d \in Runs : DeleteChild(d)
ReconcileStep == ReconcileRows \/ ReconcileCard

TaskNext ==
    \/ \E v \in 1..MaxVersions : Save(v)
    \/ DeletePreview \/ DeleteKeepingChats \/ DeleteSource \/ DeleteStep
    \/ \E d \in Runs :
        \/ RunNow(d) \/ DispatchDue(d) \/ DispatchStep(d) \/ MonitorStep(d)
        \/ TurnEnds(d) \/ StoppedTurnEnds(d) \/ UserStop(d)
        \/ HumanContinues(d) \/ Reap(d)
    \/ Tick \/ Shutdown \/ Restart
    \/ ReconcileStep

\* The goroutines run, and a turn that is cancelled ends.  Nothing is assumed
\* of a turn that goes on.
TaskFairness ==
    /\ WF_taskVars(ReconcileStep)
    /\ WF_taskVars(DeleteStep)
    /\ \A d \in Runs :
        /\ WF_taskVars(DispatchStep(d) \/ MonitorStep(d))
        /\ WF_taskVars(StoppedTurnEnds(d))

TaskSpec == TaskInit /\ [][TaskNext]_taskVars
TaskFairSpec == TaskSpec /\ TaskFairness

-----------------------------------------------------------------------------
(* Properties. *)

\* The files, the children and the goroutines have the shape the code gives them.
TaskTypeOK ==
    /\ task \in [version : 0..MaxVersions, lastAt : 0..MaxClock,
                 lastID : Runs \union {None},
                 lastStatus : Terminal \union LiveSummary \union {""}]
    /\ runs \in [Runs -> [at : 0..MaxClock, end : 0..MaxClock, born : Nat,
                          status : Terminal \union {"running", "none"}]]
    /\ recorded \in Nat
    /\ chat \in [Runs -> ChatStates]
    /\ job \in [Runs -> [pc : JobPhases, version : 0..MaxVersions, at : 0..MaxClock,
                         verdict : Terminal \union {""}]]
    /\ scheduler \in {"starting", "repairing", "loop"}
    /\ due \in Runs \union {None}
    /\ source \in BOOLEAN /\ quitting \in BOOLEAN
    /\ deleter \in [pc : {"none", "previewed", "finishing"}, data : BOOLEAN,
                    expected : SUBSET Runs, todo : SUBSET Runs]
    /\ reaping \subseteq Runs /\ disowned \subseteq Runs
    /\ clock \in 1..MaxClock
    /\ spent \subseteq Events

\* Two executions of one routine never work at the same time, however due
\* runs, manual runs, edits and retention interleave.  Excepted are runs whose
\* row was taken from their monitor: those are being stopped (OrphanStops).
NoOverlap ==
    Cardinality({d \in Runs : chat[d] = "working" /\ d \notin disowned}) <= 1

\* While a run that owns its row works, the card of its task says so under its
\* ID: no late callback and no failed dispatch takes the card away.
CardShowsRun ==
    \A d \in LiveRows : chat[d] = "working" /\ task # NoTask
        => task.lastID = d /\ task.lastStatus = "running"

\* Without failed writes, a card that says "running" or "dispatching" has
\* somebody who will replace it: after a restart that is the reconciliation.
SummarySettles ==
    /\ task.lastStatus = "running" /\ "fault" \notin spent /\ scheduler = "loop"
        => job[task.lastID].pc \in {"claimed", "watching", "finishing", "settling"}
    /\ task.lastStatus = "dispatching" /\ "fault" \notin spent /\ scheduler = "loop"
        => due # None

\* The card of a task tells what its runs do and is never left without an end.
CardIsRight == CardShowsRun /\ SummarySettles

\* Until the program stops or a write fails, every child chat is on record: it
\* has a row, or its dispatcher is about to publish it or to take it back, or
\* retention is about to reap it.  Excepted are the chats that a deletion
\* leaves to the user and those whose dirty worktree kept them.
NoStrayChild ==
    \A d \in Runs :
        /\ chat[d] \notin {"none", "gone"}
        /\ spent \subseteq {"save", "delete"} /\ ~quitting
        => \/ d \in RowIDs \union reaping \union disowned
           \/ job[d].pc \in {"created", "discarding"}

\* The card of a task, the rows of its runs and their child chats agree, in
\* three places that are written one after the other.
BooksAgree == CardIsRight /\ NoStrayChild

\* The first terminal verdict of a row stands, whoever else comes to settle it.
RowVerdictStands ==
    [][\A d \in OverRows : runs'[d] \in {runs[d], NoRow}]_taskVars

\* A child never starts for a task that was deleted, or edited since the
\* dispatch copied it.
StartsCurrent ==
    [][\A d \in Runs : chat[d] = "idle" /\ chat'[d] = "working"
        => task' # NoTask /\ task'.version = job[d].version]_taskVars

\* What is done for a task stays true to the task and to its rows.
RowsStayTrue == RowVerdictStands /\ StartsCurrent

\* Retention reaps a chat that is at rest; "DeleteChatSession refuses a session
\* that is still running" (reapEvictedScheduledRunSessions).
RetentionSparesWork ==
    [][\A d \in reaping \ reaping' : chat[d] \in Active => chat'[d] = chat[d]]_taskVars

\* A run that lost its row is stopped, however long its turn would last: by the
\* deletion that took the row, or by its monitor when that deletion gave up.
OrphanStops ==
    \A d \in Runs : (chat[d] = "working" /\ d \notin LiveRows) ~> chat[d] # "working"

\* Without failed writes every published row gets its verdict, once the turn
\* of its run is over.
RunSettles ==
    \A d \in Runs : (d \in LiveRows /\ chat[d] # "working") ~>
        d \notin LiveRows \/ chat[d] = "working" \/ "fault" \in spent

\* No run goes on without a record and no record without an end.
RunsAreSettled == OrphanStops /\ RunSettles
=============================================================================
