# Gokin Studio in TLA+

Gokin Studio is a desktop application (Go with a web frontend) in which a person
runs coding agents: a *project* is a directory, a *chat* is a conversation with
a model in that directory, a *turn* is one message and everything the model does
to answer it. Agents may hand work to agents of other projects, tasks may run on
a schedule, and everything is kept in files under the user's configuration
directory.

The modules here model the part of the program where mistakes are easy to make
and hard to test: who may run a turn, who owns delegated and scheduled work, whose
question is on the screen, which processes are still alive, and what is left on
disk when a stop, a clear, a failing write or a crash comes in between. All
paths below are relative to `src/internal/studio/`.

Contents: [1 inventory](#1-inventory) · [2 modules](#2-the-modules-and-the-code) ·
[3 runs and bounds](#3-what-is-model-checked) · [4 fairness](#4-fairness) ·
[5 proofs](#5-what-is-proved) · [6 disagreements](#6-where-the-code-and-its-promises-disagree) ·
[7 limits](#7-what-is-not-modelled) · [8 plan](#8-plan)

## 1 Inventory

### Parts, their state and their operations

| Part | State | Operations | What makes it correct |
|---|---|---|---|
| Hop guard (`delegation_guard.go`) | a stamp (depth, chain of projects) on every turn that an agent started | `nextDelegationStamp`, `delegationHopAllowed`; called by `session_agent send` and `delegate ask/run/batch` | no chain of hops outgrows the depth limit or returns to a project it has left; the stamp is the truth |
| Turn queue (`session.go`, `app.go`, `project.go`) | per chat: `queueWorker`, `queueHalt`, `queuedTurns`, `incomingDelegation`, `active`, `cancelFn`; per project: `artifactRestoreActive`; `backgroundClosing` | `startMessage`, `QueueMessage`, `RemoveQueuedMessage`, the worker goroutine, `Stop`, archive and unarchive, artifact restore, shutdown | one turn at a time, each under its own stamp; what was withdrawn never runs; a stopped chat becomes idle; nothing runs in an archived chat, under a restore or after shutdown |
| Delegated runs (`delegation.go`, `delegation_runs.go`) | registry `delegations` (memory), run rows (file), the child chat | start and publish, monitor, cancel, finish, storage failure, retention, reconciliation at start | one owner per target; a child at work is always watched; one verdict per run; slots come back |
| Fan-out (`delegation_batch.go`, `delegation_tool.go`) | reservations in the registry, the waiting goroutine, the synthesis turn | reserve, start or unwind, wait, synthesise | all or nothing; no reservation left behind; the synthesis reads only what ended; the wait ends |
| History and recovery (`history.go`, `replay.go`, `side_chat.go`, `project.go`, `app.go`) | `session.history`, the history file, the replay log, `historyEpoch`, usage | the turn's saves and log, `ClearHistory`, `EditUserMessage`, side questions, `DiscardRecoveryEvents`, loading | a message that is worked on is on disk; the file is never ahead of the memory; what was cleared stays cleared |
| Scheduled tasks (`scheduled_tasks.go`) | two files (tasks with their cards, runs), child chats, the dispatcher and monitor of each run, the scheduler's loop | save, delete with or without data, dispatch, manual run, claim, monitor, finish, retention, reconcile | one execution per task; the card belongs to the newest run; a verdict stands; no child without a row, no row without an end |
| Wake manager (`wake_manager.go`) | `wakeRuns`, `wakeEnabled`, the cached need of the schedule, the lease | `beginWakeRun` and its end, `setWakeEnabled`, `refreshScheduledWakeNeed`, `reconcileWakeLocked` | the machine stays awake exactly while something needs it |
| Questions and approvals (`ask_user.go`, `approval_targets.go`, `tool_permissions.go`) | registry of open questions, one gate with a count and a token per chat, the cards | `acquireRoute`, `releaseRoute`, `register`, `resolve`, `cleanup`, `waitForUserAnswer` | one card per chat; an answer reaches the question it was given for; the gate is always given back |
| Background shells (`../engine/tasks`) | a verdict, the processes of its command, a log and an observer per task; the manager's start gate | start, run, cancel, clean up, close | the first verdict stands; a close that returned is a barrier for shells, output and observers; a cancelled task ends |
| Project registry (`config.go`, `archived_projects.go`, `app.go`) | active and archived projects in memory, `config.yaml`, `archived-projects.json` | add, edit, archive, restore, remove, new defaults, the saves of turns, start with or without a readable file | a start finds the projects before or after the interrupted operation and forgets none |
| Backup and restore (`data_archive.go`, `auto_backup.go`, `backup_management.go`, `cleanup.go`) | the live configuration directory and the snapshots beside it | restore, import, rollback, delete, clean up | a restore happens as a whole or not at all; no tree is lost |
| Worktrees (`session_worktree.go`) | per chat: checkout, branch, record, the fields `Worktree*` of the session | provision, validate, status, remove; called by creation, deletion, pruning and every turn | a chat with a checkout never works in the shared directory; commits are not dropped with the chat |
| Life cycle (`app.go`, `safego.go`, `quit_guard.go`) | `backgroundClosing`, wait group, open projects | start, shutdown, quit guard, project and chat deletion | no goroutine starts once shutdown has begun |
| Chat archives and messages (`session_archives.go`, `session_agent.go`) | `ArchivedAt` of chats | archive, restore, messages between chats | the last chat of a project is not archived, a busy one neither |
| Artifact versions (`artifact_versions.go`) | version store by count and bytes | record, list, restore | a restore is atomic towards turns |
| Agent loop (`project.go`, `stagnation.go`, `permission_policy.go`, `../engine/client`) | the transcript (`session.history`), the request in flight, the calls of the latest answer, the consents of the turn, counters | ask the model, compact, recover from an overflow, sanitize, run tools with approvals, send results, nudge, end; Stop, clear and edit from outside | a request pairs every call with its result; results stand behind their calls; a refusal stands for its turn; Stop ends the turn |
| Tools and providers (`../engine/tools`, `../engine/client`) | one execution, one stream | execute, stream, retry, fall back | limits hold; what was shown is not asked for again |
| Stores (`drafts.go`, `pins.go`, `groups.go`, ...) | one JSON file each | whole-file read and write under a lock | atomic replacement |
| MCP, plugins, previews, browsers, git, desktop integration, diagnostics, frontend | external processes, windows, protocols | | |

`PROJECT.json` lists every part with its files, and every hazard at the line
where it bites.

### How the parts meet

* A turn is started by a person, by `session_agent send`, by a delegation or by
  the scheduler. All of them end in `startMessage` or
  `queueMessageWithDelegation`, so the **turn queue** is under everything.
* A **delegated run** is a turn in a child chat of another project. Its monitor
  polls the child's `active || queueWorker` every tick; cancelling stops the
  child through the same `Stop` a person presses.
* `Stop`, `ClearHistory`, chat deletion and project deletion cancel the runs
  that the chat has started.
* A **fan-out** is several delegated runs, a goroutine that waits for them, and
  a synthesis turn that goes back through `QueueMessage` into the caller's chat.
* The **worker** writes the history file and the replay log; `ClearHistory`,
  edits and side questions write the same file from the frontend's goroutines.
* A **scheduled run** is a turn in a child chat too; its dispatcher publishes the
  row and starts the turn, its monitor polls it like that of a delegated run.
  Every change of the tasks or of the archived projects refreshes the need of
  the **wake manager**, and every turn counts in it.
* A turn is run by the **agent loop**, which makes each request from the same
  `session.history` that `ClearHistory` and edits change.
* A turn's tools ask a person through the gate of their chat (**questions**) and
  start **background shells** in the manager of the project or, when the chat
  has a **worktree**, of the chat. Deleting the chat stops the turn, deletes the
  history, closes that manager, and then removes checkout, branch and record.
* The files of all parts live in the **configuration directory** that a restore
  or an import exchanges; `config.yaml` and `archived-projects.json` in it are
  the **project registry**.

### What is hard

Every one of these parts is a handful of goroutines that hold a lock, look, let
go, do something slow (git, provider, disk), and come back. The hard questions
are what has changed meanwhile, what a crash between two files leaves behind,
and who is left responsible when a write fails. Locks in question: `metadataMu`,
`p.mu`, `session.mu`, `delegationMu`, `delegationRunsMu`, and the lock of each
file.

## 2 The modules and the code

One action is one critical section of the code (or one access to a file),
because that is the grain at which goroutines interleave. Definitions keep the
names of the source where TLA+ allows it; `PROJECT.json` (`map`) names the lines
of every definition. Operators whose name ends in `_Something` and that are not
used are plausible slips of the operator that follows them: putting one in its
place makes TLC find the property that guards against it (`mutants`).

### DelegationChain: the hop guard

State: the set of running turns, each with its project, whether its chat is a
child, its `stamp` (what the guard reads) and its `path` (what really happened;
no guard reads it). Actions: `HumanTurn`, `Send`, `Delegate`, `Batch`,
`Synthesis`, `EndTurn`. `NextStamp` and `HopAllowed` are
`nextDelegationStamp` and `delegationHopAllowed`, with the seeding of the chain
by the origin, the same-project rule and the defensive trim.

### ChatQueue: one chat and its worker

State: the session's fields, the gate of the program (`closing`), the worker's
position (`worker`), its message (`turn`) and the stamp its turn runs under;
`status` is auxiliary. Submission (`Claim`, `Spawn`, `Enqueue`, `Remove`), the
worker (`EnterTurn`, `RefuseTurn`, `BeginTurn`, `EndTurn`, `NextTurn`, `Leave`)
and what lands in between (`StopGeneration`, `Archive`, `Unarchive`,
`BeginRestore`, `EndRestore`, `BeginShutdown`, `ShutdownStop`). A message is
abstracted to its identity, its stamp to the message it came with. The worker's
last look at the queue (`NextTurn`) and the release of its claim (`Leave`) are
two critical sections in the code and two actions here.

### Delegation and DelegationContract: delegated runs

State: `registry` and `row` (the two places that know of a run), `child` (the
turn that works), `pc`/`verdict` (the goroutine that starts and then monitors
the run), `cpc`/`crun`/`clive`/`cwon` (goroutines that cancel), `closing`, and
`told`, the events the frontend got.

* Starting: `Reserve`, `ReleaseReservation`, `Publish` (slot, row and child in
  one critical section), `SpawnMonitor`.
* The monitor's round: `Tick` (still owner?), `Look` (child at work?), `Load`
  (row, deadline), `Progress`; then `Finalize`, `TellVerdict`, `Exit`.
* Failing storage: `TakeOwner`, `HaltFailed`, `TellFailed`; `CancelTakeOwner`
  and so on for a cancellation.
* Cancelling: `CancelBegin`, `CancelFinish`, `CancelStop`, `CancelRelease`,
  `CancelTell`.
* `BeginShutdown`, `ShutdownStop`, `Restart` (the process may die anywhere;
  `reconcileInterruptedDelegationRuns` ends the live rows).

`DelegationContract` is the abstract specification of one run as the frontend
sees it: published once, ended once, told of at most once and never of another
verdict than the file's. `Delegation` implements it
(`Contract == INSTANCE DelegationContract WITH status <- row`), as long as the
file works and retention drops nothing.

### DelegationBatch: a fan-out, composed with Delegation

Extends `Delegation` with the goroutine of the tool call (`ReserveBatch`,
`StartMember`, `SpawnMember`, `RefuseMember`, `MemberFailed`, `UnwindMember`,
`Unwound`, `Schedule`, `CleanupMember`, `Return`), the waiting goroutine
(`ReadMember`, `AskOwner`, `QueueSynthesis`) and the caller's chat. Every step
that changes a run is conjoined with the action of `Delegation` that does it, so
the members are subject to everything that may happen to a run. The caller's
unwinding is one of Delegation's cancelling goroutines (`Unwinder`).

### ChatHistory: memory, file and replay log of one chat

State: `mem`, `file` (with its usage, `billed`), `log`, the worker (`turn`,
`phase`, `ctx`), `halt`, `epoch`, `clear` (how far `ClearHistory` has come),
`side` (a side question), `cost`. The worker's actions follow `sendMessage` from
`OpenLog` over the early save and the request loop to `Decide`, `DropLog`,
`FinalSave` and `Leave`. `ClearHistory` is five actions, because it deletes the
file, empties the memory and removes the log under different locks. Every write
may fail, and `HistoryRestart` may happen anywhere. An entry is the turn it belongs to
and who said it; entries without text are left out because `saveHistoryFull`
leaves them out. `doomed`, `wiped`, `revived`, `clears` and `failed` are
auxiliary.

### ScheduledTasks: one scheduled task and its runs

State: `task` (its version and its card) and `runs` (the row of each run, or
none), which are two files under one lock; `recorded` counts the rows there have
been, because the code keeps rows of the same millisecond in the order in which
they were appended (`born`); `chat` (the child of each run); `job` (the goroutine that
dispatches and then monitors a run); the loop (`scheduler`, `due`), a deletion
(`deleter`), the children that retention is about to delete (`reaping`); and
`source`, the chat the task was made in. Dispatch is `DispatchDue` or `RunNow`,
then `Refuse` (with "error", or "stopped" for an archived project) or `CreateChild`, `Publish`, `ClaimStart`, `StartMonitor`; the
monitor is `Poll` (also after shutdown has begun, as a `select` takes either of
two ready channels), `Finish`, `Settle`; a refused or failed dispatch is
`Discard`, `ReportRefusal`. `DeletePreview`, `DeleteChanged`, `DeleteRecords`,
`DeleteChild`, `DeleteDone`, `DeleteSource` and `DeleteKeepingChats` are the
three ways a task goes. `Restart` may come anywhere, and the reconciliation that
follows (`ReconcileRows`, `ReconcileCard`) is two writes. `Reap` deletes an
evicted child. `disowned` (auxiliary) are the runs whose row was taken from
their monitor; `spent` bounds edits, deletions, restarts and failed writes:
those in `Repeated` may come any number of times.

### AgentTurn: the agent loop of one chat

State: `transcript` (`session.history`), the number of the latest `prompt`, the
`stage` of the goroutine and the `life` of its context, `emptying` (a clear has
stopped the turn and not yet emptied the chat); of the request in flight what
was `sent` and how it was shortened (`squeezed`); of the latest `answer` the
calls without an outcome (`todo`), those with one (`outcomes`, `pictures`) and
the permission of the call at hand (`using`); the `consent` of the turn and the
counters. `turnedDown` and `ran` are auxiliary.

* Asking: `TakePrompt`, `OpenRound`, `SendResults` snapshot the transcript
  (`Snapshot`, shortened by `Compactions` when it is too long); `Overflow` is the
  retry with an `Emergencies` history, `ProviderFails` the end; `Hear`,
  `AppendResults` and `RecordReply` take an answer. `Payload` is what a provider
  gets: sanitized, without what reads like a system prompt (`SkipFirst`),
  followed by the message or the results, and joined by role.
* Tools: `RefuseCall`, `Permit`, `AskPerson`, `PersonAllows`, `Declined`,
  `PersonConfirms`, `QuestionEnds`, `Execute`, `ToolReturns`, `LoopGuard` (a
  warning, then the end of the turn).
* After words: `Nudge` (a truncated answer, an unseen preview, an unfinished
  list) or `EndLoop`; `GiveUp` when the context is over or the rounds are used up.
* In between: `StopOrExpire`, `ClearStops`, `ClearEmpties`, `CutTranscript`
  (an edit).

An entry is who put it there, the calls and results in it, and whether it holds
anything else. Sizes are left out: any history that a compaction could produce,
it may produce. Call IDs are fresh, and retries of a request that has shown
nothing yet are part of that request.

### AskUser: questions and the gate of a chat

State: `routes` (the gates that are listed), `refs` and `token` of each gate,
the position of every call (`asker`), the registry (`pending`), the channel of
each waiting call (`box`), replies on their way and the cards that are shown. A
call is `Join` or `TurnedAway`, `TakeToken`, `Recheck`, `Register`, `ShowCard`,
`Receive`, `Cleanup`, `CloseCard`, `Release`, `ReturnToken`, or `Abandon` when
its context ends in the queue; the person is `Resolve` and `Deliver`;
`EndContext` may come at any time. A gate is named after the call that made it,
so that a new gate of the same chat is another object, as in the code. A new
ID is one that is not registered.

### WakeManager: the sleep of the machine

State: the truth about the tasks (`timed`) and the archive (`shelved`), the
setting, `wakeRuns`, the cached need, the lease and its error, and the callers.
A refresh is four actions (`ReadTasks`, `LookUpArchive`, `StoreNeed`,
`Reconcile`), as the code takes a different lock for each; an acquisition may
fail. `stale` (auxiliary) says that refreshes overlapped.

### ConfigRestore: the exchange of the configuration directory

State: where every directory tree is (`place`: none, staging, live, listed,
deleted), its age (`old`), whether it bears the name of a claim (`renamed`), and
the operation (`op`). A restore is `ClaimBackup`, `CheckTree`, `MoveAside`,
`Promote`; an import begins with `Extract`; what fails goes through `Rollback`
and `Return`. `SaveMakesDir` is any save of the program that finds the directory
missing. `DeleteBackup`, `CleanupSnapshots`, `Expire` remove snapshots;
`CrashAndStart` may come anywhere. `before`, `disturbed` and `released` are
auxiliary: what the operation found, whether something else interfered, and
which trees the user or the retention gave up.

### TaskManager: background shells

State: the verdict of each task, the step of its goroutine (`runner`), what runs
of its command (`living`: the shell, descendants that hold its output, quiet
ones that have redirected theirs, as `server >log 2>&1 &` does), its log, its context and the watcher of that context, the goroutine that cancels it, the
observer, and a call of `Close`. `Task.run` is `Launched`, `LaunchFails` or
`Refused`, `RunKills`, `ShellReaped`, `Drained`, `Settled`; a cancellation is
`CancelBegins`, `CancelContext`, `CancelKills`, each without the lock of the
other side; `Close` is `CloseBegins`, `CloseCancels`, `CloseWaits`,
`CloseReturns` or `CloseTimesOut`. A shell may exit and leave descendants of
both kinds; they end one by one (`DescendantEnds`) or never. `Wait` returns when
nobody holds the output (`Drained`), whatever quiet ones go on, and then a
cancellation finds a task that is over and kills nothing. `Kill` is
`killProcessGroup`: of a command in `Reached` it leaves nothing; of another it
leaves any descendants while the shell runs and every one when the shell has
gone (`Survivors`). On Unix the first are the commands that stay in their process
group; on Windows, where `taskkill` follows the tree of a live process, no
command is in `Reached`.

### ProjectRegistry: config.yaml and archived-projects.json

State: the two books in memory (`live`, `shelf`) and on disk (`confFile`,
`archFile`), the copies that were set aside, the operation of the caller that
holds the studio lock (`regOp`) and the save of a turn (`saver`). A book gives
each project a version of its settings or `Absent`. Operations (`AddProject`,
`EditProject`, `RemoveProject`, `ArchiveProject`, `RestoreProject`,
`SaveConfig`) prepare the books they want; `FirstWrite`, `SecondWrite`,
`TakeBack` and their failures write them; `PublishBooks` makes them visible.
`ApplyDefaults` does it the other way round: every project has its new provider
and model in memory before the save, whose error is only logged. `saved`
(auxiliary) is what the last complete save has left of the active projects.
`AsyncSnapshot` and `AsyncWrite` are the save of a turn, which takes the list of
projects and the lock of the files in two steps. `StartReadable` and
`StartUnreadable` are the next start of the program after a death at any point.

### SessionWorktree: one chat and its checkout

State: what is on disk (`history`, `record`, `tree`, `branch`, `dirty`,
`ahead`), the chat in memory (`open`, `used`, `path`, `wtError`, `manager`), a
background `shell`, a process that a command has left behind with its output
redirected or that has outlived the program (`stray`), the turn (`agent`) and the
creation or removal under way (`chore`). Creation: `AddTree`, `NoteTree`, `ListChat`, `OpenChat`. A turn:
`EnterAgent`, `Arm` (`registryForSession`), `KeepMessage`, `CallTool`,
`ToolChanges`, `ToolStartsShell`, `ToolEnds`, `EndAgent`. Deletion and pruning:
`BeginDelete`, `DeleteHistory`, `BeginPrune`, then `removeSessionWorktreeAt` as
`FirstLook`, `CloseShells`, `SecondLook`, `RemoveTree`, `DropBranch`,
`RemoveRecord`, `ForgetChat`. Whatever ends in the checkout, by itself or by
`CloseShells`, may leave a stray process (`MayLeave`), which edits and commits
(`StrayChanges`) until it ends, if it ever does. `Damage` is what somebody does to the checkout or
the record from outside, `StartAgain` a restart at any point. `given`, `removal`
and `lateCommit` are auxiliary.

### MC modules

`MCDelegation`, `MCDelegationBatch`, `MCChatHistory`, `MCChatQueue` and
`MCScheduledTasks` give the constants of one module values that a `.cfg` cannot
express; all but the first serve a counterexample of section 6. `MCRoutines`,
`MCChat`, `MCSafety` and `MCFanOut` check several modules in one run: the modules
share no state, so a variable `part` chooses in the initial state which of them
a behaviour is about, and the others rest in their initial states. Nothing is
lost by this and nothing is gained beyond fewer runs: the state space is the
disjoint union of those of the parts. These four runs set `CHECK_DEADLOCK FALSE`
because every part may really stop: all messages handled, all callers done, the
bounded events used up; so does `scheduled_reap`, whose two runs end. The other
modules say where they may stop.

## 3 What is model-checked

| Run | Instance | Shows |
|---|---|---|
| `chain` | `MCRoutines`, see below | `GuardHolds`; `NoOverlap`, `BooksAgree`, `RowsStayTrue`; `QuestionsStand`; `RestoreIsAtomic`; `TeardownIsSafe`, `VerdictStands`; `RegistryIsDurable`; all their types (`RoutinesTypeOK`) |
| `queue` | `MCChat`, see below | `TurnHasItsStamp`, `TurnsAreVisible`, `EndIsFinal`; `WakeFollowsTasks`; `FailsClosed`, `CommitsStay`; with fairness `TurnsSettle` and `PartsSettle`; all their types (`ChatTypeOK`) |
| `delegation` | 2 runs for one target (one an `ask` with a deadline), 1 canceller, working file, restarts | `OneOwnerPerTarget`, `RunningIsOwned`, `ContractHolds`; with fairness `RunEnds` |
| `delegation_faults` | 2 runs for two targets, a file of one row, every access may fail | `NoOrphan`, `RowsAreKept`; with fairness `SlotFreed` |
| `safety` | `MCSafety`: history (2 turns, 3 entries, 1 clear, failing writes, restarts, a side question, edits); agent loop (2 prompts, 2 calls); a fan-out to 2 projects with a foreign canceller and a working file | `UserTurnSurvives`, `FileFollowsMemory`, `LeftoversStayGone`, `NoStaleSave`; `RequestsAreWellFormed`, `TranscriptIsCausal`, `DenialStands`; `NoHalfBatch`; the types of history and loop (`ChatTypesOK`) |
| `fanout` | `MCFanOut`: the fan-out with a file whose every access may fail, without the foreign canceller; agent loop (1 prompt, 2 calls) with computer use, truncated answers and nudges | `NoSlotLeft`, `SynthesisOfEnded`, `BatchTypeOK`; with fairness `WaiterEnds`, `StopEndsTurn` |
| `queue_idle`, `delegation_exclusive`, `batch_wait`, `history_cleared`, `scheduled_reap`, `agent_persona` | small instances | counterexamples, section 6 |

What the properties say, in one line each (the modules have the exact form):

* `GuardHolds`: stamps are the true history of their chain, no chain outgrows the
  limit, none returns to a project it has left.
* `NoOverlap`: one execution of a task at a time. `BooksAgree` is two things.
  `CardIsRight`: while a run works the card shows it (`CardShowsRun`), and a
  card that says "running" or "dispatching" has somebody who will replace it
  (`SummarySettles`). `NoStrayChild`: every child chat has a row or somebody
  about to give it one or to take it away. `RowsStayTrue`: the first verdict of
  a row stands (`RowVerdictStands`), and a child starts only for the task as it
  is now (`StartsCurrent`). `PartsSettle` holds what four parts owe at last; for
  the tasks it is `RunsAreSettled`: a run without a row is stopped
  (`OrphanStops`), a row gets its verdict (`RunSettles`).
* `QuestionsStand`: one card per chat, and every card can be answered.
  `AskSettles`: only a card that waits for the person holds up a queue, and a
  call whose context ended leaves and takes its card along.
* `WakeFollowsTasks`: the lease is held exactly when it is wanted, and refreshes
  that did not overlap leave the truth in the cache. `DisabledReleases`: with
  the setting off, the machine may sleep at last.
* `RestoreIsAtomic`: no tree of the user is lost, whatever fails or crashes
  (`NothingLost`); a restore that fails once leaves everything as it was
  (`FailureUndoes`); one that succeeds keeps what was live
  (`SuccessIsReversible`).
* `TeardownIsSafe`: a `Close` that returned leaves no shell, nobody who holds its
  output, no open log and no observer behind; what a cancelled command in `Reached`
  has left is dead too, unless the kill of another canceller is on its way.
  `Cleanup` removes no log under its writer. `VerdictStands`: the first verdict of
  a task stands. `CancelledEnds`: a cancelled task in `Reached` ends, whenever the
  cancellation met its start. (Elsewhere it need not: a descendant that no kill
  reaches may hold the output for ever.)
* `RegistryIsDurable`: a start after a death at any point finds the projects and
  settings before or after the interrupted operation, or, when new defaults have
  not reached the file, as the last save has left them (`StartsBeforeOrAfter`);
  nothing but new defaults makes memory run ahead of the last save
  (`OnlyDefaultsLag`); one that cannot read `config.yaml` loses no project (`UnreadableLosesNothing`);
  even a failed rollback makes no project disappear (`NothingForgotten`).
* `FailsClosed`: no tool of a chat that was given a checkout works in the shared
  directory of the project. `CommitsStay`: removing a chat drops no branch that
  has commits, unless a tool that was told to stop, or a process that a command
  has left behind, commits after the last look.
* `TurnsAreVisible`: nothing runs in an archived chat or under an artifact
  restore. `EndIsFinal`: what Stop, Remove and shutdown took back never runs.
  `TurnsSettle`: a stopped chat becomes idle, a queued follow-up is not left.
* `RequestsAreWellFormed`: in every request the roles alternate and each call is
  answered by the message behind it, after any Stop, failure, compaction, edit
  or clear (only one that was shortened twice may break this, see section 6).
  `TranscriptIsCausal`: results stand directly behind their calls
  (`ResultsFollowCalls`), and a turn that goes on has recorded all that ran
  (`RunsAreRecorded`). `DenialStands`: what a person turned down is not run later
  in the turn. `StopEndsTurn`: a stopped turn ends, also with a question open.
* `NoHalfBatch`, `NoSlotLeft`: a fan-out that was refused leaves no member
  running, one that has returned no reservation it does not use.
  `SynthesisOfEnded`: the synthesis reads only members that ended. `WaiterEnds`:
  the wait for them ends.
* `RowsAreKept`: verdicts of delegated runs stand, live rows are kept.
  `LeftoversStayGone`: neither the log nor the bill of a cleared turn comes back.

Why the bounds are enough for the interesting cases:

* **chain, hop guard.** 3 projects, limit 2, at most 4 turns and pending
  fan-outs. A loop needs two projects and a limit of two hops; a third project
  makes loops that are longer than a hand-over and chains that are cut by the
  trim. Turns of a chain do not influence each other except through their
  parent. The theorems of section 5 lift all bounds.
* **chain, scheduled task.** 2 runs, 2 versions of the task, one row kept, 2
  instants, and at most two of save, delete, restart and a failed write in one
  behaviour, of which restarts and failed writes may repeat (`MaxEvents`,
  `Repeated`; `FewEvents` lets the second come at the first instant
  only and the clock wait for it, and a person continue a chat only if nothing
  else has happened). All conflicts are between two runs, or one
  run and one edit, deletion or crash; two events allow a failed write and a
  crash, or an edit and a deletion. One kept row makes retention choose.
* **chain, questions.** 3 calls in 2 chats with 2 IDs: one holds a gate, one
  queues at it, and a third finds the gate being dropped or stands at another.
  Calls are alike, so they begin in one order and the first in the first chat
  (`CallsInOrder`).
* **chain, restore.** The live tree, one backup, one archive and one tree that a
  save makes: everything the exchange can confuse.
* **chain, shells.** 2 shells: one that a teardown waits for and one it has
  already seen; a kill reaches the first whole and the second not (`MCReached`).
  Only the first may be without a log (`FewLogs`): without one, the goroutine has
  fewer steps.
* **chain, registry.** 3 projects, 3 versions of settings, a limit of 2
  projects, 3 mishaps (failed writes, deaths). Two mishaps are a failed write
  and its failed rollback; the third is the death after it. Three versions are
  what the file has, the new defaults that have not reached it, and an edit after
  them.
* **queue, turns.** Two follow-ups fill the queue, and a third message finds it
  full; the mixture of stamped and unstamped messages is what a wrong stamp
  needs.
* **queue, the rest.** 2 calls at the gates; 2 callers of the wake manager and 2
  turns; 2 scheduled runs with one deletion or restart; 1 shell; a checkout with
  1 commit and 3 troubles (a failed step, a damage, a restart).
* **delegation.** All conflicts are between two runs (for the slot or for the
  file) and between a run and one cancellation. `MaxRows = 1` makes retention
  choose at the second row, with the first one live or not.
* **fan-out.** Two members is the smallest fan-out that gets a synthesis, and has
  a first and a last member. Foreign cancellations and failing files are
  explored in different runs because both together exceed what can be explored
  in minutes; the foreign canceller goes for the first member, which is the one
  that works while the second is refused.
* **history.** The old turn and the one that follows it, one clear between
  them: every pair of a stale writer and a clear. Three entries are a message,
  its answer and the next message.
* **agent loop.** Two prompts, so that what an interrupted turn leaves meets a
  request of the next; two calls, together or one after the other; two rounds,
  so that a nudge follows; one recovery, and `KeepRecent = 1` so that a compaction
  has something to drop in a transcript of a few entries. The theorems of section
  5 lift all of these.

`Delegation` numbers the appends of rows (`born`) where the code has a time
stamp; `epoch` and `clears` are bounded by `MaxClears`. No run uses symmetry,
because most of them check liveness or distinguish their model values.

## 4 Fairness

* `ChatQueue` (`QueueFairness`): weak fairness of the worker's next step.
  Goroutines are scheduled; a turn is bounded by its 30-minute context
  (`project.go:1262`), so `EndTurn` is not optional. The goroutine that closed
  the gate also stops the sessions. Nothing is assumed of people: no fairness
  for Stop, Remove, archive or messages.
* `Delegation`: weak fairness of each run's own goroutine, of each cancellation
  under way, and of the end of the child's turn (the same 30-minute ceiling). A
  start that was not published (`Publish`), a new cancellation, the shutdown and
  a restart are never forced.
* `DelegationBatch`: in addition the goroutine of the tool call, once it has
  begun, and the waiting goroutine.
* `AgentTurn` (`AgentFairness`): the goroutine of the turn goes on. Providers
  answer or fail and tools return, because each runs under the context of the
  turn; the person need not answer.
* `AskUser` (`AskFairness`): a call goes on where it need not wait, and a reply
  that was taken from the registry is delivered. Nothing is assumed of the
  person or of contexts: a card may wait for ever.
* `WakeManager` (`WakeFairness`): a caller that has begun goes on.
* `ScheduledTasks` (`TaskFairness`): the dispatcher and the monitor of a run,
  the reconciliation after a start, and a deletion under way go on; a turn that
  was stopped ends. Of turns that were not stopped nothing is assumed: they may
  work for ever.
* `TaskManager` (`ProcFairness`): the goroutine of a task goes on, the watcher of
  an ended context kills, and a cancellation goes on. No command and no descendant
  ends by itself, which is why `CancelledEnds` speaks of commands that a kill
  reaches whole.
* `ChatHistory`, `ConfigRestore`, `ProjectRegistry`, `SessionWorktree` and
  `DelegationChain` claim safety only: each of their operations is a call that
  may be cut off at any step by the death of the program.

Where the file may fail, the failing disjunct stays possible for ever; `SlotFreed`
and `WaiterEnds` hold although the file may never work again.

## 5 What is proved

All theorems hold for any values of the constants that satisfy the named
assumptions (`DepthAssumption`, `MessagesAssumption`, `DelegationAssumption`,
`AskAssumption` and so on), which only say that limits are natural numbers (that
of kept rows positive), that delegated messages are messages, that targets are
projects, that the sets the code enumerates are finite, and that the null values
are not members.

**DelegationChainProofs.** `IInv` says of each turn (`TurnOK`) that its stamp's
depth is the number of hops of its path and within the limit, that its chain
ends in its own project, holds exactly the projects of the path, and is at most
one longer than its depth. The last conjunct is the heart (`NextChainOK`): a
hop the guard allows never makes the trim cut anything. From it: `TypeCorrect`,
`StampIsHistory`, `DepthIsBounded`, `NoLoop`, together `GuardIsRight`.

**ChatQueueProofs.** `IInv == TypeOK /\ ClaimOK /\ StampOK /\ HaltOK`.
`ClaimOK`: the claim, the worker's position and the active flag go together.
`StampOK`: between the claim (or the pop) and the head of `sendMessage`,
`incoming` is the stamp of exactly the message about to run; this is what makes
the session-wide field safe. `HaltOK`: whatever was withdrawn or happens after
the sessions were stopped finds `queueHalt` still set. From it: `TypeCorrect`,
`TurnStamp`, `VisibleAlways`, `EndsAreFinal`.

**DelegationProofs.** `NoOrphan` is not inductive: a step of a monitor may end
its watch because of a row that somebody else ended. `IInv` adds `CancelOK` (a
cancellation that gives the slot back has stopped the child), `Quiet` (an owner
that ends a row has no child at work), `Ended` (a child whose row has ended is
about to be stopped), `Fresh` and `TellOK`. From it, with failing storage
included: `TypeCorrect`, `NoOrphanAlways`, `RowsAlwaysKept`, and, by induction
on the registry alone, `SlotsExclusive`. Two of these theorems assume that the
run file works (`~StoreMayFail`). `RunsAreOwned` rests on `OwnedInv`: whoever
may give a slot back is past the end of the row (`OwnerPast`, `CancelPast`).
`ContractKept`, which also assumes room for every row, is the refinement of
`DelegationContract`: a started run has a row and the paths of a failed file are
not taken (`RowsThere`), and whoever ended the row is the only one to tell of it
and has not told yet (`TellersInv`); each step is then, for every run, a
publication, an end, an event or nothing.

The second half of the module is about `DelegationBatch`, for any number of
targets. `FanOutIsDelegation`: each step of the composition is a step of
`Delegation` or leaves it alone, so all of the above holds of the members. On
top of it, `StartInv` says how far the members' goroutines are while the caller
goes from one to the next (those before `at` have started, those after it have
not, the one at `at` is where the caller's own step says). `NoSlotIsLeft`: the
deferred release passes every member (`SlotsInv`), and nobody but a fan-out
reserves. `SynthesisComplete`: what the wait has seen to be over stays over
(`WaitInv`, `MemberOver`), because only `StartMember` makes a member's row live
and it is done with all of them. `NothingHalfDone`, with a file that works:
members before `at` are ended or the unwinding's own cancellation is about to
end them, members that were not begun have no live row (`HalfInv`); it needs
that a reserved slot belongs to a run that has not started (`HeldNew`), since a
cancellation of a reserved slot ends no row.

**ChatProofs.** The first part is about `ChatHistory`, for any number of turns,
entries and clears, with failing writes. What the runs check there is nearly
inductive; `HInv` adds that a clear that has stopped the worker finds it
stopped (`StoppedOK`), that the number of a turn is new until its message is
appended (`FreshOK`), that a turn that was not cancelled has its message in
memory (`AskedOK`), that the memory holds no message of a cleared turn and the
log is not one's (`ClearedOK`), and that an unchanged epoch means that no clear
has emptied the chat since (`SideOK`). From it: `MessageSurvives`,
`FileIsPrefix`, `LeftoversAreGone`, `SavesAreFresh`. The lemmas under it say what
`Append`, a cut and a prefix do to the turns of a history.

The second part is about `AskUser`. `AInv` counts: a gate's count is the number
of the calls at it (`CountOK`), a counted call finds its own gate listed
(`GateOK`), a gate serves one chat and is not there before its creator
(`GateIsNew`), its token is in the channel or with exactly one call (`TokenOK`);
a card belongs to a call that waits or leaves (`CardOK`), and a waiting question
keeps its ID until somebody replies (`IDOK`). From it: `OneCardPerChat`,
`GatesAreRight`, `QuestionsAreReachable`, together `QuestionsAlwaysStand`.

The third part is about `AgentTurn`, for any number of messages, calls, rounds,
recoveries and nudges. `TranscriptIsCausal` is not inductive: `LoopInv` adds that
the calls of the latest answer are those with and those without an outcome until
their results are in the transcript (`CallsOK`), that whatever ran is recorded or
on its way there (`RanOK`), what each stage knows of the calls and of the context
(`BusyOK`), and that a refusal is on record, so that neither a consent nor a
question asked before it lets the tool run (`ConsentOK`). From it:
`AgentTypeCorrect`, `TranscriptAlwaysCausal`, `DenialAlwaysStands`.

`RequestsAlwaysWellFormed` is about what a provider gets of such a transcript, of
any length. `PairInv` (`PairInvariant`, which needs `LoopInv`) says three things:

* The transcript is paired (`Paired`): an answer holds no results and a message no
  calls, a call and its result stand in one content each, and results stand
  directly behind their calls unless these are gone. Cuts, compactions and
  hints keep this (`CutPaired`, `CompactionsPaired`, `HintPaired`), and so do appended
  answers and results (`AddPaired`), because
* the IDs of a new answer are fresh and results that are on their way are not yet
  on record (`IdsOK`).
* What was sent is paired too, and a request that brings results ends in their
  calls, or in these and a hint, unless it was shortened twice (`SentOK`).

Of a paired history the sanitizer leaves a straight one, where every content has
exactly the results of the calls before it and only the pending ones stay open
(`CleanIsStraight`, `SanitizedIsStraight`); a hint behind the open calls joins the
results. Joining keeps that and makes the roles alternate (`JoinSettled`,
`RequestIs`). What the two recursive functions compute is told by the lemma
`Recursion`: a function with the recursive equation exists at every length, by an
induction that rests on the least number of a set (`Induction`, `LeastIs`). The
theorem assumes `~Persona`, as the run `safety` does: with a first message that is
taken for a system prompt the property is false (see `agent_persona` in section 6).

**RoutinesProofs.** The first half is about `WakeManager`. `WInv` adds to the
types and to what is claimed of the lease that at most one refresh runs as long
as none overlapped (`OneRefresh`), and that the truth is then on its way or
stored (`NeedOnItsWay`). From it: `LeaseIsRight`, `CacheIsCurrent`, together
`WakeIsRight`.

The second half is about `ScheduledTasks`, for any number of runs, kept rows,
prompts and instants, and for edits, deletions, restarts and failed writes as
often as `Repeated` lets them come. Neither `NoOverlap` nor `BooksAgree` is
inductive. `TInv` adds:

* `RowsOK`: one live row at most (`OneLive`; a row is published under the lock that
  finds no other), a run whose dispatcher has not published has no row
  (`FreshRow`; this keeps a settled row from coming back), a deleted task has
  none, and between the two halves of the reconciliation none is live.
* `WorkOK`: a turn works for the run of the live row, or for one whose row was
  taken from it, and its goroutine is at the claim or watches it. With `OneLive`
  this is `NoOverlap`.
* `RunningCard`, `DueOK`, `DueCard`: who will replace a card that says "running" or
  "dispatching". The monitor of its run, which has not been overtaken by a
  verdict; or the run the loop is dispatching, whose card is not newer than the
  job, so that the refusal or the verdict of that run is not turned away as
  outdated.
* `VerdictOK` and the types, and the two parts of `BooksAgree` that are inductive
  with these (`CardShowsRun`, `NoStrayChild`).

The lemmas under it say what each critical section does to rows, card, chats and
goroutines. Retention and the repair of the card choose by order, not by
recursion, so they can be reasoned about: `FitKeeps` (a live row is never dropped,
a kept row is unchanged) and `NewestExists` (the row the reconciliation copies is
there, because a finite set of rows has a newest one). From `TInv`:
`RunsNeverOverlap`, `BooksAlwaysAgree`, `RowsAlwaysStayTrue`, `TaskTypeCorrect`.

**ConfigRestoreProofs.** `RInv`: one live tree at most (`OneLive`), what each
step of the operation knows of its tree and of the one it moved aside (`OpOK`),
where a tree that was the user's cannot be (`OriginOK`), that what the cleanup
would take has been given up before (`AgeOK`), and that an undisturbed operation
can be undone (`UndoOK`).
From it: `NoTreeLost`, `FailuresAreUndone`, `SuccessesAreReversible`, together
`RestoresAreAtomic`.

**CheckoutProofs.** The first half is about `TaskManager`, for any choice of the
commands in `Reached`. `PInv`: no process
before its launch (`NoProcessYet`), a goroutine that has ended leaves only quiet
descendants and no open log (`EndsClean`), only the goroutine gives a verdict
other than "cancelled", as its last step, and only a log it has left is removed
(`LastStep`), who cancels has given that verdict (`Cancelling`), of a cancelled
command in `Reached` nothing runs once its goroutine waits, or the kill is still
to come (`CancelledClean`), and a call of `Close` finds every task that lives while
the gate keeps later ones out (`Found`). `EndsClean` and `CancelledClean` are what a
close can and cannot promise: from them and `Found` follows `TeardownsAreSafe`;
also `FirstVerdictStands`.

The second half is about `SessionWorktree`. `TreeInv` adds to the types what a
creation knows (`CreateOK`: nothing has been committed and nothing works in the
checkout yet), what a removal knows (`RemovalOK`: the turn is gone or stopped,
no manager is left once the shells are closed, and the last look still counts the
commits unless a stopped tool or a stray process came after it; nothing is claimed
of processes that a close has not ended), that a removed checkout stays away
and only then loses its record (`GoneOK`), that a chat with a checkout knows of
it or of its damage (`OpenOK`), and that a turn which met the removal of its chat
calls nothing (`ClosedOK`). From it: `AlwaysFailsClosed`, `CommitsAlwaysStay`.

**ProjectRegistryProofs.** `GInv` (`RegistryInvariant`) has, beside the types,
`Booked`: what each step of an operation will publish, that no project is in
both books, that the save of a turn writes projects which memory has, and `Lag`:
memory, the last save and that of a turn have the same projects, and differ by
settings that only memory has newer. The heart
are `FilesCover` and `FilesMatch`: which books the two files stand for at every
step of every operation, failed rollbacks included. From it:
`RegistryAlwaysDurable`, that is `StartsBeforeOrAfter`, `OnlyDefaultsLag`,
`UnreadableLosesNothing` and `NothingForgotten`.

**Only model-checked:**

* all liveness, which is out of this prover's reach: `RunEnds`, `SlotFreed`,
  `TurnsSettle`, `PartsSettle`, `WaiterEnds`, `StopEndsTurn`;
* `RoutinesTypeOK`, `ChatTypeOK` and `ChatTypesOK` as such: each is the conjunction
  of the type invariants of its parts, and each of those is proved for its part.

## 6 Where the code and its promises disagree

Each of these is a run that TLC ends with a counterexample.

* **`queue_idle`** (`app.go:2203`): the worker sees an empty queue and leaves in
  two critical sections. A follow-up accepted in between stays queued in an idle
  chat until another message starts a worker.
* **`delegation_exclusive`** (`delegation.go:1094`): a cancellation ends the row
  before it stops the child; the monitor sees the terminal row and gives the
  target's slot to the next run. For a moment two children work in one project.
* **`batch_wait`** (`delegation_batch.go:217`): the wait reads "running" from
  the file, then finds no owner in the registry, because the run has just ended
  properly in between. It gives the fan-out up and the synthesis is lost.
* **`history_cleared`** (`project.go:1573`): the early save of a turn does not
  look at its context. A turn that started just before `ClearHistory` writes the
  cleared message back to the file between its deletion and the emptying of the
  memory. The message is there again after the next start.
* **`scheduled_reap`** (`scheduled_tasks.go:1536`): retention deletes the child
  chat of an evicted run through the unguarded `DeleteChatSession`, also while a
  person goes on working in it; the comment above says that such a chat is
  refused.
* **`agent_persona`** (`../engine/client/anthropic.go:1785`): a request with a
  system prompt of its own is meant to "skip heuristic extraction from history"
  (`anthropic.go:172`), but the conversion runs the heuristic all the same
  (`anthropic.go:1779-1830`) and throws its result away. A first message that
  begins with "You are" or contains "System:" never reaches the model.
  With it goes a short answer that says "I'll", and the calls in that answer:
  their results are then sent without them, so that `RequestsAreWellFormed` is
  false as well when `Persona` is `TRUE`.

Seen while modelling, without a run of their own:

* *Agent loop.* The emergency compaction takes nudges and pictures of tool
  results for the beginning of an exchange, so it may keep one of these and drop
  the message of the person, although it means not to ("dropping it would lose the
  user's request", `project.go:3287-3290`). The hint of a first compaction may in
  the same way be taken for the newest exchange, and results are then sent without
  their calls; this is the exception in `RequestsAreWellFormed` (`squeezed`
  "twice"). When a provider repeats a call ID, the sanitizer keeps the first call
  and drops the one that was answered (`history_sanitizer.go:83-92`), which is why
  IDs are fresh in the model. When a turn ends on the loop guard, or its results
  cannot be sent, the transcript forgets tools that have run: `RunsAreRecorded`
  speaks of turns that go on.
* *Fan-out.* The model is told that a synthesis will run once all members
  finish; `QueueMessage` refuses it (`delegation_batch.go:183`) when the turn
  that asked has ended first, which is the normal case. The synthesis turn also
  carries no stamp, so the depth limit bounds a chain, not everything that
  follows from one human message (`delegation_guard.go:22`); `DelegationChain`
  models it that way.
* *Delegated runs.* After a storage failure the frontend may hear of the end of
  a run twice (once of the failure, once of a verdict). This is why
  `ContractHolds` is checked without faults.
* *History.* The comment at `project.go:2505` says that the replay log is dropped
  only when the history was persisted; the code drops it (`project.go:2512`)
  before the save (`project.go:2567`), which may fail or be skipped after a
  Stop. A crash then loses the answer. An answer whose stream had ended before
  Stop is appended to a memory that the clear has emptied (`project.go:1685`),
  and a Stop that finds an expired deadline does not make the final save step
  aside. `NoStaleSave` states what remains true: such a save never brings back
  what was emptied by a clear that has returned.
* *Worktrees.* A turn that has entered when its chat is deleted goes on to
  `registryForSession`, finds the path cleared and is given the project's
  directory; its context is over, so it calls no tool, but its early save
  (`project.go:1573`) brings the history file of the deleted chat back. After
  the next start the chat is there again, has no record and works in the shared
  directory; this is the exception in `FailsClosed`. The same happens to an
  empty chat when a prune dies, or its `DeleteHistory` fails, after the checkout
  is gone (`project.go:2730`). A tool of a stopped turn may commit between the
  last look and the removal, and the branch with its commit is dropped
  (`lateCommit`, `session_worktree.go:536`). No tool need be involved: a process
  that a background command has left behind with its output redirected
  (`server >log 2>&1 &`) outlives the closing of the shells and may commit as
  late. A crash between the deletion of the history and the look at
  the checkout loses the chat while its changes stay in a checkout that no chat
  shows.
* *Scheduled tasks.* A manual run before the reconciliation of the start loses
  its row to it. A run that fails between its row and its claim does not replace
  the card of the run before. An eviction during shutdown, or a crash before the
  child is reaped, leaves a chat that nothing will remove. A read error in the
  monitor ends it, and its row says "running" until the next start. A run that
  the user stopped after the model had said something is reported as completed
  (`scheduled_tasks.go:1639`). A late monitor may write its error to the card of
  a task that was made again under the same ID.
* *Wake manager.* Refreshes that overlap may leave an outdated need in the cache
  until the next refresh. A configuration save under way when `shutdown` turns
  the setting off may take the lease again.
* *Backup.* A save between the move aside and the promotion makes the live
  directory anew, and both the promotion and the rollback fail. After a restore
  has succeeded the running program saves over the restored `config.yaml` until
  it is restarted. Automatic backups live inside the directory that a restore
  moves away.
* *Registry.* `LoadConfig` leaves a `config.yaml` that is a symbolic link alone,
  because unlinking it "would silently detach the user's config"
  (`config.go:160-166`); `Startup` then saves over it by a rename
  (`app.go:229`). An `archived-projects.json` that cannot be read is taken for
  empty (`app.go:209-227`) and removed by the next save
  (`archived_projects.go:90-95`); no copy is set aside. When an archive fails
  and its rollback fails too, the record stays in the archive file; a removal of
  the project later makes it come back as archived after a restart.
  `ApplyDefaultToProjects` (`app.go:3754-3771`) gives every project its new
  provider and model, saves, only logs the error of the save and returns nil: a
  change that was reported as done is gone at the next start if that save failed
  and no later one followed.
* *Background shells.* `Close` waits "until process/output cleanup and completion
  observers have finished" (`manager.go`, above `Close`), and its caller takes it
  for a "process/output/observer barrier" (`project.go:2633-2634`). `cmd.Wait`
  (`task.go:436`) waits for the shell and for whoever holds the output pipe, not
  for the group: a descendant that has redirected its output goes on after its
  task is completed, `Cancel` then returns false (`task.go:486`) and kills nothing,
  and `Close` returns over a live process. On Windows a cancellation that finds
  the shell gone reaches none of its descendants (`task_windows.go:25-28`); one
  that holds the output keeps the cancelled task, and `Close`, waiting. These are
  why `CloseIsBarrier` and `CancelledEnds` say no more than they do.
  `SetCompletionHandler` and `Cleanup` of the manager have
  no caller in the studio.

## 7 What is not modelled

* Data: texts, prompts, media, token counts, limits in bytes, paging, policies.
  Where a limit decides control (queue length, rows, slots) it is modelled.
* In modelled files: chat forks, imports and exports, and renames in `project.go`;
  of the agent loop the sizes and token counts that decide when to compact, the
  retries of a request that has shown nothing, and how each tool does its work;
  listing, paging and the byte limit of delegation rows; the texts of the
  synthesis; the arithmetic of schedules,
  pausing and disabling of tasks; archive formats and the schedule of automatic
  backups; the comparison of project directories; `.worktreeinclude`, projects
  without Git or inside WSL; readers that wait for a background shell.
* More than one scheduled task: rows are kept per task (`KeptRuns`), and the cap
  of 512 rows over all tasks (`scheduled_tasks.go:1512`) is left out.
* Several processes of the program on one configuration directory.
* External programs and protocols: git, MCP servers, plugins, browsers,
  previews, providers. They would be models of something else.
* `../engine/agent`, `../engine/context` and `../engine/chat` are imported by no
  package of the application.
* Lock order: every action is one critical section, so a deadlock between locks
  cannot appear in these modules. The code orders `s.mu`, `metadataMu`, `p.mu`,
  `session.mu`, then `delegationMu`, `delegationRunsMu` and the locks of files.

## 8 Plan

What could follow, in order:

1. **Artifact versions**: the store by count and bytes, and a restore that fails
   half way.
2. **Recovery of an answer**: a run that states what `project.go:2505` says of
   the replay log.
3. **LockOrder** over the mutexes of `app.go`, `delegation*.go` and `project.go`.

New components replace runs rather than add to them: runs whose question is
covered by a theorem or by a larger instance are folded together first.
