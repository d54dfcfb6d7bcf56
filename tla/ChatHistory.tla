----------------------------- MODULE ChatHistory -----------------------------
(***************************************************************************)
(* Where the words of one chat are kept (project.go sendMessage, app.go,   *)
(* side_chat.go, replay.go, history.go): in memory, in the history file    *)
(* and, while a turn runs, in the replay log that is offered for recovery  *)
(* after a crash.  The worker of the chat appends and saves; ClearHistory, *)
(* Stop, an edit, a side question and the end of the program come in       *)
(* between.                                                                *)
(*                                                                         *)
(* One action is one critical section of session.mu, or one access to the  *)
(* file or the log.  Only entries with text are kept, as saveHistoryFull   *)
(* keeps only those; an entry is the turn it belongs to and who said it.   *)
(***************************************************************************)
EXTENDS Integers, Sequences, SequencesExt

CONSTANTS
    MaxTurns,       \* bound of the model: turns ever begun
    MaxEntries,     \* bound of the model: entries in memory
    MaxClears,      \* bound of the model: clears ever finished
    SaveMayFail     \* a write of the history file may fail

ASSUME HistoryAssumption ==
    /\ MaxTurns \in Nat /\ MaxEntries \in Nat /\ MaxClears \in Nat
    /\ SaveMayFail \in BOOLEAN

VARIABLES
    mem,        \* session.history
    file,       \* the entries of the history file, or NoFile
    billed,     \* the usage in the history file, see cost
    log,        \* the replay log: its turn and whether it has the answer
    turn,       \* the latest turn
    phase,      \* the worker of the chat
    ctx,        \* the context of its turn: "none", "live", "expired", "canceled"
    halt,       \* queueHalt
    epoch,      \* historyEpoch
    clear,      \* ClearHistory: where it is
    side,       \* the side question: where it is, the epoch it has seen,
                \*   the clears it has seen, and whether it was cancelled
    cost,       \* usage: after how many clears its side questions were asked
    failed,     \* auxiliary: a save of this turn failed
    doomed,     \* auxiliary: the turns a clear has just emptied
    revived,    \* auxiliary: the usage of cleared chats a restart has read
    wiped,      \* auxiliary: the turns a clear that has returned emptied, less
                \*   those a restart has brought back
    clears      \* auxiliary: the clears so far

kept == <<file, billed>>
disk == <<kept, log>>
worker == <<turn, phase, ctx, failed>>
clearing == <<clear, doomed, revived, wiped, clears>>
historyVars == <<mem, disk, worker, halt, epoch, clearing, side, cost>>

NoFile == <<[turn |-> 0, by |-> "none"]>>
NoLog == [turn |-> 0, answer |-> FALSE]
NoSide == [at |-> "off", epoch |-> 0, clears |-> 0, cancelled |-> FALSE]

Entry == [turn : 1..MaxTurns, by : {"user", "nudge", "model"}]
Said(who) == [turn |-> turn, by |-> who]
\* The turns whose message is in h, and those of which h has any entry.
Turns(h) == {h[i].turn : i \in {j \in 1..Len(h) : h[j].by = "user"}}
AllTurns(h) == {h[i].turn : i \in 1..Len(h)}
InFile == IF file = NoFile THEN <<>> ELSE file

HistoryInit ==
    /\ mem = <<>> /\ file = NoFile /\ log = NoLog
    /\ turn = 0 /\ phase = "idle" /\ ctx = "none" /\ failed = FALSE
    /\ halt = FALSE /\ epoch = 0 /\ side = NoSide
    /\ cost = {} /\ billed = {} /\ revived = {}
    /\ clear = "off" /\ doomed = {} /\ wiped = {} /\ clears = 0

\* saveHistoryFull of h with usage c, atomic under the lock of the file.
Save(h, c) == (file' = h /\ billed' = c) \/ (SaveMayFail /\ UNCHANGED kept)

WorkerGoes(p) == phase' = p /\ UNCHANGED <<turn, ctx, failed>>
Says(who) == Len(mem) < MaxEntries /\ mem' = Append(mem, Said(who))

-----------------------------------------------------------------------------
(* The worker's turn. *)

Begins ==
    /\ turn < MaxTurns
    /\ turn' = turn + 1 /\ phase' = "queued" /\ failed' = FALSE

\* startMessage: refused during a clear, which holds metadataMu.
Send ==
    /\ phase = "idle" /\ clear = "off"
    /\ Begins /\ halt' = FALSE
    /\ UNCHANGED <<mem, disk, ctx, epoch, clearing, side, cost>>

\* The idle -> active transition, refused after a Stop.
Activate ==
    /\ phase = "queued"
    /\ \/ halt /\ WorkerGoes("idle")
       \/ ~halt /\ phase' = "active" /\ ctx' = "live" /\ UNCHANGED <<turn, failed>>
    /\ UNCHANGED <<mem, disk, halt, epoch, clearing, side, cost>>

\* NewReplayLogger truncates the log of an earlier turn.
OpenLog ==
    /\ phase = "active"
    /\ log' = [turn |-> turn, answer |-> FALSE]
    /\ WorkerGoes("logged")
    /\ UNCHANGED <<mem, kept, halt, epoch, clearing, side, cost>>

Ask ==
    /\ phase = "logged" /\ Says("user") /\ WorkerGoes("asked")
    /\ UNCHANGED <<disk, halt, epoch, clearing, side, cost>>

EarlySnapshot_TooEarly == Front(mem)
EarlySnapshot == mem

\* The user's message is saved before the provider is asked, with the usage
\* the file has.
EarlySave ==
    /\ phase = "asked"
    /\ Save(EarlySnapshot, billed)
    /\ failed' = (file' # EarlySnapshot)
    /\ phase' = "loop"
    /\ UNCHANGED <<mem, log, turn, ctx, halt, epoch, clearing, side, cost>>

\* The agent loop looks at its context before every request.
Request ==
    /\ phase = "loop"
    /\ \/ ctx = "live" /\ WorkerGoes("stream")
       \/ WorkerGoes("ended")
    /\ UNCHANGED <<mem, disk, halt, epoch, clearing, side, cost>>

\* A cancelled stream ends with an error, unless it had already ended; one that
\* breaks leaves its text in memory.
Stream ==
    /\ phase = "stream"
    /\ \/ WorkerGoes("got") /\ UNCHANGED mem
       \/ WorkerGoes("ended") /\ UNCHANGED mem
       \/ ctx = "live" /\ WorkerGoes("broken") /\ UNCHANGED mem
    /\ UNCHANGED <<disk, halt, epoch, clearing, side, cost>>

PreservePartial ==
    /\ phase = "broken" /\ Says("model") /\ WorkerGoes("ended")
    /\ UNCHANGED <<disk, halt, epoch, clearing, side, cost>>

\* ReplayLogger.Append never creates the file.
AfterAppend == IF log = NoLog THEN NoLog ELSE [log EXCEPT !.answer = TRUE]

\* recordResponse: first the log, then the memory.
LogAnswer ==
    /\ phase = "got" /\ log' = AfterAppend /\ WorkerGoes("recorded")
    /\ UNCHANGED <<mem, kept, halt, epoch, clearing, side, cost>>

Answer ==
    /\ phase = "recorded" /\ Says("model") /\ WorkerGoes("answered")
    /\ UNCHANGED <<disk, halt, epoch, clearing, side, cost>>

\* A tool round, a nudge to go on, or the end of the turn.
Continue ==
    /\ phase = "answered"
    /\ \/ WorkerGoes("loop") /\ (Says("nudge") \/ UNCHANGED mem)
       \/ WorkerGoes("ended") /\ UNCHANGED mem
    /\ UNCHANGED <<disk, halt, epoch, clearing, side, cost>>

\* persisted: only an explicit cancel skips the save.
Decide ==
    /\ phase = "ended"
    /\ WorkerGoes(IF ctx # "canceled" THEN "complete" ELSE "leaving")
    /\ UNCHANGED <<mem, disk, halt, epoch, clearing, side, cost>>

\* ReplayLogger.Complete.
DropLog ==
    /\ phase = "complete" /\ log' = NoLog /\ WorkerGoes("saving")
    /\ UNCHANGED <<mem, kept, halt, epoch, clearing, side, cost>>

\* The second look at the context, under session.mu.
FinalGuard == ctx # "canceled"

FinalSave ==
    /\ phase = "saving"
    /\ IF FinalGuard THEN Save(mem, cost) ELSE UNCHANGED kept
    /\ WorkerGoes("leaving")
    /\ UNCHANGED <<mem, log, halt, epoch, clearing, side, cost>>

\* The deferred teardown; a follow-up starts without a new claim.
Leave ==
    /\ phase = "leaving" \/ phase = "active"
    /\ ctx' = "none"
    /\ \/ phase' = "idle" /\ UNCHANGED <<turn, failed>>
       \/ ~halt /\ Begins
    /\ UNCHANGED <<mem, disk, halt, epoch, clearing, side, cost>>

\* The 30-minute ceiling.
Expire ==
    /\ ctx = "live" /\ ctx' = "expired"
    /\ UNCHANGED <<mem, disk, turn, phase, failed, halt, epoch, clearing, side, cost>>

-----------------------------------------------------------------------------
(* Stop, Clear, edit. *)

AfterStop_Reason == "stopped"
\* Cancelling a context that has expired, or none, changes nothing.
AfterStop == IF ctx = "live" THEN "canceled" ELSE ctx

\* ChatSession.Stop.
Stops == halt' = TRUE /\ ctx' = AfterStop

UserStop ==
    /\ clear = "off" /\ ~halt
    /\ Stops
    /\ UNCHANGED <<mem, disk, turn, phase, failed, epoch, clearing, side, cost>>

ClearGoes(p) == clear' = p /\ UNCHANGED <<doomed, revived, wiped, clears>>

\* cancelSideQuestions and the first bump of the epoch.
ClearBegin ==
    /\ clear = "off" /\ clears < MaxClears /\ epoch < 2 * MaxClears
    /\ ClearGoes("begun")
    /\ epoch' = epoch + 1
    /\ side' = [side EXCEPT !.cancelled = @ \/ side.at \in {"asking", "answered"}]
    /\ UNCHANGED <<mem, disk, worker, halt, cost>>

ClearStop ==
    /\ clear = "begun" /\ Stops /\ ClearGoes("stopped")
    /\ UNCHANGED <<mem, disk, turn, phase, failed, epoch, side, cost>>

Deleted == file' = NoFile /\ billed' = {}

\* deleteHistoryChecked; when it fails the conversation is kept in memory.
ClearDelete ==
    /\ clear = "stopped"
    /\ \/ Deleted /\ ClearGoes("deleted")
       \/ SaveMayFail /\ (Deleted \/ UNCHANGED kept) /\ ClearGoes("off")
    /\ UNCHANGED <<mem, log, worker, halt, epoch, side, cost>>

EpochAfterWipe_Same == epoch
\* The second bump, for a question asked while the file was being deleted.
EpochAfterWipe == epoch + 1

MemAfterWipe_Kept == mem
MemAfterWipe == <<>>

ClearWipe ==
    /\ clear = "deleted"
    /\ mem' = MemAfterWipe /\ cost' = {} /\ epoch' = EpochAfterWipe
    /\ clear' = "wiped" /\ doomed' = AllTurns(mem) /\ clears' = clears + 1
    /\ UNCHANGED <<disk, worker, halt, side, revived, wiped>>

\* DiscardReplay.
ClearLog ==
    /\ clear = "wiped"
    /\ log' = NoLog
    /\ clear' = "off" /\ wiped' = wiped \union doomed /\ doomed' = {}
    /\ UNCHANGED <<mem, kept, worker, halt, epoch, side, cost, revived, clears>>

TrimTo_KeepsIt(i) == SubSeq(mem, 1, i)
\* EditUserMessage cuts the history in front of a message of the user.
TrimTo(i) == SubSeq(mem, 1, i - 1)

Edit ==
    /\ phase \in {"idle", "queued"}
    /\ \E i \in 1..Len(mem) :
          /\ mem[i].by # "model"
          /\ file' = TrimTo(i)
          /\ mem' = SubSeq(mem, 1, i - 1)
    /\ UNCHANGED <<billed, log, worker, halt, epoch, clearing, side, cost>>

\* DiscardRecoveryEvents.
DiscardRecovery ==
    /\ log # NoLog /\ log' = NoLog
    /\ UNCHANGED <<mem, kept, worker, halt, epoch, clearing, side, cost>>

-----------------------------------------------------------------------------
(* The side question. *)

\* The transcript and its epoch are read before the request is claimed; until
\* then it cannot be cancelled.
SideStart ==
    /\ side.at = "off"
    /\ side' = [at |-> "read", epoch |-> epoch, clears |-> clears, cancelled |-> FALSE]
    /\ UNCHANGED <<mem, disk, worker, halt, epoch, clearing, cost>>

SideClaim ==
    /\ side.at = "read"
    /\ side' \in {[side EXCEPT !.at = "asking"], NoSide}
    /\ UNCHANGED <<mem, disk, worker, halt, epoch, clearing, cost>>

\* runSideQuestion looks at its context once more before it saves.
SideAnswered ==
    /\ side.at = "asking"
    /\ \/ ~side.cancelled /\ side' = [side EXCEPT !.at = "answered"]
       \/ side' = NoSide
    /\ UNCHANGED <<mem, disk, worker, halt, epoch, clearing, cost>>

EpochMatches == side.epoch = epoch

\* persistSideChatUsage.
SidePersist ==
    /\ side.at = "answered" /\ side' = NoSide
    /\ IF EpochMatches
       THEN cost' = cost \union {side.clears} /\ Save(mem, cost')
       ELSE UNCHANGED <<kept, cost>>
    /\ UNCHANGED <<mem, log, worker, halt, epoch, clearing>>

-----------------------------------------------------------------------------

\* The program dies; NewProject reads the file again.
HistoryRestart ==
    /\ mem' = InFile
    /\ phase' = "idle" /\ ctx' = "none" /\ halt' = FALSE /\ failed' = FALSE
    /\ epoch' = 0 /\ side' = NoSide
    /\ clear' = "off" /\ doomed' = {} /\ wiped' = wiped \ AllTurns(InFile)
    /\ cost' = billed /\ revived' = {n \in billed : n < clears}
    /\ UNCHANGED <<disk, turn, clears>>

Turn ==
    \/ Activate \/ OpenLog \/ Ask \/ EarlySave \/ Request \/ Stream
    \/ PreservePartial \/ LogAnswer \/ Answer \/ Continue
    \/ Decide \/ DropLog \/ FinalSave \/ Leave

Clear == ClearBegin \/ ClearStop \/ ClearDelete \/ ClearWipe \/ ClearLog

Side == SideStart \/ SideClaim \/ SideAnswered \/ SidePersist

HistoryNext ==
    \/ Send \/ Turn \/ Expire \/ UserStop \/ Clear \/ Edit \/ DiscardRecovery
    \/ Side \/ HistoryRestart

HistorySpec == HistoryInit /\ [][HistoryNext]_historyVars

-----------------------------------------------------------------------------
(* Properties. *)

\* Memory, file, log and goroutines keep their types.
HistoryTypeOK ==
    /\ mem \in Seq(Entry) /\ (file = NoFile \/ file \in Seq(Entry))
    /\ log.turn \in 0..MaxTurns /\ log.answer \in BOOLEAN
    /\ turn \in 0..MaxTurns
    /\ phase \in {"idle", "queued", "active", "logged", "asked", "loop", "stream",
               "broken", "got", "recorded", "answered", "ended", "complete",
               "saving", "leaving"}
    /\ ctx \in {"none", "live", "expired", "canceled"}
    /\ halt \in BOOLEAN /\ failed \in BOOLEAN /\ epoch \in Nat
    /\ clear \in {"off", "begun", "stopped", "deleted", "wiped"}
    /\ side.at \in {"off", "read", "asking", "answered"} /\ side.cancelled \in BOOLEAN
    /\ doomed \subseteq 1..MaxTurns /\ wiped \subseteq 1..MaxTurns
    /\ clears \in 0..MaxClears
    /\ \A charges \in {cost, billed, revived} : charges \subseteq 0..MaxClears

\* "Persist history immediately after the user message is added so it survives
\* a crash": while a turn works its message is in the file, whichever saves
\* come in between.
UserTurnSurvives ==
    phase \in {"loop", "stream", "broken", "got", "recorded", "answered"}
      /\ ctx = "live" /\ ~failed
      => turn \in Turns(InFile)

\* The file never says more than the memory, nor anything else, unless a clear
\* has run into a save.
FileFollowsMemory ==
    AllTurns(InFile) \intersect (doomed \union wiped) = {} => IsPrefix(InFile, mem)

\* No save works from a transcript older than the latest clear: once
\* ClearHistory has returned, no message it emptied comes to the file.
NoStaleSave ==
    [][wiped \intersect Turns(InFile') \subseteq Turns(InFile)]_historyVars

\* The log of a turn that was cleared is not written again ("the goroutine
\* would otherwise recreate the file").
LogStaysGone == clear = "off" => log.turn \notin wiped

\* After a clear the chat is not charged for a side question asked before it,
\* not even for one asked while the clear was deleting the file.
SideCostCleared == clear # "deleted" => \A n \in cost \ revived : n = clears

\* Nothing that a cleared turn left behind comes back.
LeftoversStayGone == LogStaysGone /\ SideCostCleared

\* What ClearHistory promises of the turns it emptied: none of them is in
\* memory or in the file when it has returned.
ClearedStaysCleared ==
    clear = "off" =>
        \A h \in {mem, InFile} : \A i \in 1..Len(h) : h[i].turn \notin wiped
=============================================================================
