------------------------------ MODULE ChatQueue ------------------------------
(***************************************************************************)
(* One chat and the goroutine that runs its turns (app.go, project.go,     *)
(* session.go).  A message either claims the idle chat and starts a worker *)
(* or is queued behind the turn the worker is running.  Stop, archiving,   *)
(* an artifact restore and the shutdown of the program may land between    *)
(* any two critical sections of the worker.                                *)
(*                                                                         *)
(* Every action is one critical section of session.mu (with p.mu or        *)
(* metadataMu around it where the code holds them).                        *)
(***************************************************************************)
EXTENDS Integers, Sequences, FiniteSets

CONSTANTS
    Messages,      \* the messages of a behaviour; each is submitted once
    Delegated,     \* those that carry a delegation stamp
    NoStamp,       \* a nil *delegationStamp
    MaxQueued      \* maxQueuedTurns

ASSUME MessagesAssumption ==
    /\ Delegated \subseteq Messages
    /\ NoStamp \notin Messages
    /\ MaxQueued \in Nat

\* A message's stamp is abstracted to the message it came with.
StampOf(m) == IF m \in Delegated THEN m ELSE NoStamp

VARIABLES
    queueWorker,   \* the chat is claimed
    queueHalt,     \* Stop was pressed and the worker has not yet left
    queued,        \* queuedTurns
    incoming,      \* incomingDelegation
    active,        \* a turn holds a cancel function
    cancelled,     \* that turn's context is cancelled
    archived,      \* ArchivedAt > 0
    restoring,     \* artifactRestoreActive of the project
    closing,       \* "open", "closing" (no new goroutine), "stopped" (all stopped)
    worker,        \* where the worker goroutine is
    turn,          \* the message it is working on
    stamp,         \* the stamp its turn runs under (delegationParent)
    status         \* auxiliary: what became of each message

session == <<queueWorker, queueHalt, queued, incoming, active, cancelled>>
vars == <<session, archived, restoring, closing, worker, turn, stamp, status>>

\* "claimed": queueWorker is set, the goroutine is not yet registered.
\* "starting": sendMessage is about to be entered.  "preparing": budget check
\* and client initialisation.  "running": the agent loop.  "between":
\* sendMessage returned.  "leaving": the worker decided to exit.
Phases == {"none", "claimed", "starting", "preparing", "running", "between", "leaving"}

Statuses == {"fresh", "queued", "taken", "running", "settled", "withdrawn"}

NoTurn == NoStamp

\* append(s[:i], s[i+1:]...), counting from one.
Without(s, i) == SubSeq(s, 1, i - 1) \o SubSeq(s, i + 1, Len(s))

Queue == {queued[i] : i \in 1..Len(queued)}

Init ==
    /\ queueWorker = FALSE /\ queueHalt = FALSE
    /\ queued = <<>> /\ incoming = NoStamp
    /\ active = FALSE /\ cancelled = FALSE
    /\ archived = FALSE /\ restoring = FALSE /\ closing = "open"
    /\ worker = "none" /\ turn = NoTurn /\ stamp = NoStamp
    /\ status = [m \in Messages |-> "fresh"]

Becomes(m, s) == status' = [status EXCEPT ![m] = s]

-----------------------------------------------------------------------------
(* The decisions of the code, each with the slip its property would catch. *)

\* startBackground registers no goroutine once shutdown has begun.
GateOpen == closing = "open"

\* queueMessageWithDelegation: the limit of the queue.
HasRoom == Len(queued) < MaxQueued

StopWon_Ignored == FALSE
\* sendMessage: a Stop that found no context to cancel left queueHalt behind.
StopWon == queueHalt

RestoreHolds_Ignored == FALSE
\* sendMessage: an artifact restore holds the project.
RestoreHolds == restoring

MustLeave_AfterOneTurn == TRUE
\* The worker's loop: nothing more to run, or told to halt.
MustLeave == queueHalt \/ queued = <<>>

ArmedStamp_Forgotten(m) == NoStamp
\* The worker's loop: the stamp of the popped message is re-armed.
ArmedStamp(m) == StampOf(m)

\* archiveChatSession: a claimed chat is as busy as a running one.
Busy == active \/ queueWorker

-----------------------------------------------------------------------------
(* Submitting messages. *)

\* startMessage: claim the idle chat.  The stamp is set with the claim.
Claim(m) ==
    /\ status[m] = "fresh"
    /\ ~queueWorker /\ ~archived
    /\ queueWorker' = TRUE /\ queueHalt' = FALSE
    /\ incoming' = StampOf(m)
    /\ worker' = "claimed" /\ turn' = m
    /\ Becomes(m, "taken")
    /\ UNCHANGED <<queued, active, cancelled, archived, restoring, closing, stamp>>

\* startBackground: register the goroutine, or give the claim back when the
\* program is shutting down.
Spawn ==
    /\ worker = "claimed"
    /\ \/ /\ GateOpen
          /\ worker' = "starting"
          /\ UNCHANGED <<session, turn, status>>
       \/ /\ ~GateOpen
          /\ queueWorker' = FALSE /\ queueHalt' = FALSE
          /\ worker' = "none" /\ turn' = NoTurn
          /\ Becomes(turn, "settled")
          /\ UNCHANGED <<queued, incoming, active, cancelled>>
    /\ UNCHANGED <<archived, restoring, closing, stamp>>

\* queueMessageWithDelegation.
Enqueue(m) ==
    /\ status[m] = "fresh"
    /\ ~archived /\ queueWorker /\ ~queueHalt
    /\ HasRoom
    /\ m \notin Queue
    /\ queued' = Append(queued, m)
    /\ Becomes(m, "queued")
    /\ UNCHANGED <<queueWorker, queueHalt, incoming, active, cancelled,
                   archived, restoring, closing, worker, turn, stamp>>

\* RemoveQueuedMessage.
Remove(m) ==
    /\ \E i \in 1..Len(queued) :
          /\ queued[i] = m
          /\ queued' = Without(queued, i)
    /\ Becomes(m, "withdrawn")
    /\ UNCHANGED <<queueWorker, queueHalt, incoming, active, cancelled,
                   archived, restoring, closing, worker, turn, stamp>>

-----------------------------------------------------------------------------
(* The worker. *)

\* The head of sendMessage: the stamp is taken from the session and cleared
\* in one critical section; a Stop that came first ends the turn here.
EnterTurn ==
    /\ worker = "starting"
    /\ stamp' = incoming /\ incoming' = NoStamp
    /\ \/ StopWon /\ worker' = "between" /\ Becomes(turn, "settled")
       \/ ~StopWon /\ worker' = "preparing" /\ UNCHANGED status
    /\ UNCHANGED <<queueWorker, queueHalt, queued, active, cancelled,
                   archived, restoring, closing, turn>>

\* An exhausted budget, a client that cannot be built, or an artifact restore
\* in progress: the turn ends with an error event.
RefuseTurn ==
    /\ worker = "preparing"
    /\ worker' = "between"
    /\ Becomes(turn, "settled")
    /\ UNCHANGED <<session, archived, restoring, closing, turn, stamp>>

\* The idle -> active transition.  A Stop during the preparation had no
\* context to cancel; queueHalt is what it left behind.
BeginTurn ==
    /\ worker = "preparing"
    /\ ~RestoreHolds
    /\ \/ /\ ~StopWon /\ ~active
          /\ active' = TRUE /\ cancelled' = FALSE
          /\ worker' = "running"
          /\ Becomes(turn, "running")
       \/ /\ StopWon
          /\ worker' = "between"
          /\ Becomes(turn, "settled")
          /\ UNCHANGED <<active, cancelled>>
    /\ UNCHANGED <<queueWorker, queueHalt, queued, incoming,
                   archived, restoring, closing, turn, stamp>>

\* The agent loop ends: an answer, an error, the 30-minute ceiling or a
\* cancelled context.  The deferred functions release the session.
EndTurn ==
    /\ worker = "running"
    /\ active' = FALSE /\ cancelled' = FALSE
    /\ worker' = "between"
    /\ Becomes(turn, "settled")
    /\ UNCHANGED <<queueWorker, queueHalt, queued, incoming,
                   archived, restoring, closing, turn, stamp>>

\* The loop of the worker: leave, or take the oldest follow-up and its stamp.
NextTurn ==
    /\ worker = "between"
    /\ \/ /\ MustLeave
          /\ worker' = "leaving" /\ turn' = NoTurn
          /\ UNCHANGED <<queued, incoming, status>>
       \/ /\ ~MustLeave
          /\ turn' = Head(queued) /\ queued' = Tail(queued)
          /\ incoming' = ArmedStamp(Head(queued))
          /\ worker' = "starting"
          /\ Becomes(Head(queued), "taken")
    /\ UNCHANGED <<queueWorker, queueHalt, active, cancelled,
                   archived, restoring, closing, stamp>>

\* The deferred function of the worker, in a critical section of its own.
Leave ==
    /\ worker = "leaving"
    /\ queueWorker' = FALSE /\ queueHalt' = FALSE
    /\ worker' = "none"
    /\ UNCHANGED <<queued, incoming, active, cancelled, archived, restoring,
                   closing, turn, stamp, status>>

-----------------------------------------------------------------------------
(* What lands in between. *)

\* ChatSession.Stop: the queue is emptied, the worker is told to halt, and a
\* running turn's context is cancelled.
StopSession ==
    /\ queued' = <<>> /\ queueHalt' = TRUE
    /\ cancelled' = active
    /\ status' = [m \in Messages |->
                     IF m \in Queue \/ status[m] = "taken" THEN "withdrawn" ELSE status[m]]
    /\ UNCHANGED <<queueWorker, incoming, active, archived, restoring, worker, turn, stamp>>

StopGeneration == StopSession /\ UNCHANGED closing

\* archiveChatSession, of a chat that is not the last one of its project.
Archive ==
    /\ ~archived /\ ~Busy
    /\ archived' = TRUE
    /\ UNCHANGED <<session, restoring, closing, worker, turn, stamp, status>>

\* RestoreChatSession.
Unarchive ==
    /\ archived
    /\ archived' = FALSE
    /\ UNCHANGED <<session, restoring, closing, worker, turn, stamp, status>>

\* beginArtifactRestore and the release it returns.
BeginRestore ==
    /\ ~restoring /\ ~active
    /\ restoring' = TRUE
    /\ UNCHANGED <<session, archived, closing, worker, turn, stamp, status>>

EndRestore ==
    /\ restoring
    /\ restoring' = FALSE
    /\ UNCHANGED <<session, archived, closing, worker, turn, stamp, status>>

\* shutdown: first the gate for new goroutines, then Stop on every session.
BeginShutdown ==
    /\ closing = "open"
    /\ closing' = "closing"
    /\ UNCHANGED <<session, archived, restoring, worker, turn, stamp, status>>

ShutdownStop ==
    /\ closing = "closing"
    /\ closing' = "stopped"
    /\ StopSession

WorkerStep ==
    Spawn \/ EnterTurn \/ RefuseTurn \/ BeginTurn \/ EndTurn \/ NextTurn \/ Leave

Next ==
    \/ \E m \in Messages : Claim(m) \/ Enqueue(m) \/ Remove(m)
    \/ WorkerStep
    \/ StopGeneration
    \/ Archive \/ Unarchive
    \/ BeginRestore \/ EndRestore
    \/ BeginShutdown \/ ShutdownStop

Spec == Init /\ [][Next]_vars

\* A goroutine that can take a step eventually does: a turn ends at the latest
\* at its 30-minute ceiling, and a preparation ends in a turn or an error.
\* The goroutine that closed the gate goes on to stop the sessions.
QueueFairness == WF_vars(WorkerStep) /\ WF_vars(ShutdownStop)
FairSpec == Spec /\ QueueFairness

-----------------------------------------------------------------------------
(* Properties. *)

\* The session's fields have their types and the queue keeps its limit.
TypeOK ==
    /\ queueWorker \in BOOLEAN /\ queueHalt \in BOOLEAN
    /\ active \in BOOLEAN /\ cancelled \in BOOLEAN
    /\ archived \in BOOLEAN /\ restoring \in BOOLEAN
    /\ queued \in Seq(Messages) /\ Len(queued) <= MaxQueued
    /\ incoming \in Delegated \union {NoStamp}
    /\ stamp \in Delegated \union {NoStamp}
    /\ turn \in Messages \union {NoTurn}
    /\ closing \in {"open", "closing", "stopped"}
    /\ worker \in Phases
    /\ status \in [Messages -> Statuses]

\* A turn runs under the stamp its own message came with: a delegated turn
\* never runs as if a person had typed it, a person's turn never inherits a
\* chain, however claims, queueing, removals and stops are interleaved.
TurnHasItsStamp ==
    worker \in {"preparing", "running"} => stamp = StampOf(turn)

\* An archived chat has no worker, so nothing runs where no pane shows it.
ArchivedIsIdle == archived => worker = "none" /\ ~active /\ ~queueWorker

\* No turn runs while an artifact version is being restored under it.
RestoreExcludesTurns == ~(restoring /\ active)

\* A message that Stop or Remove withdrew is never taken up or run, also
\* when Stop found no context to cancel.
WithdrawnNeverRuns ==
    [][\A m \in Messages :
          status[m] = "withdrawn" => status'[m] \in {"withdrawn", "settled"}]_vars

\* Once shutdown has stopped the sessions no turn begins any more.
ShutdownIsFinal == [][closing = "stopped" /\ ~active => ~active']_vars

\* After Stop the chat becomes idle.
StopSettles == queueWorker /\ queueHalt ~> ~queueWorker

\* A follow-up that is queued while the worker has not decided to leave and
\* the program is not shutting down is taken, removed or withdrawn: it is not
\* left behind.
FollowUpIsTaken ==
    \A m \in Messages :
        (m \in Queue /\ worker \notin {"none", "leaving"} /\ closing = "open")
            ~> m \notin Queue

\* Nothing works where nobody sees it or under a workspace that is restored.
TurnsAreVisible == ArchivedIsIdle /\ RestoreExcludesTurns

\* What Stop, Remove and shutdown took back does not come again.
EndIsFinal == WithdrawnNeverRuns /\ ShutdownIsFinal

\* A chat does not hang: neither a Stop nor a follow-up is forgotten.
TurnsSettle == StopSettles /\ FollowUpIsTaken

\* What TestMessageQueueRunsFollowUpAfterActiveTurn asserts of a chat whose
\* worker has gone: nothing is queued.
IdleMeansDrained == closing = "open" /\ ~queueWorker => queued = <<>>
=============================================================================
