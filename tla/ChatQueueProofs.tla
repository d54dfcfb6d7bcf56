--------------------------- MODULE ChatQueueProofs ---------------------------
(* The safety of the turn queue for any set of messages and any queue limit. *)
EXTENDS ChatQueue, SequenceTheorems, TLAPS

Working == {"claimed", "starting", "preparing", "running"}

\* The claim and the worker go together, and so do active and "running".
ClaimOK ==
    /\ queueWorker <=> worker # "none"
    /\ active <=> worker = "running"
    /\ archived => worker = "none"
    /\ ~(restoring /\ active)

\* Where the stamp of the message in hand is: in the session until sendMessage
\* takes it, in the turn afterwards.
StampOK ==
    /\ worker \in Working => turn \in Messages
    /\ worker \in {"claimed", "starting"} => incoming = StampOf(turn)
    /\ worker \in {"preparing", "running"} => stamp = StampOf(turn)

\* A message that Stop withdrew before its turn began is held by a worker that
\* still sees queueHalt, and after the stop of a shutdown every worker does.
HaltOK ==
    /\ worker \in {"claimed", "starting", "preparing"} =>
          /\ status[turn] \in {"taken", "withdrawn"}
          /\ status[turn] = "withdrawn" => queueHalt
    /\ worker = "running" => status[turn] = "running"
    /\ \A i \in 1..Len(queued) : status[queued[i]] = "queued"
    /\ \A i, j \in 1..Len(queued) : queued[i] = queued[j] => i = j
    /\ closing = "stopped" /\ worker \notin {"none", "claimed"} => queueHalt

IInv == TypeOK /\ ClaimOK /\ StampOK /\ HaltOK

USE MessagesAssumption

LEMMA StampType == \A m \in Messages : StampOf(m) \in Delegated \union {NoStamp}
  BY DEF StampOf

\* Taking one element out of a sequence keeps the others.
LEMMA RemoveAt ==
  ASSUME NEW s \in Seq(Messages), NEW i \in 1..Len(s)
  PROVE  /\ Without(s, i) \in Seq(Messages)
         /\ Len(Without(s, i)) = Len(s) - 1
         /\ \A k \in 1..Len(s) - 1 :
               Without(s, i)[k] = IF k < i THEN s[k] ELSE s[k + 1]
  <1> DEFINE a == SubSeq(s, 1, i - 1)
             b == SubSeq(s, i + 1, Len(s))
  <1>1. /\ a \in Seq(Messages)
        /\ Len(a) = i - 1
        /\ \A k \in 1..(i - 1) : a[k] = s[k]
    OBVIOUS
  <1>2. /\ b \in Seq(Messages)
        /\ Len(b) = Len(s) - i
        /\ \A k \in 1..(Len(s) - i) : b[k] = s[i + k]
    OBVIOUS
  <1> HIDE DEF a, b
  <1>3. /\ a \o b \in Seq(Messages)
        /\ Len(a \o b) = Len(s) - 1
        /\ \A k \in 1..Len(a) + Len(b) :
              (a \o b)[k] = IF k <= Len(a) THEN a[k] ELSE b[k - Len(a)]
    <2>1. /\ a \o b \in Seq(Messages)
          /\ Len(a \o b) = Len(a) + Len(b)
          /\ \A k \in 1..Len(a) + Len(b) :
                (a \o b)[k] = IF k <= Len(a) THEN a[k] ELSE b[k - Len(a)]
      BY <1>1, <1>2, ConcatProperties, Zenon
    <2>2. Len(a) + Len(b) = Len(s) - 1
      BY <1>1, <1>2
    <2> QED BY <2>1, <2>2
  <1>4. ASSUME NEW k \in 1..Len(s) - 1
        PROVE  (a \o b)[k] = IF k < i THEN s[k] ELSE s[k + 1]
    <2>1. k \in 1..Len(a) + Len(b)
      BY <1>1, <1>2
    <2>2. CASE k < i
      BY <1>1, <1>3, <2>1, <2>2
    <2>3. CASE ~(k < i)
      <3>1. k - (i - 1) \in 1..(Len(s) - i)
        BY <2>3
      <3>2. b[k - (i - 1)] = s[i + (k - (i - 1))]
        BY <1>2, <3>1
      <3>3. i + (k - (i - 1)) = k + 1
        BY <2>3
      <3>4. (a \o b)[k] = b[k - (i - 1)]
        BY <1>1, <1>3, <2>1, <2>3
      <3> QED BY <2>3, <3>2, <3>3, <3>4
    <2> QED BY <2>2, <2>3
  <1> QED BY <1>3, <1>4 DEF Without, a, b

LEMMA InitInv == Init => IInv
  <1> SUFFICES ASSUME Init PROVE IInv
    OBVIOUS
  <1>1. TypeOK
    <2>1. queued \in Seq(Messages) /\ Len(queued) <= MaxQueued
      BY EmptySeq DEF Init
    <2>2. status \in [Messages -> Statuses]
      BY DEF Init, Statuses
    <2> QED BY <2>1, <2>2 DEF Init, TypeOK, Phases, NoTurn
  <1>2. ClaimOK /\ StampOK /\ HaltOK
    BY DEF Init, ClaimOK, StampOK, HaltOK, Working
  <1> QED BY <1>1, <1>2 DEF IInv

\* Every step keeps the types.
LEMMA TypeStep == IInv /\ [Next]_vars => TypeOK'
  <1> SUFFICES ASSUME IInv, [Next]_vars PROVE TypeOK'
    OBVIOUS
  <1> USE DEF IInv, TypeOK, Becomes, Phases, Statuses, NoTurn, session
  <1>1. ASSUME NEW m \in Messages, Claim(m) PROVE TypeOK'
    BY <1>1, StampType DEF Claim
  <1>2. ASSUME NEW m \in Messages, Enqueue(m) PROVE TypeOK'
    BY <1>2 DEF Enqueue, HasRoom
  <1>3. ASSUME NEW m \in Messages, Remove(m) PROVE TypeOK'
    <2>1. PICK i \in 1..Len(queued) :
             queued' = Without(queued, i)
      BY <1>3 DEF Remove
    <2>2. queued' \in Seq(Messages) /\ Len(queued') = Len(queued) - 1
      BY <2>1, RemoveAt
    <2> QED BY <1>3, <2>2 DEF Remove
  <1>4. CASE Spawn
    BY <1>4 DEF Spawn, GateOpen
  <1>5. CASE EnterTurn
    BY <1>5 DEF EnterTurn, StopWon
  <1>6. CASE RefuseTurn
    BY <1>6 DEF RefuseTurn
  <1>7. CASE BeginTurn
    BY <1>7 DEF BeginTurn, StopWon, RestoreHolds
  <1>8. CASE EndTurn
    BY <1>8 DEF EndTurn
  <1>9. CASE NextTurn
    <2>1. CASE MustLeave
      BY <1>9, <2>1 DEF NextTurn
    <2>2. CASE ~MustLeave
      <3>1. queued # <<>>
        BY <2>2 DEF MustLeave
      <3>2. /\ Head(queued) \in Messages
            /\ Tail(queued) \in Seq(Messages)
            /\ Len(Tail(queued)) = Len(queued) - 1
        BY <3>1, HeadTailProperties
      <3>3. StampOf(Head(queued)) \in Delegated \union {NoStamp}
        BY <3>2, StampType
      <3> QED BY <1>9, <2>2, <3>2, <3>3 DEF NextTurn, ArmedStamp
    <2> QED BY <2>1, <2>2
  <1>10. CASE Leave
    BY <1>10 DEF Leave
  <1>11. CASE StopGeneration \/ ShutdownStop
    <2>1. queued' \in Seq(Messages) /\ Len(queued') <= MaxQueued
      <3>1. queued' = <<>>
        BY <1>11 DEF StopGeneration, ShutdownStop, StopSession
      <3> QED BY <3>1, EmptySeq
    <2>2. status' \in [Messages -> Statuses]
      BY <1>11 DEF StopGeneration, ShutdownStop, StopSession
    <2>3. closing' \in {"open", "closing", "stopped"}
      BY <1>11 DEF StopGeneration, ShutdownStop
    <2> QED
      BY <1>11, <2>1, <2>2, <2>3 DEF StopGeneration, ShutdownStop, StopSession
  <1>12. CASE Archive \/ Unarchive \/ BeginRestore \/ EndRestore \/ BeginShutdown
    <2>1. CASE Archive \/ Unarchive
      BY <2>1 DEF Archive, Unarchive
    <2>2. CASE BeginRestore \/ EndRestore
      BY <2>2 DEF BeginRestore, EndRestore
    <2>3. CASE BeginShutdown
      BY <2>3 DEF BeginShutdown
    <2> QED BY <1>12, <2>1, <2>2, <2>3
  <1>13. CASE UNCHANGED vars
    BY <1>13 DEF vars
  <1> QED
    BY <1>1, <1>2, <1>3, <1>4, <1>5, <1>6, <1>7, <1>8, <1>9, <1>10, <1>11, <1>12, <1>13
    DEF Next, WorkerStep

\* Every step keeps the claim and the worker together.
LEMMA ClaimStep == IInv /\ [Next]_vars => ClaimOK'
  <1> SUFFICES ASSUME TypeOK, ClaimOK, [Next]_vars PROVE ClaimOK'
    BY DEF IInv
  <1> USE DEF ClaimOK, session
  <1>1. ASSUME NEW m \in Messages, Claim(m) \/ Enqueue(m) \/ Remove(m)
        PROVE  ClaimOK'
    BY <1>1 DEF Claim, Enqueue, Remove
  <1>2. CASE Spawn
    <2>1. \/ queueWorker' = queueWorker /\ worker' = "starting"
          \/ queueWorker' = FALSE /\ worker' = "none"
      BY <1>2 DEF Spawn
    <2>2. worker = "claimed" /\ UNCHANGED <<active, archived, restoring>>
      BY <1>2 DEF Spawn
    <2> QED BY <2>1, <2>2
  <1>3. CASE EnterTurn \/ RefuseTurn
    BY <1>3 DEF EnterTurn, RefuseTurn
  <1>4. CASE BeginTurn
    BY <1>4 DEF BeginTurn, RestoreHolds
  <1>5. CASE EndTurn \/ NextTurn \/ Leave
    BY <1>5 DEF EndTurn, NextTurn, Leave
  <1>6. CASE StopGeneration \/ ShutdownStop
    BY <1>6 DEF StopGeneration, ShutdownStop, StopSession
  <1>7. CASE Archive
    BY <1>7 DEF Archive, Busy
  <1>8. CASE Unarchive \/ BeginRestore \/ EndRestore \/ BeginShutdown
    BY <1>8 DEF Unarchive, BeginRestore, EndRestore, BeginShutdown
  <1>9. CASE UNCHANGED vars
    BY <1>9 DEF vars
  <1> QED
    BY <1>1, <1>2, <1>3, <1>4, <1>5, <1>6, <1>7, <1>8, <1>9 DEF Next, WorkerStep

\* Every step keeps the stamp with its message.
LEMMA StampStep == IInv /\ [Next]_vars => StampOK'
  <1> SUFFICES ASSUME TypeOK, ClaimOK, StampOK, [Next]_vars PROVE StampOK'
    BY DEF IInv
  <1> USE DEF StampOK, Working, session
  <1>1. ASSUME NEW m \in Messages, Claim(m) PROVE StampOK'
    BY <1>1 DEF Claim
  <1>2. ASSUME NEW m \in Messages, Enqueue(m) \/ Remove(m) PROVE StampOK'
    BY <1>2 DEF Enqueue, Remove
  <1>3. CASE Spawn
    BY <1>3 DEF Spawn
  <1>4. CASE EnterTurn
    BY <1>4 DEF EnterTurn
  <1>5. CASE RefuseTurn \/ BeginTurn \/ EndTurn
    BY <1>5 DEF RefuseTurn, BeginTurn, EndTurn
  <1>6. CASE NextTurn
    <2>1. CASE MustLeave
      BY <1>6, <2>1 DEF NextTurn
    <2>2. CASE ~MustLeave
      <3>1. Head(queued) \in Messages
        BY <2>2, HeadTailProperties DEF MustLeave, TypeOK
      <3> QED BY <1>6, <2>2, <3>1 DEF NextTurn, ArmedStamp
    <2> QED BY <2>1, <2>2
  <1>7. CASE Leave
    BY <1>7 DEF Leave
  <1>8. CASE StopGeneration \/ ShutdownStop
    BY <1>8 DEF StopGeneration, ShutdownStop, StopSession
  <1>9. CASE Archive \/ Unarchive \/ BeginRestore \/ EndRestore \/ BeginShutdown
    BY <1>9 DEF Archive, Unarchive, BeginRestore, EndRestore, BeginShutdown
  <1>10. CASE UNCHANGED vars
    BY <1>10 DEF vars
  <1> QED
    BY <1>1, <1>2, <1>3, <1>4, <1>5, <1>6, <1>7, <1>8, <1>9, <1>10 DEF Next, WorkerStep

\* Every step keeps a withdrawn message in front of a raised queueHalt.
LEMMA HaltStep == IInv /\ [Next]_vars => HaltOK'
  <1> SUFFICES ASSUME IInv, [Next]_vars PROVE HaltOK'
    OBVIOUS
  <1> USE DEF IInv, TypeOK, ClaimOK, HaltOK, session, Becomes
  <1>1. ASSUME NEW m \in Messages, Claim(m) PROVE HaltOK'
    BY <1>1 DEF Claim
  <1>2. ASSUME NEW m \in Messages, Enqueue(m) PROVE HaltOK'
    BY <1>2 DEF Enqueue
  <1>3. ASSUME NEW m \in Messages, Remove(m) PROVE HaltOK'
    <2>1. PICK i \in 1..Len(queued) :
             /\ queued[i] = m
             /\ queued' = Without(queued, i)
      BY <1>3 DEF Remove
    <2>2. /\ Len(queued') = Len(queued) - 1
          /\ \A k \in 1..Len(queued) - 1 :
                queued'[k] = IF k < i THEN queued[k] ELSE queued[k + 1]
      <3>1. queued \in Seq(Messages)
        OBVIOUS
      <3> HIDE DEF IInv, TypeOK, ClaimOK, HaltOK, session, Becomes
      <3>2. /\ Len(Without(queued, i)) = Len(queued) - 1
            /\ \A k \in 1..Len(queued) - 1 :
                  Without(queued, i)[k] = IF k < i THEN queued[k] ELSE queued[k + 1]
        BY <3>1, RemoveAt
      <3> QED BY <2>1, <3>2
    <2>3. \A k \in 1..Len(queued') : queued'[k] # m /\ status[queued'[k]] = "queued"
      BY <2>1, <2>2
    <2>4. \A j, k \in 1..Len(queued') : queued'[j] = queued'[k] => j = k
      BY <2>1, <2>2
    <2>5. status' = [status EXCEPT ![m] = "withdrawn"] /\ status[m] = "queued"
      BY <1>3, <2>1 DEF Remove
    <2>6. \A k \in 1..Len(queued') : queued'[k] \in Messages
      <3>1. queued' \in Seq(Messages)
        BY <2>1, RemoveAt
      <3> QED BY <3>1
    <2>7. \A k \in 1..Len(queued') : status'[queued'[k]] = "queued"
      BY <2>3, <2>5, <2>6
    <2>8. UNCHANGED <<worker, turn, queueHalt, closing>>
      BY <1>3 DEF Remove
    <2>9. worker \in Working => turn \in Messages /\ turn # m /\ status'[turn] = status[turn]
      BY <2>5 DEF StampOK, Working
    <2> QED BY <2>4, <2>7, <2>8, <2>9 DEF Working
  <1>4. CASE Spawn
    <2>1. worker = "claimed" /\ turn \in Messages /\ UNCHANGED <<queued, closing>>
      BY <1>4 DEF Spawn, StampOK, Working
    <2>2. CASE GateOpen
      BY <1>4, <2>1, <2>2 DEF Spawn, GateOpen
    <2>3. CASE ~GateOpen
      <3>1. /\ worker' = "none"
            /\ status' = [status EXCEPT ![turn] = "settled"]
        BY <1>4, <2>3 DEF Spawn
      <3>2. \A k \in 1..Len(queued) : queued[k] \in Messages /\ queued[k] # turn
        BY <2>1
      <3>3. \A k \in 1..Len(queued') : status'[queued'[k]] = "queued"
        BY <2>1, <3>1, <3>2
      <3> QED BY <2>1, <3>1, <3>3
    <2> QED BY <2>2, <2>3
  <1>5. CASE EnterTurn
    BY <1>5 DEF EnterTurn, StopWon, StampOK, Working
  <1>6. CASE RefuseTurn
    BY <1>6 DEF RefuseTurn, StampOK, Working
  <1>7. CASE BeginTurn
    BY <1>7 DEF BeginTurn, StopWon, StampOK, Working
  <1>8. CASE EndTurn
    BY <1>8 DEF EndTurn, StampOK, Working
  <1>9. CASE NextTurn
    <2>1. CASE MustLeave
      BY <1>9, <2>1 DEF NextTurn
    <2>2. CASE ~MustLeave
      <3>1. /\ queued # <<>> /\ ~queueHalt
            /\ Head(queued) = queued[1]
            /\ queued[1] \in Messages
            /\ Len(Tail(queued)) = Len(queued) - 1
            /\ \A k \in 1..Len(Tail(queued)) : Tail(queued)[k] = queued[k + 1]
        BY <2>2, HeadTailProperties DEF MustLeave
      <3>2. /\ queued' = Tail(queued) /\ turn' = queued[1] /\ worker' = "starting"
            /\ status' = [status EXCEPT ![queued[1]] = "taken"]
            /\ UNCHANGED <<queueHalt, closing>>
            /\ worker = "between"
        BY <1>9, <2>2, <3>1 DEF NextTurn
      <3>3. \A k \in 1..Len(queued') : queued'[k] # queued[1] /\ status[queued'[k]] = "queued"
        BY <3>1, <3>2
      <3>4. \A j, k \in 1..Len(queued') : queued'[j] = queued'[k] => j = k
        BY <3>1, <3>2
      <3> QED BY <3>1, <3>2, <3>3, <3>4
    <2> QED BY <2>1, <2>2
  <1>10. CASE Leave
    BY <1>10 DEF Leave
  <1>11. CASE StopGeneration \/ ShutdownStop
    <2>1. StopSession /\ worker' = worker /\ turn' = turn /\ queueHalt' = TRUE
      BY <1>11 DEF StopGeneration, ShutdownStop, StopSession
    <2>2. Len(queued') = 0
      BY <2>1 DEF StopSession
    <2>3. worker \in Working => turn \notin Queue
      BY DEF Queue, Working
    <2> QED BY <2>1, <2>2, <2>3 DEF StopSession, StampOK, Working
  <1>12. CASE Archive \/ Unarchive \/ BeginRestore \/ EndRestore
    BY <1>12 DEF Archive, Unarchive, BeginRestore, EndRestore
  <1>13. CASE BeginShutdown
    BY <1>13 DEF BeginShutdown
  <1>14. CASE UNCHANGED vars
    BY <1>14 DEF vars
  <1> QED
    BY <1>1, <1>2, <1>3, <1>4, <1>5, <1>6, <1>7, <1>8, <1>9, <1>10, <1>11, <1>12,
       <1>13, <1>14 DEF Next, WorkerStep

\* The inductive invariant holds of every behaviour.
THEOREM Inductive == Spec => []IInv
  <1>1. IInv /\ [Next]_vars => IInv'
    BY TypeStep, ClaimStep, StampStep, HaltStep DEF IInv
  <1> QED BY <1>1, InitInv, PTL DEF Spec

\* The session's fields keep their types and the queue its limit, for every
\* set of messages and every limit (app.go, session.go).
THEOREM TypeCorrect == Spec => []TypeOK
  <1>1. IInv => TypeOK
    BY DEF IInv
  <1> QED BY <1>1, Inductive, PTL

\* However claims, follow-ups, removals and stops are interleaved, a turn runs
\* under the delegation stamp its own message came with.
THEOREM TurnStamp == Spec => []TurnHasItsStamp
  <1>1. IInv => TurnHasItsStamp
    BY DEF IInv, StampOK, TurnHasItsStamp
  <1> QED BY <1>1, Inductive, PTL

\* Nothing runs in an archived chat.
THEOREM ArchiveSafe == Spec => []ArchivedIsIdle
  <1>1. IInv => ArchivedIsIdle
    BY DEF IInv, ClaimOK, ArchivedIsIdle
  <1> QED BY <1>1, Inductive, PTL

\* No turn runs while an artifact version is restored in its project.
THEOREM RestoreSafe == Spec => []RestoreExcludesTurns
  <1>1. IInv => RestoreExcludesTurns
    BY DEF IInv, ClaimOK, RestoreExcludesTurns
  <1> QED BY <1>1, Inductive, PTL

\* What Stop or Remove withdrew never runs, although Stop may find no context
\* that it could cancel.
THEOREM Withdrawn == Spec => WithdrawnNeverRuns
  <1>1. IInv /\ [Next]_vars =>
           [\A m \in Messages :
               status[m] = "withdrawn" => status'[m] \in {"withdrawn", "settled"}]_vars
    <2> SUFFICES ASSUME IInv, [Next]_vars,
                        NEW m \in Messages, status[m] = "withdrawn"
                 PROVE  status'[m] \in {"withdrawn", "settled"}
      OBVIOUS
    <2> USE DEF IInv, TypeOK, Becomes, session
    <2>1. ASSUME NEW n \in Messages, Claim(n) \/ Enqueue(n) \/ Remove(n)
          PROVE  status'[m] \in {"withdrawn", "settled"}
      BY <2>1 DEF Claim, Enqueue, Remove
    <2>2. CASE Spawn \/ EnterTurn \/ RefuseTurn \/ EndTurn
      BY <2>2 DEF Spawn, EnterTurn, RefuseTurn, EndTurn
    <2>3. CASE BeginTurn
      BY <2>3 DEF BeginTurn, StopWon, HaltOK
    <2>4. CASE NextTurn
      <3>1. CASE MustLeave
        BY <2>4, <3>1 DEF NextTurn
      <3>2. CASE ~MustLeave
        <4>1. Head(queued) = queued[1] /\ 1 \in 1..Len(queued)
          BY <3>2, HeadTailProperties DEF MustLeave
        <4>2. status[Head(queued)] = "queued"
          BY <4>1 DEF HaltOK
        <4> QED BY <2>4, <3>2, <4>2 DEF NextTurn
      <3> QED BY <3>1, <3>2
    <2>5. CASE Leave \/ Archive \/ Unarchive \/ BeginRestore \/ EndRestore \/ BeginShutdown
      BY <2>5 DEF Leave, Archive, Unarchive, BeginRestore, EndRestore, BeginShutdown
    <2>6. CASE StopGeneration \/ ShutdownStop
      BY <2>6 DEF StopGeneration, ShutdownStop, StopSession
    <2>7. CASE UNCHANGED vars
      BY <2>7 DEF vars
    <2> QED BY <2>1, <2>2, <2>3, <2>4, <2>5, <2>6, <2>7 DEF Next, WorkerStep
  <1> QED BY <1>1, Inductive, PTL DEF Spec, WithdrawnNeverRuns

\* After shutdown has stopped the sessions no turn begins.
THEOREM Shutdown == Spec => ShutdownIsFinal
  <1>1. IInv /\ [Next]_vars => [closing = "stopped" /\ ~active => ~active']_vars
    <2> SUFFICES ASSUME IInv, [Next]_vars, closing = "stopped", ~active
                 PROVE  ~active'
      OBVIOUS
    <2>1. CASE BeginTurn
      BY <2>1 DEF BeginTurn, StopWon, IInv, HaltOK
    <2>2. ASSUME NEW m \in Messages, Claim(m) \/ Enqueue(m) \/ Remove(m)
          PROVE  ~active'
      BY <2>2 DEF Claim, Enqueue, Remove
    <2>3. CASE Spawn
      BY <2>3, Zenon DEF Spawn, session
    <2>4. CASE EnterTurn \/ RefuseTurn \/ EndTurn \/ NextTurn \/ Leave
      BY <2>4, Zenon DEF EnterTurn, RefuseTurn, EndTurn, NextTurn, Leave, session
    <2>5. CASE StopGeneration \/ ShutdownStop
      BY <2>5, Zenon DEF StopGeneration, ShutdownStop, StopSession
    <2>6. CASE Archive \/ Unarchive \/ BeginRestore \/ EndRestore \/ BeginShutdown
      BY <2>6, Zenon DEF Archive, Unarchive, BeginRestore, EndRestore, BeginShutdown, session
    <2>7. CASE UNCHANGED vars
      BY <2>7 DEF vars, session
    <2> QED BY <2>1, <2>2, <2>3, <2>4, <2>5, <2>6, <2>7 DEF Next, WorkerStep
  <1> QED BY <1>1, Inductive, PTL DEF Spec, ShutdownIsFinal

\* Nothing works in an archived chat or under a workspace that is restored.
THEOREM VisibleAlways == Spec => []TurnsAreVisible
  BY ArchiveSafe, RestoreSafe, PTL DEF TurnsAreVisible

\* What Stop, Remove and shutdown took back does not come again.
THEOREM EndsAreFinal == Spec => EndIsFinal
  BY Withdrawn, Shutdown DEF EndIsFinal
=============================================================================
