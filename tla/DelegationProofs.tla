-------------------------- MODULE DelegationProofs --------------------------
(* The safety of delegated runs for any set of runs, targets and cancelling  *)
(* goroutines, any limits, and a run file that may fail or not; then that of *)
(* a fan-out of any number of them.                                          *)
EXTENDS DelegationBatch, FiniteSetTheorems, SequenceTheorems, TLAPS

\* A run that was not started has left no trace.
Fresh ==
    \A r \in Runs :
        pc[r] = "new" =>
            /\ row[r] = "absent" /\ registry[r] # "live" /\ child[r] = "none"
            /\ \A c \in Cancellers : crun[c] # r

\* A cancellation has a run; it is past stopping the child when it gives the
\* slot back; one that did not find the run live never will.
CancelOK ==
    \A c \in Cancellers :
        cpc[c] # "off" =>
            /\ crun[c] \in Runs
            /\ cpc[c] = "release" => child[crun[c]] # "busy"
            /\ ~clive[c] => registry[crun[c]] # "live" /\ cpc[c] \in {"finish", "tell"}

\* Where the owner ends the row, its child is not at work any more.
Quiet ==
    \A r \in Runs :
        pc[r] \in {"unstarted", "cutoff", "sawIdle", "finish"} => child[r] # "busy"

\* A child whose row is not live any more is about to be stopped.
Ended ==
    \A r \in Runs :
        child[r] = "busy" /\ row[r] # "running" => closing \/ WillStop(r)

\* What is told was decided.
TellOK == \A r \in Runs : pc[r] \in {"release", "tell"} => verdict[r] \in Terminal

IInv == TypeOK /\ TellOK /\ Fresh /\ CancelOK /\ Quiet /\ Ended /\ NoOrphan

USE DelegationAssumption

Status == {"absent", "running"} \union Terminal

\* Retention keeps the types and touches terminal rows only.
LEMMA FittedKeeps ==
  ASSUME NEW rows \in [Runs -> Status], NEW ages, NEW new \in Fitted(rows, ages)
  PROVE  /\ new \in [Runs -> Status]
         /\ \A r \in Runs : new[r] = rows[r] \/ (rows[r] \in Terminal /\ new[r] = "absent")
  BY DEF Fitted, Droppable, Status

LEMMA RunsCount ==
  ASSUME NEW S \in SUBSET Runs
  PROVE  IsFiniteSet(S) /\ Cardinality(S) \in Nat
  BY FS_Subset, FS_CardinalityType

LEMMA InitInv == Init => IInv
  <1> SUFFICES ASSUME Init PROVE IInv
    OBVIOUS
  <1>1. TypeOK
    <2>1. told \in [Runs -> Seq(Terminal \union {"storage"})]
      BY EmptySeq DEF Init
    <2> QED BY <2>1 DEF Init, TypeOK, OwnerPhases, CancelPhases
  <1>2. TellOK /\ Fresh /\ CancelOK /\ Quiet /\ Ended /\ NoOrphan
    BY DEF Init, TellOK, Fresh, CancelOK, Quiet, Ended, NoOrphan
  <1> QED BY <1>1, <1>2 DEF IInv

\* Every step keeps the types.
\* What finishDelegationRun does for the owner of a run.
LEMMA OwnerFinishes ==
  ASSUME TypeOK, NEW r \in Runs, NEW V \in SUBSET Terminal, NEW p \in OwnerPhases,
         OwnerFinish(r, V, p)
  PROVE  /\ row' \in [Runs -> Status] /\ pc' \in [Runs -> OwnerPhases]
         /\ verdict' \in [Runs -> {"none"} \union Terminal]
         /\ UNCHANGED <<registry, born, child, cpc, crun, clive, cwon, closing, told>>
  <1> USE DEF TypeOK, OwnerGoes
  <1>1. "failing" \in OwnerPhases /\ "exit" \in OwnerPhases
    BY DEF OwnerPhases
  <1>2. row \in [Runs -> Status]
    BY DEF Status
  <1>3. UNCHANGED <<registry, born, child, cpc, crun, clive, cwon, closing, told>>
    BY DEF OwnerFinish, cancel
  <1>4. CASE pc' = [pc EXCEPT ![r] = "failing"] /\ UNCHANGED <<row, verdict>>
    BY <1>1, <1>2, <1>3, <1>4
  <1>5. CASE pc' = [pc EXCEPT ![r] = "exit"] /\ UNCHANGED <<row, verdict>>
    BY <1>1, <1>2, <1>3, <1>5
  <1>6. ASSUME NEW v \in V, pc' = [pc EXCEPT ![r] = p], row' = [row EXCEPT ![r] = v],
               verdict' = [verdict EXCEPT ![r] = v]
        PROVE  /\ row' \in [Runs -> Status] /\ pc' \in [Runs -> OwnerPhases]
               /\ verdict' \in [Runs -> {"none"} \union Terminal]
    BY <1>2, <1>6 DEF Status
  <1> QED BY <1>3, <1>4, <1>5, <1>6 DEF OwnerFinish

\* The state of a cancelling goroutine keeps its types.
LEMMA CancelMoves ==
  ASSUME TypeOK, NEW c \in Cancellers, NEW p \in CancelPhases, NEW on \in BOOLEAN,
         \/ CancelGoes(c, p) /\ (cwon' = [cwon EXCEPT ![c] = TRUE] \/ UNCHANGED cwon)
         \/ CancelGoesOrEnds(c, on, p)
         \/ CancelEnds(c)
  PROVE  /\ cpc' \in [Cancellers -> CancelPhases]
         /\ crun' \in [Cancellers -> Runs \union {NoRun}]
         /\ clive' \in [Cancellers -> BOOLEAN]
         /\ cwon' \in [Cancellers -> BOOLEAN]
  <1> USE DEF TypeOK
  <1>1. CASE CancelEnds(c)
    <2>1. "off" \in CancelPhases
      BY DEF CancelPhases
    <2> QED BY <1>1, <2>1 DEF CancelEnds
  <1>2. CASE CancelGoes(c, p) /\ (cwon' = [cwon EXCEPT ![c] = TRUE] \/ UNCHANGED cwon)
    BY <1>2 DEF CancelGoes
  <1> QED BY <1>1, <1>2 DEF CancelGoesOrEnds

\* The outcomes of finishDelegationRun for the owner.
LEMMA FinishShape ==
  ASSUME NEW r \in Runs, FinishUnstarted(r) \/ FinishCutoff(r) \/ Finalize(r)
  PROVE  /\ pc[r] \in {"unstarted", "cutoff", "finish"}
         /\ UNCHANGED <<registry, born, child, cancel, closing, told>>
         /\ \/ pc' = [pc EXCEPT ![r] = "failing"] /\ UNCHANGED <<row, verdict>>
            \/ pc' = [pc EXCEPT ![r] = "exit"] /\ row[r] \in Terminal /\ UNCHANGED <<row, verdict>>
            \/ /\ row[r] = "running"
               /\ \E v \in Terminal, p \in {"release", "tell"} :
                     /\ pc' = [pc EXCEPT ![r] = p]
                     /\ row' = [row EXCEPT ![r] = v]
                     /\ verdict' = [verdict EXCEPT ![r] = v]
  <1>1. PICK V \in SUBSET Terminal, p \in {"release", "tell"} : OwnerFinish(r, V, p)
    BY DEF FinishUnstarted, FinishCutoff, Finalize, FinalStatuses, Terminal
  <1>2. pc[r] \in {"unstarted", "cutoff", "finish"}
    BY DEF FinishUnstarted, FinishCutoff, Finalize, OwnerAt
  <1>3. UNCHANGED <<registry, born, child, cancel, closing, told>>
    BY <1>1 DEF OwnerFinish
  <1> HIDE DEF FinishUnstarted, FinishCutoff, Finalize
  <1>4. \/ pc' = [pc EXCEPT ![r] = "failing"] /\ UNCHANGED <<row, verdict>>
        \/ pc' = [pc EXCEPT ![r] = "exit"] /\ row[r] \in Terminal /\ UNCHANGED <<row, verdict>>
        \/ /\ row[r] = "running"
           /\ \E v \in V :
                 /\ pc' = [pc EXCEPT ![r] = p]
                 /\ row' = [row EXCEPT ![r] = v]
                 /\ verdict' = [verdict EXCEPT ![r] = v]
    BY <1>1, Zenon DEF OwnerFinish, OwnerGoes, EndsRow
  <1> QED BY <1>1, <1>2, <1>3, <1>4

\* The steps of the owner that only move it on.
LEMMA OwnerMoves ==
  ASSUME NEW r \in Runs,
         TellVerdict(r) \/ TellFailed(r) \/ Tick(r) \/ Look(r) \/ Progress(r)
  PROVE  /\ pc[r] # "new"
         /\ UNCHANGED <<registry, row, child, cancel, closing>>
         /\ \E p \in {"exit", "alive", "sawBusy", "sawIdle", "failing", "looping"} :
               /\ pc' = [pc EXCEPT ![r] = p]
               /\ p = "sawIdle" => child[r] \notin {"busy", "halting"}
  <1> USE DEF OwnerAt, OwnerGoes
  <1>1. CASE TellVerdict(r) \/ TellFailed(r)
    BY <1>1 DEF TellVerdict, TellFailed
  <1>2. CASE Tick(r)
    BY <1>2 DEF Tick
  <1>3. CASE Look(r)
    BY <1>3 DEF Look, ChildRuns
  <1>4. CASE Progress(r)
    BY <1>4 DEF Progress
  <1> QED BY <1>1, <1>2, <1>3, <1>4

\* What the start of a run does to the rows.
LEMMA PublishRows ==
  ASSUME TypeOK, NEW r \in Runs, Publish(r)
  PROVE  /\ row[r] = "absent" /\ row'[r] = "running"
         /\ row' \in [Runs -> Status]
         /\ \A q \in Runs \ {r} :
               row'[q] = row[q] \/ (row[q] \in Terminal /\ row'[q] = "absent")
  <1> DEFINE new == [row EXCEPT ![r] = "running"]
  <1>1. new \in [Runs -> Status] /\ new[r] = "running" /\ \A q \in Runs \ {r} : new[q] = row[q]
    BY DEF Status, TypeOK
  <1>2. row' \in Fitted(new, born') /\ row[r] = "absent"
    BY DEF Publish
  <1> HIDE DEF new
  <1>3. /\ row' \in [Runs -> Status]
        /\ \A q \in Runs : row'[q] = new[q] \/ (new[q] \in Terminal /\ row'[q] = "absent")
    BY <1>1, <1>2, FittedKeeps
  <1> QED BY <1>1, <1>2, <1>3 DEF Terminal

\* A terminal event is appended to those of its run.
LEMMA ToldTyped ==
  ASSUME TypeOK, NEW r \in Runs, NEW v \in Terminal \union {"storage"}, Tell(r, v)
  PROVE  told' \in [Runs -> Seq(Terminal \union {"storage"})]
  <1> DEFINE E == Terminal \union {"storage"}
  <1>1. told[r] \in Seq(E)
    BY DEF TypeOK
  <1>2. Append(told[r], v) \in Seq(E)
    BY <1>1, AppendProperties
  <1> QED BY <1>2 DEF TypeOK, Tell

LEMMA TypeStep == TypeOK /\ TellOK /\ CancelOK /\ [Next]_vars => TypeOK'
  <1> SUFFICES ASSUME TypeOK, TellOK, CancelOK, [Next]_vars PROVE TypeOK'
    OBVIOUS
  <1> USE DEF TypeOK
  <1>1. ASSUME NEW r \in Runs, Publish(r) PROVE TypeOK'
    <2>1. Cardinality({q \in Runs : born[q] > 0}) \in Nat
      BY RunsCount
    <2>2. born' \in [Runs -> Nat]
      BY <1>1, <2>1 DEF Publish
    <2>3. row' \in [Runs -> Status]
      <3>1. [row EXCEPT ![r] = "running"] \in [Runs -> Status]
        BY DEF Status
      <3>2. row' \in Fitted([row EXCEPT ![r] = "running"], born')
        BY <1>1 DEF Publish
      <3> HIDE DEF TypeOK
      <3> QED BY <3>1, <3>2, FittedKeeps
    <2>4. registry' \in [Runs -> {"none", "reserved", "live"}]
      BY <1>1 DEF Publish
    <2>5. child' \in [Runs -> {"none", "busy", "halting", "idle"}]
      BY <1>1 DEF Publish
    <2>6. pc' \in [Runs -> OwnerPhases]
      BY <1>1 DEF Publish, OwnerGoes, OwnerPhases
    <2>7. UNCHANGED <<verdict, cancel, closing, told>>
      BY <1>1 DEF Publish
    <2> QED BY <2>2, <2>3, <2>4, <2>5, <2>6, <2>7 DEF Status, cancel
  <1>2. ASSUME NEW B \in SUBSET Runs, Reserve(B) PROVE TypeOK'
    <2>1. registry' \in [Runs -> {"none", "reserved", "live"}]
      BY <1>2 DEF Reserve
    <2>2. UNCHANGED <<row, born, child, pc, verdict, cpc, crun, clive, cwon, closing, told>>
      BY <1>2 DEF Reserve, owner, cancel
    <2> QED BY <2>1, <2>2
  <1>3. ASSUME NEW r \in Runs, ReleaseReservation(r) PROVE TypeOK'
    <2>1. registry' \in [Runs -> {"none", "reserved", "live"}]
      BY <1>3 DEF ReleaseReservation
    <2>2. UNCHANGED <<row, born, child, pc, verdict, cpc, crun, clive, cwon, closing, told>>
      BY <1>3 DEF ReleaseReservation, owner, cancel
    <2> QED BY <2>1, <2>2
  <1>4. ASSUME NEW r \in Runs, SpawnMonitor(r) PROVE TypeOK'
    <2>1. child' \in [Runs -> {"none", "busy", "halting", "idle"}]
      BY <1>4 DEF SpawnMonitor, StopChild, Halted
    <2>2. pc' \in [Runs -> OwnerPhases]
      BY <1>4 DEF SpawnMonitor, StopChild, Halted, OwnerPhases, OwnerGoes, OwnerAt
    <2>3. UNCHANGED <<registry, row, born, verdict, cpc, crun, clive, cwon, closing, told>>
      BY <1>4 DEF SpawnMonitor, StopChild, Halted, owner, cancel
    <2> QED BY <2>1, <2>2, <2>3
  <1>5. ASSUME NEW r \in Runs, FinishUnstarted(r) \/ FinishCutoff(r) \/ Finalize(r) PROVE TypeOK'
    <2>1. PICK V \in SUBSET Terminal, p \in OwnerPhases : OwnerFinish(r, V, p)
      BY <1>5 DEF FinishUnstarted, FinishCutoff, Finalize, FinalStatuses, Terminal, OwnerPhases
    <2> HIDE DEF TypeOK
    <2>2. /\ row' \in [Runs -> Status] /\ pc' \in [Runs -> OwnerPhases]
          /\ verdict' \in [Runs -> {"none"} \union Terminal]
          /\ UNCHANGED <<registry, born, child, cpc, crun, clive, cwon, closing, told>>
      BY <2>1, OwnerFinishes
    <2> QED BY <2>2 DEF TypeOK, Status
  <1>6. ASSUME NEW r \in Runs, Release(r) \/ Exit(r) \/ TakeOwner(r) PROVE TypeOK'
    <2>1. registry' \in [Runs -> {"none", "reserved", "live"}]
      BY <1>6 DEF Release, Exit, TakeOwner
    <2>2. pc' \in [Runs -> OwnerPhases]
      BY <1>6 DEF Release, Exit, TakeOwner, OwnerPhases, OwnerGoes, OwnerAt
    <2>3. UNCHANGED <<row, born, child, verdict, cpc, crun, clive, cwon, closing, told>>
      BY <1>6 DEF Release, Exit, TakeOwner, owner, cancel
    <2> QED BY <2>1, <2>2, <2>3
  <1>7. ASSUME NEW r \in Runs, TellVerdict(r) PROVE TypeOK'
    <2>1. told' \in [Runs -> Seq(Terminal \union {"storage"})]
      <3>1. verdict[r] \in Terminal
        BY <1>7 DEF TellOK, TellVerdict, OwnerAt
      <3>2. Tell(r, verdict[r])
        BY <1>7 DEF TellVerdict
      <3> HIDE DEF TypeOK
      <3> QED BY <3>1, <3>2, ToldTyped
    <2>2. verdict' \in [Runs -> {"none"} \union Terminal]
      BY <1>7 DEF TellVerdict, Terminal
    <2>3. pc' \in [Runs -> OwnerPhases]
      BY <1>7 DEF TellVerdict, OwnerPhases, OwnerGoes, OwnerAt
    <2>4. UNCHANGED <<registry, row, born, child, cpc, crun, clive, cwon, closing>>
      BY <1>7 DEF TellVerdict, owner, cancel
    <2> QED BY <2>1, <2>2, <2>3, <2>4
  <1>8. ASSUME NEW r \in Runs, TellFailed(r) PROVE TypeOK'
    <2>1. told' \in [Runs -> Seq(Terminal \union {"storage"})]
      <3>1. Tell(r, "storage")
        BY <1>8 DEF TellFailed
      <3> HIDE DEF TypeOK
      <3> QED BY <3>1, ToldTyped
    <2>2. pc' \in [Runs -> OwnerPhases]
      BY <1>8 DEF TellFailed, OwnerPhases, OwnerGoes, OwnerAt
    <2>3. UNCHANGED <<registry, row, born, child, verdict, cpc, crun, clive, cwon, closing>>
      BY <1>8 DEF TellFailed, owner, cancel
    <2> QED BY <2>1, <2>2, <2>3
  <1>9. ASSUME NEW r \in Runs, HaltFailed(r) PROVE TypeOK'
    <2>1. child' \in [Runs -> {"none", "busy", "halting", "idle"}]
      BY <1>9 DEF HaltFailed, StopChild, Halted
    <2>2. pc' \in [Runs -> OwnerPhases]
      BY <1>9 DEF HaltFailed, StopChild, Halted, OwnerPhases, OwnerGoes, OwnerAt
    <2>3. UNCHANGED <<registry, row, born, verdict, cpc, crun, clive, cwon, closing, told>>
      BY <1>9 DEF HaltFailed, StopChild, Halted, owner, cancel
    <2> QED BY <2>1, <2>2, <2>3
  <1>10. ASSUME NEW r \in Runs, Tick(r) \/ Look(r) \/ Progress(r) PROVE TypeOK'
    <2>1. pc' \in [Runs -> OwnerPhases]
      BY <1>10 DEF Tick, Look, Progress, OwnerPhases, OwnerGoes, OwnerAt
    <2>2. UNCHANGED <<registry, row, born, child, verdict, cpc, crun, clive, cwon, closing, told>>
      BY <1>10 DEF Tick, Look, Progress, owner, cancel
    <2> QED BY <2>1, <2>2
  <1>11. ASSUME NEW r \in Runs, Load(r) PROVE TypeOK'
    <2>1. pc' \in [Runs -> OwnerPhases]
      <3>1. PICK p \in {"failing", "exit", "finish", "looping", "progress"} : pc' = [pc EXCEPT ![r] = p]
        BY <1>11 DEF Load, OwnerGoes
      <3>2. p \in OwnerPhases
        BY DEF OwnerPhases
      <3> QED BY <3>1, <3>2
    <2>2. child' \in [Runs -> {"none", "busy", "halting", "idle"}]
      BY <1>11 DEF Load, DeadlineStop, StopChild, Halted
    <2>3. UNCHANGED <<registry, row, born, verdict, cpc, crun, clive, cwon, closing, told>>
      BY <1>11 DEF Load, DeadlineStop, StopChild, Halted, owner, cancel
    <2> QED BY <2>1, <2>2, <2>3
  <1>12. ASSUME NEW r \in Runs, ChildDone(r) PROVE TypeOK'
    <2>1. child' \in [Runs -> {"none", "busy", "halting", "idle"}]
      BY <1>12 DEF ChildDone
    <2>2. UNCHANGED <<registry, row, born, pc, verdict, cpc, crun, clive, cwon, closing, told>>
      BY <1>12 DEF ChildDone, owner, cancel
    <2> QED BY <2>1, <2>2
  <1>13. ASSUME NEW c \in Cancellers, NEW r \in Runs, CancelBegin(c, r) PROVE TypeOK'
    <2>1. UNCHANGED <<row, born, child, pc, verdict, cwon, closing, told>>
      <3> HIDE DEF TypeOK
      <3> QED BY <1>13 DEF CancelBegin, cancel, owner
    <2>2. CASE registry[r] = "reserved"
      <3>1. registry' = [registry EXCEPT ![r] = "none"] /\ UNCHANGED <<cpc, crun, clive>>
        <4> HIDE DEF TypeOK
        <4> QED BY <1>13, <2>2 DEF CancelBegin, cancel
      <3>2. registry' \in [Runs -> {"none", "reserved", "live"}]
        <4>1. registry \in [Runs -> {"none", "reserved", "live"}]
          BY Zenon
        <4> HIDE DEF TypeOK
        <4> QED BY <3>1, <4>1
      <3> QED BY <2>1, <3>1, <3>2
    <2>3. CASE registry[r] # "reserved"
      <3>1. /\ cpc' = [cpc EXCEPT ![c] = "finish"]
            /\ crun' = [crun EXCEPT ![c] = r]
            /\ clive' = [clive EXCEPT ![c] = registry[r] = "live"]
            /\ registry' = registry
        <4> HIDE DEF TypeOK
        <4> QED BY <1>13, <2>3 DEF CancelBegin
      <3>2. /\ cpc \in [Cancellers -> CancelPhases]
            /\ crun \in [Cancellers -> Runs \union {NoRun}]
            /\ clive \in [Cancellers -> BOOLEAN]
        BY Zenon
      <3>3. /\ cpc' \in [Cancellers -> CancelPhases]
            /\ crun' \in [Cancellers -> Runs \union {NoRun}]
        <4> HIDE DEF TypeOK
        <4> QED BY <3>1, <3>2 DEF CancelPhases
      <3>4. clive' \in [Cancellers -> BOOLEAN]
        <4>1. (registry[r] = "live") \in BOOLEAN
          OBVIOUS
        <4> HIDE DEF TypeOK
        <4> QED BY <3>1, <3>2, <4>1
      <3> QED BY <2>1, <3>1, <3>3, <3>4
    <2> QED BY <2>2, <2>3
  <1>14. ASSUME NEW c \in Cancellers, CancelFinish(c) PROVE TypeOK'
    <2>1. /\ cpc' \in [Cancellers -> CancelPhases]
          /\ crun' \in [Cancellers -> Runs \union {NoRun}]
          /\ clive' \in [Cancellers -> BOOLEAN]
          /\ cwon' \in [Cancellers -> BOOLEAN]
      <3>1. {"finish", "stop", "tell", "failing", "off"} \subseteq CancelPhases /\ clive[c] \in BOOLEAN
        BY DEF CancelPhases
      <3> HIDE DEF TypeOK
      <3>2. CASE CancelGoesOrEnds(c, clive[c], "failing")
        BY <3>1, <3>2, CancelMoves
      <3>3. CASE CancelGoesOrEnds(c, clive[c], "stop")
        BY <3>1, <3>3, CancelMoves
      <3>4. CASE CancelGoes(c, AfterCancelWin(c)) /\ cwon' = [cwon EXCEPT ![c] = TRUE]
        <4>1. AfterCancelWin(c) \in CancelPhases
          BY <3>1 DEF AfterCancelWin
        <4> QED BY <3>4, <4>1, CancelMoves
      <3> QED BY <1>14, <3>2, <3>3, <3>4 DEF CancelFinish
    <2>2. row' \in [Runs -> Status]
      <3>1. row \in [Runs -> Status]
        BY DEF Status
      <3> QED BY <1>14, <3>1 DEF CancelFinish, Status, Terminal
    <2>3. UNCHANGED <<registry, born, child, pc, verdict, closing, told>>
      BY <1>14 DEF CancelFinish, owner
    <2> QED BY <2>1, <2>2, <2>3 DEF Status
  <1>15. ASSUME NEW c \in Cancellers, CancelStop(c) \/ CancelHalt(c) PROVE TypeOK'
    <2>1. /\ cpc' \in [Cancellers -> CancelPhases]
          /\ crun' \in [Cancellers -> Runs \union {NoRun}]
          /\ clive' \in [Cancellers -> BOOLEAN]
          /\ cwon' \in [Cancellers -> BOOLEAN]
      <3>1. "release" \in CancelPhases /\ "tellFailed" \in CancelPhases /\ (cpc[c] = "halt") \in BOOLEAN
        BY DEF CancelPhases
      <3> HIDE DEF TypeOK
      <3>2. CASE CancelStop(c)
        BY <3>1, <3>2, CancelMoves DEF CancelStop
      <3>3. CASE CancelHalt(c)
        BY <3>1, <3>3, CancelMoves DEF CancelHalt
      <3> QED BY <1>15, <3>2, <3>3
    <2>2. child' \in [Runs -> {"none", "busy", "halting", "idle"}]
      BY <1>15 DEF CancelStop, CancelHalt, StopChild, Halted
    <2>3. UNCHANGED <<registry, row, born, pc, verdict, closing, told>>
      BY <1>15 DEF CancelStop, CancelHalt, owner
    <2> QED BY <2>1, <2>2, <2>3
  <1>16. ASSUME NEW c \in Cancellers, CancelRelease(c) \/ CancelTakeOwner(c) PROVE TypeOK'
    <2>1. /\ cpc' \in [Cancellers -> CancelPhases]
          /\ crun' \in [Cancellers -> Runs \union {NoRun}]
          /\ clive' \in [Cancellers -> BOOLEAN]
          /\ cwon' \in [Cancellers -> BOOLEAN]
      <3>1. {"tell", "halt", "stopOnly"} \subseteq CancelPhases /\ cwon[c] \in BOOLEAN
        BY DEF CancelPhases
      <3> HIDE DEF TypeOK
      <3>2. CASE CancelRelease(c)
        BY <3>1, <3>2, CancelMoves DEF CancelRelease
      <3>3. CASE CancelTakeOwner(c)
        BY <3>1, <3>3, CancelMoves DEF CancelTakeOwner
      <3> QED BY <1>16, <3>2, <3>3
    <2>2. registry' \in [Runs -> {"none", "reserved", "live"}]
      BY <1>16 DEF CancelRelease, CancelTakeOwner
    <2>3. UNCHANGED <<row, born, child, pc, verdict, closing, told>>
      BY <1>16 DEF CancelRelease, CancelTakeOwner, owner
    <2> QED BY <2>1, <2>2, <2>3
  <1>17. ASSUME NEW c \in Cancellers, CancelTell(c) \/ CancelTellFailed(c) PROVE TypeOK'
    <2>1. /\ cpc' \in [Cancellers -> CancelPhases]
          /\ crun' \in [Cancellers -> Runs \union {NoRun}]
          /\ clive' \in [Cancellers -> BOOLEAN]
          /\ cwon' \in [Cancellers -> BOOLEAN]
      <3>1. "off" \in CancelPhases
        BY DEF CancelPhases
      <3> HIDE DEF TypeOK
      <3> QED BY <1>17, <3>1, CancelMoves DEF CancelTell, CancelTellFailed
    <2>2. told' \in [Runs -> Seq(Terminal \union {"storage"})]
      <3>1. crun[c] \in Runs
        BY <1>17 DEF CancelOK, CancelTell, CancelTellFailed
      <3>2. Tell(crun[c], "stopped") \/ Tell(crun[c], "storage")
        BY <1>17 DEF CancelTell, CancelTellFailed
      <3>3. {"stopped", "storage"} \subseteq Terminal \union {"storage"}
        BY DEF Terminal
      <3> HIDE DEF TypeOK
      <3> QED BY <3>1, <3>2, <3>3, ToldTyped
    <2>3. UNCHANGED <<registry, row, born, child, pc, verdict, closing>>
      BY <1>17 DEF CancelTell, CancelTellFailed, owner
    <2> QED BY <2>1, <2>2, <2>3
  <1>18. CASE BeginShutdown \/ ShutdownStop
    BY <1>18 DEF BeginShutdown, ShutdownStop, owner, cancel
  <1>19. CASE Restart
    <2>1. row' \in [Runs -> Status]
      BY <1>19 DEF Restart, Status, Terminal
    <2>2. pc' \in [Runs -> OwnerPhases]
      BY <1>19 DEF Restart, OwnerPhases
    <2>3. cpc' \in [Cancellers -> CancelPhases]
      BY <1>19 DEF Restart, CancelPhases
    <2> QED BY <1>19, <2>1, <2>2, <2>3 DEF Restart, Status
  <1>20. CASE UNCHANGED vars
    BY <1>20 DEF vars, owner, cancel
  <1> QED
    BY <1>1, <1>2, <1>3, <1>4, <1>5, <1>6, <1>7, <1>8, <1>9, <1>10, <1>11, <1>12, <1>13, <1>14, <1>15, <1>16, <1>17,
       <1>18, <1>19, <1>20 DEF Next, OwnerStep, CancelStep

\* What is told was decided, after every step.
LEMMA TellStep == IInv /\ [Next]_vars => TellOK'
  <1> SUFFICES ASSUME IInv, [Next]_vars PROVE TellOK'
    OBVIOUS
  <1> USE DEF IInv, TypeOK, TellOK, owner, cancel, OwnerAt, OwnerGoes
  <1>1. ASSUME NEW B \in SUBSET Runs, Reserve(B) PROVE TellOK'
    BY <1>1 DEF Reserve
  <1>2. ASSUME NEW r \in Runs, ReleaseReservation(r) \/ Release(r) \/ Exit(r) \/ TakeOwner(r) PROVE TellOK'
    BY <1>2 DEF ReleaseReservation, Releasable, Release, Exit, TakeOwner
  <1>3. ASSUME NEW r \in Runs, Publish(r) PROVE TellOK'
    BY <1>3 DEF Publish
  <1>4. ASSUME NEW r \in Runs, SpawnMonitor(r) \/ HaltFailed(r) PROVE TellOK'
    BY <1>4 DEF SpawnMonitor, HaltFailed, StopChild, Halted
  <1>5. ASSUME NEW r \in Runs, FinishUnstarted(r) \/ FinishCutoff(r) \/ Finalize(r) PROVE TellOK'
    <2> SUFFICES ASSUME NEW q \in Runs, pc'[q] \in {"release", "tell"}
                 PROVE  verdict'[q] \in Terminal
      OBVIOUS
    <2> HIDE DEF OwnerAt, OwnerGoes
    <2>1. CASE UNCHANGED <<row, verdict>>
      <3>1. pc'[q] = pc[q]
        <4>1. \E p \in {"failing", "exit"} : pc' = [pc EXCEPT ![r] = p]
          <5>1. \/ pc' = [pc EXCEPT ![r] = "failing"]
                \/ pc' = [pc EXCEPT ![r] = "exit"]
                \/ /\ row[r] = "running"
                   /\ \E v \in Terminal : row' = [row EXCEPT ![r] = v]
            <6> HIDE DEF IInv, TypeOK, TellOK
            <6> QED BY <1>5, FinishShape
          <5>2. ASSUME row[r] = "running", NEW v \in Terminal, row' = [row EXCEPT ![r] = v]
                PROVE  FALSE
            <6>1. row \in [Runs -> {"absent", "running"} \union Terminal]
              OBVIOUS
            <6> HIDE DEF IInv, TypeOK, TellOK
            <6>2. row'[r] = v
              BY <5>2, <6>1
            <6> QED BY <2>1, <5>2, <6>2 DEF Terminal
          <5> HIDE DEF IInv, TypeOK, TellOK
          <5> QED BY <5>1, <5>2
        <4>2. pc \in [Runs -> OwnerPhases]
          OBVIOUS
        <4> HIDE DEF IInv, TypeOK, TellOK
        <4> QED BY <4>1, <4>2
      <3> QED BY <2>1, <3>1
    <2>2. ASSUME NEW v \in Terminal, NEW p \in {"release", "tell"},
                 pc' = [pc EXCEPT ![r] = p], verdict' = [verdict EXCEPT ![r] = v]
          PROVE  verdict'[q] \in Terminal
      <3>1. CASE q = r
        BY <2>2, <3>1
      <3>2. CASE q # r
        <4>1. pc'[q] = pc[q] /\ verdict'[q] = verdict[q]
          BY <2>2, <3>2
        <4> QED BY <4>1
      <3> QED BY <3>1, <3>2
    <2> QED BY <1>5, <2>1, <2>2, FinishShape
  <1>6. ASSUME NEW r \in Runs, TellVerdict(r) \/ TellFailed(r) PROVE TellOK'
    BY <1>6 DEF TellVerdict, TellFailed
  <1>7. ASSUME NEW r \in Runs, Tick(r) \/ Look(r) \/ Progress(r) PROVE TellOK'
    BY <1>7 DEF Tick, Look, Progress
  <1>8. ASSUME NEW r \in Runs, Load(r) PROVE TellOK'
    BY <1>8 DEF Load, DeadlineStop, StopChild, Halted
  <1>9. ASSUME NEW r \in Runs, ChildDone(r) PROVE TellOK'
    BY <1>9 DEF ChildDone
  <1>10. ASSUME NEW c \in Cancellers, NEW r \in Runs, CancelBegin(c, r) PROVE TellOK'
    BY <1>10 DEF CancelBegin
  <1>11. ASSUME NEW c \in Cancellers, CancelFinish(c) PROVE TellOK'
    BY <1>11 DEF CancelFinish, CancelGoes, CancelEnds, CancelGoesOrEnds, AfterCancelWin
  <1>12. ASSUME NEW c \in Cancellers, CancelStop(c) \/ CancelHalt(c) PROVE TellOK'
    BY <1>12 DEF CancelStop, CancelHalt, CancelGoes, CancelEnds, CancelGoesOrEnds, StopChild, Halted
  <1>13. ASSUME NEW c \in Cancellers, CancelRelease(c) \/ CancelTakeOwner(c) PROVE TellOK'
    BY <1>13 DEF CancelRelease, CancelTakeOwner, CancelGoes, CancelEnds, CancelGoesOrEnds
  <1>14. ASSUME NEW c \in Cancellers, CancelTell(c) \/ CancelTellFailed(c) PROVE TellOK'
    BY <1>14 DEF CancelTell, CancelTellFailed, CancelEnds
  <1>15. CASE BeginShutdown \/ ShutdownStop
    BY <1>15 DEF BeginShutdown, ShutdownStop
  <1>16. CASE Restart
    BY <1>16 DEF Restart
  <1>17. CASE UNCHANGED vars
    BY <1>17 DEF vars
  <1> QED
    BY <1>1, <1>2, <1>3, <1>4, <1>5, <1>6, <1>7, <1>8, <1>9, <1>10, <1>11, <1>12, <1>13,
       <1>14, <1>15, <1>16, <1>17 DEF Next, OwnerStep, CancelStep

\* A run that was not started stays without a trace.
LEMMA FreshStep == IInv /\ [Next]_vars => Fresh'
  <1> SUFFICES ASSUME IInv, [Next]_vars PROVE Fresh'
    OBVIOUS
  <1> USE DEF IInv, TypeOK, Fresh, CancelOK, owner, cancel, OwnerAt, OwnerGoes
  <1>1. ASSUME NEW B \in SUBSET Runs, Reserve(B) PROVE Fresh'
    BY <1>1 DEF Reserve
  <1>2. ASSUME NEW r \in Runs, ReleaseReservation(r) \/ Release(r) \/ Exit(r) \/ TakeOwner(r) PROVE Fresh'
    BY <1>2 DEF ReleaseReservation, Releasable, Release, Exit, TakeOwner
  <1>3. ASSUME NEW r \in Runs, Publish(r) PROVE Fresh'
    <2>1. pc[r] = "new" /\ pc'[r] # "new" /\ \A q \in Runs \ {r} : pc'[q] = pc[q]
      BY <1>3 DEF Publish
    <2>2. \A q \in Runs \ {r} : registry'[q] = registry[q] /\ child'[q] = child[q]
      BY <1>3 DEF Publish
    <2>3. crun' = crun
      BY <1>3 DEF Publish
    <2>4. \A q \in Runs \ {r} : row[q] = "absent" => row'[q] = "absent"
      BY <1>3, PublishRows
    <2> HIDE DEF IInv, TypeOK
    <2> QED BY <2>1, <2>2, <2>3, <2>4 DEF IInv
  <1>4. ASSUME NEW r \in Runs, SpawnMonitor(r) \/ HaltFailed(r) PROVE Fresh'
    BY <1>4 DEF SpawnMonitor, HaltFailed, StopChild, Halted
  <1>5. ASSUME NEW r \in Runs, FinishUnstarted(r) \/ FinishCutoff(r) \/ Finalize(r) PROVE Fresh'
    <2>1. PICK p \in {"failing", "exit", "release", "tell"} : pc' = [pc EXCEPT ![r] = p]
      BY <1>5, FinishShape
    <2>2. pc[r] # "new"
      BY <1>5, FinishShape
    <2>3. \A q \in Runs \ {r} : row'[q] = row[q]
      <3>1. row' = row \/ \E v \in Terminal : row' = [row EXCEPT ![r] = v]
        BY <1>5, FinishShape
      <3> QED BY <3>1
    <2>4. UNCHANGED <<registry, child, crun>>
      BY <1>5, FinishShape
    <2> QED BY <2>1, <2>2, <2>3, <2>4
  <1>6. ASSUME NEW r \in Runs, TellVerdict(r) \/ TellFailed(r) PROVE Fresh'
    <2>1. PICK p \in {"exit", "alive", "sawBusy", "sawIdle", "failing", "looping"} :
             pc' = [pc EXCEPT ![r] = p]
      BY <1>6, OwnerMoves
    <2>2. pc[r] # "new" /\ UNCHANGED <<registry, row, child, crun>>
      BY <1>6, OwnerMoves
    <2> QED BY <2>1, <2>2
  <1>7. ASSUME NEW r \in Runs, Tick(r) \/ Look(r) \/ Progress(r) PROVE Fresh'
    <2>1. PICK p \in {"exit", "alive", "sawBusy", "sawIdle", "failing", "looping"} :
             pc' = [pc EXCEPT ![r] = p]
      BY <1>7, OwnerMoves
    <2>2. pc[r] # "new" /\ UNCHANGED <<registry, row, child, crun>>
      BY <1>7, OwnerMoves
    <2> QED BY <2>1, <2>2
  <1>8. ASSUME NEW r \in Runs, Load(r) PROVE Fresh'
    BY <1>8 DEF Load, DeadlineStop, StopChild, Halted
  <1>9. ASSUME NEW r \in Runs, ChildDone(r) PROVE Fresh'
    BY <1>9 DEF ChildDone
  <1>10. ASSUME NEW c \in Cancellers, NEW r \in Runs, CancelBegin(c, r) PROVE Fresh'
    BY <1>10 DEF CancelBegin
  <1>11. ASSUME NEW c \in Cancellers, CancelFinish(c) PROVE Fresh'
    BY <1>11 DEF CancelFinish, CancelGoes, CancelEnds, CancelGoesOrEnds, AfterCancelWin
  <1>12. ASSUME NEW c \in Cancellers, CancelStop(c) \/ CancelHalt(c) PROVE Fresh'
    BY <1>12 DEF CancelStop, CancelHalt, CancelGoes, CancelEnds, CancelGoesOrEnds, StopChild, Halted
  <1>13. ASSUME NEW c \in Cancellers, CancelRelease(c) \/ CancelTakeOwner(c) PROVE Fresh'
    BY <1>13 DEF CancelRelease, CancelTakeOwner, CancelGoes, CancelEnds, CancelGoesOrEnds
  <1>14. ASSUME NEW c \in Cancellers, CancelTell(c) \/ CancelTellFailed(c) PROVE Fresh'
    BY <1>14 DEF CancelTell, CancelTellFailed, CancelEnds
  <1>15. CASE BeginShutdown \/ ShutdownStop
    BY <1>15 DEF BeginShutdown, ShutdownStop
  <1>16. CASE Restart
    BY <1>16 DEF Restart
  <1>17. CASE UNCHANGED vars
    BY <1>17 DEF vars
  <1> QED
    BY <1>1, <1>2, <1>3, <1>4, <1>5, <1>6, <1>7, <1>8, <1>9, <1>10, <1>11, <1>12, <1>13,
       <1>14, <1>15, <1>16, <1>17 DEF Next, OwnerStep, CancelStep

\* Where the owner ends the row, the child stays quiet.
LEMMA QuietStep == IInv /\ [Next]_vars => Quiet'
  <1> SUFFICES ASSUME IInv, [Next]_vars PROVE Quiet'
    OBVIOUS
  <1> USE DEF IInv, TypeOK, Fresh, Quiet, owner, cancel, OwnerAt, OwnerGoes
  <1>1. ASSUME NEW B \in SUBSET Runs, Reserve(B) PROVE Quiet'
    BY <1>1 DEF Reserve
  <1>2. ASSUME NEW r \in Runs, ReleaseReservation(r) \/ Release(r) \/ Exit(r) \/ TakeOwner(r) PROVE Quiet'
    BY <1>2 DEF ReleaseReservation, Releasable, Release, Exit, TakeOwner
  <1>3. ASSUME NEW r \in Runs, Publish(r) PROVE Quiet'
    BY <1>3 DEF Publish
  <1>4. ASSUME NEW r \in Runs, SpawnMonitor(r) \/ HaltFailed(r) PROVE Quiet'
    BY <1>4 DEF SpawnMonitor, HaltFailed, StopChild, Halted
  <1>5. ASSUME NEW r \in Runs, FinishUnstarted(r) \/ FinishCutoff(r) \/ Finalize(r) PROVE Quiet'
    BY <1>5 DEF FinishUnstarted, FinishCutoff, Finalize, OwnerFinish, FinalStatuses
  <1>6. ASSUME NEW r \in Runs, TellVerdict(r) \/ TellFailed(r) PROVE Quiet'
    BY <1>6 DEF TellVerdict, TellFailed
  <1>7. ASSUME NEW r \in Runs, Tick(r) \/ Look(r) \/ Progress(r) PROVE Quiet'
    <2>1. PICK p \in {"exit", "alive", "sawBusy", "sawIdle", "failing", "looping"} :
             /\ pc' = [pc EXCEPT ![r] = p]
             /\ p = "sawIdle" => child[r] \notin {"busy", "halting"}
      BY <1>7, OwnerMoves
    <2>2. child' = child
      BY <1>7, OwnerMoves
    <2> QED BY <2>1, <2>2
  <1>8. ASSUME NEW r \in Runs, Load(r) PROVE Quiet'
    BY <1>8 DEF Load, DeadlineStop, StopChild, Halted
  <1>9. ASSUME NEW r \in Runs, ChildDone(r) PROVE Quiet'
    BY <1>9 DEF ChildDone
  <1>10. ASSUME NEW c \in Cancellers, NEW r \in Runs, CancelBegin(c, r) PROVE Quiet'
    BY <1>10 DEF CancelBegin
  <1>11. ASSUME NEW c \in Cancellers, CancelFinish(c) PROVE Quiet'
    BY <1>11 DEF CancelFinish, CancelGoes, CancelEnds, CancelGoesOrEnds, AfterCancelWin
  <1>12. ASSUME NEW c \in Cancellers, CancelStop(c) \/ CancelHalt(c) PROVE Quiet'
    BY <1>12 DEF CancelStop, CancelHalt, CancelGoes, CancelEnds, CancelGoesOrEnds, StopChild, Halted
  <1>13. ASSUME NEW c \in Cancellers, CancelRelease(c) \/ CancelTakeOwner(c) PROVE Quiet'
    BY <1>13 DEF CancelRelease, CancelTakeOwner, CancelGoes, CancelEnds, CancelGoesOrEnds
  <1>14. ASSUME NEW c \in Cancellers, CancelTell(c) \/ CancelTellFailed(c) PROVE Quiet'
    BY <1>14 DEF CancelTell, CancelTellFailed, CancelEnds
  <1>15. CASE BeginShutdown \/ ShutdownStop
    BY <1>15 DEF BeginShutdown, ShutdownStop
  <1>16. CASE Restart
    BY <1>16 DEF Restart
  <1>17. CASE UNCHANGED vars
    BY <1>17 DEF vars
  <1> QED
    BY <1>1, <1>2, <1>3, <1>4, <1>5, <1>6, <1>7, <1>8, <1>9, <1>10, <1>11, <1>12, <1>13,
       <1>14, <1>15, <1>16, <1>17 DEF Next, OwnerStep, CancelStep

\* Every step keeps the cancellations in order.
LEMMA CancelKeeps == IInv /\ [Next]_vars => CancelOK'
  <1> SUFFICES ASSUME IInv, [Next]_vars PROVE CancelOK'
    OBVIOUS
  <1> USE DEF IInv, TypeOK, Fresh, CancelOK, owner, cancel, OwnerAt, OwnerGoes
  <1>1. ASSUME NEW B \in SUBSET Runs, Reserve(B) PROVE CancelOK'
    BY <1>1 DEF Reserve
  <1>2. ASSUME NEW r \in Runs, ReleaseReservation(r) \/ Release(r) \/ Exit(r) \/ TakeOwner(r) PROVE CancelOK'
    BY <1>2 DEF ReleaseReservation, Releasable, Release, Exit, TakeOwner
  <1>3. ASSUME NEW r \in Runs, Publish(r) PROVE CancelOK'
    BY <1>3 DEF Publish
  <1>4. ASSUME NEW r \in Runs, SpawnMonitor(r) \/ HaltFailed(r) PROVE CancelOK'
    BY <1>4 DEF SpawnMonitor, HaltFailed, StopChild, Halted
  <1>5. ASSUME NEW r \in Runs, FinishUnstarted(r) \/ FinishCutoff(r) \/ Finalize(r) PROVE CancelOK'
    BY <1>5 DEF FinishUnstarted, FinishCutoff, Finalize, OwnerFinish, FinalStatuses
  <1>6. ASSUME NEW r \in Runs, TellVerdict(r) \/ TellFailed(r) PROVE CancelOK'
    BY <1>6 DEF TellVerdict, TellFailed
  <1>7. ASSUME NEW r \in Runs, Tick(r) \/ Look(r) \/ Progress(r) PROVE CancelOK'
    BY <1>7 DEF Tick, Look, Progress
  <1>8. ASSUME NEW r \in Runs, Load(r) PROVE CancelOK'
    BY <1>8 DEF Load, DeadlineStop, StopChild, Halted
  <1>9. ASSUME NEW r \in Runs, ChildDone(r) PROVE CancelOK'
    BY <1>9 DEF ChildDone
  <1>10. ASSUME NEW c \in Cancellers, NEW r \in Runs, CancelBegin(c, r) PROVE CancelOK'
    <2>1. \A d \in Cancellers \ {c} : cpc'[d] = cpc[d] /\ crun'[d] = crun[d] /\ clive'[d] = clive[d]
      BY <1>10 DEF CancelBegin
    <2>2. \A t \in Runs : (child[t] # "busy" => child'[t] # "busy") /\ (registry[t] # "live" => registry'[t] # "live")
      BY <1>10 DEF CancelBegin
    <2>3. cpc'[c] # "off" => cpc'[c] = "finish" /\ crun'[c] = r /\ (~clive'[c] => registry'[r] # "live")
      BY <1>10 DEF CancelBegin
    <2>4. ASSUME NEW d \in Cancellers \ {c}, cpc'[d] # "off"
          PROVE  /\ crun'[d] \in Runs
                 /\ cpc'[d] = "release" => child'[crun'[d]] # "busy"
                 /\ ~clive'[d] => registry'[crun'[d]] # "live" /\ cpc'[d] \in {"finish", "tell"}
      BY <2>1, <2>2, <2>4
    <2>5. ASSUME cpc'[c] # "off"
          PROVE  /\ crun'[c] \in Runs
                 /\ cpc'[c] = "release" => child'[crun'[c]] # "busy"
                 /\ ~clive'[c] => registry'[crun'[c]] # "live" /\ cpc'[c] \in {"finish", "tell"}
      BY <2>3, <2>5
    <2> QED BY <2>4, <2>5
  <1>11. ASSUME NEW c \in Cancellers, CancelFinish(c) PROVE CancelOK'
    BY <1>11 DEF CancelFinish, CancelGoes, CancelEnds, CancelGoesOrEnds, AfterCancelWin
  <1>12. ASSUME NEW c \in Cancellers, CancelStop(c) \/ CancelHalt(c) PROVE CancelOK'
    <2>1. \A d \in Cancellers \ {c} : cpc'[d] = cpc[d] /\ crun'[d] = crun[d] /\ clive'[d] = clive[d]
      BY <1>12 DEF CancelStop, CancelHalt, StopChild, Halted, CancelGoes, CancelEnds, CancelGoesOrEnds
    <2>2. \A r \in Runs : (child[r] # "busy" => child'[r] # "busy") /\ (registry[r] # "live" => registry'[r] # "live")
      BY <1>12 DEF CancelStop, CancelHalt, StopChild, Halted, CancelGoes, CancelEnds, CancelGoesOrEnds
    <2>3. cpc'[c] # "off" =>
             /\ crun'[c] \in Runs /\ clive'[c]
             /\ cpc'[c] = "release" => child'[crun'[c]] # "busy"
      <3>1. crun[c] \in Runs /\ clive[c]
        BY <1>12 DEF CancelStop, CancelHalt
      <3>2. CASE CancelStop(c)
        BY <3>1, <3>2 DEF CancelStop, CancelGoes, StopChild, Halted
      <3>3. CASE CancelHalt(c)
        BY <3>1, <3>3 DEF CancelHalt, CancelGoes, CancelEnds, CancelGoesOrEnds
      <3> QED BY <1>12, <3>2, <3>3
    <2>4. ASSUME NEW d \in Cancellers \ {c}, cpc'[d] # "off"
          PROVE  /\ crun'[d] \in Runs
                 /\ cpc'[d] = "release" => child'[crun'[d]] # "busy"
                 /\ ~clive'[d] => registry'[crun'[d]] # "live" /\ cpc'[d] \in {"finish", "tell"}
      BY <2>1, <2>2, <2>4
    <2>5. ASSUME cpc'[c] # "off"
          PROVE  /\ crun'[c] \in Runs
                 /\ cpc'[c] = "release" => child'[crun'[c]] # "busy"
                 /\ ~clive'[c] => registry'[crun'[c]] # "live" /\ cpc'[c] \in {"finish", "tell"}
      BY <2>3, <2>5
    <2> QED BY <2>4, <2>5
  <1>13. ASSUME NEW c \in Cancellers, CancelRelease(c) \/ CancelTakeOwner(c) PROVE CancelOK'
    <2>1. \A d \in Cancellers \ {c} : cpc'[d] = cpc[d] /\ crun'[d] = crun[d] /\ clive'[d] = clive[d]
      BY <1>13 DEF CancelRelease, CancelTakeOwner, CancelGoes, CancelEnds, CancelGoesOrEnds
    <2>2. \A r \in Runs : (child[r] # "busy" => child'[r] # "busy") /\ (registry[r] # "live" => registry'[r] # "live")
      BY <1>13 DEF CancelRelease, CancelTakeOwner, CancelGoes, CancelEnds, CancelGoesOrEnds
    <2>3. cpc'[c] # "off" =>
             /\ crun'[c] \in Runs /\ clive'[c]
             /\ cpc'[c] = "release" => child'[crun'[c]] # "busy"
      <3>1. crun[c] \in Runs /\ clive[c]
        BY <1>13 DEF CancelRelease, CancelTakeOwner
      <3>2. cpc'[c] # "off" => cpc'[c] \in {"tell", "halt", "stopOnly"} /\ UNCHANGED <<crun, clive>>
        BY <1>13 DEF CancelRelease, CancelTakeOwner, CancelGoes, CancelEnds, CancelGoesOrEnds
      <3> QED BY <3>1, <3>2
    <2>4. ASSUME NEW d \in Cancellers \ {c}, cpc'[d] # "off"
          PROVE  /\ crun'[d] \in Runs
                 /\ cpc'[d] = "release" => child'[crun'[d]] # "busy"
                 /\ ~clive'[d] => registry'[crun'[d]] # "live" /\ cpc'[d] \in {"finish", "tell"}
      BY <2>1, <2>2, <2>4
    <2>5. ASSUME cpc'[c] # "off"
          PROVE  /\ crun'[c] \in Runs
                 /\ cpc'[c] = "release" => child'[crun'[c]] # "busy"
                 /\ ~clive'[c] => registry'[crun'[c]] # "live" /\ cpc'[c] \in {"finish", "tell"}
      BY <2>3, <2>5
    <2> QED BY <2>4, <2>5
  <1>14. ASSUME NEW c \in Cancellers, CancelTell(c) \/ CancelTellFailed(c) PROVE CancelOK'
    <2>1. \A d \in Cancellers \ {c} : cpc'[d] = cpc[d] /\ crun'[d] = crun[d] /\ clive'[d] = clive[d]
      BY <1>14 DEF CancelTell, CancelTellFailed, CancelEnds
    <2>2. \A r \in Runs : (child[r] # "busy" => child'[r] # "busy") /\ (registry[r] # "live" => registry'[r] # "live")
      BY <1>14 DEF CancelTell, CancelTellFailed, CancelEnds
    <2>3. cpc'[c] = "off"
      BY <1>14 DEF CancelTell, CancelTellFailed, CancelEnds
    <2>4. ASSUME NEW d \in Cancellers \ {c}, cpc'[d] # "off"
          PROVE  /\ crun'[d] \in Runs
                 /\ cpc'[d] = "release" => child'[crun'[d]] # "busy"
                 /\ ~clive'[d] => registry'[crun'[d]] # "live" /\ cpc'[d] \in {"finish", "tell"}
      BY <2>1, <2>2, <2>4
    <2>5. ASSUME cpc'[c] # "off"
          PROVE  /\ crun'[c] \in Runs
                 /\ cpc'[c] = "release" => child'[crun'[c]] # "busy"
                 /\ ~clive'[c] => registry'[crun'[c]] # "live" /\ cpc'[c] \in {"finish", "tell"}
      BY <2>3, <2>5
    <2> QED BY <2>4, <2>5
  <1>15. CASE BeginShutdown \/ ShutdownStop
    BY <1>15 DEF BeginShutdown, ShutdownStop
  <1>16. CASE Restart
    BY <1>16 DEF Restart
  <1>17. CASE UNCHANGED vars
    BY <1>17 DEF vars
  <1> QED
    BY <1>1, <1>2, <1>3, <1>4, <1>5, <1>6, <1>7, <1>8, <1>9, <1>10, <1>11, <1>12, <1>13,
       <1>14, <1>15, <1>16, <1>17 DEF Next, OwnerStep, CancelStep

Guarded(r) == closing \/ WillStop(r)

\* A child starts to work only when its run is published.
LEMMA BusyStep ==
  ASSUME TypeOK, [Next]_vars, NEW r \in Runs, child'[r] = "busy", child[r] # "busy"
  PROVE  Publish(r) /\ pc'[r] = "started" /\ registry'[r] = "live"
  <1> USE DEF TypeOK, OwnerAt, OwnerGoes, owner, cancel
  <1>1. ASSUME NEW q \in Runs, Publish(q)
        PROVE  Publish(r) /\ pc'[r] = "started" /\ registry'[r] = "live"
    <2>1. q = r
      BY <1>1 DEF Publish
    <2> QED BY <1>1, <2>1 DEF Publish
  <1>2. ASSUME NEW B \in SUBSET Runs, Reserve(B) PROVE FALSE
    BY <1>2 DEF Reserve
  <1>3. ASSUME NEW q \in Runs, ReleaseReservation(q) \/ ChildDone(q) PROVE FALSE
    BY <1>3 DEF ReleaseReservation, ChildDone
  <1>4. ASSUME NEW q \in Runs, OwnerStep(q) PROVE FALSE
    <2>1. child' = child \/ child' = Halted(q)
      <3>1. CASE SpawnMonitor(q) \/ HaltFailed(q) \/ Load(q)
        BY <3>1 DEF SpawnMonitor, HaltFailed, Load, DeadlineStop, StopChild
      <3>2. CASE FinishUnstarted(q) \/ FinishCutoff(q) \/ Finalize(q)
        BY <3>2, FinishShape
      <3>3. CASE Release(q) \/ Exit(q) \/ TakeOwner(q)
        BY <3>3 DEF Release, Exit, TakeOwner
      <3>4. CASE TellVerdict(q) \/ TellFailed(q) \/ Tick(q) \/ Look(q) \/ Progress(q)
        BY <3>4, OwnerMoves
      <3> QED BY <1>4, <3>1, <3>2, <3>3, <3>4 DEF OwnerStep
    <2> QED BY <2>1 DEF Halted
  <1>5. ASSUME NEW c \in Cancellers, NEW q \in Runs, CancelBegin(c, q) PROVE FALSE
    BY <1>5 DEF CancelBegin
  <1>6. ASSUME NEW c \in Cancellers, CancelStep(c) PROVE FALSE
    <2>1. child' = child \/ child' = Halted(crun[c])
      BY <1>6 DEF CancelStep, CancelFinish, CancelStop, CancelRelease, CancelTell,
                  CancelTakeOwner, CancelHalt, CancelTellFailed, StopChild
    <2> QED BY <2>1 DEF Halted
  <1>7. CASE BeginShutdown \/ ShutdownStop \/ Restart \/ UNCHANGED vars
    BY <1>7 DEF BeginShutdown, ShutdownStop, Restart, vars
  <1> QED BY <1>1, <1>2, <1>3, <1>4, <1>5, <1>6, <1>7 DEF Next

\* Whoever is about to stop a child stays about to until the child is stopped.
LEMMA GuardStep ==
  ASSUME IInv, [Next]_vars, NEW r \in Runs, child[r] = "busy", child'[r] = "busy", Guarded(r)
  PROVE  Guarded(r)'
  <1> USE DEF IInv, TypeOK, OwnerAt, OwnerGoes, owner, cancel, Guarded
  <1>1. ASSUME NEW B \in SUBSET Runs, Reserve(B) PROVE Guarded(r)'
    BY <1>1 DEF Reserve, WillStop
  <1>2. ASSUME NEW q \in Runs, ReleaseReservation(q) \/ ChildDone(q) PROVE Guarded(r)'
    BY <1>2 DEF ReleaseReservation, ChildDone, WillStop
  <1>3. ASSUME NEW q \in Runs, Publish(q) \/ OwnerStep(q) PROVE Guarded(r)'
    <2>1. UNCHANGED <<cancel, closing>>
      <3>1. CASE FinishUnstarted(q) \/ FinishCutoff(q) \/ Finalize(q)
        BY <3>1, FinishShape
      <3>2. CASE TellVerdict(q) \/ TellFailed(q) \/ Tick(q) \/ Look(q) \/ Progress(q)
        BY <3>2, OwnerMoves
      <3>3. CASE Publish(q) \/ SpawnMonitor(q) \/ Release(q) \/ Exit(q) \/ TakeOwner(q)
                 \/ HaltFailed(q) \/ Load(q)
        BY <3>3 DEF Publish, SpawnMonitor, Release, Exit, TakeOwner, HaltFailed, Load
      <3> QED BY <1>3, <3>1, <3>2, <3>3 DEF OwnerStep
    <2>2. pc[r] = "halt" => pc'[r] = "halt"
      <3>1. CASE HaltFailed(q)
        BY <3>1 DEF HaltFailed, StopChild, Halted
      <3>2. CASE ~HaltFailed(q)
        <4>1. \A t \in Runs \ {q} : pc'[t] = pc[t]
          <5>1. \E p \in OwnerPhases : pc' = [pc EXCEPT ![q] = p]
            <6>1. CASE FinishUnstarted(q) \/ FinishCutoff(q) \/ Finalize(q)
              BY <6>1, FinishShape DEF OwnerPhases
            <6>2. CASE TellVerdict(q) \/ TellFailed(q) \/ Tick(q) \/ Look(q) \/ Progress(q)
              BY <6>2, OwnerMoves DEF OwnerPhases
            <6>3. CASE Publish(q) \/ SpawnMonitor(q) \/ Release(q) \/ Exit(q) \/ TakeOwner(q)
              BY <6>3 DEF Publish, SpawnMonitor, Release, Exit, TakeOwner, OwnerPhases
            <6>4. CASE Load(q)
              BY <6>4 DEF Load, OwnerPhases
            <6> QED BY <1>3, <3>2, <6>1, <6>2, <6>3, <6>4 DEF OwnerStep
          <5> QED BY <5>1
        <4>2. pc[q] # "halt"
          BY <1>3, <3>2 DEF Publish, OwnerStep, SpawnMonitor, FinishUnstarted, FinishCutoff,
             Finalize, Release, TellVerdict, Exit, TakeOwner, TellFailed, Tick, Look, Load, Progress
        <4> QED BY <4>1, <4>2
      <3> QED BY <3>1, <3>2
    <2> QED BY <2>1, <2>2 DEF WillStop
  <1>4. ASSUME NEW c \in Cancellers, NEW q \in Runs, CancelBegin(c, q) PROVE Guarded(r)'
    <2>1. cpc[c] = "off" /\ UNCHANGED <<pc, closing>>
      BY <1>4 DEF CancelBegin
    <2>2. \A d \in Cancellers \ {c} : cpc'[d] = cpc[d] /\ crun'[d] = crun[d] /\ clive'[d] = clive[d]
      BY <1>4 DEF CancelBegin
    <2> QED BY <2>1, <2>2 DEF WillStop
  <1>5. ASSUME NEW c \in Cancellers, CancelStep(c) PROVE Guarded(r)'
    <2>1. UNCHANGED <<pc, closing>>
      BY <1>5 DEF CancelStep, CancelFinish, CancelStop, CancelRelease, CancelTell,
                  CancelTakeOwner, CancelHalt, CancelTellFailed
    <2>2. \A d \in Cancellers \ {c} : cpc'[d] = cpc[d] /\ crun'[d] = crun[d] /\ clive'[d] = clive[d]
      BY <1>5 DEF CancelStep, CancelFinish, CancelStop, CancelRelease, CancelTell, CancelTakeOwner,
                  CancelHalt, CancelTellFailed, CancelGoes, CancelEnds, CancelGoesOrEnds
    <2>3. ASSUME crun[c] = r,
                 (cpc[c] = "finish" /\ clive[c]) \/ cpc[c] \in {"stop", "failing", "halt", "stopOnly"}
          PROVE  crun'[c] = r /\ cpc'[c] \in {"stop", "failing", "halt", "stopOnly"}
      <3>1. CASE CancelFinish(c)
        BY <2>3, <3>1 DEF CancelFinish, AfterCancelWin, CancelGoes, CancelGoesOrEnds
      <3>2. CASE CancelTakeOwner(c)
        BY <2>3, <3>2 DEF CancelTakeOwner, CancelGoes
      <3>3. CASE CancelStop(c) \/ CancelHalt(c)
        BY <2>3, <3>3 DEF CancelStop, CancelHalt, StopChild, Halted
      <3>4. CASE CancelRelease(c) \/ CancelTell(c) \/ CancelTellFailed(c)
        BY <2>3, <3>4 DEF CancelRelease, CancelTell, CancelTellFailed
      <3> QED BY <1>5, <3>1, <3>2, <3>3, <3>4 DEF CancelStep
    <2> QED BY <2>1, <2>2, <2>3 DEF WillStop
  <1>6. CASE BeginShutdown \/ ShutdownStop
    BY <1>6 DEF BeginShutdown, ShutdownStop, WillStop
  <1>7. CASE Restart
    BY <1>7 DEF Restart
  <1>8. CASE UNCHANGED vars
    BY <1>8 DEF vars, WillStop
  <1> QED BY <1>1, <1>2, <1>3, <1>4, <1>5, <1>6, <1>7, <1>8 DEF Next

Watched(r) == registry[r] = "live" /\ pc[r] \in Watching /\ row[r] = "running"

\* The monitor of a child at work, its slot and its live row go together until
\* someone is about to stop the child.
LEMMA WatchStep ==
  ASSUME IInv, [Next]_vars, NEW r \in Runs, child[r] = "busy", child'[r] = "busy",
         Watched(r), ~Guarded(r)
  PROVE  Guarded(r)' \/ Watched(r)'
  <1> USE DEF IInv, TypeOK, OwnerAt, OwnerGoes, owner, cancel, Watched, Watching
  <1>1. ASSUME NEW B \in SUBSET Runs, Reserve(B) PROVE Watched(r)'
    BY <1>1 DEF Reserve
  <1>2. ASSUME NEW q \in Runs, ReleaseReservation(q) \/ ChildDone(q) PROVE Watched(r)'
    BY <1>2 DEF ReleaseReservation, Releasable, ChildDone
  <1>3. ASSUME NEW q \in Runs, Publish(q) PROVE Watched(r)'
    <2>1. row[q] = "absent"
      BY <1>3 DEF Publish
    <2>2. row'[r] = "running"
      <3>1. TypeOK
        OBVIOUS
      <3>2. q # r /\ row[r] = "running"
        BY <2>1
      <3> HIDE DEF TypeOK
      <3>3. \A t \in Runs \ {q} :
               row'[t] = row[t] \/ (row[t] \in Terminal /\ row'[t] = "absent")
        BY <1>3, <3>1, PublishRows
      <3> QED BY <3>2, <3>3 DEF Terminal
    <2>3. pc'[r] = pc[r] /\ registry'[r] = registry[r]
      BY <1>3, <2>1 DEF Publish
    <2> QED BY <2>2, <2>3
  <1>4. ASSUME NEW q \in Runs \ {r}, OwnerStep(q) PROVE Watched(r)'
    <2>1. CASE FinishUnstarted(q) \/ FinishCutoff(q) \/ Finalize(q)
      BY <2>1, FinishShape
    <2>2. CASE TellVerdict(q) \/ TellFailed(q) \/ Tick(q) \/ Look(q) \/ Progress(q)
      <3>1. UNCHANGED <<registry, row>>
        BY <2>2, OwnerMoves
      <3>2. \E p \in OwnerPhases : pc' = [pc EXCEPT ![q] = p]
        BY <2>2, OwnerMoves DEF OwnerPhases
      <3> QED BY <3>1, <3>2
    <2>3. CASE SpawnMonitor(q) \/ Release(q) \/ Exit(q) \/ TakeOwner(q) \/ HaltFailed(q)
      BY <2>3 DEF SpawnMonitor, Release, Exit, TakeOwner, HaltFailed
    <2>4. CASE Load(q)
      BY <2>4 DEF Load
    <2> QED BY <1>4, <2>1, <2>2, <2>3, <2>4 DEF OwnerStep
  <1>5. CASE OwnerStep(r)
    <2>1. CASE SpawnMonitor(r) \/ Tick(r) \/ Look(r) \/ Progress(r)
      BY <2>1 DEF SpawnMonitor, Tick, StillOwner, Look, ChildRuns, Progress, Terminal, Guarded
    <2>2. CASE Load(r)
      BY <2>2 DEF Load, DeadlineStop, StopChild, Halted, Quiet, Terminal
    <2>3. CASE TakeOwner(r)
      BY <2>3 DEF TakeOwner, Guarded, WillStop
    <2>4. CASE FinishUnstarted(r) \/ FinishCutoff(r) \/ Finalize(r)
      BY <2>4, FinishShape
    <2>5. CASE Release(r) \/ TellVerdict(r) \/ Exit(r) \/ HaltFailed(r) \/ TellFailed(r)
      BY <2>5 DEF Release, TellVerdict, Exit, HaltFailed, TellFailed
    <2> QED BY <1>5, <2>1, <2>2, <2>3, <2>4, <2>5 DEF OwnerStep
  <1>6. ASSUME NEW c \in Cancellers, NEW q \in Runs, CancelBegin(c, q) PROVE Watched(r)'
    BY <1>6 DEF CancelBegin
  <1>7. ASSUME NEW c \in Cancellers, CancelStep(c) PROVE Guarded(r)' \/ Watched(r)'
    <2>1. CASE CancelFinish(c)
      <3>1. CASE crun[c] = r
        BY <2>1, <3>1 DEF CancelFinish, CancelOK, Guarded, WillStop
      <3>2. CASE crun[c] # r
        BY <2>1, <3>2 DEF CancelFinish
      <3> QED BY <3>1, <3>2
    <2>2. CASE CancelStop(c) \/ CancelHalt(c)
      BY <2>2 DEF CancelStop, CancelHalt
    <2>3. CASE CancelRelease(c)
      BY <2>3 DEF CancelRelease, CancelOK
    <2>4. CASE CancelTakeOwner(c)
      BY <2>4 DEF CancelTakeOwner, Guarded, WillStop
    <2>5. CASE CancelTell(c) \/ CancelTellFailed(c)
      BY <2>5 DEF CancelTell, CancelTellFailed
    <2> QED BY <1>7, <2>1, <2>2, <2>3, <2>4, <2>5 DEF CancelStep
  <1>8. CASE BeginShutdown \/ ShutdownStop \/ UNCHANGED vars
    BY <1>8 DEF BeginShutdown, ShutdownStop, vars
  <1>9. CASE Restart
    BY <1>9 DEF Restart
  <1> QED BY <1>1, <1>2, <1>3, <1>4, <1>5, <1>6, <1>7, <1>8, <1>9 DEF Next

\* No child at work is left alone by a step.
LEMMA OrphanStep == IInv /\ [Next]_vars => Ended' /\ NoOrphan'
  <1> SUFFICES ASSUME IInv, [Next]_vars, NEW r \in Runs, child'[r] = "busy"
               PROVE  Guarded(r)' \/ Watched(r)'
    BY DEF Ended, NoOrphan, Guarded, Watched
  <1>1. CASE child[r] # "busy"
    <2>1. Publish(r) /\ pc'[r] = "started" /\ registry'[r] = "live"
      BY <1>1, BusyStep DEF IInv
    <2>2. row'[r] = "running"
      BY <2>1, PublishRows DEF IInv
    <2> QED BY <2>1, <2>2 DEF Watched, Watching
  <1>2. CASE child[r] = "busy" /\ Guarded(r)
    BY <1>2, GuardStep
  <1>3. CASE child[r] = "busy" /\ ~Guarded(r)
    <2>1. Watched(r)
      BY <1>3 DEF IInv, Ended, NoOrphan, Guarded, Watched
    <2> QED BY <1>3, <2>1, WatchStep
  <1> QED BY <1>1, <1>2, <1>3

\* The strengthened invariant holds in every reachable state.
THEOREM Inductive == Spec => []IInv
  <1>1. Init => IInv
    BY InitInv
  <1>2. IInv /\ [Next]_vars => IInv'
    BY TypeStep, TellStep, FreshStep, QuietStep, CancelKeeps, OrphanStep DEF IInv
  <1> QED BY <1>1, <1>2, PTL DEF Spec

\* The registry, the file and the goroutines keep their types.
THEOREM TypeCorrect == Spec => []TypeOK
  <1>1. IInv => TypeOK
    BY DEF IInv
  <1> QED BY <1>1, Inductive, PTL

\* A child that works for money always has a monitor that owns it or someone
\* who is about to stop it, whatever the run file does.
THEOREM NoOrphanAlways == Spec => []NoOrphan
  <1>1. IInv => NoOrphan
    BY DEF IInv
  <1> QED BY <1>1, Inductive, PTL

\* What a step may do to a row.
LEMMA RowStep ==
  ASSUME TypeOK, [Next]_vars, NEW r \in Runs
  PROVE  /\ row[r] \in Terminal => row'[r] \in {row[r], "absent"}
         /\ row[r] = "running" => row'[r] # "absent"
  <1> DEFINE Kept == /\ row[r] \in Terminal => row'[r] \in {row[r], "absent"}
                     /\ row[r] = "running" => row'[r] # "absent"
  <1>1. CASE row' = row
    BY <1>1
  <1>2. ASSUME NEW q \in Runs, Publish(q) PROVE Kept
    <2>1. /\ row[q] = "absent" /\ row'[q] = "running"
          /\ \A t \in Runs \ {q} :
                row'[t] = row[t] \/ (row[t] \in Terminal /\ row'[t] = "absent")
      BY <1>2, PublishRows
    <2> QED BY <2>1 DEF Terminal
  <1>3. ASSUME NEW q \in Runs, FinishUnstarted(q) \/ FinishCutoff(q) \/ Finalize(q) PROVE Kept
    <2>1. \/ UNCHANGED row
          \/ row[q] = "running" /\ \E v \in Terminal : row' = [row EXCEPT ![q] = v]
      BY <1>3, FinishShape
    <2>2. CASE row[q] = "running" /\ \E v \in Terminal : row' = [row EXCEPT ![q] = v]
      BY <2>2 DEF TypeOK, Terminal
    <2> QED BY <1>1, <2>1, <2>2
  <1>4. ASSUME NEW c \in Cancellers, CancelFinish(c) PROVE Kept
    BY <1>4 DEF CancelFinish, EndsRow, TypeOK, Terminal
  <1>5. CASE Restart
    BY <1>5 DEF Restart, TypeOK, Terminal
  <1>6. ASSUME NEW q \in Runs, OwnerStep(q) PROVE Kept
    <2>1. CASE SpawnMonitor(q) \/ Release(q) \/ Exit(q) \/ TakeOwner(q) \/ HaltFailed(q) \/ Load(q)
      BY <1>1, <2>1 DEF SpawnMonitor, Release, Exit, TakeOwner, HaltFailed, Load
    <2>2. CASE TellVerdict(q) \/ TellFailed(q) \/ Tick(q) \/ Look(q) \/ Progress(q)
      BY <1>1, <2>2, OwnerMoves
    <2> QED BY <1>3, <1>6, <2>1, <2>2 DEF OwnerStep
  <1>7. ASSUME NEW c \in Cancellers, CancelStep(c) PROVE Kept
    BY <1>1, <1>4, <1>7 DEF CancelStep, CancelStop, CancelRelease, CancelTell, CancelTakeOwner,
       CancelHalt, CancelTellFailed
  <1>8. ASSUME NEW q \in Runs, ReleaseReservation(q) \/ ChildDone(q) PROVE Kept
    BY <1>1, <1>8 DEF ReleaseReservation, ChildDone
  <1>9. ASSUME NEW B \in SUBSET Runs, Reserve(B) PROVE Kept
    BY <1>1, <1>9 DEF Reserve
  <1>10. ASSUME NEW c \in Cancellers, NEW q \in Runs, CancelBegin(c, q) PROVE Kept
    BY <1>1, <1>10 DEF CancelBegin
  <1>11. CASE BeginShutdown \/ ShutdownStop \/ UNCHANGED vars
    BY <1>1, <1>11 DEF BeginShutdown, ShutdownStop, vars
  <1> QED
    BY <1>2, <1>5, <1>6, <1>7, <1>8, <1>9, <1>10, <1>11 DEF Next

\* A verdict is final: the row of a run that ended keeps it or is dropped.
THEOREM VerdictsStable == Spec => VerdictStable
  <1>1. TypeOK /\ [Next]_vars =>
           [\A r \in Runs : row[r] \in Terminal => row'[r] \in {row[r], "absent"}]_vars
    BY RowStep
  <1> QED BY <1>1, TypeCorrect, PTL DEF Spec, VerdictStable

\* Retention never drops the row of a live run.
THEOREM LiveRowsAlwaysKept == Spec => LiveRowsKept
  <1>1. TypeOK /\ [Next]_vars => [\A r \in Runs : row[r] = "running" => row'[r] # "absent"]_vars
    BY RowStep
  <1> QED BY <1>1, TypeCorrect, PTL DEF Spec, LiveRowsKept

-----------------------------------------------------------------------------
\* Taking runs out of the registry keeps its limits.
LEMMA FewerSlots ==
  ASSUME OneOwnerPerTarget, NEW S \in SUBSET InUse
  PROVE  Cardinality(S) <= MaxConcurrent /\ \A r, q \in S : Target[r] = Target[q] => r = q
  <1>1. InUse \in SUBSET Runs
    BY DEF InUse
  <1>2. Cardinality(S) <= Cardinality(InUse) /\ Cardinality(S) \in Nat /\ Cardinality(InUse) \in Nat
    BY <1>1, RunsCount, FS_Subset
  <1> QED BY <1>2 DEF OneOwnerPerTarget

\* Only a fan-out or a start puts a run into the registry.
LEMMA SlotsFall ==
  ASSUME TypeOK, [Next]_vars,
         \A B \in SUBSET Runs : ~Reserve(B), \A r \in Runs : ~Publish(r)
  PROVE  InUse' \in SUBSET InUse
  <1> SUFFICES ASSUME NEW r \in Runs, registry'[r] # "none" PROVE registry[r] # "none"
    BY DEF InUse
  <1> USE DEF TypeOK
  <1>1. CASE registry' = registry
    BY <1>1
  <1>2. ASSUME NEW q \in Runs, OwnerStep(q) PROVE registry[r] # "none"
    <2>1. CASE FinishUnstarted(q) \/ FinishCutoff(q) \/ Finalize(q)
      BY <1>1, <2>1, FinishShape
    <2>2. CASE TellVerdict(q) \/ TellFailed(q) \/ Tick(q) \/ Look(q) \/ Progress(q)
      BY <1>1, <2>2, OwnerMoves
    <2>3. CASE SpawnMonitor(q) \/ HaltFailed(q) \/ Load(q)
      BY <1>1, <2>3 DEF SpawnMonitor, HaltFailed, Load
    <2>4. CASE Release(q) \/ Exit(q) \/ TakeOwner(q)
      BY <1>1, <2>4 DEF Release, Exit, TakeOwner
    <2> QED BY <1>2, <2>1, <2>2, <2>3, <2>4 DEF OwnerStep
  <1>3. ASSUME NEW c \in Cancellers, CancelStep(c) PROVE registry[r] # "none"
    <2>1. CASE CancelRelease(c) \/ CancelTakeOwner(c)
      BY <1>1, <2>1 DEF CancelRelease, CancelTakeOwner
    <2>2. CASE ~(CancelRelease(c) \/ CancelTakeOwner(c))
      BY <1>1, <1>3, <2>2 DEF CancelStep, CancelFinish, CancelStop, CancelTell, CancelHalt, CancelTellFailed
    <2> QED BY <2>1, <2>2
  <1>4. ASSUME NEW q \in Runs, ReleaseReservation(q) \/ ChildDone(q) PROVE registry[r] # "none"
    BY <1>1, <1>4 DEF ReleaseReservation, ChildDone
  <1>5. ASSUME NEW c \in Cancellers, NEW q \in Runs, CancelBegin(c, q) PROVE registry[r] # "none"
    BY <1>1, <1>5 DEF CancelBegin
  <1>6. CASE BeginShutdown \/ ShutdownStop \/ UNCHANGED vars
    BY <1>1, <1>6 DEF BeginShutdown, ShutdownStop, vars
  <1>7. CASE Restart
    BY <1>7 DEF Restart
  <1> QED BY <1>2, <1>3, <1>4, <1>5, <1>6, <1>7 DEF Next

LEMMA SlotStep == TypeOK /\ OneOwnerPerTarget /\ [Next]_vars => OneOwnerPerTarget'
  <1> SUFFICES ASSUME TypeOK, OneOwnerPerTarget, [Next]_vars PROVE OneOwnerPerTarget'
    OBVIOUS
  <1>0. InUse \in SUBSET Runs /\ IsFiniteSet(InUse) /\ Cardinality(InUse) \in Nat
    BY RunsCount DEF InUse
  <1>1. ASSUME NEW B \in SUBSET Runs, Reserve(B) PROVE OneOwnerPerTarget'
    <2>1. InUse' = InUse \union B /\ InUse \intersect B = {}
      BY <1>1 DEF Reserve, InUse
    <2>2. Cardinality(InUse \union B) = Cardinality(InUse) + Cardinality(B) - Cardinality(InUse \intersect B)
      BY <1>0, RunsCount, FS_Union
    <2>3. Cardinality(InUse \intersect B) = 0
      BY <2>1, FS_EmptySet
    <2>4. Cardinality(B) \in Nat /\ Cardinality(InUse) + Cardinality(B) <= MaxConcurrent
      BY <1>1, RunsCount DEF Reserve
    <2>5. Cardinality(InUse \union B) <= MaxConcurrent
      BY <1>0, <2>2, <2>3, <2>4
    <2>6. \A r, q \in InUse \union B : Target[r] = Target[q] => r = q
      BY <1>1 DEF Reserve, OneOwnerPerTarget
    <2> QED BY <2>1, <2>5, <2>6 DEF OneOwnerPerTarget
  <1>2. ASSUME NEW r \in Runs, Publish(r) PROVE OneOwnerPerTarget'
    <2>1. CASE registry[r] = "reserved"
      <3>1. InUse' = InUse
        BY <1>2, <2>1 DEF Publish, InUse, TypeOK
      <3> QED BY <3>1 DEF OneOwnerPerTarget
    <2>2. CASE registry[r] = "none" /\ SlotFree(r)
      <3>1. InUse' = InUse \union {r} /\ r \notin InUse
        BY <1>2, <2>2 DEF Publish, InUse, TypeOK
      <3>2. Cardinality(InUse \union {r}) = Cardinality(InUse) + 1
        BY <1>0, <3>1, FS_AddElement
      <3>3. Cardinality(InUse \union {r}) <= MaxConcurrent
        BY <1>0, <2>2, <3>2 DEF SlotFree
      <3>4. \A t, q \in InUse \union {r} : Target[t] = Target[q] => t = q
        BY <2>2 DEF SlotFree, OneOwnerPerTarget
      <3> QED BY <3>1, <3>3, <3>4 DEF OneOwnerPerTarget
    <2> QED BY <1>2, <2>1, <2>2 DEF Publish
  <1>3. CASE (\A B \in SUBSET Runs : ~Reserve(B)) /\ (\A r \in Runs : ~Publish(r))
    <2>1. InUse' \in SUBSET InUse
      BY <1>3, SlotsFall
    <2>2. Cardinality(InUse') <= MaxConcurrent /\ \A r, q \in InUse' : Target[r] = Target[q] => r = q
      BY <2>1, FewerSlots
    <2> QED BY <2>2 DEF OneOwnerPerTarget
  <1> QED BY <1>1, <1>2, <1>3

\* However starts and fan-outs compete, the registry never holds more than
\* MaxConcurrent runs, nor two for one target.
THEOREM SlotsExclusive == Spec => []OneOwnerPerTarget
  <1>1. Init => OneOwnerPerTarget
    <2> SUFFICES ASSUME Init PROVE OneOwnerPerTarget
      OBVIOUS
    <2>1. InUse = {}
      BY DEF Init, InUse
    <2>2. Cardinality(InUse) = 0
      BY <2>1, FS_EmptySet
    <2> QED BY <2>1, <2>2 DEF OneOwnerPerTarget
  <1>2. TypeOK /\ OneOwnerPerTarget /\ [Next]_vars => OneOwnerPerTarget'
    BY SlotStep
  <1> QED BY <1>1, <1>2, TypeCorrect, PTL DEF Spec

\* The file of the runs only ever tells more.
THEOREM RowsAlwaysKept == Spec => RowsAreKept
  BY VerdictsStable, LiveRowsAlwaysKept DEF RowsAreKept

-----------------------------------------------------------------------------
(* While the file works.  The registry follows it: who is past ending a run  *)
(* knows that its row is not live, so a slot is only given back after the    *)
(* row.                                                                      *)

Past == {"release", "tell", "failing", "halt", "tellFailed", "exit", "done"}
CancelPasts == {"stop", "release", "tell", "failing", "halt", "tellFailed", "stopOnly"}

\* The goroutine of a run leaves it when its row is terminal, or at shutdown.
OwnerPast == \A r \in Runs : pc[r] \in Past => row[r] # "running" \/ closing

\* A cancellation that went past the row has ended it, or found it ended.
CancelPast == \A c \in Cancellers : cpc[c] \in CancelPasts => row[crun[c]] # "running"

OwnedInv == RunningIsOwned /\ OwnerPast /\ CancelPast

\* Only a start makes a row live.
LEMMA RunningBorn ==
  ASSUME TypeOK, [Next]_vars, NEW r \in Runs, row'[r] = "running", row[r] # "running"
  PROVE  Publish(r)
  <1>1. CASE row' = row
    BY <1>1
  <1>2. ASSUME NEW q \in Runs, Publish(q) PROVE Publish(r)
    <2>1. \A t \in Runs \ {q} : row'[t] = row[t] \/ (row[t] \in Terminal /\ row'[t] = "absent")
      BY <1>2, PublishRows
    <2> QED BY <1>2, <2>1
  <1>3. ASSUME NEW q \in Runs, FinishUnstarted(q) \/ FinishCutoff(q) \/ Finalize(q) PROVE FALSE
    <2>1. \/ UNCHANGED row
          \/ \E v \in Terminal : row' = [row EXCEPT ![q] = v]
      BY <1>3, FinishShape
    <2> QED BY <2>1 DEF TypeOK, Terminal
  <1>4. ASSUME NEW c \in Cancellers, CancelFinish(c) PROVE FALSE
    BY <1>4 DEF CancelFinish, TypeOK
  <1>5. CASE Restart
    BY <1>5 DEF Restart
  <1>6. ASSUME NEW q \in Runs, OwnerStep(q) PROVE FALSE
    <2>1. CASE SpawnMonitor(q) \/ Release(q) \/ Exit(q) \/ TakeOwner(q) \/ HaltFailed(q) \/ Load(q)
      BY <2>1 DEF SpawnMonitor, Release, Exit, TakeOwner, HaltFailed, Load
    <2>2. CASE TellVerdict(q) \/ TellFailed(q) \/ Tick(q) \/ Look(q) \/ Progress(q)
      BY <2>2, OwnerMoves
    <2> QED BY <1>3, <1>6, <2>1, <2>2 DEF OwnerStep
  <1>7. ASSUME NEW c \in Cancellers, CancelStep(c) PROVE FALSE
    BY <1>4, <1>7 DEF CancelStep, CancelStop, CancelRelease, CancelTell, CancelTakeOwner,
       CancelHalt, CancelTellFailed
  <1>8. ASSUME NEW q \in Runs, ReleaseReservation(q) \/ ChildDone(q) PROVE FALSE
    BY <1>8 DEF ReleaseReservation, ChildDone
  <1>9. ASSUME NEW B \in SUBSET Runs, Reserve(B) PROVE FALSE
    BY <1>9 DEF Reserve
  <1>10. ASSUME NEW c \in Cancellers, NEW q \in Runs, CancelBegin(c, q) PROVE FALSE
    BY <1>10 DEF CancelBegin
  <1>11. CASE BeginShutdown \/ ShutdownStop \/ UNCHANGED vars
    BY <1>11 DEF BeginShutdown, ShutdownStop, vars
  <1> QED
    BY <1>2, <1>5, <1>6, <1>7, <1>8, <1>9, <1>10, <1>11 DEF Next

\* Where the goroutine of a run comes from when it goes past the row.
LEMMA PastEntered ==
  ASSUME TypeOK, [Next]_vars, NEW r \in Runs, pc'[r] \in Past, pc[r] \notin Past
  PROVE  \/ FinishUnstarted(r) \/ FinishCutoff(r) \/ Finalize(r)
         \/ Tick(r) \/ Load(r) \/ Progress(r) \/ Restart
  <1> USE DEF TypeOK, Past, OwnerAt, OwnerGoes, owner
  <1>1. CASE pc' = pc
    BY <1>1
  <1>2. ASSUME NEW q \in Runs, NEW p, pc' = [pc EXCEPT ![q] = p] PROVE q = r /\ p \in Past
    BY <1>2
  <1>3. ASSUME NEW q \in Runs, Publish(q) PROVE FALSE
    BY <1>3 DEF Publish
  <1>4. ASSUME NEW q \in Runs, SpawnMonitor(q) \/ Look(q) PROVE FALSE
    BY <1>4 DEF SpawnMonitor, Look
  <1>5. ASSUME NEW q \in Runs,
               Release(q) \/ TellVerdict(q) \/ Exit(q) \/ TakeOwner(q) \/ HaltFailed(q) \/ TellFailed(q)
        PROVE  FALSE
    BY <1>5 DEF Release, TellVerdict, Exit, TakeOwner, HaltFailed, TellFailed
  <1>6. ASSUME NEW q \in Runs, FinishUnstarted(q) \/ FinishCutoff(q) \/ Finalize(q) PROVE q = r
    <2>1. PICK p \in {"failing", "exit", "release", "tell"} : pc' = [pc EXCEPT ![q] = p]
      BY <1>6, FinishShape
    <2> QED BY <1>2, <2>1
  <1>7. ASSUME NEW q \in Runs, Tick(q) \/ Load(q) \/ Progress(q) PROVE q = r
    BY <1>7 DEF Tick, Load, Progress
  <1>8. ASSUME NEW c \in Cancellers, CancelStep(c) PROVE FALSE
    BY <1>1, <1>8 DEF CancelStep, CancelFinish, CancelStop, CancelRelease, CancelTell, CancelTakeOwner,
       CancelHalt, CancelTellFailed
  <1>9. ASSUME NEW q \in Runs, ReleaseReservation(q) \/ ChildDone(q) PROVE FALSE
    BY <1>1, <1>9 DEF ReleaseReservation, ChildDone
  <1>10. ASSUME NEW B \in SUBSET Runs, Reserve(B) PROVE FALSE
    BY <1>1, <1>10 DEF Reserve
  <1>11. ASSUME NEW c \in Cancellers, NEW q \in Runs, CancelBegin(c, q) PROVE FALSE
    BY <1>1, <1>11 DEF CancelBegin
  <1>12. CASE BeginShutdown \/ ShutdownStop \/ UNCHANGED vars
    BY <1>1, <1>12 DEF BeginShutdown, ShutdownStop, vars
  <1> QED
    BY <1>3, <1>4, <1>5, <1>6, <1>7, <1>8, <1>9, <1>10, <1>11, <1>12 DEF Next, OwnerStep

\* Who takes a live slot away.
LEMMA SlotLost ==
  ASSUME TypeOK, [Next]_vars, NEW r \in Runs, registry[r] = "live", registry'[r] # "live"
  PROVE  \/ pc[r] \in {"release", "exit", "failing"}
         \/ \E c \in Cancellers : crun[c] = r /\ cpc[c] \in {"release", "failing"}
         \/ Restart
  <1> USE DEF TypeOK, OwnerAt, OwnerGoes
  <1>1. CASE registry' = registry
    BY <1>1
  <1>2. ASSUME NEW q \in Runs, Release(q) \/ Exit(q) \/ TakeOwner(q)
        PROVE  pc[r] \in {"release", "exit", "failing"}
    BY <1>2 DEF Release, Exit, TakeOwner
  <1>3. ASSUME NEW q \in Runs, OwnerStep(q) PROVE pc[r] \in {"release", "exit", "failing"}
    <2>1. CASE FinishUnstarted(q) \/ FinishCutoff(q) \/ Finalize(q)
      BY <1>1, <2>1, FinishShape
    <2>2. CASE TellVerdict(q) \/ TellFailed(q) \/ Tick(q) \/ Look(q) \/ Progress(q)
      BY <1>1, <2>2, OwnerMoves
    <2>3. CASE SpawnMonitor(q) \/ HaltFailed(q) \/ Load(q)
      BY <1>1, <2>3 DEF SpawnMonitor, HaltFailed, Load
    <2> QED BY <1>2, <1>3, <2>1, <2>2, <2>3 DEF OwnerStep
  <1>4. ASSUME NEW c \in Cancellers, CancelStep(c)
        PROVE  crun[c] = r /\ cpc[c] \in {"release", "failing"}
    <2>1. CASE CancelRelease(c) \/ CancelTakeOwner(c)
      BY <2>1 DEF CancelRelease, CancelTakeOwner
    <2>2. CASE ~(CancelRelease(c) \/ CancelTakeOwner(c))
      BY <1>1, <1>4, <2>2 DEF CancelStep, CancelFinish, CancelStop, CancelTell, CancelHalt, CancelTellFailed
    <2> QED BY <2>1, <2>2
  <1>5. ASSUME NEW q \in Runs, ReleaseReservation(q) \/ ChildDone(q) \/ Publish(q) PROVE FALSE
    BY <1>1, <1>5 DEF ReleaseReservation, Releasable, ChildDone, Publish
  <1>6. ASSUME NEW B \in SUBSET Runs, Reserve(B) PROVE FALSE
    BY <1>6 DEF Reserve
  <1>7. ASSUME NEW c \in Cancellers, NEW q \in Runs, CancelBegin(c, q) PROVE FALSE
    BY <1>1, <1>7 DEF CancelBegin
  <1>8. CASE BeginShutdown \/ ShutdownStop \/ UNCHANGED vars
    BY <1>1, <1>8 DEF BeginShutdown, ShutdownStop, vars
  <1> QED BY <1>3, <1>4, <1>5, <1>6, <1>7, <1>8 DEF Next

\* How a cancellation gets past the row.
LEMMA CancelPastEntered ==
  ASSUME TypeOK, [Next]_vars, NEW c \in Cancellers, cpc'[c] \in CancelPasts
  PROVE  crun'[c] = crun[c] /\ (cpc[c] \in CancelPasts \/ CancelFinish(c))
  <1> USE DEF TypeOK, CancelPasts, CancelGoes, CancelEnds, CancelGoesOrEnds
  <1>1. CASE UNCHANGED cancel
    BY <1>1 DEF cancel
  <1>2. ASSUME NEW d \in Cancellers \ {c}, CancelStep(d) PROVE cpc'[c] = cpc[c] /\ crun'[c] = crun[c]
    BY <1>2 DEF CancelStep, CancelFinish, CancelStop, CancelRelease, CancelTell, CancelTakeOwner,
       CancelHalt, CancelTellFailed
  <1>3. ASSUME CancelStep(c) PROVE crun'[c] = crun[c] /\ (cpc[c] \in CancelPasts \/ CancelFinish(c))
    BY <1>3 DEF CancelStep, CancelFinish, CancelStop, CancelRelease, CancelTell, CancelTakeOwner,
       CancelHalt, CancelTellFailed
  <1>4. ASSUME NEW q \in Runs, OwnerStep(q) PROVE UNCHANGED cancel
    <2>1. CASE FinishUnstarted(q) \/ FinishCutoff(q) \/ Finalize(q)
      BY <2>1, FinishShape
    <2>2. CASE TellVerdict(q) \/ TellFailed(q) \/ Tick(q) \/ Look(q) \/ Progress(q)
      BY <2>2, OwnerMoves
    <2>3. CASE SpawnMonitor(q) \/ Release(q) \/ Exit(q) \/ TakeOwner(q) \/ HaltFailed(q) \/ Load(q)
      BY <2>3 DEF SpawnMonitor, Release, Exit, TakeOwner, HaltFailed, Load
    <2> QED BY <1>4, <2>1, <2>2, <2>3 DEF OwnerStep
  <1>5. ASSUME NEW q \in Runs, ReleaseReservation(q) \/ ChildDone(q) \/ Publish(q) PROVE UNCHANGED cancel
    BY <1>5 DEF ReleaseReservation, ChildDone, Publish
  <1>6. ASSUME NEW B \in SUBSET Runs, Reserve(B) PROVE UNCHANGED cancel
    BY <1>6 DEF Reserve
  <1>7. ASSUME NEW d \in Cancellers, NEW q \in Runs, CancelBegin(d, q)
        PROVE  cpc'[c] = cpc[c] /\ crun'[c] = crun[c]
    <2>1. \/ UNCHANGED <<cpc, crun>>
          \/ cpc' = [cpc EXCEPT ![d] = "finish"] /\ crun' = [crun EXCEPT ![d] = q]
      <3> HIDE DEF TypeOK
      <3> QED BY <1>7 DEF CancelBegin, cancel
    <2>2. cpc \in [Cancellers -> CancelPhases] /\ crun \in [Cancellers -> Runs \union {NoRun}]
      BY Zenon
    <2> HIDE DEF TypeOK
    <2> QED BY <2>1, <2>2
  <1>8. CASE BeginShutdown \/ ShutdownStop \/ UNCHANGED vars
    BY <1>1, <1>8 DEF BeginShutdown, ShutdownStop, vars
  <1>9. CASE Restart
    BY <1>9 DEF Restart
  <1> QED BY <1>1, <1>2, <1>3, <1>4, <1>5, <1>6, <1>7, <1>8, <1>9 DEF Next

\* Shutdown is not taken back but by the next start.
LEMMA ClosingStays ==
  ASSUME TypeOK, [Next]_vars, closing
  PROVE  closing' \/ Restart
  <1> USE DEF TypeOK
  <1>1. ASSUME NEW q \in Runs, OwnerStep(q) PROVE UNCHANGED closing
    <2>1. CASE FinishUnstarted(q) \/ FinishCutoff(q) \/ Finalize(q)
      BY <2>1, FinishShape
    <2>2. CASE TellVerdict(q) \/ TellFailed(q) \/ Tick(q) \/ Look(q) \/ Progress(q)
      BY <2>2, OwnerMoves
    <2>3. CASE SpawnMonitor(q) \/ Release(q) \/ Exit(q) \/ TakeOwner(q) \/ HaltFailed(q) \/ Load(q)
      BY <2>3 DEF SpawnMonitor, Release, Exit, TakeOwner, HaltFailed, Load
    <2> QED BY <1>1, <2>1, <2>2, <2>3 DEF OwnerStep
  <1>2. ASSUME NEW c \in Cancellers, CancelStep(c) PROVE UNCHANGED closing
    BY <1>2 DEF CancelStep, CancelFinish, CancelStop, CancelRelease, CancelTell, CancelTakeOwner,
       CancelHalt, CancelTellFailed
  <1>3. ASSUME NEW q \in Runs, ReleaseReservation(q) \/ ChildDone(q) \/ Publish(q) PROVE UNCHANGED closing
    BY <1>3 DEF ReleaseReservation, ChildDone, Publish
  <1>4. ASSUME NEW B \in SUBSET Runs, Reserve(B) PROVE UNCHANGED closing
    BY <1>4 DEF Reserve
  <1>5. ASSUME NEW d \in Cancellers, NEW q \in Runs, CancelBegin(d, q) PROVE UNCHANGED closing
    BY <1>5 DEF CancelBegin
  <1>6. CASE BeginShutdown \/ ShutdownStop \/ UNCHANGED vars
    BY <1>6 DEF BeginShutdown, ShutdownStop, vars
  <1> QED BY <1>1, <1>2, <1>3, <1>4, <1>5, <1>6 DEF Next

\* Every step keeps the slots behind the rows.
LEMMA OwnedStep ==
  ASSUME ~StoreMayFail
  PROVE  IInv /\ IInv' /\ OwnedInv /\ [Next]_vars => OwnedInv'
  <1> SUFFICES ASSUME IInv, IInv', OwnedInv, [Next]_vars PROVE OwnedInv'
    OBVIOUS
  <1>1. TypeOK /\ Fresh /\ CancelOK /\ CancelOK'
    BY DEF IInv
  <1>2. RunningIsOwned /\ OwnerPast /\ CancelPast
    BY DEF OwnedInv
  <1>3. Restart => \A r \in Runs : row'[r] # "running"
    BY DEF Restart
  <1>4. OwnerPast'
    <2> SUFFICES ASSUME NEW r \in Runs, pc'[r] \in Past, row'[r] = "running", ~closing'
                 PROVE  FALSE
      BY DEF OwnerPast
    <2>1. row[r] = "running" /\ ~Publish(r)
      <3>1. ~Publish(r)
        BY <1>1 DEF Publish, OwnerGoes, TypeOK, Past
      <3> QED BY <1>1, <3>1, RunningBorn
    <2>2. ~closing
      BY <1>1, <1>3, ClosingStays
    <2>3. pc[r] \notin Past
      BY <1>2, <2>1, <2>2 DEF OwnerPast
    <2>4. FinishUnstarted(r) \/ FinishCutoff(r) \/ Finalize(r) \/ Tick(r) \/ Load(r) \/ Progress(r)
      BY <1>1, <1>3, <2>3, PastEntered
    <2>5. CASE FinishUnstarted(r) \/ FinishCutoff(r) \/ Finalize(r)
      <3>1. OwnerGoes(r, "failing") => FinishFails(r)
        BY <1>1, <2>1, <2>5 DEF FinishUnstarted, FinishCutoff, Finalize, OwnerFinish, OwnerGoes, TypeOK
      <3>2. \/ pc' = [pc EXCEPT ![r] = "failing"] 
            \/ row[r] \in Terminal
            \/ \E v \in Terminal : row' = [row EXCEPT ![r] = v]
        BY <2>5, FinishShape
      <3> QED BY <1>1, <2>1, <3>1, <3>2 DEF OwnerGoes, FinishFails, Terminal, TypeOK
    <2>6. CASE Tick(r)
      BY <1>1, <1>2, <2>1, <2>2, <2>6 DEF Tick, OwnerGoes, StillOwner, RunningIsOwned, TypeOK, Past
    <2>7. CASE Load(r)
      BY <1>1, <2>1, <2>7 DEF Load, OwnerGoes, FinishFails, TypeOK, Past, Terminal
    <2>8. CASE Progress(r)
      BY <1>1, <2>1, <2>8 DEF Progress, OwnerGoes, FinishFails, TypeOK, Past, Terminal
    <2> QED BY <2>4, <2>5, <2>6, <2>7, <2>8
  <1>5. CancelPast'
    <2> SUFFICES ASSUME NEW c \in Cancellers, cpc'[c] \in CancelPasts, row'[crun'[c]] = "running"
                 PROVE  FALSE
      BY DEF CancelPast
    <2>1. crun'[c] = crun[c] /\ (cpc[c] \in CancelPasts \/ CancelFinish(c))
      BY <1>1, CancelPastEntered
    <2>2. crun[c] \in Runs
      BY <1>1, <2>1 DEF CancelOK, CancelPasts
    <2>3. CASE cpc[c] \in CancelPasts
      <3>1. row[crun[c]] # "running"
        BY <1>2, <2>3 DEF CancelPast
      <3>2. Publish(crun[c])
        BY <1>1, <2>1, <2>2, <3>1, RunningBorn
      <3>3. pc[crun[c]] = "new"
        BY <3>2 DEF Publish, OwnerAt
      <3> QED BY <1>1, <2>2, <3>3 DEF Fresh
    <2>4. CASE CancelFinish(c)
      BY <1>1, <2>1, <2>2, <2>4 DEF CancelFinish, FinishFails, TypeOK, Terminal
    <2> QED BY <2>1, <2>3, <2>4
  <1>6. RunningIsOwned'
    <2> SUFFICES ASSUME NEW r \in Runs, row'[r] = "running", registry'[r] # "live", ~closing'
                 PROVE  FALSE
      BY DEF RunningIsOwned
    <2>1. row[r] = "running"
      <3>1. ~Publish(r)
        BY <1>1 DEF Publish, TypeOK
      <3> QED BY <1>1, <3>1, RunningBorn
    <2>2. ~closing
      BY <1>1, <1>3, ClosingStays
    <2>3. registry[r] = "live"
      BY <1>2, <2>1, <2>2 DEF RunningIsOwned
    <2>4. \/ pc[r] \in {"release", "exit", "failing"}
          \/ \E c \in Cancellers : crun[c] = r /\ cpc[c] \in {"release", "failing"}
      BY <1>1, <1>3, <2>3, SlotLost
    <2>5. CASE pc[r] \in {"release", "exit", "failing"}
      BY <1>2, <2>1, <2>2, <2>5 DEF OwnerPast, Past
    <2>6. CASE \E c \in Cancellers : crun[c] = r /\ cpc[c] \in {"release", "failing"}
      BY <1>2, <2>1, <2>6 DEF CancelPast, CancelPasts
    <2> QED BY <2>4, <2>5, <2>6
  <1> QED BY <1>4, <1>5, <1>6 DEF OwnedInv

\* While the run file works, a run that it calls running is in the registry,
\* unless the program is closing: what waitForDelegationBatch relies on.
THEOREM RunsAreOwned ==
  ASSUME ~StoreMayFail
  PROVE  Spec => []RunningIsOwned
  <1>1. Init => OwnedInv
    BY DEF Init, OwnedInv, RunningIsOwned, OwnerPast, CancelPast, Past, CancelPasts
  <1>2. IInv /\ IInv' /\ OwnedInv /\ [Next]_vars => OwnedInv'
    BY OwnedStep
  <1>3. OwnedInv => RunningIsOwned
    BY DEF OwnedInv
  <1> QED BY <1>1, <1>2, <1>3, Inductive, PTL DEF Spec

-----------------------------------------------------------------------------
(* With room in the file as well, delegation keeps its contract.  Whoever    *)
(* ends the row, the goroutine of the run or one cancellation, is the only   *)
(* one to tell of it, and has not told yet.                                  *)

FailPhases == {"failing", "halt", "tellFailed"}

\* A run that was started has a row; the paths of a failed file are not taken.
RowsThere ==
    /\ \A r \in Runs : pc[r] # "new" => row[r] # "absent"
    /\ \A r \in Runs : pc[r] \notin FailPhases
    /\ \A c \in Cancellers : cpc[c] \notin FailPhases \union {"stopOnly"}

\* Cancellation c has ended the row of r.
Won(c, r) == cwon[c] /\ crun[c] = r

OwnerTells ==
    \A r \in Runs :
        pc[r] \in {"release", "tell"} =>
            /\ row[r] \in Terminal /\ verdict[r] = row[r] /\ told[r] = <<>>
            /\ \A c \in Cancellers : ~Won(c, r)

CancelTells ==
    \A c \in Cancellers :
        /\ cpc[c] = "tell" => cwon[c]
        /\ cwon[c] => cpc[c] \in {"stop", "release", "tell"}

WonOnce ==
    \A r \in Runs : \A c \in Cancellers :
        Won(c, r) =>
            /\ row[r] = "stopped" /\ told[r] = <<>>
            /\ \A d \in Cancellers \ {c} : ~Won(d, r)

LiveUntold == \A r \in Runs : row[r] \in {"absent", "running"} => told[r] = <<>>

TellersInv == OwnerTells /\ CancelTells /\ WonOnce /\ LiveUntold

\* With room in the file an append drops nothing.
LEMMA PublishFits ==
  ASSUME TypeOK, Cardinality(Runs) <= MaxRows, NEW r \in Runs, Publish(r)
  PROVE  row' = [row EXCEPT ![r] = "running"]
  <1> DEFINE new == [row EXCEPT ![r] = "running"]
             there == {q \in Runs : new[q] # "absent"}
  <1>1. Cardinality(there) <= Cardinality(Runs) /\ Cardinality(there) \in Nat /\ Cardinality(Runs) \in Nat
    BY RunsCount, FS_Subset
  <1>2. row' \in Fitted(new, born')
    BY DEF Publish
  <1>3. Cardinality(there) <= MaxRows
    BY <1>1
  <1>4. Fitted(new, born') = {new}
    <2> HIDE DEF new
    <2> QED BY <1>3, Zenon DEF Fitted
  <1> QED BY <1>2, <1>4

\* Only a start takes a run out of "new".
LEMMA NewLeft ==
  ASSUME TypeOK, [Next]_vars, NEW r \in Runs, pc[r] = "new", pc'[r] # "new"
  PROVE  Publish(r)
  <1> USE DEF TypeOK, OwnerAt, OwnerGoes, owner
  <1>1. CASE pc' = pc
    BY <1>1
  <1>2. ASSUME NEW q \in Runs, Publish(q) PROVE Publish(r)
    <2>1. q = r
      BY <1>2 DEF Publish
    <2> QED BY <1>2, <2>1
  <1>3. ASSUME NEW q \in Runs, OwnerStep(q) PROVE FALSE
    <2>1. CASE FinishUnstarted(q) \/ FinishCutoff(q) \/ Finalize(q)
      <3>1. PICK p \in {"failing", "exit", "release", "tell"} : pc' = [pc EXCEPT ![q] = p]
        BY <2>1, FinishShape
      <3>2. pc[q] # "new"
        BY <2>1, FinishShape
      <3> QED BY <3>1, <3>2
    <2>2. CASE TellVerdict(q) \/ TellFailed(q) \/ Tick(q) \/ Look(q) \/ Progress(q)
      <3>1. pc[q] # "new" /\ \E p \in OwnerPhases : pc' = [pc EXCEPT ![q] = p]
        BY <2>2, OwnerMoves DEF OwnerPhases
      <3> QED BY <3>1
    <2>3. CASE SpawnMonitor(q) \/ Release(q) \/ Exit(q) \/ TakeOwner(q) \/ HaltFailed(q)
      BY <2>3 DEF SpawnMonitor, Release, Exit, TakeOwner, HaltFailed
    <2>4. CASE Load(q)
      BY <2>4 DEF Load
    <2> QED BY <1>3, <2>1, <2>2, <2>3, <2>4 DEF OwnerStep
  <1>4. ASSUME NEW c \in Cancellers, CancelStep(c) PROVE FALSE
    BY <1>1, <1>4 DEF CancelStep, CancelFinish, CancelStop, CancelRelease, CancelTell, CancelTakeOwner,
       CancelHalt, CancelTellFailed
  <1>5. ASSUME NEW q \in Runs, ReleaseReservation(q) \/ ChildDone(q) PROVE FALSE
    BY <1>1, <1>5 DEF ReleaseReservation, ChildDone
  <1>6. ASSUME NEW B \in SUBSET Runs, Reserve(B) PROVE FALSE
    BY <1>1, <1>6 DEF Reserve
  <1>7. ASSUME NEW c \in Cancellers, NEW q \in Runs, CancelBegin(c, q) PROVE FALSE
    BY <1>1, <1>7 DEF CancelBegin
  <1>8. CASE BeginShutdown \/ ShutdownStop \/ UNCHANGED vars
    BY <1>1, <1>8 DEF BeginShutdown, ShutdownStop, vars
  <1>9. CASE Restart
    BY <1>9 DEF Restart
  <1> QED BY <1>2, <1>3, <1>4, <1>5, <1>6, <1>7, <1>8, <1>9 DEF Next

\* A row of a file with room stays.
LEMMA RowStays ==
  ASSUME TypeOK, [Next]_vars, Cardinality(Runs) <= MaxRows, NEW r \in Runs, row[r] # "absent"
  PROVE  row'[r] # "absent"
  <1>1. CASE row[r] = "running"
    BY <1>1, RowStep
  <1>2. CASE row[r] \in Terminal /\ row'[r] = row[r]
    BY <1>2
  <1>3. CASE row[r] \in Terminal /\ row'[r] # row[r]
    <2>1. row' # row
      BY <1>3
    <2>2. ASSUME NEW q \in Runs, Publish(q) PROVE row'[r] # "absent"
      <3>1. row' = [row EXCEPT ![q] = "running"]
        BY <2>2, PublishFits
      <3> QED BY <3>1 DEF TypeOK
    <2>3. ASSUME NEW q \in Runs, FinishUnstarted(q) \/ FinishCutoff(q) \/ Finalize(q)
          PROVE  row'[r] # "absent"
      <3>1. \E v \in Terminal : row' = [row EXCEPT ![q] = v]
        BY <2>1, <2>3, FinishShape
      <3> QED BY <3>1 DEF TypeOK, Terminal
    <2>4. ASSUME NEW c \in Cancellers, CancelFinish(c) PROVE row'[r] # "absent"
      BY <2>4 DEF CancelFinish, TypeOK
    <2>5. CASE Restart
      BY <2>5 DEF Restart, TypeOK
    <2>6. ASSUME NEW q \in Runs, OwnerStep(q) PROVE row'[r] # "absent"
      <3>1. CASE SpawnMonitor(q) \/ Release(q) \/ Exit(q) \/ TakeOwner(q) \/ HaltFailed(q) \/ Load(q)
        BY <2>1, <3>1 DEF SpawnMonitor, Release, Exit, TakeOwner, HaltFailed, Load
      <3>2. CASE TellVerdict(q) \/ TellFailed(q) \/ Tick(q) \/ Look(q) \/ Progress(q)
        BY <2>1, <3>2, OwnerMoves
      <3> QED BY <2>3, <2>6, <3>1, <3>2 DEF OwnerStep
    <2>7. ASSUME NEW c \in Cancellers, CancelStep(c) PROVE row'[r] # "absent"
      BY <2>1, <2>4, <2>7 DEF CancelStep, CancelStop, CancelRelease, CancelTell, CancelTakeOwner,
         CancelHalt, CancelTellFailed
    <2>8. ASSUME NEW q \in Runs, ReleaseReservation(q) \/ ChildDone(q) PROVE FALSE
      BY <2>1, <2>8 DEF ReleaseReservation, ChildDone
    <2>9. ASSUME NEW B \in SUBSET Runs, Reserve(B) PROVE FALSE
      BY <2>1, <2>9 DEF Reserve
    <2>10. ASSUME NEW c \in Cancellers, NEW q \in Runs, CancelBegin(c, q) PROVE FALSE
      BY <2>1, <2>10 DEF CancelBegin
    <2>11. CASE BeginShutdown \/ ShutdownStop \/ UNCHANGED vars
      BY <2>1, <2>11 DEF BeginShutdown, ShutdownStop, vars
    <2> QED BY <2>2, <2>5, <2>6, <2>7, <2>8, <2>9, <2>10, <2>11 DEF Next
  <1> QED BY <1>1, <1>2, <1>3 DEF TypeOK

\* The goroutine of a run meets no failed file.
LEMMA OwnerNoFail ==
  ASSUME ~StoreMayFail, TypeOK, RowsThere, [Next]_vars, NEW r \in Runs
  PROVE  pc'[r] \notin FailPhases
  <1> USE DEF TypeOK, OwnerAt, OwnerGoes, owner, FailPhases
  <1>0. pc[r] \notin FailPhases /\ (pc[r] # "new" => row[r] # "absent")
    BY DEF RowsThere
  <1> HIDE DEF RowsThere
  <1>1. CASE pc'[r] = pc[r]
    BY <1>0, <1>1
  <1>2. ASSUME NEW q \in Runs, Publish(q) PROVE pc'[r] \notin FailPhases
    BY <1>0, <1>2 DEF Publish
  <1>3. ASSUME NEW q \in Runs, NEW p \in OwnerPhases, pc' = [pc EXCEPT ![q] = p],
               q = r => p \notin FailPhases
        PROVE  pc'[r] \notin FailPhases
    BY <1>0, <1>3
  <1>4. ASSUME NEW q \in Runs, OwnerStep(q) PROVE pc'[r] \notin FailPhases
    <2>1. CASE q # r
      <3>1. \E p \in OwnerPhases : pc' = [pc EXCEPT ![q] = p]
        <4>1. CASE FinishUnstarted(q) \/ FinishCutoff(q) \/ Finalize(q)
          BY <4>1, FinishShape DEF OwnerPhases
        <4>2. CASE TellVerdict(q) \/ TellFailed(q) \/ Tick(q) \/ Look(q) \/ Progress(q)
          BY <4>2, OwnerMoves DEF OwnerPhases
        <4>3. CASE SpawnMonitor(q) \/ Release(q) \/ Exit(q) \/ TakeOwner(q) \/ HaltFailed(q)
          BY <4>3 DEF SpawnMonitor, Release, Exit, TakeOwner, HaltFailed, OwnerPhases
        <4>4. CASE Load(q)
          BY <4>4 DEF Load, OwnerPhases
        <4> QED BY <1>4, <4>1, <4>2, <4>3, <4>4 DEF OwnerStep
      <3> QED BY <1>1, <2>1, <3>1
    <2>2. CASE q = r
      <3>1. CASE FinishUnstarted(r) \/ FinishCutoff(r) \/ Finalize(r)
        <4>1. PICK V \in SUBSET Terminal, p \in {"release", "tell"} : OwnerFinish(r, V, p)
          BY <3>1 DEF FinishUnstarted, FinishCutoff, Finalize, FinalStatuses, Terminal
        <4>2. row[r] # "absent"
          BY <1>0, <3>1, FinishShape
        <4> QED BY <4>1, <4>2 DEF OwnerFinish, FinishFails
      <3>2. CASE TellVerdict(r) \/ Tick(r) \/ Look(r)
        BY <3>2 DEF TellVerdict, Tick, Look
      <3>3. CASE Load(r) \/ Progress(r)
        BY <1>0, <3>3 DEF Load, Progress, FinishFails
      <3>4. CASE SpawnMonitor(r) \/ Release(r) \/ Exit(r)
        BY <3>4 DEF SpawnMonitor, Release, Exit
      <3>5. CASE TakeOwner(r) \/ HaltFailed(r) \/ TellFailed(r)
        BY <1>0, <3>5 DEF TakeOwner, HaltFailed, TellFailed
      <3> QED BY <1>4, <2>2, <3>1, <3>2, <3>3, <3>4, <3>5 DEF OwnerStep
    <2> QED BY <2>1, <2>2
  <1>5. ASSUME NEW c \in Cancellers, CancelStep(c) PROVE pc' = pc
    BY <1>5 DEF CancelStep, CancelFinish, CancelStop, CancelRelease, CancelTell, CancelTakeOwner,
       CancelHalt, CancelTellFailed
  <1>6. ASSUME NEW q \in Runs, ReleaseReservation(q) \/ ChildDone(q) PROVE pc' = pc
    BY <1>6 DEF ReleaseReservation, ChildDone
  <1>7. ASSUME NEW B \in SUBSET Runs, Reserve(B) PROVE pc' = pc
    BY <1>7 DEF Reserve
  <1>8. ASSUME NEW c \in Cancellers, NEW q \in Runs, CancelBegin(c, q) PROVE pc' = pc
    BY <1>8 DEF CancelBegin
  <1>9. CASE BeginShutdown \/ ShutdownStop \/ UNCHANGED vars
    BY <1>1, <1>9 DEF BeginShutdown, ShutdownStop, vars
  <1>10. CASE Restart
    BY <1>10 DEF Restart
  <1> QED BY <1>1, <1>2, <1>4, <1>5, <1>6, <1>7, <1>8, <1>9, <1>10 DEF Next

\* Only its own steps move a cancellation, and the next start.
LEMMA CancelMover ==
  ASSUME TypeOK, [Next]_vars, NEW c \in Cancellers,
         cpc'[c] # cpc[c] \/ crun'[c] # crun[c] \/ cwon'[c] # cwon[c]
  PROVE  CancelStep(c) \/ (\E q \in Runs : CancelBegin(c, q)) \/ Restart
  <1> USE DEF TypeOK
  <1>1. CASE UNCHANGED cancel
    BY <1>1 DEF cancel
  <1>2. ASSUME NEW d \in Cancellers \ {c}, CancelStep(d)
        PROVE  cpc'[c] = cpc[c] /\ crun'[c] = crun[c] /\ cwon'[c] = cwon[c]
    BY <1>2 DEF CancelStep, CancelFinish, CancelStop, CancelRelease, CancelTell, CancelTakeOwner,
       CancelHalt, CancelTellFailed, CancelGoes, CancelEnds, CancelGoesOrEnds
  <1>3. ASSUME NEW q \in Runs, OwnerStep(q) PROVE UNCHANGED cancel
    <2>1. CASE FinishUnstarted(q) \/ FinishCutoff(q) \/ Finalize(q)
      BY <2>1, FinishShape
    <2>2. CASE TellVerdict(q) \/ TellFailed(q) \/ Tick(q) \/ Look(q) \/ Progress(q)
      BY <2>2, OwnerMoves
    <2>3. CASE SpawnMonitor(q) \/ Release(q) \/ Exit(q) \/ TakeOwner(q) \/ HaltFailed(q) \/ Load(q)
      BY <2>3 DEF SpawnMonitor, Release, Exit, TakeOwner, HaltFailed, Load
    <2> QED BY <1>3, <2>1, <2>2, <2>3 DEF OwnerStep
  <1>4. ASSUME NEW q \in Runs, ReleaseReservation(q) \/ ChildDone(q) \/ Publish(q) PROVE UNCHANGED cancel
    BY <1>4 DEF ReleaseReservation, ChildDone, Publish
  <1>5. ASSUME NEW B \in SUBSET Runs, Reserve(B) PROVE UNCHANGED cancel
    BY <1>5 DEF Reserve
  <1>6. ASSUME NEW d \in Cancellers \ {c}, NEW q \in Runs, CancelBegin(d, q)
        PROVE  cpc'[c] = cpc[c] /\ crun'[c] = crun[c] /\ cwon'[c] = cwon[c]
    BY <1>6 DEF CancelBegin, cancel
  <1>7. CASE BeginShutdown \/ ShutdownStop \/ UNCHANGED vars
    BY <1>1, <1>7 DEF BeginShutdown, ShutdownStop, vars
  <1>8. ~UNCHANGED cancel
    BY DEF cancel
  <1> HIDE DEF TypeOK
  <1> QED BY <1>2, <1>3, <1>4, <1>5, <1>6, <1>7, <1>8 DEF Next

\* A cancellation meets no failed file either.
LEMMA CancelNoFail ==
  ASSUME ~StoreMayFail, IInv, RowsThere, [Next]_vars, NEW c \in Cancellers
  PROVE  cpc'[c] \notin FailPhases \union {"stopOnly"}
  <1>1. TypeOK /\ Fresh /\ CancelOK
    BY DEF IInv
  <1>2. /\ cpc[c] \notin FailPhases \union {"stopOnly"}
        /\ \A r \in Runs : pc[r] # "new" => row[r] # "absent"
    BY DEF RowsThere
  <1> SUFFICES ASSUME cpc'[c] \in FailPhases \union {"stopOnly"} PROVE FALSE
    OBVIOUS
  <1> USE DEF CancelGoes, CancelEnds, CancelGoesOrEnds, TypeOK, FailPhases
  <1>3. CancelStep(c) \/ (\E q \in Runs : CancelBegin(c, q)) \/ Restart
    <2>1. cpc'[c] # cpc[c]
      BY <1>2
    <2> HIDE DEF TypeOK
    <2> QED BY <1>1, <2>1, CancelMover
  <1>4. CASE CancelFinish(c)
    <2>1. crun[c] \in Runs
      BY <1>1, <1>4 DEF CancelFinish, CancelOK
    <2>2. row[crun[c]] # "absent"
      BY <1>1, <1>2, <2>1 DEF Fresh
    <2> QED BY <1>1, <1>4, <2>2 DEF CancelFinish, FinishFails, AfterCancelWin
  <1>5. CASE CancelStop(c) \/ CancelRelease(c) \/ CancelTell(c)
    BY <1>1, <1>5 DEF CancelStop, CancelRelease, CancelTell
  <1>6. CASE CancelTakeOwner(c) \/ CancelHalt(c) \/ CancelTellFailed(c)
    BY <1>2, <1>6 DEF CancelTakeOwner, CancelHalt, CancelTellFailed
  <1>7. ASSUME NEW q \in Runs, CancelBegin(c, q) PROVE FALSE
    <2>1. cpc' = cpc \/ cpc' = [cpc EXCEPT ![c] = "finish"]
      <3> HIDE DEF TypeOK
      <3> QED BY <1>7 DEF CancelBegin, cancel
    <2> QED BY <1>1, <1>2, <2>1
  <1>8. CASE Restart
    BY <1>8 DEF Restart
  <1> QED BY <1>3, <1>4, <1>5, <1>6, <1>7, <1>8 DEF CancelStep

\* Every step keeps the rows, and the paths of a failed file are never taken.
LEMMA RowsThereStep ==
  ASSUME ~StoreMayFail, Cardinality(Runs) <= MaxRows
  PROVE  IInv /\ RowsThere /\ [Next]_vars => RowsThere'
  <1> SUFFICES ASSUME IInv, RowsThere, [Next]_vars PROVE RowsThere'
    OBVIOUS
  <1>1. TypeOK
    BY DEF IInv
  <1>2. ASSUME NEW r \in Runs, pc'[r] # "new" PROVE row'[r] # "absent"
    <2>1. CASE pc[r] = "new"
      BY <1>1, <1>2, <2>1, NewLeft, PublishRows
    <2>2. CASE pc[r] # "new"
      BY <1>1, <2>2, RowStays DEF RowsThere
    <2> QED BY <2>1, <2>2
  <1>3. \A r \in Runs : pc'[r] \notin FailPhases
    BY <1>1, OwnerNoFail
  <1>4. \A c \in Cancellers : cpc'[c] \notin FailPhases \union {"stopOnly"}
    BY CancelNoFail
  <1> QED BY <1>2, <1>3, <1>4 DEF RowsThere

\* A step that leaves rows, events and winners alone, and sends nobody to tell
\* who was not on the way, keeps the order of telling.
LEMMA TellersFrame ==
  ASSUME TellersInv, UNCHANGED <<row, told, cwon>>,
         \A r \in Runs : pc'[r] \in {"release", "tell"} =>
            pc[r] \in {"release", "tell"} /\ verdict'[r] = verdict[r],
         \A c \in Cancellers : cwon[c] => crun'[c] = crun[c] /\ cpc'[c] \in {"stop", "release", "tell"},
         \A c \in Cancellers : cpc'[c] = "tell" => cwon[c]
  PROVE  TellersInv'
  <1> USE DEF TellersInv
  <1>1. \A r : \A c \in Cancellers : Won(c, r)' => Won(c, r)
    BY DEF Won
  <1>2. OwnerTells'
    BY <1>1 DEF OwnerTells
  <1>3. CancelTells'
    BY DEF CancelTells
  <1>4. WonOnce'
    BY <1>1 DEF WonOnce
  <1>5. LiveUntold'
    BY DEF LiveUntold
  <1> QED BY <1>2, <1>3, <1>4, <1>5

\* The owner of a run that is still running ends it: nobody else has.
LEMMA TellersOwnerWins ==
  ASSUME TypeOK, CancelOK, TellersInv, NEW r \in Runs, row[r] = "running",
         NEW v \in Terminal, NEW p \in {"release", "tell"},
         pc' = [pc EXCEPT ![r] = p], row' = [row EXCEPT ![r] = v],
         verdict' = [verdict EXCEPT ![r] = v], UNCHANGED <<cancel, told>>
  PROVE  TellersInv'
  <1>1. /\ row'[r] = v /\ verdict'[r] = v
        /\ \A q \in Runs \ {r} : row'[q] = row[q] /\ verdict'[q] = verdict[q] /\ pc'[q] = pc[q]
    BY DEF TypeOK
  <1>2. told[r] = <<>>
    BY DEF TellersInv, LiveUntold
  <1>3. \A c \in Cancellers : ~Won(c, r)
    BY DEF TellersInv, WonOnce
  <1>4. \A q : \A c \in Cancellers : Won(c, q)' <=> Won(c, q)
    BY DEF Won, cancel
  <1>5. OwnerTells'
    <2> SUFFICES ASSUME NEW q \in Runs, pc'[q] \in {"release", "tell"}
                 PROVE  /\ row'[q] \in Terminal /\ verdict'[q] = row'[q] /\ told'[q] = <<>>
                        /\ \A c \in Cancellers : ~Won(c, q)'
      BY DEF OwnerTells
    <2>1. CASE q = r
      BY <1>1, <1>2, <1>3, <1>4, <2>1
    <2>2. CASE q # r
      BY <1>1, <1>4, <2>2 DEF TellersInv, OwnerTells
    <2> QED BY <2>1, <2>2
  <1>6. CancelTells'
    BY DEF TellersInv, CancelTells, cancel
  <1>7. WonOnce'
    BY <1>1, <1>3, <1>4 DEF TellersInv, WonOnce
  <1>8. LiveUntold'
    BY <1>1 DEF TellersInv, LiveUntold, Terminal
  <1> QED BY <1>5, <1>6, <1>7, <1>8 DEF TellersInv

\* So does a cancellation.
LEMMA TellersCancelWins ==
  ASSUME TypeOK, CancelOK, TellersInv, NEW c \in Cancellers, NEW p \in {"stop", "tell"},
         crun[c] \in Runs, row[crun[c]] = "running",
         row' = [row EXCEPT ![crun[c]] = "stopped"], cwon' = [cwon EXCEPT ![c] = TRUE],
         cpc' = [cpc EXCEPT ![c] = p], UNCHANGED <<crun, owner, told>>
  PROVE  TellersInv'
  <1> DEFINE r == crun[c]
  <1>1. row'[r] = "stopped" /\ \A q \in Runs \ {r} : row'[q] = row[q]
    BY DEF TypeOK
  <1>2. told[r] = <<>> /\ UNCHANGED <<pc, verdict>>
    BY DEF TellersInv, LiveUntold, owner
  <1>3. \A d \in Cancellers : ~Won(d, r)
    BY DEF TellersInv, WonOnce
  <1>4. /\ cpc'[c] = p /\ cwon'[c]
        /\ \A d \in Cancellers \ {c} : cpc'[d] = cpc[d] /\ cwon'[d] = cwon[d]
    BY DEF TypeOK
  <1>5. \A q : \A d \in Cancellers \ {c} : Won(d, q)' <=> Won(d, q)
    BY <1>4 DEF Won
  <1>6. \A q : Won(c, q)' => q = r
    BY DEF Won
  <1>7. pc[r] \notin {"release", "tell"}
    BY DEF TellersInv, OwnerTells, Terminal
  <1>8. OwnerTells'
    <2> SUFFICES ASSUME NEW q \in Runs, pc'[q] \in {"release", "tell"}
                 PROVE  /\ row'[q] \in Terminal /\ verdict'[q] = row'[q] /\ told'[q] = <<>>
                        /\ \A d \in Cancellers : ~Won(d, q)'
      BY DEF OwnerTells
    <2>1. q # r /\ pc[q] \in {"release", "tell"}
      BY <1>2, <1>7
    <2> HIDE DEF r
    <2> QED BY <1>1, <1>2, <1>5, <1>6, <2>1 DEF TellersInv, OwnerTells
  <1>9. CancelTells'
    BY <1>4 DEF TellersInv, CancelTells
  <1>10. WonOnce'
    <2> SUFFICES ASSUME NEW q \in Runs, NEW d \in Cancellers, Won(d, q)'
                 PROVE  /\ row'[q] = "stopped" /\ told'[q] = <<>>
                        /\ \A e \in Cancellers \ {d} : ~Won(e, q)'
      BY DEF WonOnce
    <2>1. CASE d = c
      <3>1. q = r
        BY <1>6, <2>1
      <3> HIDE DEF r
      <3> QED BY <1>1, <1>2, <1>3, <1>5, <2>1, <3>1
    <2>2. CASE d # c
      <3>1. Won(d, q)
        BY <1>5, <2>2
      <3>2. q # r
        BY <1>3, <3>1
      <3> HIDE DEF r
      <3>3. ~Won(c, q)'
        BY <1>6, <3>2
      <3> QED BY <1>1, <1>2, <1>5, <2>2, <3>1, <3>2, <3>3 DEF TellersInv, WonOnce
    <2> QED BY <2>1, <2>2
  <1>11. LiveUntold'
    BY <1>1 DEF TellersInv, LiveUntold
  <1> QED BY <1>8, <1>9, <1>10, <1>11 DEF TellersInv

\* Who tells of a run is done with it.
LEMMA TellersOwnerTold ==
  ASSUME TypeOK, CancelOK, TellersInv, NEW r \in Runs, TellVerdict(r)
  PROVE  TellersInv'
  <1>1. /\ pc[r] = "tell" /\ pc'[r] = "exit" /\ UNCHANGED <<row, cpc, crun, cwon>>
        /\ \A q \in Runs \ {r} : told'[q] = told[q] /\ verdict'[q] = verdict[q] /\ pc'[q] = pc[q]
    BY DEF TellVerdict, Tell, OwnerAt, OwnerGoes, TypeOK, cancel
  <1>2. row[r] \in Terminal /\ \A c \in Cancellers : ~Won(c, r)
    BY <1>1 DEF TellersInv, OwnerTells
  <1>3. \A q : \A c \in Cancellers : Won(c, q)' <=> Won(c, q)
    BY <1>1 DEF Won
  <1>4. OwnerTells'
    <2> SUFFICES ASSUME NEW q \in Runs, pc'[q] \in {"release", "tell"}
                 PROVE  /\ row'[q] \in Terminal /\ verdict'[q] = row'[q] /\ told'[q] = <<>>
                        /\ \A c \in Cancellers : ~Won(c, q)'
      BY DEF OwnerTells
    <2>1. q # r
      BY <1>1
    <2> QED BY <1>1, <1>3, <2>1 DEF TellersInv, OwnerTells
  <1>5. CancelTells'
    BY <1>1 DEF TellersInv, CancelTells
  <1>6. WonOnce'
    BY <1>1, <1>2, <1>3 DEF TellersInv, WonOnce
  <1>7. LiveUntold'
    BY <1>1, <1>2 DEF TellersInv, LiveUntold, Terminal
  <1> QED BY <1>4, <1>5, <1>6, <1>7 DEF TellersInv

\* So is the cancellation that tells.
LEMMA TellersCancelTold ==
  ASSUME TypeOK, CancelOK, TellersInv, NEW c \in Cancellers, CancelTell(c)
  PROVE  TellersInv'
  <1> DEFINE r == crun[c]
  <1>0. cpc[c] = "tell" /\ r \in Runs
    BY DEF CancelTell, CancelOK
  <1>1. /\ cpc'[c] = "off" /\ ~cwon'[c] /\ UNCHANGED <<row, pc, verdict>>
        /\ \A q \in Runs \ {r} : told'[q] = told[q]
    BY <1>0 DEF CancelTell, CancelEnds, Tell, TypeOK, owner
  <1>2. \A d \in Cancellers \ {c} : cpc'[d] = cpc[d] /\ crun'[d] = crun[d] /\ cwon'[d] = cwon[d]
    BY DEF CancelTell, CancelEnds, TypeOK
  <1>3. Won(c, r) /\ row[r] = "stopped" /\ \A d \in Cancellers \ {c} : ~Won(d, r)
    BY <1>0 DEF TellersInv, CancelTells, WonOnce, Won
  <1>4. \A q : \A d \in Cancellers : Won(d, q)' => Won(d, q) /\ d # c
    BY <1>1, <1>2 DEF Won
  <1>5. OwnerTells'
    <2> SUFFICES ASSUME NEW q \in Runs, pc'[q] \in {"release", "tell"}
                 PROVE  /\ row'[q] \in Terminal /\ verdict'[q] = row'[q] /\ told'[q] = <<>>
                        /\ \A d \in Cancellers : ~Won(d, q)'
      BY DEF OwnerTells
    <2>1. q # r
      BY <1>1, <1>3 DEF TellersInv, OwnerTells
    <2> HIDE DEF r
    <2> QED BY <1>1, <1>4, <2>1 DEF TellersInv, OwnerTells
  <1>6. CancelTells'
    BY <1>1, <1>2 DEF TellersInv, CancelTells
  <1>7. WonOnce'
    <2> SUFFICES ASSUME NEW q \in Runs, NEW d \in Cancellers, Won(d, q)'
                 PROVE  /\ row'[q] = "stopped" /\ told'[q] = <<>>
                        /\ \A e \in Cancellers \ {d} : ~Won(e, q)'
      BY DEF WonOnce
    <2>1. Won(d, q) /\ d # c
      BY <1>4
    <2>2. q # r
      BY <1>3, <2>1
    <2> HIDE DEF r
    <2> QED BY <1>1, <1>4, <2>1, <2>2 DEF TellersInv, WonOnce
  <1>8. LiveUntold'
    BY <1>1, <1>3 DEF TellersInv, LiveUntold
  <1> QED BY <1>5, <1>6, <1>7, <1>8 DEF TellersInv

\* A start meets a run that nobody knows of.
LEMMA TellersPublish ==
  ASSUME Cardinality(Runs) <= MaxRows, IInv, TellersInv, NEW r \in Runs, Publish(r)
  PROVE  TellersInv'
  <1>1. TypeOK /\ Fresh /\ CancelOK
    BY DEF IInv
  <1>2. /\ row[r] = "absent" /\ row'[r] = "running"
        /\ \A q \in Runs \ {r} : row'[q] = row[q]
    <2>1. row' = [row EXCEPT ![r] = "running"]
      BY <1>1, PublishFits
    <2>2. row[r] = "absent"
      BY DEF Publish
    <2> QED BY <1>1, <2>1, <2>2 DEF TypeOK
  <1>3. /\ pc[r] = "new" /\ pc'[r] \in {"started", "unstarted"}
        /\ \A q \in Runs \ {r} : pc'[q] = pc[q]
        /\ UNCHANGED <<verdict, told, cpc, crun, cwon>>
    BY <1>1 DEF Publish, OwnerAt, OwnerGoes, TypeOK, cancel
  <1>4. \A c \in Cancellers : crun[c] # r
    BY <1>1, <1>3 DEF Fresh
  <1>5. \A q : \A c \in Cancellers : Won(c, q)' <=> Won(c, q)
    BY <1>3 DEF Won
  <1>6. OwnerTells'
    <2> SUFFICES ASSUME NEW q \in Runs, pc'[q] \in {"release", "tell"}
                 PROVE  /\ row'[q] \in Terminal /\ verdict'[q] = row'[q] /\ told'[q] = <<>>
                        /\ \A d \in Cancellers : ~Won(d, q)'
      BY DEF OwnerTells
    <2>1. q # r
      BY <1>3
    <2> QED BY <1>2, <1>3, <1>5, <2>1 DEF TellersInv, OwnerTells
  <1>7. CancelTells'
    BY <1>3 DEF TellersInv, CancelTells
  <1>8. WonOnce'
    <2>1. \A c \in Cancellers : ~Won(c, r)
      BY <1>4 DEF Won
    <2> QED BY <1>2, <1>3, <1>5, <2>1 DEF TellersInv, WonOnce
  <1>9. LiveUntold'
    BY <1>2, <1>3 DEF TellersInv, LiveUntold
  <1> QED BY <1>6, <1>7, <1>8, <1>9 DEF TellersInv

\* After a restart nobody is left to tell.
LEMMA TellersRestart ==
  ASSUME ~StoreMayFail, TypeOK, TellersInv, Restart
  PROVE  TellersInv'
  <1>1. \A r \in Runs : pc'[r] \in {"new", "done"} /\ told'[r] = told[r]
    BY DEF Restart
  <1>2. \A c \in Cancellers : cpc'[c] = "off" /\ ~cwon'[c]
    BY DEF Restart
  <1>3. \A r \in Runs : row'[r] # "running" /\ (row'[r] = "absent" => row[r] = "absent")
    BY DEF Restart
  <1>4. OwnerTells' /\ CancelTells' /\ WonOnce'
    BY <1>1, <1>2 DEF OwnerTells, CancelTells, WonOnce, Won
  <1>5. LiveUntold'
    BY <1>1, <1>3 DEF TellersInv, LiveUntold
  <1> QED BY <1>4, <1>5 DEF TellersInv

\* The goroutine of a run keeps the order of telling.
LEMMA TellersOwnerStep ==
  ASSUME ~StoreMayFail, IInv, RowsThere, TellersInv, NEW r \in Runs, OwnerStep(r)
  PROVE  TellersInv'
  <1>1. TypeOK /\ CancelOK
    BY DEF IInv
  <1>2. CASE FinishUnstarted(r) \/ FinishCutoff(r) \/ Finalize(r)
    <2>1. UNCHANGED <<cancel, told>>
      BY <1>2, FinishShape
    <2>2. ASSUME NEW p \in {"failing", "exit"}, pc' = [pc EXCEPT ![r] = p], UNCHANGED <<row, verdict>>
          PROVE  TellersInv'
      <3>1. \A q \in Runs : pc'[q] \in {"release", "tell"} => pc[q] \in {"release", "tell"}
        BY <1>1, <2>2 DEF TypeOK
      <3> QED BY <2>1, <2>2, <3>1, TellersFrame DEF cancel, TellersInv, CancelTells
    <2>3. ASSUME row[r] = "running", NEW v \in Terminal, NEW p \in {"release", "tell"},
                 pc' = [pc EXCEPT ![r] = p], row' = [row EXCEPT ![r] = v],
                 verdict' = [verdict EXCEPT ![r] = v]
          PROVE  TellersInv'
      BY <1>1, <2>1, <2>3, TellersOwnerWins
    <2> QED BY <1>2, <2>2, <2>3, FinishShape
  <1>3. CASE TellVerdict(r)
    BY <1>1, <1>3, TellersOwnerTold
  <1>4. CASE TellFailed(r) \/ TakeOwner(r) \/ HaltFailed(r)
    BY <1>4 DEF TellFailed, TakeOwner, HaltFailed, OwnerAt, RowsThere, FailPhases
  <1>5. CASE SpawnMonitor(r) \/ Release(r) \/ Exit(r) \/ Tick(r) \/ Look(r) \/ Load(r) \/ Progress(r)
    <2>1. UNCHANGED <<row, told, cancel, verdict>>
      BY <1>5 DEF SpawnMonitor, Release, Exit, Tick, Look, Load, Progress
    <2>2. \A q \in Runs : pc'[q] \in {"release", "tell"} => pc[q] \in {"release", "tell"}
      BY <1>1, <1>5 DEF SpawnMonitor, Release, Exit, Tick, Look, Load, Progress,
         OwnerAt, OwnerGoes, TypeOK
    <2> QED BY <2>1, <2>2, TellersFrame DEF cancel, TellersInv, CancelTells
  <1> QED BY <1>2, <1>3, <1>4, <1>5 DEF OwnerStep

\* To forget a victory that was none changes nothing.
LEMMA LostNothing ==
  ASSUME TypeOK, NEW c \in Cancellers, ~cwon[c], cwon' = [cwon EXCEPT ![c] = FALSE]
  PROVE  cwon' = cwon
  <1>1. cwon \in [Cancellers -> BOOLEAN]
    BY DEF TypeOK
  <1>2. cwon[c] = FALSE
    BY <1>1
  <1>3. [cwon EXCEPT ![c] = FALSE] = cwon
    BY <1>1, <1>2
  <1> QED BY <1>3

\* So does a cancellation.
LEMMA TellersCancelStep ==
  ASSUME ~StoreMayFail, IInv, RowsThere, TellersInv, NEW c \in Cancellers, CancelStep(c)
  PROVE  TellersInv'
  <1>1. TypeOK /\ CancelOK /\ Fresh
    BY DEF IInv
  <1>2. CASE CancelFinish(c)
    <2>0. cpc[c] = "finish" /\ crun[c] \in Runs /\ ~cwon[c] /\ UNCHANGED <<owner, told>>
      BY <1>1, <1>2 DEF CancelFinish, CancelOK, TellersInv, CancelTells
    <2>1. row[crun[c]] # "absent"
      BY <1>1, <2>0 DEF RowsThere, Fresh
    <2>2. CASE EndsRow(crun[c])
      <3>1. /\ row' = [row EXCEPT ![crun[c]] = "stopped"] /\ cwon' = [cwon EXCEPT ![c] = TRUE]
            /\ CancelGoes(c, AfterCancelWin(c))
        BY <1>2, <2>1, <2>2 DEF CancelFinish, FinishFails, EndsRow, Terminal
      <3>2. cpc' = [cpc EXCEPT ![c] = AfterCancelWin(c)] /\ UNCHANGED crun
        BY <3>1 DEF CancelGoes
      <3>3. AfterCancelWin(c) \in {"stop", "tell"}
        BY DEF AfterCancelWin
      <3> QED BY <1>1, <2>0, <2>2, <3>1, <3>2, <3>3, TellersCancelWins DEF EndsRow
    <2>3. CASE ~EndsRow(crun[c])
      <3>1. CancelGoesOrEnds(c, clive[c], "stop") /\ UNCHANGED row
        BY <1>2, <2>1, <2>3 DEF CancelFinish, FinishFails
      <3>2. cwon' = cwon
        <4>1. \/ UNCHANGED cwon
              \/ cwon' = [cwon EXCEPT ![c] = FALSE]
          BY <3>1, Zenon DEF CancelGoesOrEnds, CancelEnds
        <4> QED BY <1>1, <2>0, <4>1, LostNothing
      <3>3. \A d \in Cancellers \ {c} : cpc'[d] = cpc[d] /\ crun'[d] = crun[d]
        BY <1>1, <3>1 DEF CancelGoesOrEnds, CancelGoes, CancelEnds, TypeOK
      <3>4. cpc'[c] # "tell"
        BY <1>1, <3>1 DEF CancelGoesOrEnds, CancelGoes, CancelEnds, TypeOK
      <3>5. \A d \in Cancellers : cwon[d] => crun'[d] = crun[d] /\ cpc'[d] \in {"stop", "release", "tell"}
        BY <2>0, <3>3 DEF TellersInv, CancelTells
      <3>6. \A d \in Cancellers : cpc'[d] = "tell" => cwon[d]
        BY <3>3, <3>4 DEF TellersInv, CancelTells
      <3> QED BY <2>0, <3>1, <3>2, <3>5, <3>6, TellersFrame DEF owner
    <2> QED BY <2>2, <2>3
  <1>3. CASE CancelStop(c) \/ CancelRelease(c)
    <2>0. UNCHANGED <<row, owner, told>> /\ cpc[c] \in {"stop", "release"}
      BY <1>3 DEF CancelStop, CancelRelease
    <2>1. cwon' = cwon
      <3>1. \/ UNCHANGED cwon
            \/ ~cwon[c] /\ cwon' = [cwon EXCEPT ![c] = FALSE]
        BY <1>3, Zenon DEF CancelStop, CancelRelease, CancelGoesOrEnds, CancelEnds
      <3> QED BY <1>1, <3>1, LostNothing
    <2>2. \A d \in Cancellers \ {c} : cpc'[d] = cpc[d] /\ crun'[d] = crun[d]
      BY <1>1, <1>3 DEF CancelStop, CancelRelease, CancelGoesOrEnds, CancelGoes, CancelEnds, TypeOK
    <2>3. /\ cwon[c] => crun'[c] = crun[c] /\ cpc'[c] \in {"release", "tell"}
          /\ ~cwon[c] => cpc'[c] # "tell"
      BY <1>1, <1>3 DEF CancelStop, CancelRelease, CancelGoesOrEnds, CancelGoes, CancelEnds, TypeOK
    <2>4. \A d \in Cancellers : cwon[d] => crun'[d] = crun[d] /\ cpc'[d] \in {"stop", "release", "tell"}
      BY <2>2, <2>3 DEF TellersInv, CancelTells
    <2>5. \A d \in Cancellers : cpc'[d] = "tell" => cwon[d]
      BY <2>2, <2>3 DEF TellersInv, CancelTells
    <2> QED BY <2>0, <2>1, <2>4, <2>5, TellersFrame DEF owner
  <1>4. CASE CancelTell(c)
    BY <1>1, <1>4, TellersCancelTold
  <1>5. CASE CancelTakeOwner(c) \/ CancelHalt(c) \/ CancelTellFailed(c)
    BY <1>5 DEF CancelTakeOwner, CancelHalt, CancelTellFailed, RowsThere, FailPhases
  <1> QED BY <1>2, <1>3, <1>4, <1>5 DEF CancelStep

\* And so does every step.
LEMMA TellersStep ==
  ASSUME ~StoreMayFail, Cardinality(Runs) <= MaxRows
  PROVE  IInv /\ RowsThere /\ TellersInv /\ [Next]_vars => TellersInv'
  <1> SUFFICES ASSUME IInv, RowsThere, TellersInv, [Next]_vars PROVE TellersInv'
    OBVIOUS
  <1>1. TypeOK
    BY DEF IInv
  <1>2. CASE UNCHANGED <<row, told, cancel, owner>>
    BY <1>2, TellersFrame DEF cancel, owner, TellersInv, CancelTells
  <1>3. ASSUME NEW B \in SUBSET Runs, Reserve(B) PROVE TellersInv'
    BY <1>2, <1>3 DEF Reserve
  <1>4. ASSUME NEW r \in Runs, ReleaseReservation(r) \/ ChildDone(r) PROVE TellersInv'
    BY <1>2, <1>4 DEF ReleaseReservation, ChildDone
  <1>5. ASSUME NEW r \in Runs, Publish(r) PROVE TellersInv'
    BY <1>5, TellersPublish
  <1>6. ASSUME NEW r \in Runs, OwnerStep(r) PROVE TellersInv'
    BY <1>6, TellersOwnerStep
  <1>7. ASSUME NEW c \in Cancellers, CancelStep(c) PROVE TellersInv'
    BY <1>7, TellersCancelStep
  <1>8. ASSUME NEW c \in Cancellers, NEW r \in Runs, CancelBegin(c, r) PROVE TellersInv'
    <2>1. cpc[c] = "off" /\ UNCHANGED <<row, owner, told, cwon>>
      BY <1>8 DEF CancelBegin, cancel
    <2>2. \/ UNCHANGED <<cpc, crun>>
          \/ cpc' = [cpc EXCEPT ![c] = "finish"] /\ crun' = [crun EXCEPT ![c] = r]
      BY <1>8 DEF CancelBegin, cancel
    <2>3. cpc'[c] # "tell" /\ ~cwon[c] /\ \A d \in Cancellers \ {c} : cpc'[d] = cpc[d] /\ crun'[d] = crun[d]
      BY <1>1, <2>1, <2>2 DEF TypeOK, TellersInv, CancelTells
    <2>4. \A d \in Cancellers : cwon[d] => crun'[d] = crun[d] /\ cpc'[d] \in {"stop", "release", "tell"}
      BY <2>3 DEF TellersInv, CancelTells
    <2>5. \A d \in Cancellers : cpc'[d] = "tell" => cwon[d]
      BY <2>3 DEF TellersInv, CancelTells
    <2> QED BY <2>1, <2>4, <2>5, TellersFrame DEF owner
  <1>9. CASE BeginShutdown \/ ShutdownStop \/ UNCHANGED vars
    BY <1>2, <1>9 DEF BeginShutdown, ShutdownStop, vars
  <1>10. CASE Restart
    BY <1>1, <1>10, TellersRestart
  <1> QED BY <1>3, <1>4, <1>5, <1>6, <1>7, <1>8, <1>9, <1>10 DEF Next

\* Each step is a step of the contract, or none, for every run.
LEMMA ContractStep ==
  ASSUME ~StoreMayFail, Cardinality(Runs) <= MaxRows
  PROVE  IInv /\ IInv' /\ RowsThere /\ TellersInv /\ [Next]_vars => [Contract!Next]_<<row, told>>
  <1> SUFFICES ASSUME IInv, IInv', RowsThere, TellersInv, [Next]_vars
               PROVE  [Contract!Next]_<<row, told>>
    OBVIOUS
  <1>1. TypeOK /\ Fresh /\ CancelOK /\ TypeOK'
    BY DEF IInv
  <1>2. DOMAIN row' = Runs /\ DOMAIN told' = Runs
    BY <1>1 DEF TypeOK
  <1> DEFINE Moves(q) == Contract!Publish(q) \/ Contract!End(q) \/ Contract!Tell(q) \/ Contract!Same(q)
  <1> SUFFICES \/ UNCHANGED <<row, told>>
               \/ \A q \in Runs : Moves(q)
    BY <1>2 DEF Contract!Next
  <1> HIDE DEF Moves
  <1>3. ASSUME NEW q, row'[q] = row[q], told'[q] = told[q] PROVE Moves(q)
    BY <1>3 DEF Moves, Contract!Same
  <1>4. ASSUME NEW q, row[q] = "absent", row'[q] = "running", told'[q] = told[q] PROVE Moves(q)
    BY <1>4 DEF Moves, Contract!Publish
  <1>5. ASSUME NEW q, row[q] = "running", row'[q] \in Terminal, told'[q] = told[q] PROVE Moves(q)
    BY <1>5 DEF Moves, Contract!End, Contract!Verdicts, Terminal
  <1>6. ASSUME NEW q, row[q] \in Terminal, told[q] = <<>>, told'[q] = <<row[q]>>, row'[q] = row[q]
        PROVE  Moves(q)
    BY <1>6 DEF Moves, Contract!Tell, Contract!Verdicts, Terminal
  <1>7. ASSUME NEW r \in Runs, Publish(r) PROVE \A q \in Runs : Moves(q)
    <2>1. row' = [row EXCEPT ![r] = "running"] /\ row[r] = "absent" /\ UNCHANGED told
      BY <1>1, <1>7, PublishFits DEF Publish
    <2> QED BY <1>1, <1>3, <1>4, <2>1 DEF TypeOK
  <1>8. ASSUME NEW r \in Runs, NEW v \in Terminal, row[r] = "running",
               row' = [row EXCEPT ![r] = v], UNCHANGED told
        PROVE  \A q \in Runs : Moves(q)
    BY <1>1, <1>3, <1>5, <1>8 DEF TypeOK
  <1>9. ASSUME NEW r \in Runs, row[r] \in Terminal, told[r] = <<>>, Tell(r, row[r]), UNCHANGED row
        PROVE  \A q \in Runs : Moves(q)
    <2>1. told'[r] = <<row[r]>> /\ \A q \in Runs \ {r} : told'[q] = told[q]
      <3>1. told'[r] = Append(told[r], row[r]) /\ \A q \in Runs \ {r} : told'[q] = told[q]
        BY <1>1, <1>9 DEF Tell, TypeOK
      <3> QED BY <1>9, <3>1
    <2> QED BY <1>3, <1>6, <1>9, <2>1
  <1>10. ASSUME NEW r \in Runs, OwnerStep(r)
         PROVE  UNCHANGED <<row, told>> \/ \A q \in Runs : Moves(q)
    <2>1. CASE FinishUnstarted(r) \/ FinishCutoff(r) \/ Finalize(r)
      <3>1. UNCHANGED told
        BY <2>1, FinishShape
      <3>2. \/ UNCHANGED row
            \/ row[r] = "running" /\ \E v \in Terminal : row' = [row EXCEPT ![r] = v]
        BY <2>1, FinishShape
      <3> QED BY <1>8, <3>1, <3>2
    <2>2. CASE TellVerdict(r)
      <3>1. Tell(r, verdict[r]) /\ UNCHANGED row /\ pc[r] = "tell"
        BY <2>2 DEF TellVerdict, OwnerAt
      <3>2. row[r] \in Terminal /\ verdict[r] = row[r] /\ told[r] = <<>>
        BY <3>1 DEF TellersInv, OwnerTells
      <3> QED BY <1>9, <3>1, <3>2
    <2>3. CASE TellFailed(r) \/ TakeOwner(r) \/ HaltFailed(r)
      BY <2>3 DEF TellFailed, TakeOwner, HaltFailed, OwnerAt, RowsThere, FailPhases
    <2>4. CASE SpawnMonitor(r) \/ Release(r) \/ Exit(r) \/ Tick(r) \/ Look(r) \/ Load(r) \/ Progress(r)
      BY <2>4 DEF SpawnMonitor, Release, Exit, Tick, Look, Load, Progress
    <2> QED BY <1>10, <2>1, <2>2, <2>3, <2>4 DEF OwnerStep
  <1>11. ASSUME NEW c \in Cancellers, CancelStep(c)
         PROVE  UNCHANGED <<row, told>> \/ \A q \in Runs : Moves(q)
    <2>1. CASE CancelFinish(c)
      <3>1. crun[c] \in Runs /\ UNCHANGED told
        BY <1>1, <2>1 DEF CancelFinish, CancelOK
      <3>2. \/ UNCHANGED row
            \/ row[crun[c]] = "running" /\ row' = [row EXCEPT ![crun[c]] = "stopped"]
        BY <2>1 DEF CancelFinish, EndsRow
      <3>3. "stopped" \in Terminal
        BY DEF Terminal
      <3> QED BY <1>8, <3>1, <3>2, <3>3
    <2>2. CASE CancelTell(c)
      <3>1. Tell(crun[c], "stopped") /\ UNCHANGED row /\ crun[c] \in Runs /\ cpc[c] = "tell"
        BY <1>1, <2>2 DEF CancelTell, CancelOK
      <3>2. row[crun[c]] = "stopped" /\ told[crun[c]] = <<>>
        BY <3>1 DEF TellersInv, CancelTells, WonOnce, Won
      <3>3. row[crun[c]] \in Terminal /\ Tell(crun[c], row[crun[c]])
        BY <3>1, <3>2 DEF Terminal
      <3> QED BY <1>9, <3>1, <3>2, <3>3
    <2>3. CASE CancelStop(c) \/ CancelRelease(c)
      BY <2>3 DEF CancelStop, CancelRelease
    <2>4. CASE CancelTakeOwner(c) \/ CancelHalt(c) \/ CancelTellFailed(c)
      BY <2>4 DEF CancelTakeOwner, CancelHalt, CancelTellFailed, RowsThere, FailPhases
    <2> QED BY <1>11, <2>1, <2>2, <2>3, <2>4 DEF CancelStep
  <1>12. CASE Restart
    <2>1. UNCHANGED told /\ row' = [q \in Runs |-> IF row[q] = "running" THEN "stopped" ELSE row[q]]
      BY <1>12 DEF Restart
    <2>2. "stopped" \in Terminal
      BY DEF Terminal
    <2> QED BY <1>3, <1>5, <2>1, <2>2
  <1>13. ASSUME NEW B \in SUBSET Runs, Reserve(B) PROVE UNCHANGED <<row, told>>
    BY <1>13 DEF Reserve
  <1>14. ASSUME NEW r \in Runs, ReleaseReservation(r) \/ ChildDone(r) PROVE UNCHANGED <<row, told>>
    BY <1>14 DEF ReleaseReservation, ChildDone
  <1>15. ASSUME NEW c \in Cancellers, NEW r \in Runs, CancelBegin(c, r) PROVE UNCHANGED <<row, told>>
    BY <1>15 DEF CancelBegin
  <1>16. CASE BeginShutdown \/ ShutdownStop \/ UNCHANGED vars
    BY <1>16 DEF BeginShutdown, ShutdownStop, vars
  <1> QED BY <1>7, <1>10, <1>11, <1>12, <1>13, <1>14, <1>15, <1>16 DEF Next

\* While the run file works and has room for the runs, delegation implements
\* its contract: a run is published once, ends once with a verdict that stays,
\* and its end is told at most once, afterwards, and as the file has it.
THEOREM ContractKept ==
  ASSUME ~StoreMayFail, Cardinality(Runs) <= MaxRows
  PROVE  Spec => ContractHolds
  <1>1. Init => Contract!Init
    BY DEF Init, Contract!Init
  <1>2. Init => RowsThere /\ TellersInv
    BY DEF Init, RowsThere, TellersInv, OwnerTells, CancelTells, WonOnce, Won, LiveUntold, FailPhases
  <1>3. IInv /\ RowsThere /\ [Next]_vars => RowsThere'
    BY RowsThereStep
  <1>4. IInv /\ RowsThere /\ TellersInv /\ [Next]_vars => TellersInv'
    BY TellersStep
  <1>5. IInv /\ IInv' /\ RowsThere /\ TellersInv /\ [Next]_vars => [Contract!Next]_<<row, told>>
    BY ContractStep
  <1> QED BY <1>1, <1>2, <1>3, <1>4, <1>5, Inductive, PTL DEF Spec, ContractHolds, Contract!Spec

-----------------------------------------------------------------------------
(* The fan-out.  Its steps are steps of Delegation, so what was proved of     *)
(* single runs holds of its members.                                         *)

BatchVarsOK ==
    /\ bpc \in {"new", "starting", "spawning", "failing", "unwind", "cleanup",
                "returned", "refused", "gone"}
    /\ at \in 1..Len(Batch) + 1
    /\ begun \subseteq Members
    /\ wpc \in {"off", "wait", "sawRunning", "ready", "closed", "unread", "lost",
                "done", "gone"}
    /\ seen \in 1..Len(Batch)
    /\ caller \in {"turn", "idle", "halted"}
    /\ synth \in {"none", "queued", "full", "stopped", "idle"}
    /\ bpc \in {"spawning", "failing"} => at <= Len(Batch)

LEMMA BatchFacts ==
  /\ Len(Batch) \in Nat /\ Len(Batch) >= 2
  /\ \A i \in 1..Len(Batch) : Batch[i] \in Runs /\ Batch[i] \in Members
  /\ Members \subseteq Runs
  /\ \A i, j \in 1..Len(Batch) : Batch[i] = Batch[j] => i = j
  /\ Unwinder \in Cancellers
  BY BatchAssumption DEF Members

LEMMA BatchVarsInit == BatchInit => BatchVarsOK
  BY BatchFacts DEF BatchInit, BatchVarsOK

LEMMA BatchVarsStep == BatchVarsOK /\ [BatchNext]_allVars => BatchVarsOK'
  <1> SUFFICES ASSUME BatchVarsOK, [BatchNext]_allVars PROVE BatchVarsOK'
    OBVIOUS
  <1> USE BatchFacts DEF BatchVarsOK, starter, waiter, BatchGoes, WaiterGoes
  <1>1. CASE ReserveBatch
    BY <1>1 DEF ReserveBatch
  <1>2. CASE StartMember
    BY <1>2 DEF StartMember
  <1>3. CASE SpawnMember
    BY <1>3 DEF SpawnMember
  <1>4. CASE RefuseMember \/ MemberFailed
    BY <1>4 DEF RefuseMember, MemberFailed, Unwind
  <1>5. CASE UnwindMember \/ Unwound
    BY <1>5 DEF UnwindMember, Unwound
  <1>6. CASE Schedule
    BY <1>6 DEF Schedule
  <1>7. CASE CleanupMember \/ Return
    BY <1>7 DEF CleanupMember, Return
  <1>8. CASE ReadMember
    <2>1. UNCHANGED <<bpc, at, begun, caller, synth>>
      BY <1>8 DEF ReadMember
    <2>2. wpc' \in {"closed", "unread", "ready", "wait", "sawRunning"} /\ seen' \in 1..Len(Batch)
      BY <1>8 DEF ReadMember, LastMember
    <2> QED BY <2>1, <2>2
  <1>9. CASE AskOwner \/ QueueSynthesis
    BY <1>9 DEF AskOwner, QueueSynthesis
  <1>10. CASE CallerStep
    BY <1>10 DEF CallerStep, CallerEnds, CallerTurns, CallerStops
  <1>11. CASE RunStep \/ UNCHANGED allVars
    BY <1>11 DEF RunStep, bvars, allVars
  <1>12. CASE BatchRestart
    BY <1>12 DEF BatchRestart
  <1> QED
    BY <1>1, <1>2, <1>3, <1>4, <1>5, <1>6, <1>7, <1>8, <1>9, <1>10, <1>11, <1>12
    DEF BatchNext, StarterStep, WaiterStep

\* Next without the reservation of a fan-out.
OtherStep ==
    \/ \E r \in Runs : Publish(r) \/ OwnerStep(r) \/ ReleaseReservation(r) \/ ChildDone(r)
    \/ \E c \in Cancellers : CancelStep(c) \/ \E r \in Runs : CancelBegin(c, r)
    \/ BeginShutdown \/ ShutdownStop \/ Restart
    \/ UNCHANGED vars

\* A step of the fan-out reserves the members or is another step of Delegation.
LEMMA BatchStep ==
  ASSUME BatchVarsOK, [BatchNext]_allVars
  PROVE  OtherStep \/ (bpc = "new" /\ bpc' = "starting" /\ Reserve(Members))
  <1> USE BatchFacts DEF OtherStep
  <1>1. CASE ReserveBatch
    BY <1>1 DEF ReserveBatch, BatchGoes
  <1>2. CASE StartMember
    BY <1>2 DEF StartMember, BatchVarsOK
  <1>3. CASE SpawnMember
    <2>1. Batch[at] \in Runs /\ SpawnMonitor(Batch[at])
      BY <1>3 DEF SpawnMember, BatchVarsOK
    <2> QED BY <2>1 DEF OwnerStep
  <1>4. CASE RefuseMember
    BY <1>4 DEF RefuseMember, BatchVarsOK
  <1>5. CASE UnwindMember
    BY <1>5 DEF UnwindMember, BatchVarsOK
  <1>6. CASE CleanupMember
    BY <1>6 DEF CleanupMember, Cleanup, BatchVarsOK
  <1>7. CASE MemberFailed \/ Unwound \/ Schedule \/ Return
    BY <1>7 DEF MemberFailed, Unwound, Schedule, Return
  <1>8. CASE WaiterStep \/ CallerStep
    BY <1>8 DEF WaiterStep, ReadMember, AskOwner, QueueSynthesis, CallerStep, CallerEnds,
       CallerTurns, CallerStops
  <1>9. CASE RunStep
    BY <1>9 DEF RunStep, OwnerStep
  <1>10. CASE BatchRestart \/ UNCHANGED allVars
    BY <1>10 DEF BatchRestart, allVars
  <1> QED
    BY <1>1, <1>2, <1>3, <1>4, <1>5, <1>6, <1>7, <1>8, <1>9, <1>10 DEF BatchNext, StarterStep

LEMMA BatchIsDelegation ==
  ASSUME BatchVarsOK, [BatchNext]_allVars
  PROVE  [Next]_vars
  <1>1. Members \in SUBSET Runs
    BY BatchFacts
  <1> QED BY <1>1, BatchStep DEF OtherStep, Next

THEOREM BatchVarsCorrect == BatchSpec => []BatchVarsOK
  BY BatchVarsInit, BatchVarsStep, PTL DEF BatchSpec

\* A fan-out does nothing to the runs that Delegation does not do: every
\* behaviour of the composition is one of Delegation.
THEOREM FanOutIsDelegation == BatchSpec => Spec
  <1>1. BatchInit => Init
    BY DEF BatchInit
  <1>2. BatchVarsOK /\ [BatchNext]_allVars => [Next]_vars
    BY BatchIsDelegation
  <1> QED BY <1>1, <1>2, BatchVarsCorrect, PTL DEF BatchSpec, Spec

\* The runs, the two goroutines of a fan-out and the chat keep their types.
THEOREM BatchTypeCorrect == BatchSpec => []BatchTypeOK
  <1>1. TypeOK /\ BatchVarsOK => BatchTypeOK
    BY DEF BatchVarsOK, BatchTypeOK
  <1> QED BY <1>1, BatchVarsCorrect, FanOutIsDelegation, TypeCorrect, PTL

\* A step of the goroutine of a run moves that run only, and not to its start.
LEMMA OwnerPC ==
  ASSUME TypeOK, NEW q \in Runs, OwnerStep(q)
  PROVE  /\ pc[q] # "new"
         /\ \E p \in OwnerPhases \ {"new"} : pc' = [pc EXCEPT ![q] = p]
  <1> USE DEF OwnerAt, OwnerGoes, OwnerPhases
  <1>1. CASE FinishUnstarted(q) \/ FinishCutoff(q) \/ Finalize(q)
    <2>1. pc[q] \in {"unstarted", "cutoff", "finish"}
      BY <1>1, FinishShape
    <2>2. \E p \in {"failing", "exit", "release", "tell"} : pc' = [pc EXCEPT ![q] = p]
      BY <1>1, FinishShape
    <2> QED BY <2>1, <2>2
  <1>2. CASE TellVerdict(q) \/ TellFailed(q) \/ Tick(q) \/ Look(q) \/ Progress(q)
    <2>1. pc[q] # "new"
      BY <1>2, OwnerMoves
    <2>2. \E p \in {"exit", "alive", "sawBusy", "sawIdle", "failing", "looping"} :
             pc' = [pc EXCEPT ![q] = p]
      BY <1>2, OwnerMoves
    <2> QED BY <2>1, <2>2
  <1>3. CASE SpawnMonitor(q) \/ Release(q) \/ Exit(q) \/ TakeOwner(q) \/ HaltFailed(q)
    BY <1>3 DEF SpawnMonitor, Release, Exit, TakeOwner, HaltFailed
  <1>4. CASE Load(q)
    BY <1>4 DEF Load
  <1> QED BY <1>1, <1>2, <1>3, <1>4 DEF OwnerStep

\* Cancellations and what else there is leave the goroutines alone.
LEMMA OthersPC ==
  ASSUME TypeOK, NEW r \in Runs, OtherStep
  PROVE  \/ UNCHANGED pc
         \/ \E q \in Runs : Publish(q) \/ OwnerStep(q)
         \/ Restart
  <1>1. ASSUME NEW c \in Cancellers, CancelStep(c) PROVE UNCHANGED pc
    BY <1>1 DEF CancelStep, CancelFinish, CancelStop, CancelRelease, CancelTell, CancelTakeOwner,
       CancelHalt, CancelTellFailed, owner
  <1>2. ASSUME NEW c \in Cancellers, NEW q \in Runs, CancelBegin(c, q) PROVE UNCHANGED pc
    BY <1>2 DEF CancelBegin, owner
  <1>3. ASSUME NEW q \in Runs, ReleaseReservation(q) \/ ChildDone(q) PROVE UNCHANGED pc
    BY <1>3 DEF ReleaseReservation, ChildDone, owner
  <1>4. CASE BeginShutdown \/ ShutdownStop \/ UNCHANGED vars
    BY <1>4 DEF BeginShutdown, ShutdownStop, vars, owner
  <1> QED BY <1>1, <1>2, <1>3, <1>4 DEF OtherStep

\* A slot is reserved by a fan-out only.
LEMMA NoNewReserved ==
  ASSUME TypeOK, OtherStep, NEW r \in Runs, registry[r] # "reserved"
  PROVE  registry'[r] # "reserved"
  <1> USE DEF TypeOK
  <1>1. CASE registry' = registry
    BY <1>1
  <1>2. ASSUME NEW q \in Runs, Publish(q) PROVE registry'[r] # "reserved"
    BY <1>2 DEF Publish
  <1>3. ASSUME NEW q \in Runs, OwnerStep(q) PROVE registry'[r] # "reserved"
    <2>1. CASE FinishUnstarted(q) \/ FinishCutoff(q) \/ Finalize(q)
      BY <1>1, <2>1, FinishShape
    <2>2. CASE TellVerdict(q) \/ TellFailed(q) \/ Tick(q) \/ Look(q) \/ Progress(q)
      BY <1>1, <2>2, OwnerMoves
    <2>3. CASE SpawnMonitor(q) \/ HaltFailed(q) \/ Load(q)
      BY <1>1, <2>3 DEF SpawnMonitor, HaltFailed, Load
    <2>4. CASE Release(q) \/ Exit(q) \/ TakeOwner(q)
      BY <1>1, <2>4 DEF Release, Exit, TakeOwner
    <2> QED BY <1>3, <2>1, <2>2, <2>3, <2>4 DEF OwnerStep
  <1>4. ASSUME NEW c \in Cancellers, CancelStep(c) PROVE registry'[r] # "reserved"
    <2>1. CASE CancelRelease(c) \/ CancelTakeOwner(c)
      BY <1>1, <2>1 DEF CancelRelease, CancelTakeOwner
    <2>2. CASE ~(CancelRelease(c) \/ CancelTakeOwner(c))
      BY <1>1, <1>4, <2>2 DEF CancelStep, CancelFinish, CancelStop, CancelTell, CancelHalt, CancelTellFailed
    <2> QED BY <2>1, <2>2
  <1>5. ASSUME NEW q \in Runs, ReleaseReservation(q) \/ ChildDone(q) PROVE registry'[r] # "reserved"
    BY <1>1, <1>5 DEF ReleaseReservation, ChildDone
  <1>6. ASSUME NEW c \in Cancellers, NEW q \in Runs, CancelBegin(c, q) PROVE registry'[r] # "reserved"
    BY <1>1, <1>6 DEF CancelBegin
  <1>7. CASE BeginShutdown \/ ShutdownStop \/ UNCHANGED vars
    BY <1>1, <1>7 DEF BeginShutdown, ShutdownStop, vars
  <1>8. CASE Restart
    BY <1>8 DEF Restart
  <1> QED BY <1>2, <1>3, <1>4, <1>5, <1>6, <1>7, <1>8 DEF OtherStep

-----------------------------------------------------------------------------
(* No reservation is left behind: the deferred release goes through all      *)
(* members before the call returns, and nothing reserves them again.         *)

SlotsInv ==
    /\ bpc = "cleanup" =>
          \A i \in 1..Len(Batch) : i < at => registry[Batch[i]] # "reserved"
    /\ bpc \in {"new", "refused", "returned", "gone"} =>
          \A r \in Members : registry[r] # "reserved"

LEMMA SlotsStep == TypeOK /\ BatchVarsOK /\ SlotsInv /\ [BatchNext]_allVars => SlotsInv'
  <1> SUFFICES ASSUME TypeOK, BatchVarsOK, SlotsInv, [BatchNext]_allVars PROVE SlotsInv'
    OBVIOUS
  <1>0. /\ Members \subseteq Runs /\ \A i \in 1..Len(Batch) : Batch[i] \in Members
        /\ Len(Batch) \in Nat /\ at \in 1..Len(Batch) + 1
        /\ \A r \in Members : \E i \in 1..Len(Batch) : r = Batch[i]
    BY BatchFacts DEF BatchVarsOK, Members
  <1>1. CASE bpc' = "starting"
    BY <1>1 DEF SlotsInv
  <1>2. CASE OtherStep
    <2>1. \A r \in Members : registry[r] # "reserved" => registry'[r] # "reserved"
      BY <1>0, <1>2, NoNewReserved
    <2>2. CASE UNCHANGED <<bpc, at>>
      BY <1>0, <2>1, <2>2 DEF SlotsInv
    <2>3. CASE bpc' = "cleanup" /\ at' = 1
      BY <2>3 DEF SlotsInv
    <2>4. CASE bpc' \in {"starting", "spawning", "failing", "unwind"}
      BY <2>4 DEF SlotsInv
    <2>5. CASE bpc = "new" /\ bpc' = "refused"
      BY <2>1, <2>5 DEF SlotsInv
    <2>6. CASE CleanupMember
      <3>1. registry'[Batch[at]] # "reserved"
        <4>1. CASE Releasable(Batch[at])
          BY <1>0, <2>6, <4>1 DEF CleanupMember, Cleanup, ReleaseReservation, TypeOK
        <4>2. CASE ~Releasable(Batch[at])
          <5>1. registry[Batch[at]] # "reserved" /\ Batch[at] \in Members
            BY <1>0, <2>6, <4>2 DEF CleanupMember, Releasable
          <5> QED BY <2>1, <5>1
        <4> QED BY <4>1, <4>2
      <3>2. bpc = "cleanup" /\ bpc' = "cleanup" /\ at' = at + 1
        BY <2>6 DEF CleanupMember
      <3>3. ASSUME NEW i \in 1..Len(Batch), i < at' PROVE registry'[Batch[i]] # "reserved"
        <4>1. i < at \/ i = at
          BY <1>0, <3>2, <3>3
        <4>2. i < at => registry[Batch[i]] # "reserved"
          BY <3>2 DEF SlotsInv
        <4> QED BY <1>0, <2>1, <3>1, <4>1, <4>2
      <3> QED BY <3>2, <3>3 DEF SlotsInv
    <2>7. CASE Return
      <3>1. bpc = "cleanup" /\ at > Len(Batch)
        BY <2>7 DEF Return
      <3>2. \A i \in 1..Len(Batch) : registry[Batch[i]] # "reserved"
        BY <1>0, <3>1 DEF SlotsInv
      <3>3. \A r \in Members : registry[r] # "reserved"
        BY <1>0, <3>2
      <3>4. bpc' # "cleanup"
        BY <2>7 DEF Return, BatchGoes
      <3> QED BY <2>1, <3>3, <3>4 DEF SlotsInv
    <2>8. CASE BatchRestart
      <3>1. \A r \in Members : registry'[r] # "reserved"
        BY <1>0, <2>8 DEF BatchRestart, Restart
      <3>2. bpc' # "cleanup"
        BY <2>8 DEF BatchRestart
      <3> QED BY <3>1, <3>2 DEF SlotsInv
    <2>9. CASE ReserveBatch \/ StartMember \/ SpawnMember \/ RefuseMember \/ MemberFailed
               \/ UnwindMember \/ Unwound \/ Schedule
      BY <2>2, <2>3, <2>4, <2>5, <2>9
      DEF ReserveBatch, StartMember, SpawnMember, RefuseMember, MemberFailed, UnwindMember,
          Unwound, Schedule, Unwind, BatchGoes
    <2>10. CASE WaiterStep \/ CallerStep \/ RunStep \/ UNCHANGED allVars
      BY <2>2, <2>10 DEF WaiterStep, ReadMember, AskOwner, QueueSynthesis, CallerStep, CallerEnds,
         CallerTurns, CallerStops, RunStep, allVars, bvars, starter
    <2> QED BY <2>6, <2>7, <2>8, <2>9, <2>10 DEF BatchNext, StarterStep
  <1> QED BY <1>1, <1>2, BatchStep

\* A fan-out that has returned holds no slot it does not use, whatever was
\* refused, withdrawn or cancelled on its way, and whatever the file did.
THEOREM NoSlotIsLeft == BatchSpec => []NoSlotLeft
  <1>1. BatchInit => SlotsInv
    BY BatchFacts DEF BatchInit, Init, SlotsInv
  <1>2. TypeOK /\ BatchVarsOK /\ SlotsInv /\ [BatchNext]_allVars => SlotsInv'
    BY SlotsStep
  <1>3. SlotsInv => NoSlotLeft
    BY DEF SlotsInv, NoSlotLeft
  <1> QED
    BY <1>1, <1>2, <1>3, BatchVarsCorrect, FanOutIsDelegation, TypeCorrect, PTL DEF BatchSpec

-----------------------------------------------------------------------------
(* The members are started in order, each once.                              *)

Ending == {"unstarted", "cutoff"} \union Past

\* What the goroutine of the tool call knows of its members.
StartInv ==
    /\ bpc = "new" => at = 1 /\ begun = {} /\ \A r \in Members : pc[r] = "new"
    /\ bpc \in {"starting", "spawning", "failing"} =>
          /\ begun = {Batch[i] : i \in 1..at - 1}
          /\ \A i \in 1..Len(Batch) : /\ i < at => pc[Batch[i]] # "new"
                                      /\ i > at => pc[Batch[i]] = "new"
    /\ bpc = "starting" /\ at <= Len(Batch) => pc[Batch[at]] = "new"
    /\ bpc = "spawning" => pc[Batch[at]] = "started"
    /\ bpc = "failing" => pc[Batch[at]] \in Ending
    /\ bpc = "unwind" => \A r \in begun : pc[r] # "new"
    /\ bpc \in {"new", "starting", "spawning", "failing", "unwind"} => wpc = "off" /\ seen = 1
    /\ wpc \notin {"off", "gone"} => \A r \in Members : pc[r] # "new"

\* A goroutine that has started does not start again, and one that ends its
\* run does nothing else.
LEMMA PcKeeps ==
  ASSUME TypeOK, OtherStep, NEW r \in Runs
  PROVE  /\ pc[r] # "new" => pc'[r] # "new"
         /\ pc[r] \in Ending => pc'[r] \in Ending
  <1>1. CASE UNCHANGED pc
    BY <1>1
  <1>2. ASSUME NEW q \in Runs, Publish(q), pc[r] # "new" PROVE pc'[r] = pc[r]
    BY <1>2 DEF Publish, OwnerAt, OwnerGoes, TypeOK
  <1>3. ASSUME NEW q \in Runs, OwnerStep(q), q # r PROVE pc'[r] = pc[r]
    BY <1>3, OwnerPC DEF TypeOK
  <1>4. CASE OwnerStep(r)
    <2>1. pc'[r] # "new"
      BY <1>4, OwnerPC DEF TypeOK
    <2>2. ASSUME pc[r] \in Ending PROVE pc'[r] \in Ending
      <3> USE DEF Ending, Past, OwnerAt, OwnerGoes, TypeOK
      <3>1. CASE FinishUnstarted(r) \/ FinishCutoff(r) \/ Finalize(r)
        <4>1. \E p \in {"failing", "exit", "release", "tell"} : pc' = [pc EXCEPT ![r] = p]
          BY <3>1, FinishShape
        <4> QED BY <4>1
      <3>2. CASE TellVerdict(r) \/ TellFailed(r) \/ Release(r) \/ Exit(r) \/ TakeOwner(r) \/ HaltFailed(r)
        BY <3>2 DEF TellVerdict, TellFailed, Release, Exit, TakeOwner, HaltFailed
      <3>3. CASE SpawnMonitor(r) \/ Tick(r) \/ Look(r) \/ Load(r) \/ Progress(r)
        BY <2>2, <3>3 DEF SpawnMonitor, Tick, Look, Load, Progress
      <3> QED BY <1>4, <3>1, <3>2, <3>3 DEF OwnerStep
    <2> QED BY <2>1, <2>2
  <1>5. CASE Restart
    BY <1>5 DEF Restart, Ending, Past
  <1>6. "new" \notin Ending
    BY DEF Ending, Past
  <1> QED BY <1>1, <1>2, <1>3, <1>4, <1>5, <1>6, OthersPC

\* Only the fan-out starts its members.
LEMMA MemberNew ==
  ASSUME TypeOK, BatchVarsOK, [BatchNext]_allVars, NEW r \in Members, pc[r] = "new",
         ~(StartMember /\ r = Batch[at])
  PROVE  pc'[r] = "new"
  <1>0. r \in Runs /\ Members \subseteq Runs
    BY BatchFacts
  <1>1. CASE UNCHANGED pc
    BY <1>1
  <1>2. ASSUME NEW q \in Runs \ {r}, Publish(q) PROVE pc'[r] = pc[r]
    BY <1>0, <1>2 DEF Publish, OwnerGoes, TypeOK
  <1>3. ASSUME NEW q \in Runs, OwnerStep(q) PROVE pc'[r] = pc[r]
    BY <1>0, <1>3, OwnerPC DEF TypeOK
  <1>4. CASE StartMember
    <2>1. Batch[at] \in Runs /\ Publish(Batch[at]) /\ Batch[at] # r
      BY <1>4, BatchFacts DEF StartMember, BatchVarsOK
    <2> QED BY <1>2, <2>1
  <1>5. CASE SpawnMember
    <2>1. Batch[at] \in Runs /\ OwnerStep(Batch[at])
      BY <1>5, BatchFacts DEF SpawnMember, BatchVarsOK, OwnerStep
    <2> QED BY <1>3, <2>1
  <1>6. CASE ReserveBatch \/ RefuseMember \/ MemberFailed \/ UnwindMember \/ Unwound \/ Schedule
             \/ CleanupMember \/ Return
    BY <1>1, <1>6 DEF ReserveBatch, Reserve, RefuseMember, ReleaseReservation, MemberFailed,
       UnwindMember, CancelBegin, Unwound, Schedule, CleanupMember, Cleanup, Return, vars, owner
  <1>7. CASE WaiterStep \/ CallerStep
    BY <1>1, <1>7 DEF WaiterStep, ReadMember, AskOwner, QueueSynthesis, CallerStep, CallerEnds,
       CallerTurns, CallerStops, vars, owner
  <1>8. CASE RunStep
    <2>1. \/ \E q \in Runs \ Members : Publish(q) \/ SpawnMonitor(q)
          \/ \E q \in Runs : OwnerStep(q)
          \/ OtherStep /\ UNCHANGED pc
      <3>1. ASSUME NEW q \in Runs, ChildDone(q) PROVE OtherStep /\ UNCHANGED pc
        BY <3>1 DEF OtherStep, ChildDone, owner
      <3>2. ASSUME NEW c \in Cancellers, NEW q \in Runs, CancelBegin(c, q) PROVE OtherStep /\ UNCHANGED pc
        BY <3>2 DEF OtherStep, CancelBegin, owner
      <3>3. ASSUME NEW c \in Cancellers, CancelStep(c) PROVE OtherStep /\ UNCHANGED pc
        BY <3>3 DEF OtherStep, CancelStep, CancelFinish, CancelStop, CancelRelease, CancelTell,
           CancelTakeOwner, CancelHalt, CancelTellFailed, owner
      <3>4. CASE BeginShutdown \/ ShutdownStop
        BY <3>4 DEF OtherStep, BeginShutdown, ShutdownStop, owner
      <3> QED BY <1>8, <3>1, <3>2, <3>3, <3>4 DEF RunStep
    <2>2. ASSUME NEW q \in Runs \ Members, SpawnMonitor(q) PROVE OwnerStep(q)
      BY <2>2 DEF OwnerStep
    <2> QED BY <1>1, <1>2, <1>3, <2>1, <2>2
  <1>9. CASE BatchRestart
    BY <1>0, <1>9 DEF BatchRestart, Restart
  <1>10. CASE UNCHANGED allVars
    BY <1>1, <1>10 DEF allVars, vars, owner
  <1> QED
    BY <1>4, <1>5, <1>6, <1>7, <1>8, <1>9, <1>10 DEF BatchNext, StarterStep

\* Nobody else spawns the monitor of a member.
LEMMA MemberStarted ==
  ASSUME TypeOK, RunStep, NEW r \in Members, pc[r] = "started"
  PROVE  pc'[r] = "started"
  <1>0. r \in Runs
    BY BatchFacts
  <1>1. ASSUME NEW q \in Runs \ {r}, Publish(q) \/ OwnerStep(q) PROVE pc'[r] = pc[r]
    <2>1. CASE Publish(q)
      BY <1>0, <2>1 DEF Publish, OwnerGoes, TypeOK
    <2>2. CASE OwnerStep(q)
      BY <1>0, <2>2, OwnerPC DEF TypeOK
    <2> QED BY <1>1, <2>1, <2>2
  <1>2. ASSUME NEW q \in Runs \ Members, Publish(q) \/ SpawnMonitor(q) PROVE pc'[r] = pc[r]
    BY <1>1, <1>2 DEF OwnerStep
  <1>3. ASSUME NEW q \in Runs, OwnerStep(q), pc[q] # "started" PROVE pc'[r] = pc[r]
    BY <1>1, <1>3
  <1>4. ASSUME NEW q \in Runs, ChildDone(q) PROVE UNCHANGED pc
    BY <1>4 DEF ChildDone, owner
  <1>5. ASSUME NEW c \in Cancellers, NEW q \in Runs, CancelBegin(c, q) PROVE UNCHANGED pc
    BY <1>5 DEF CancelBegin, owner
  <1>6. ASSUME NEW c \in Cancellers, CancelStep(c) PROVE UNCHANGED pc
    BY <1>6 DEF CancelStep, CancelFinish, CancelStop, CancelRelease, CancelTell,
       CancelTakeOwner, CancelHalt, CancelTellFailed, owner
  <1>7. CASE BeginShutdown \/ ShutdownStop
    BY <1>7 DEF BeginShutdown, ShutdownStop, owner
  <1> QED BY <1>2, <1>3, <1>4, <1>5, <1>6, <1>7 DEF RunStep

\* The members' goroutines while the caller's goes from one to the next.
LEMMA StartStep == TypeOK /\ BatchVarsOK /\ StartInv /\ [BatchNext]_allVars => StartInv'
  <1> SUFFICES ASSUME TypeOK, BatchVarsOK, StartInv, [BatchNext]_allVars PROVE StartInv'
    OBVIOUS
  <1>0. /\ \A i \in 1..Len(Batch) : Batch[i] \in Runs /\ Batch[i] \in Members
        /\ Len(Batch) \in Nat /\ at \in 1..Len(Batch) + 1 /\ Members \subseteq Runs
        /\ \A i, j \in 1..Len(Batch) : Batch[i] = Batch[j] => i = j
        /\ \A r \in Members : \E i \in 1..Len(Batch) : r = Batch[i]
        /\ begun \subseteq Members
    BY BatchFacts DEF BatchVarsOK, Members
  <1>1. \A r \in Runs : /\ pc[r] # "new" => pc'[r] # "new"
                        /\ pc[r] \in Ending => pc'[r] \in Ending
    <2>1. CASE OtherStep
      BY <2>1, PcKeeps
    <2>2. CASE Reserve(Members)
      BY <2>2 DEF Reserve, owner
    <2> QED BY <2>1, <2>2, BatchStep
  <1>2. ~StartMember => \A r \in Members : pc[r] = "new" => pc'[r] = "new"
    BY MemberNew
  <1>3. CASE ReserveBatch
    <2>1. bpc = "new" /\ bpc' \in {"starting", "refused"} /\ UNCHANGED <<at, begun, waiter>> /\ ~StartMember
      BY <1>3 DEF ReserveBatch, BatchGoes, StartMember
    <2>2. at = 1 /\ begun = {} /\ \A r \in Members : pc'[r] = "new"
      BY <1>2, <2>1 DEF StartInv
    <2>3. begun = {Batch[i] : i \in 1..at - 1}
      BY <2>2
    <2> QED BY <1>0, <2>1, <2>2, <2>3 DEF StartInv, waiter
  <1>4. CASE StartMember
    <2>1. /\ bpc = "starting" /\ at \in 1..Len(Batch) /\ Publish(Batch[at])
          /\ bpc' = (IF pc'[Batch[at]] = "started" THEN "spawning" ELSE "failing")
          /\ UNCHANGED <<at, begun, waiter>>
      BY <1>0, <1>4 DEF StartMember
    <2>2. /\ pc'[Batch[at]] \in {"started", "unstarted"}
          /\ \A r \in Runs \ {Batch[at]} : pc'[r] = pc[r]
      BY <1>0, <2>1 DEF Publish, OwnerGoes, TypeOK
    <2>3. \A i \in 1..Len(Batch) : /\ i < at => pc'[Batch[i]] # "new"
                                   /\ i > at => pc'[Batch[i]] = "new"
      BY <1>0, <2>1, <2>2 DEF StartInv
    <2>4. begun = {Batch[i] : i \in 1..at - 1} /\ wpc = "off" /\ seen = 1
      BY <2>1 DEF StartInv
    <2>5. bpc' = "failing" => pc'[Batch[at]] \in Ending
      BY <2>1, <2>2 DEF Ending
    <2> QED BY <2>1, <2>2, <2>3, <2>4, <2>5 DEF StartInv, waiter
  <1>5. CASE SpawnMember
    <2>1. /\ bpc = "spawning" /\ at \in 1..Len(Batch) /\ UNCHANGED waiter
          /\ SpawnMonitor(Batch[at]) /\ ~StartMember
      BY <1>0, <1>5 DEF SpawnMember, BatchVarsOK, StartMember
    <2>2. /\ pc'[Batch[at]] \in {"looping", "cutoff"}
          /\ \A r \in Runs \ {Batch[at]} : pc'[r] = pc[r]
      BY <1>0, <2>1 DEF SpawnMonitor, OwnerGoes, TypeOK
    <2>3. \A i \in 1..Len(Batch) : /\ i <= at => pc'[Batch[i]] # "new"
                                   /\ i > at => pc'[Batch[i]] = "new"
      BY <1>0, <2>1, <2>2 DEF StartInv
    <2>4. begun = {Batch[i] : i \in 1..at - 1} /\ wpc = "off" /\ seen = 1
      BY <2>1 DEF StartInv
    <2>5. CASE pc'[Batch[at]] = "looping"
      <3>1. bpc' = "starting" /\ at' = at + 1 /\ begun' = begun \union {Batch[at]}
        BY <1>5, <2>5 DEF SpawnMember
      <3>2. {Batch[i] : i \in 1..at} = {Batch[i] : i \in 1..at - 1} \union {Batch[at]}
        <4>1. 1..at = (1..at - 1) \union {at}
          BY <2>1
        <4> QED BY <4>1
      <3>3. begun' = {Batch[i] : i \in 1..at' - 1}
        <4>1. at' - 1 = at
          BY <2>1, <3>1
        <4> QED BY <2>4, <3>1, <3>2, <4>1
      <3>4. \A i \in 1..Len(Batch) : /\ i < at' => pc'[Batch[i]] # "new"
                                     /\ i >= at' => pc'[Batch[i]] = "new"
        BY <2>1, <2>3, <3>1
      <3>5. at' \in 1..Len(Batch) + 1
        BY <2>1, <3>1
      <3> QED BY <1>0, <2>1, <2>4, <3>1, <3>3, <3>4, <3>5 DEF StartInv, waiter
    <2>6. CASE pc'[Batch[at]] # "looping"
      <3>1. bpc' = "failing" /\ UNCHANGED <<at, begun>>
        BY <1>5, <2>6 DEF SpawnMember, BatchGoes
      <3>2. pc'[Batch[at]] \in Ending
        BY <2>2, <2>6 DEF Ending
      <3> QED BY <2>1, <2>3, <2>4, <3>1, <3>2 DEF StartInv, waiter
    <2> QED BY <2>5, <2>6
  <1>6. CASE RefuseMember \/ MemberFailed
    <2>1. bpc \in {"starting", "failing"} /\ bpc' = "unwind" /\ UNCHANGED <<begun, waiter>>
      BY <1>6 DEF RefuseMember, MemberFailed, Unwind
    <2>2. \A r \in begun : pc[r] # "new"
      <3>1. begun = {Batch[i] : i \in 1..at - 1}
        BY <2>1 DEF StartInv
      <3>2. \A i \in 1..at - 1 : i \in 1..Len(Batch) /\ i < at
        BY <1>0
      <3> QED BY <2>1, <3>1, <3>2 DEF StartInv
    <2>3. \A r \in begun : pc'[r] # "new"
      BY <1>0, <1>1, <2>2
    <2>4. wpc = "off" /\ seen = 1
      BY <2>1 DEF StartInv
    <2> QED BY <2>1, <2>3, <2>4 DEF StartInv, waiter
  <1>7. CASE UnwindMember
    <2>1. bpc = "unwind" /\ bpc' = "unwind" /\ UNCHANGED <<begun, waiter>>
      BY <1>7 DEF UnwindMember
    <2>2. \A r \in begun : pc'[r] # "new"
      BY <1>0, <1>1, <2>1 DEF StartInv
    <2>3. wpc = "off" /\ seen = 1
      BY <2>1 DEF StartInv
    <2> QED BY <2>1, <2>2, <2>3 DEF StartInv, waiter
  <1>8. CASE Schedule
    <2>1. /\ bpc = "starting" /\ at > Len(Batch) /\ bpc' = "cleanup"
          /\ wpc' = "wait" \/ UNCHANGED waiter
      BY <1>8 DEF Schedule, WaiterGoes
    <2>2. wpc = "off"
      BY <2>1 DEF StartInv
    <2>3. \A r \in Members : pc[r] # "new"
      BY <1>0, <2>1 DEF StartInv
    <2>4. \A r \in Members : pc'[r] # "new"
      BY <1>0, <1>1, <2>3
    <2> QED BY <2>1, <2>2, <2>4 DEF StartInv
  <1>9. CASE Unwound \/ CleanupMember \/ Return
    <2>1. bpc' \in {"cleanup", "returned", "refused"} /\ UNCHANGED waiter
      BY <1>9 DEF Unwound, CleanupMember, Return, BatchGoes
    <2>2. wpc' \notin {"off", "gone"} => \A r \in Members : pc'[r] # "new"
      BY <1>0, <1>1, <2>1 DEF StartInv, waiter
    <2> QED BY <2>1, <2>2 DEF StartInv
  <1>10. CASE WaiterStep
    <2>1. wpc \notin {"off", "gone"} /\ UNCHANGED bpc
      BY <1>10 DEF WaiterStep, ReadMember, AskOwner, QueueSynthesis, starter
    <2>2. \A r \in Members : pc'[r] # "new"
      BY <1>0, <1>1, <2>1 DEF StartInv
    <2>3. bpc' \notin {"new", "starting", "spawning", "failing", "unwind"}
      BY <2>1 DEF StartInv
    <2> QED BY <2>2, <2>3 DEF StartInv
  <1>11. CASE CallerStep \/ UNCHANGED allVars \/ RunStep
    <2>1. UNCHANGED <<starter, waiter>> /\ ~StartMember
      <3>1. UNCHANGED <<starter, waiter>>
        BY <1>11 DEF CallerStep, CallerEnds, CallerTurns, CallerStops, allVars, bvars, RunStep
      <3>2. StartMember => bpc' # bpc
        BY DEF StartMember
      <3> QED BY <3>1, <3>2 DEF starter
    <2>2. bpc = "spawning" => pc'[Batch[at]] = "started"
      <3>1. CASE RunStep
        BY <1>0, <3>1, MemberStarted DEF StartInv, BatchVarsOK
      <3>2. CASE ~RunStep
        BY <1>11, <3>2 DEF StartInv, CallerStep, CallerEnds, CallerTurns, CallerStops, allVars, vars, owner
      <3> QED BY <3>1, <3>2
    <2>3. UNCHANGED <<bpc, at, begun, wpc, seen>>
      BY <2>1 DEF starter, waiter
    <2>4. bpc \in {"starting", "spawning", "failing"} =>
             \A i \in 1..Len(Batch) : /\ i < at => pc'[Batch[i]] # "new"
                                      /\ i > at => pc'[Batch[i]] = "new"
      BY <1>0, <1>1, <1>2, <2>1 DEF StartInv
    <2>5. bpc = "starting" /\ at <= Len(Batch) => pc'[Batch[at]] = "new"
      BY <1>0, <1>2, <2>1 DEF StartInv
    <2>6. bpc = "failing" => pc'[Batch[at]] \in Ending
      BY <1>0, <1>1 DEF StartInv, BatchVarsOK
    <2>7. /\ bpc = "unwind" => \A r \in begun : pc'[r] # "new"
          /\ wpc \notin {"off", "gone"} => \A r \in Members : pc'[r] # "new"
      BY <1>0, <1>1 DEF StartInv
    <2>8. bpc = "new" => \A r \in Members : pc'[r] = "new"
      BY <1>2, <2>1 DEF StartInv
    <2> QED BY <2>2, <2>3, <2>4, <2>5, <2>6, <2>7, <2>8 DEF StartInv
  <1>12. CASE BatchRestart
    <2>1. /\ bpc' = (IF bpc = "new" THEN "new" ELSE "gone") /\ at' = 1 /\ begun' = {}
          /\ wpc' = (IF wpc = "off" THEN "off" ELSE "gone") /\ seen' = 1
      BY <1>12 DEF BatchRestart
    <2>2. bpc = "new" => wpc = "off" /\ \A r \in Members : pc'[r] = "new"
      BY <1>0, <1>12 DEF StartInv, BatchRestart, Restart
    <2> QED BY <2>1, <2>2 DEF StartInv
  <1> QED
    BY <1>3, <1>4, <1>5, <1>6, <1>7, <1>8, <1>9, <1>10, <1>11, <1>12
    DEF BatchNext, StarterStep

THEOREM StartCorrect == BatchSpec => []StartInv
  <1>1. BatchInit => StartInv
    BY BatchFacts DEF BatchInit, Init, StartInv
  <1>2. TypeOK /\ BatchVarsOK /\ StartInv /\ [BatchNext]_allVars => StartInv'
    BY StartStep
  <1> QED BY <1>1, <1>2, BatchVarsCorrect, FanOutIsDelegation, TypeCorrect, PTL DEF BatchSpec

-----------------------------------------------------------------------------
(* The wait: a member that was seen to be over stays over, since the caller  *)
(* has started all of them by then, each once.                               *)

WaitInv ==
    /\ wpc \in {"wait", "sawRunning"} =>
          \A i \in 1..Len(Batch) : i < seen => row[Batch[i]] # "running"
    /\ wpc \in {"ready", "done"} => \A r \in Members : row[r] # "running"

\* A member whose row is not live does not become live but when it is started.
LEMMA MemberOver ==
  ASSUME TypeOK, BatchVarsOK, [BatchNext]_allVars, ~StartMember,
         NEW r \in Members, row[r] # "running"
  PROVE  row'[r] # "running"
  <1>1. r \in Runs
    BY BatchFacts
  <1>2. ~Publish(r)
    <2>1. Publish(r) => pc[r] = "new" /\ pc'[r] # "new"
      BY <1>1 DEF Publish, OwnerAt, OwnerGoes, TypeOK
    <2> QED BY <2>1, MemberNew
  <1>3. [Next]_vars
    BY BatchIsDelegation
  <1> QED BY <1>1, <1>2, <1>3, RunningBorn

LEMMA WaitStep == TypeOK /\ BatchVarsOK /\ StartInv /\ WaitInv /\ [BatchNext]_allVars => WaitInv'
  <1> SUFFICES ASSUME TypeOK, BatchVarsOK, StartInv, WaitInv, [BatchNext]_allVars PROVE WaitInv'
    OBVIOUS
  <1>0. /\ \A i \in 1..Len(Batch) : Batch[i] \in Members
        /\ Len(Batch) \in Nat /\ seen \in 1..Len(Batch)
        /\ \A r \in Members : \E i \in 1..Len(Batch) : r = Batch[i]
    BY BatchFacts DEF BatchVarsOK, Members
  <1>1. CASE UNCHANGED <<wpc, seen>>
    <2>1. CASE wpc \in {"wait", "sawRunning", "ready", "done"}
      <3>0. ~StartMember
        BY <2>1 DEF StartInv, StartMember
      <3>1. \A r \in Members : row[r] # "running" => row'[r] # "running"
        BY <3>0, MemberOver
      <3> QED BY <1>0, <1>1, <3>1 DEF WaitInv
    <2> QED BY <1>1, <2>1 DEF WaitInv
  <1>2. CASE Schedule
    <2>1. UNCHANGED waiter \/ (wpc' = "wait" /\ seen' = 1)
      BY <1>2 DEF Schedule, WaiterGoes, StartInv
    <2> QED BY <1>0, <1>1, <2>1 DEF WaitInv, waiter
  <1>3. CASE ReadMember
    <2>0. wpc = "wait" /\ UNCHANGED row
      BY <1>3 DEF ReadMember, vars
    <2>1. CASE wpc' \in {"closed", "unread"}
      BY <2>1 DEF WaitInv
    <2>2. CASE wpc' = "sawRunning" /\ seen' = seen
      BY <1>0, <2>0, <2>2 DEF WaitInv
    <2>3. CASE Settled(Batch[seen]) /\ LastMember(seen) /\ wpc' = "ready"
      <3>1. \A i \in 1..Len(Batch) : row[Batch[i]] # "running"
        BY <1>0, <2>0, <2>3 DEF WaitInv, Settled, LastMember, Terminal
      <3> QED BY <1>0, <2>0, <2>3, <3>1 DEF WaitInv
    <2>4. CASE Settled(Batch[seen]) /\ seen' = seen + 1 /\ wpc' = "wait"
      <3>1. \A i \in 1..Len(Batch) : i < seen + 1 => row[Batch[i]] # "running"
        BY <1>0, <2>0, <2>4 DEF WaitInv, Settled, Terminal
      <3> QED BY <2>0, <2>4, <3>1 DEF WaitInv
    <2> QED BY <1>3, <2>1, <2>2, <2>3, <2>4 DEF ReadMember, WaiterGoes
  <1>4. CASE AskOwner
    <2>1. wpc' = "lost" \/ (wpc' = "wait" /\ seen' = 1)
      BY <1>4 DEF AskOwner
    <2> QED BY <1>0, <2>1 DEF WaitInv
  <1>5. CASE QueueSynthesis
    <2>1. wpc = "ready" /\ wpc' = "done" /\ UNCHANGED row
      BY <1>5 DEF QueueSynthesis, vars
    <2> QED BY <2>1 DEF WaitInv
  <1>6. CASE BatchRestart
    <2>1. wpc' \in {"off", "gone"}
      BY <1>6 DEF BatchRestart
    <2> QED BY <2>1 DEF WaitInv
  <1>7. CASE CallerStep \/ RunStep \/ UNCHANGED allVars
    <2>1. UNCHANGED waiter
      BY <1>7 DEF CallerStep, CallerEnds, CallerTurns, CallerStops, RunStep, allVars, bvars
    <2> QED BY <1>1, <2>1 DEF waiter
  <1>8. CASE ReserveBatch \/ StartMember \/ SpawnMember \/ RefuseMember \/ MemberFailed
             \/ UnwindMember \/ Unwound \/ CleanupMember \/ Return
    <2>1. UNCHANGED waiter
      BY <1>8 DEF ReserveBatch, StartMember, SpawnMember, RefuseMember, MemberFailed,
         UnwindMember, Unwound, CleanupMember, Return
    <2> QED BY <1>1, <2>1 DEF waiter
  <1> QED
    BY <1>2, <1>3, <1>4, <1>5, <1>6, <1>7, <1>8 DEF BatchNext, StarterStep, WaiterStep

\* The synthesis is built from runs that ended, for a fan-out of any size and
\* whatever the file, the cancellations and the retention did meanwhile.
THEOREM SynthesisComplete == BatchSpec => []SynthesisOfEnded
  <1>1. BatchInit => WaitInv
    BY DEF BatchInit, WaitInv
  <1>2. TypeOK /\ BatchVarsOK /\ StartInv /\ WaitInv /\ [BatchNext]_allVars => WaitInv'
    BY WaitStep
  <1>3. TypeOK /\ WaitInv => SynthesisOfEnded
    BY BatchFacts DEF WaitInv, SynthesisOfEnded, TypeOK
  <1> QED
    BY <1>1, <1>2, <1>3, BatchVarsCorrect, FanOutIsDelegation, TypeCorrect, StartCorrect, PTL
    DEF BatchSpec

-----------------------------------------------------------------------------
(* While the file works, a fan-out that is refused has ended what it started. *)

\* Who holds a reservation has not started.
HeldNew == \A r \in Runs : registry[r] = "reserved" => pc[r] = "new"

LEMMA HeldStep == TypeOK /\ HeldNew /\ [Next]_vars => HeldNew'
  <1> SUFFICES ASSUME TypeOK, HeldNew, [Next]_vars, NEW r \in Runs, registry'[r] = "reserved"
               PROVE  pc'[r] = "new"
    BY DEF HeldNew
  <1>1. ASSUME NEW B \in SUBSET Runs, Reserve(B) PROVE pc'[r] = "new"
    BY <1>1 DEF Reserve, HeldNew, OwnerAt, owner
  <1>2. CASE OtherStep
    <2>1. registry[r] = "reserved"
      BY <1>2, NoNewReserved
    <2>2. pc[r] = "new"
      BY <2>1 DEF HeldNew
    <2>3. ASSUME NEW q \in Runs, Publish(q) PROVE pc'[r] = "new"
      <3>1. q # r
        BY <2>3 DEF Publish, TypeOK
      <3> QED BY <2>2, <2>3, <3>1 DEF Publish, OwnerGoes, TypeOK
    <2>4. ASSUME NEW q \in Runs, OwnerStep(q) PROVE pc'[r] = "new"
      BY <2>2, <2>4, OwnerPC DEF TypeOK
    <2>5. CASE Restart
      BY <2>2, <2>5 DEF Restart
    <2> QED BY <1>2, <2>2, <2>3, <2>4, <2>5, OthersPC
  <1> QED BY <1>1, <1>2 DEF Next, OtherStep

HalfInv ==
    /\ bpc = "failing" /\ pc[Batch[at]] \in Past => row[Batch[at]] # "running"
    /\ bpc = "unwind" =>
          /\ \A r \in Members \ begun : row[r] # "running"
          /\ \A i \in 1..Len(Batch) :
                i < at => \/ row[Batch[i]] # "running"
                          \/ cpc[Unwinder] = "finish" /\ crun[Unwinder] = Batch[i]
    /\ bpc = "cleanup" => begun = Members \/ \A r \in Members : row[r] # "running"
    /\ bpc = "refused" => \A r \in Members : row[r] # "running"

\* A run that could not be started leaves its goroutine with its row ended.
LEMMA FailedEnds ==
  ASSUME ~StoreMayFail, TypeOK, [Next]_vars, NEW r \in Runs,
         pc[r] \in Ending, pc[r] \notin Past, pc'[r] \in Past
  PROVE  row'[r] # "running"
  <1>1. FinishUnstarted(r) \/ FinishCutoff(r) \/ Restart
    BY PastEntered DEF Ending, Finalize, Tick, Load, Progress, OwnerAt
  <1>2. CASE Restart
    BY <1>2 DEF Restart
  <1>3. CASE FinishUnstarted(r) \/ FinishCutoff(r)
    <2>1. PICK V \in SUBSET Terminal : OwnerFinish(r, V, "release")
      BY <1>3 DEF FinishUnstarted, FinishCutoff, Terminal
    <2>2. CASE FinishFails(r) /\ UNCHANGED row
      BY <2>2 DEF FinishFails
    <2>3. CASE row[r] \in Terminal /\ UNCHANGED row
      BY <2>3 DEF Terminal
    <2>4. CASE \E v \in V : row' = [row EXCEPT ![r] = v]
      BY <2>4 DEF Terminal, TypeOK
    <2> QED BY <2>1, <2>2, <2>3, <2>4 DEF OwnerFinish
  <1> QED BY <1>1, <1>2, <1>3

\* The cancellation that the unwinding waits for ends the row.
LEMMA UnwinderEnds ==
  ASSUME ~StoreMayFail, TypeOK, CancelOK, [Next]_vars,
         cpc[Unwinder] = "finish",
         ~(cpc'[Unwinder] = "finish" /\ crun'[Unwinder] = crun[Unwinder])
  PROVE  row'[crun[Unwinder]] # "running"
  <1>0. Unwinder \in Cancellers /\ crun[Unwinder] \in Runs
    BY BatchFacts DEF CancelOK
  <1>1. CancelStep(Unwinder) \/ (\E q \in Runs : CancelBegin(Unwinder, q)) \/ Restart
    BY <1>0, CancelMover
  <1>2. CASE Restart
    BY <1>0, <1>2 DEF Restart
  <1>3. ASSUME NEW q \in Runs, CancelBegin(Unwinder, q) PROVE FALSE
    BY <1>3 DEF CancelBegin
  <1>4. CASE CancelStep(Unwinder)
    <2>1. CancelFinish(Unwinder)
      BY <1>4 DEF CancelStep, CancelStop, CancelRelease, CancelTell, CancelTakeOwner, CancelHalt,
         CancelTellFailed
    <2>2. CASE FinishFails(crun[Unwinder]) /\ UNCHANGED row
      BY <2>2 DEF FinishFails
    <2>3. CASE row[crun[Unwinder]] \in Terminal /\ UNCHANGED row
      BY <2>3 DEF Terminal
    <2>4. CASE row' = [row EXCEPT ![crun[Unwinder]] = "stopped"]
      BY <1>0, <2>4 DEF TypeOK
    <2> QED BY <2>1, <2>2, <2>3, <2>4 DEF CancelFinish
  <1> QED BY <1>1, <1>2, <1>3, <1>4

\* The rows of the members while the call goes through them.
LEMMA HalfStep ==
  ASSUME ~StoreMayFail
  PROVE  /\ TypeOK /\ Fresh /\ CancelOK /\ HeldNew
         /\ BatchVarsOK /\ StartInv /\ HalfInv /\ [BatchNext]_allVars
         => HalfInv'
  <1> SUFFICES ASSUME TypeOK, Fresh, CancelOK, HeldNew, BatchVarsOK, StartInv, HalfInv,
                      [BatchNext]_allVars
               PROVE  HalfInv'
    OBVIOUS
  <1>0. /\ \A i \in 1..Len(Batch) : Batch[i] \in Runs /\ Batch[i] \in Members
        /\ Len(Batch) \in Nat /\ at \in 1..Len(Batch) + 1 /\ Members \subseteq Runs
        /\ \A r \in Members : \E i \in 1..Len(Batch) : r = Batch[i]
        /\ begun \subseteq Members
        /\ bpc = "failing" => at \in 1..Len(Batch)
    BY BatchFacts DEF BatchVarsOK, Members
  <1>1. [Next]_vars
    BY BatchIsDelegation
  <1>2. bpc # "starting" => \A r \in Members : row[r] # "running" => row'[r] # "running"
    BY MemberOver DEF StartMember
  <1>3. \A r \in Members : pc[r] = "new" => row[r] # "running"
    BY <1>0 DEF Fresh
  <1>4. CASE UNCHANGED starter
    <2>1. UNCHANGED <<bpc, at, begun>>
      BY <1>4 DEF starter
    <2>2. ASSUME bpc = "failing", pc'[Batch[at]] \in Past PROVE row'[Batch[at]] # "running"
      <3>1. CASE pc[Batch[at]] \in Past
        BY <1>0, <1>2, <2>2, <3>1 DEF HalfInv
      <3>2. CASE pc[Batch[at]] \notin Past
        BY <1>0, <1>1, <2>2, <3>2, FailedEnds DEF StartInv
      <3> QED BY <3>1, <3>2
    <2>3. ASSUME bpc = "unwind", NEW i \in 1..Len(Batch), i < at
          PROVE  row'[Batch[i]] # "running" \/ (cpc'[Unwinder] = "finish" /\ crun'[Unwinder] = Batch[i])
      <3>1. CASE row[Batch[i]] # "running"
        BY <1>0, <1>2, <2>3, <3>1
      <3>2. CASE cpc[Unwinder] = "finish" /\ crun[Unwinder] = Batch[i]
        BY <1>1, <3>2, UnwinderEnds
      <3> QED BY <2>3, <3>1, <3>2 DEF HalfInv
    <2>4. bpc = "unwind" => \A r \in Members \ begun : row'[r] # "running"
      BY <1>2 DEF HalfInv
    <2>5. bpc = "cleanup" => begun = Members \/ \A r \in Members : row'[r] # "running"
      BY <1>2 DEF HalfInv
    <2>6. bpc = "refused" => \A r \in Members : row'[r] # "running"
      BY <1>2 DEF HalfInv
    <2> QED BY <2>1, <2>2, <2>3, <2>4, <2>5, <2>6 DEF HalfInv
  <1>5. CASE ReserveBatch
    <2>1. bpc = "new" /\ bpc' \in {"starting", "refused"}
      BY <1>5 DEF ReserveBatch, BatchGoes
    <2>2. \A r \in Members : row'[r] # "running"
      BY <1>2, <1>3, <2>1 DEF StartInv
    <2> QED BY <2>1, <2>2 DEF HalfInv
  <1>6. CASE StartMember
    <2>1. /\ bpc = "starting" /\ at \in 1..Len(Batch) /\ UNCHANGED at /\ Publish(Batch[at])
          /\ bpc' = (IF pc'[Batch[at]] = "started" THEN "spawning" ELSE "failing")
      BY <1>0, <1>6 DEF StartMember
    <2>2. pc'[Batch[at]] \notin Past
      BY <1>0, <2>1 DEF Publish, OwnerGoes, TypeOK, Past
    <2> QED BY <2>1, <2>2 DEF HalfInv
  <1>7. CASE SpawnMember
    <2>1. /\ bpc = "spawning" /\ at \in 1..Len(Batch) /\ SpawnMonitor(Batch[at])
          /\ bpc' = "starting" \/ (bpc' = "failing" /\ UNCHANGED at)
      BY <1>0, <1>7 DEF SpawnMember, BatchGoes, BatchVarsOK
    <2>2. pc'[Batch[at]] \notin Past
      BY <1>0, <2>1 DEF SpawnMonitor, OwnerGoes, TypeOK, Past
    <2> QED BY <2>1, <2>2 DEF HalfInv
  <1>8. CASE RefuseMember \/ MemberFailed
    <2>1. /\ bpc \in {"starting", "failing"} /\ bpc' = "unwind" /\ at' = 1 /\ UNCHANGED <<begun, row>>
          /\ bpc = "starting" => at <= Len(Batch)
          /\ bpc = "failing" => pc[Batch[at]] = "done"
      <3>1. UNCHANGED row
        BY <1>8 DEF RefuseMember, MemberFailed, ReleaseReservation, vars
      <3> QED BY <1>8, <3>1 DEF RefuseMember, MemberFailed, Unwind
    <2>2. ASSUME NEW r \in Members \ begun PROVE row[r] # "running"
      <3>1. PICK i \in 1..Len(Batch) : r = Batch[i]
        BY <1>0
      <3>2. begun = {Batch[j] : j \in 1..at - 1}
        BY <2>1 DEF StartInv
      <3>3. i >= at
        <4>1. i < at => i \in 1..at - 1
          BY <1>0
        <4>2. i \notin 1..at - 1
          BY <2>2, <3>1, <3>2
        <4> QED BY <1>0, <4>1, <4>2
      <3>4. CASE i > at
        BY <1>3, <2>1, <3>1, <3>4 DEF StartInv
      <3>5. CASE i = at
        <4>1. CASE bpc = "starting"
          BY <1>3, <2>1, <3>1, <3>5, <4>1 DEF StartInv
        <4>2. CASE bpc = "failing"
          BY <2>1, <3>1, <3>5, <4>2 DEF HalfInv, Past
        <4> QED BY <2>1, <4>1, <4>2
      <3> QED BY <1>0, <3>3, <3>4, <3>5
    <2>3. \A i \in 1..Len(Batch) : ~(i < 1)
      BY <1>0
    <2> QED BY <2>1, <2>2, <2>3 DEF HalfInv
  <1>9. CASE UnwindMember
    <2>1. /\ bpc = "unwind" /\ bpc' = "unwind" /\ at \in 1..Len(Batch) /\ at' = at + 1
          /\ UNCHANGED <<begun, row>> /\ cpc[Unwinder] = "off"
      <3>1. UNCHANGED row
        BY <1>9 DEF UnwindMember, CancelBegin, vars
      <3> QED BY <1>0, <1>9, <3>1 DEF UnwindMember
    <2>2. \A i \in 1..Len(Batch) : i < at => row[Batch[i]] # "running"
      BY <2>1 DEF HalfInv
    <2>3. \A r \in Members \ begun : row[r] # "running"
      BY <2>1 DEF HalfInv
    <2>4. \/ row[Batch[at]] # "running"
          \/ cpc'[Unwinder] = "finish" /\ crun'[Unwinder] = Batch[at]
      <3>1. CASE Batch[at] \in begun /\ CancelBegin(Unwinder, Batch[at])
        <4>1. pc[Batch[at]] # "new"
          BY <2>1, <3>1 DEF StartInv
        <4>2. registry[Batch[at]] # "reserved"
          BY <1>0, <2>1, <4>1 DEF HeldNew
        <4>3. cpc' = [cpc EXCEPT ![Unwinder] = "finish"] /\ crun' = [crun EXCEPT ![Unwinder] = Batch[at]]
          BY <3>1, <4>2 DEF CancelBegin
        <4>4. Unwinder \in DOMAIN cpc /\ Unwinder \in DOMAIN crun
          BY BatchFacts DEF TypeOK
        <4> QED BY <4>3, <4>4
      <3>2. CASE Batch[at] \notin begun
        BY <1>0, <2>1, <2>3, <3>2
      <3> QED BY <1>9, <3>1, <3>2 DEF UnwindMember
    <2>5. ASSUME NEW i \in 1..Len(Batch), i < at'
          PROVE  row'[Batch[i]] # "running" \/ (cpc'[Unwinder] = "finish" /\ crun'[Unwinder] = Batch[i])
      <3>1. i < at \/ i = at
        BY <1>0, <2>1, <2>5
      <3> QED BY <2>1, <2>2, <2>4, <3>1
    <2> QED BY <2>1, <2>3, <2>5 DEF HalfInv
  <1>10. CASE Unwound
    <2>1. /\ bpc = "unwind" /\ at > Len(Batch) /\ cpc[Unwinder] = "off" /\ bpc' = "cleanup"
          /\ UNCHANGED row
      BY <1>10 DEF Unwound, vars
    <2>2. \A i \in 1..Len(Batch) : row[Batch[i]] # "running"
      BY <1>0, <2>1 DEF HalfInv
    <2> QED BY <1>0, <2>1, <2>2 DEF HalfInv
  <1>11. CASE Schedule
    <2>1. bpc = "starting" /\ at > Len(Batch) /\ bpc' = "cleanup" /\ UNCHANGED begun
      BY <1>11 DEF Schedule
    <2>2. begun = {Batch[i] : i \in 1..at - 1} /\ at - 1 = Len(Batch)
      BY <1>0, <2>1 DEF StartInv
    <2>3. begun = Members
      BY <2>2 DEF Members
    <2> QED BY <2>1, <2>3 DEF HalfInv
  <1>12. CASE CleanupMember
    <2>1. bpc = "cleanup" /\ UNCHANGED <<bpc, begun>>
      BY <1>12 DEF CleanupMember
    <2>2. begun = Members \/ \A r \in Members : row'[r] # "running"
      BY <1>2, <2>1 DEF HalfInv
    <2> QED BY <2>1, <2>2 DEF HalfInv
  <1>13. CASE Return
    <2>1. /\ bpc = "cleanup" /\ UNCHANGED row
          /\ bpc' = (IF begun = Members THEN "returned" ELSE "refused")
      BY <1>13 DEF Return, BatchGoes, vars
    <2> QED BY <2>1 DEF HalfInv
  <1>14. CASE WaiterStep \/ CallerStep \/ RunStep \/ UNCHANGED allVars
    <2>1. UNCHANGED starter
      BY <1>14 DEF WaiterStep, ReadMember, AskOwner, QueueSynthesis, CallerStep, CallerEnds,
         CallerTurns, CallerStops, RunStep, allVars, bvars
    <2> QED BY <1>4, <2>1
  <1>15. CASE BatchRestart
    BY <1>15 DEF BatchRestart, HalfInv
  <1> QED
    BY <1>5, <1>6, <1>7, <1>8, <1>9, <1>10, <1>11, <1>12, <1>13, <1>14, <1>15
    DEF BatchNext, StarterStep

\* While the run file works, a fan-out that was refused leaves no member
\* running, for any number of targets.
THEOREM NothingHalfDone ==
  ASSUME ~StoreMayFail
  PROVE  BatchSpec => []NoHalfBatch
  <1>1. Init => HeldNew
    BY DEF Init, HeldNew
  <1>2. TypeOK /\ HeldNew /\ [Next]_vars => HeldNew'
    BY HeldStep
  <1>3. Spec => []HeldNew
    BY <1>1, <1>2, TypeCorrect, PTL DEF Spec
  <1>4. IInv => TypeOK /\ Fresh /\ CancelOK
    BY DEF IInv
  <1>5. BatchInit => HalfInv
    BY DEF BatchInit, HalfInv
  <1>6. /\ TypeOK /\ Fresh /\ CancelOK /\ HeldNew
        /\ BatchVarsOK /\ StartInv /\ HalfInv /\ [BatchNext]_allVars
        => HalfInv'
    BY HalfStep
  <1>7. HalfInv => NoHalfBatch
    BY DEF HalfInv, NoHalfBatch
  <1> QED
    BY <1>3, <1>4, <1>5, <1>6, <1>7, BatchVarsCorrect, FanOutIsDelegation, Inductive, StartCorrect, PTL
    DEF BatchSpec
=============================================================================
