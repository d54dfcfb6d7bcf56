----------------------------- MODULE ChatProofs -----------------------------
(* Three things a chat lives on, each proved for any size. First its history: *)
(* any number of turns, entries and clears, with writes that may fail or not. *)
(* Then the questions its agents put to the user: any finite number of calls, *)
(* any chats and any supply of question IDs. Then the loop of its agent: any  *)
(* number of messages, rounds, tool calls and applications, and the requests  *)
(* it makes of its transcript, of any length.                                 *)
EXTENDS AskUser, ChatHistory, AgentTurn, FiniteSetTheorems, SequenceTheorems, TLAPS

-----------------------------------------------------------------------------
(* The history of a chat.                                                     *)

\* A clear that has stopped the worker finds it stopped until it returns.
StoppedOK == clear \in {"stopped", "deleted", "wiped"} => halt /\ ctx # "live"

DoomedOK ==
    /\ clear # "wiped" => doomed = {}
    /\ clear \in {"begun", "stopped", "deleted"} => clears < MaxClears

\* The turns that anything is kept of, and that a turn has left nothing behind
\* before its message is appended.
KeptTurns == AllTurns(mem) \union AllTurns(InFile) \union doomed \union wiped
FreshOK ==
    /\ KeptTurns \subseteq 1..turn
    /\ phase # "idle" => turn >= 1
    /\ phase \in {"queued", "active", "logged"} => turn \notin KeptTurns

\* A turn that was not cancelled has its message in memory.
Asked == {"asked", "loop", "stream", "broken", "got", "recorded", "answered"}
AskedOK == phase \in Asked /\ ctx = "live" => turn \in Turns(mem)

\* The memory has no message of a cleared turn, and the log is not one's.
ClearedOK ==
    /\ Turns(mem) \intersect (doomed \union wiped) = {}
    /\ log \in [turn : 0..MaxTurns, answer : BOOLEAN] /\ log.turn \notin wiped

\* The epoch dates a side question: while it is the same no clear has emptied
\* the chat.
SideOK ==
    /\ side \in [at : {"off", "read", "asking", "answered"}, epoch : Nat, clears : Nat,
                 cancelled : BOOLEAN]
    /\ side.at # "off" => side.epoch <= epoch /\ (side.epoch = epoch => side.clears = clears)

CostOK ==
    /\ cost \subseteq 0..clears /\ billed \subseteq 0..clears
    /\ \A n \in cost \ revived : n = clears

HInv ==
    /\ HistoryTypeOK /\ StoppedOK /\ DoomedOK /\ FreshOK /\ AskedOK /\ UserTurnSurvives
    /\ FileFollowsMemory /\ ClearedOK /\ SideOK /\ CostOK

USE HistoryAssumption

-----------------------------------------------------------------------------
(* Histories. *)

LEMMA TurnsAre ==
  ASSUME NEW h \in Seq(Entry), NEW t
  PROVE  /\ t \in AllTurns(h) <=> \E i \in 1..Len(h) : h[i].turn = t
         /\ t \in Turns(h) <=> \E i \in 1..Len(h) : h[i].turn = t /\ h[i].by = "user"
  <1>1. t \in AllTurns(h) <=> \E i \in 1..Len(h) : h[i].turn = t
    BY DEF AllTurns
  <1>2. t \in Turns(h) <=> \E i \in {j \in 1..Len(h) : h[j].by = "user"} : h[i].turn = t
    BY Zenon DEF Turns
  <1>3. \A i : i \in {j \in 1..Len(h) : h[j].by = "user"} <=> i \in 1..Len(h) /\ h[i].by = "user"
    OBVIOUS
  <1> QED BY <1>1, <1>2, <1>3, Zenon

LEMMA TurnsTyped ==
  ASSUME NEW h \in Seq(Entry)
  PROVE  AllTurns(h) \subseteq 1..MaxTurns /\ Turns(h) \subseteq AllTurns(h)
  <1>1. ASSUME NEW i \in 1..Len(h) PROVE h[i].turn \in 1..MaxTurns
    <2>1. h[i] \in Entry
      BY ElementOfSeq
    <2> QED BY <2>1 DEF Entry
  <1>2. \A t : t \in AllTurns(h) => t \in 1..MaxTurns
    BY <1>1, TurnsAre
  <1>3. \A t : t \in Turns(h) => t \in AllTurns(h)
    BY TurnsAre
  <1> QED BY <1>2, <1>3

LEMMA TurnsOfNothing == <<>> \in Seq(Entry) /\ AllTurns(<<>>) = {} /\ Turns(<<>>) = {}
  BY DEF AllTurns, Turns

LEMMA TurnsOfAppend ==
  ASSUME NEW h \in Seq(Entry), NEW e \in Entry
  PROVE  /\ Append(h, e) \in Seq(Entry)
         /\ AllTurns(Append(h, e)) = AllTurns(h) \union {e.turn}
         /\ Turns(h) \subseteq Turns(Append(h, e))
         /\ Turns(Append(h, e)) \subseteq Turns(h) \union {e.turn}
         /\ e.by = "user" => e.turn \in Turns(Append(h, e))
         /\ e.by # "user" => Turns(Append(h, e)) = Turns(h)
  <1> DEFINE new == Append(h, e)
  <1>1. /\ new \in Seq(Entry) /\ Len(new) = Len(h) + 1 /\ Len(h) \in Nat
        /\ \A i \in 1..Len(h) : new[i] = h[i]
        /\ new[Len(h) + 1] = e
    BY AppendProperties
  <1> HIDE DEF new
  <1>2. 1..Len(new) = (1..Len(h)) \union {Len(h) + 1}
    BY <1>1
  <1>3. ASSUME NEW t PROVE t \in AllTurns(new) <=> t \in AllTurns(h) \union {e.turn}
    BY <1>1, <1>2, TurnsAre
  <1>4. ASSUME NEW t
        PROVE  t \in Turns(new) <=> t \in Turns(h) \/ (e.by = "user" /\ t = e.turn)
    BY <1>1, <1>2, TurnsAre
  <1> QED BY <1>1, <1>3, <1>4 DEF new

LEMMA TurnsOfCut ==
  ASSUME NEW h \in Seq(Entry), NEW i \in 1..Len(h)
  PROVE  /\ SubSeq(h, 1, i - 1) \in Seq(Entry)
         /\ AllTurns(SubSeq(h, 1, i - 1)) \subseteq AllTurns(h)
         /\ Turns(SubSeq(h, 1, i - 1)) \subseteq Turns(h)
  <1> DEFINE new == SubSeq(h, 1, i - 1)
  <1>1. /\ new \in Seq(Entry) /\ Len(new) = i - 1 /\ Len(h) \in Nat
        /\ \A j \in 1..i - 1 : new[j] = h[j]
    BY SubSeqProperties
  <1> HIDE DEF new
  <1>2. 1..Len(new) \subseteq 1..Len(h)
    BY <1>1
  <1>3. \A t : t \in AllTurns(new) => t \in AllTurns(h)
    BY <1>1, <1>2, TurnsAre
  <1>4. \A t : t \in Turns(new) => t \in Turns(h)
    BY <1>1, <1>2, TurnsAre
  <1> QED BY <1>1, <1>3, <1>4 DEF new

LEMMA PrefixIs ==
  ASSUME NEW p \in Seq(Entry), NEW h \in Seq(Entry)
  PROVE  IsPrefix(p, h) <=> Len(p) <= Len(h) /\ \A i \in 1..Len(p) : p[i] = h[i]
  <1>1. CASE Len(p) <= Len(h)
    <2>1. SubSeq(p, 1, Len(p)) = p
      BY SubSeqFull
    <2>2. /\ SubSeq(h, 1, Len(p)) \in Seq(Entry) /\ Len(SubSeq(h, 1, Len(p))) = Len(p)
          /\ \A i \in 1..Len(p) : SubSeq(h, 1, Len(p))[i] = h[i]
      BY <1>1, SubSeqProperties
    <2>3. p = SubSeq(h, 1, Len(p)) <=> \A i \in 1..Len(p) : p[i] = SubSeq(h, 1, Len(p))[i]
      BY <2>2, SeqEqual
    <2> QED BY <1>1, <2>1, <2>2, <2>3 DEF IsPrefix
  <1> QED BY <1>1 DEF IsPrefix

LEMMA PrefixFacts ==
  ASSUME NEW h \in Seq(Entry)
  PROVE  /\ IsPrefix(h, h) /\ IsPrefix(<<>>, h)
         /\ \A p \in Seq(Entry), e \in Entry : IsPrefix(p, h) => IsPrefix(p, Append(h, e))
         /\ \A p \in Seq(Entry) : IsPrefix(p, h) => AllTurns(p) \subseteq AllTurns(h)
         /\ \A p \in Seq(Entry) : AllTurns(p) = {} => p = <<>>
  <1>1. IsPrefix(h, h) /\ IsPrefix(<<>>, h)
    <2>1. Len(h) \in Nat /\ <<>> \in Seq(Entry) /\ Len(<<>>) = 0
      OBVIOUS
    <2>2. IsPrefix(h, h)
      BY <2>1, PrefixIs
    <2> DEFINE none == <<>>
    <2>3. none \in Seq(Entry) /\ Len(none) = 0
      BY <2>1
    <2> HIDE DEF none
    <2>4. Len(none) <= Len(h) /\ \A i \in 1..Len(none) : none[i] = h[i]
      BY <2>1, <2>3
    <2>5. IsPrefix(none, h)
      BY <2>3, <2>4, PrefixIs
    <2> QED BY <2>2, <2>5 DEF none
  <1>2. ASSUME NEW p \in Seq(Entry), NEW e \in Entry, IsPrefix(p, h) PROVE IsPrefix(p, Append(h, e))
    <2>1. Len(p) <= Len(h) /\ \A i \in 1..Len(p) : p[i] = h[i]
      BY <1>2, PrefixIs
    <2> DEFINE new == Append(h, e)
    <2>2. /\ new \in Seq(Entry) /\ Len(new) = Len(h) + 1 /\ Len(h) \in Nat /\ Len(p) \in Nat
          /\ \A i \in 1..Len(h) : new[i] = h[i]
      BY AppendProperties
    <2> HIDE DEF new
    <2>3. Len(p) <= Len(new) /\ \A i \in 1..Len(p) : p[i] = new[i]
      BY <2>1, <2>2
    <2>4. IsPrefix(p, new)
      BY <2>2, <2>3, PrefixIs
    <2> QED BY <2>4 DEF new
  <1>3. ASSUME NEW p \in Seq(Entry), IsPrefix(p, h) PROVE AllTurns(p) \subseteq AllTurns(h)
    <2>1. Len(p) <= Len(h) /\ \A i \in 1..Len(p) : p[i] = h[i]
      BY <1>3, PrefixIs
    <2>2. \A t : t \in AllTurns(p) => t \in AllTurns(h)
      BY <2>1, TurnsAre
    <2> QED BY <2>2
  <1>4. ASSUME NEW p \in Seq(Entry), AllTurns(p) = {} PROVE p = <<>>
    <2>1. 1 \notin 1..Len(p)
      BY <1>4, TurnsAre
    <2> QED BY <2>1
  <1>5. \A p \in Seq(Entry) : IsPrefix(p, h) => AllTurns(p) \subseteq AllTurns(h)
    BY <1>3
  <1>6. \A p \in Seq(Entry) : AllTurns(p) = {} => p = <<>>
    BY <1>4
  <1>7. \A p \in Seq(Entry), e \in Entry : IsPrefix(p, h) => IsPrefix(p, Append(h, e))
    BY <1>2
  <1> QED BY <1>1, <1>5, <1>6, <1>7

\* What is read from the file.
LEMMA FileRead ==
  /\ HistoryTypeOK => InFile \in Seq(Entry)
  /\ \A h \in Seq(Entry) : h # NoFile
  <1>1. \A h \in Seq(Entry) : h # NoFile
    BY DEF NoFile, Entry
  <1> QED BY <1>1, TurnsOfNothing DEF HistoryTypeOK, InFile

LEMMA SaidIs ==
  ASSUME HistoryTypeOK, turn >= 1, NEW who \in {"user", "nudge", "model"}
  PROVE  Said(who) \in Entry /\ Said(who).turn = turn /\ Said(who).by = who
  BY DEF HistoryTypeOK, Said, Entry

-----------------------------------------------------------------------------
(* What a step may do to the memory, the file and the turns. *)

Speaks(who) ==
    /\ Says(who) /\ UNCHANGED <<file, turn>>
    /\ \/ who = "user" /\ phase = "logged" /\ phase' = "asked"
       \/ who # "user" /\ phase \in {"broken", "recorded", "answered"}

LEMMA HistoryStep ==
  ASSUME [HistoryNext]_historyVars
  PROVE  \/ UNCHANGED <<mem, file>>
         \/ \E who \in {"user", "nudge", "model"} : Speaks(who)
         \/ file' = mem /\ UNCHANGED mem
         \/ file' = NoFile /\ UNCHANGED mem /\ clear = "stopped"
         \/ Edit \/ ClearWipe \/ HistoryRestart
  <1> USE DEF kept, disk, worker, clearing, WorkerGoes, ClearGoes
  <1>1. CASE Send \/ Activate \/ OpenLog \/ Request \/ Stream \/ LogAnswer \/ Decide \/ DropLog \/ Leave
    BY <1>1 DEF Send, Activate, OpenLog, Request, Stream, LogAnswer, Decide, DropLog, Leave
  <1>2. CASE Ask \/ PreservePartial \/ Answer
    BY <1>2 DEF Ask, PreservePartial, Answer, Speaks
  <1>3. CASE Continue
    BY <1>3 DEF Continue, Speaks
  <1>4. CASE EarlySave \/ FinalSave \/ SidePersist
    BY <1>4 DEF EarlySave, EarlySnapshot, FinalSave, SidePersist, Save
  <1>5. CASE ClearDelete
    BY <1>5 DEF ClearDelete, Deleted
  <1>6. CASE Expire \/ UserStop \/ ClearBegin \/ ClearStop \/ ClearLog \/ DiscardRecovery
    BY <1>6 DEF Expire, UserStop, ClearBegin, ClearStop, ClearLog, DiscardRecovery
  <1>7. CASE SideStart \/ SideClaim \/ SideAnswered \/ UNCHANGED historyVars
    BY <1>7 DEF SideStart, SideClaim, SideAnswered, historyVars
  <1> QED
    BY <1>1, <1>2, <1>3, <1>4, <1>5, <1>6, <1>7 DEF HistoryNext, Turn, Clear, Side

\* An edit cuts memory and file alike.
LEMMA EditIs ==
  ASSUME HistoryTypeOK, Edit
  PROVE  /\ mem' \in Seq(Entry) /\ file' = mem' /\ phase \in {"idle", "queued"}
         /\ AllTurns(mem') \subseteq AllTurns(mem) /\ Turns(mem') \subseteq Turns(mem)
         /\ UNCHANGED <<billed, log, worker, halt, epoch, clearing, side, cost>>
  <1>1. mem \in Seq(Entry)
    BY DEF HistoryTypeOK
  <1>2. PICK i \in 1..Len(mem) : mem' = SubSeq(mem, 1, i - 1) /\ file' = SubSeq(mem, 1, i - 1)
    BY DEF Edit, TrimTo
  <1>3. /\ SubSeq(mem, 1, i - 1) \in Seq(Entry)
        /\ AllTurns(SubSeq(mem, 1, i - 1)) \subseteq AllTurns(mem)
        /\ Turns(SubSeq(mem, 1, i - 1)) \subseteq Turns(mem)
    BY <1>1, TurnsOfCut
  <1> QED BY <1>2, <1>3 DEF Edit

\* What stands in the file after a step.
LEMMA FileStep ==
  ASSUME HistoryTypeOK, [HistoryNext]_historyVars
  PROVE  \/ InFile' = InFile
         \/ InFile' = mem /\ UNCHANGED mem
         \/ InFile' = <<>> /\ UNCHANGED mem /\ clear = "stopped"
         \/ Edit /\ InFile' = mem'
  <1>1. mem \in Seq(Entry)
    BY DEF HistoryTypeOK
  <1>2. CASE UNCHANGED file
    BY <1>2 DEF InFile
  <1>3. CASE file' = mem /\ UNCHANGED mem
    BY <1>1, <1>3, FileRead DEF InFile
  <1>4. CASE file' = NoFile /\ UNCHANGED mem /\ clear = "stopped"
    BY <1>4 DEF InFile, NoFile
  <1>5. CASE Edit
    BY <1>5, EditIs, FileRead DEF InFile
  <1>6. CASE ClearWipe \/ HistoryRestart
    BY <1>2, <1>6 DEF ClearWipe, HistoryRestart, disk, kept
  <1>7. ASSUME NEW who, Speaks(who) PROVE UNCHANGED file
    BY <1>7 DEF Speaks
  <1> QED BY <1>2, <1>3, <1>4, <1>5, <1>6, <1>7, HistoryStep

\* The memory after a step.
LEMMA MemoryStep ==
  ASSUME HistoryTypeOK, FreshOK, [HistoryNext]_historyVars
  PROVE  /\ mem' \in Seq(Entry) /\ InFile' \in Seq(Entry) /\ (file' = NoFile \/ file' \in Seq(Entry))
         /\ \/ UNCHANGED mem
            \/ \E who \in {"user", "nudge", "model"} :
                  /\ Speaks(who)
                  /\ AllTurns(mem') = AllTurns(mem) \union {turn}
                  /\ Turns(mem) \subseteq Turns(mem')
                  /\ Turns(mem') \subseteq Turns(mem) \union {turn}
                  /\ who = "user" => turn \in Turns(mem')
                  /\ who # "user" => Turns(mem') = Turns(mem)
                  /\ \A p \in Seq(Entry) : IsPrefix(p, mem) => IsPrefix(p, mem')
            \/ Edit
            \/ ClearWipe /\ mem' = <<>>
            \/ HistoryRestart /\ mem' = InFile
  <1>1. /\ mem \in Seq(Entry) /\ (file = NoFile \/ file \in Seq(Entry))
        /\ InFile \in Seq(Entry) /\ <<>> \in Seq(Entry)
    BY FileRead DEF HistoryTypeOK
  <1>2. ASSUME NEW who \in {"user", "nudge", "model"}, Speaks(who)
        PROVE  /\ mem' \in Seq(Entry)
               /\ AllTurns(mem') = AllTurns(mem) \union {turn}
               /\ Turns(mem) \subseteq Turns(mem')
               /\ Turns(mem') \subseteq Turns(mem) \union {turn}
               /\ who = "user" => turn \in Turns(mem')
               /\ who # "user" => Turns(mem') = Turns(mem)
               /\ \A p \in Seq(Entry) : IsPrefix(p, mem) => IsPrefix(p, mem')
    <2>1. mem' = Append(mem, Said(who)) /\ turn >= 1
      BY <1>2 DEF Speaks, Says, FreshOK
    <2>2. Said(who) \in Entry /\ Said(who).turn = turn /\ Said(who).by = who
      BY <2>1, SaidIs
    <2>3. \A p \in Seq(Entry) : IsPrefix(p, mem) => IsPrefix(p, Append(mem, Said(who)))
      BY <1>1, <2>2, PrefixFacts
    <2> QED BY <1>1, <2>1, <2>2, <2>3, TurnsOfAppend
  <1>3. ClearWipe => mem' = <<>> /\ UNCHANGED file
    BY DEF ClearWipe, MemAfterWipe, disk, kept
  <1>4. HistoryRestart => mem' = InFile /\ UNCHANGED file
    BY DEF HistoryRestart, disk, kept
  <1>5. Edit => mem' \in Seq(Entry) /\ file' = mem'
    BY EditIs
  <1>6. mem' \in Seq(Entry)
    BY <1>1, <1>2, <1>3, <1>4, <1>5, HistoryStep
  <1>7. InFile' \in Seq(Entry)
    BY <1>1, <1>6, FileStep
  <1>8. file' = NoFile \/ file' \in Seq(Entry)
    BY <1>1, <1>3, <1>4, <1>5, HistoryStep DEF Speaks
  <1>9. \/ UNCHANGED mem
        \/ \E who \in {"user", "nudge", "model"} :
              /\ Speaks(who)
              /\ AllTurns(mem') = AllTurns(mem) \union {turn}
              /\ Turns(mem) \subseteq Turns(mem')
              /\ Turns(mem') \subseteq Turns(mem) \union {turn}
              /\ who = "user" => turn \in Turns(mem')
              /\ who # "user" => Turns(mem') = Turns(mem)
              /\ \A p \in Seq(Entry) : IsPrefix(p, mem) => IsPrefix(p, mem')
        \/ Edit
        \/ ClearWipe /\ mem' = <<>>
        \/ HistoryRestart /\ mem' = InFile
    BY <1>2, <1>3, <1>4, HistoryStep, Zenon
  <1> QED BY <1>6, <1>7, <1>8, <1>9, Zenon

-----------------------------------------------------------------------------
(* The invariant, conjunct by conjunct. *)

LEMMA InitHInv == HistoryInit => HInv
  <1> SUFFICES ASSUME HistoryInit PROVE HInv
    OBVIOUS
  <1>1. mem = <<>> /\ file = NoFile /\ InFile = <<>>
    BY DEF HistoryInit, InFile
  <1>2. HistoryTypeOK
    <2>1. mem \in Seq(Entry)
      BY <1>1, TurnsOfNothing
    <2>2. log.turn \in 0..MaxTurns /\ log.answer \in BOOLEAN /\ turn \in 0..MaxTurns
      BY DEF HistoryInit, NoLog
    <2>3. side.at \in {"off", "read", "asking", "answered"} /\ side.cancelled \in BOOLEAN
      BY DEF HistoryInit, NoSide
    <2>4. /\ doomed \subseteq 1..MaxTurns /\ wiped \subseteq 1..MaxTurns
          /\ clears \in 0..MaxClears
          /\ \A charges \in {cost, billed, revived} : charges \subseteq 0..MaxClears
      BY DEF HistoryInit
    <2>5. /\ phase = "idle" /\ ctx = "none" /\ halt = FALSE /\ failed = FALSE /\ epoch = 0
          /\ clear = "off"
      BY DEF HistoryInit
    <2> QED BY <1>1, <2>1, <2>2, <2>3, <2>4, <2>5 DEF HistoryTypeOK
  <1>3. StoppedOK /\ DoomedOK /\ AskedOK /\ UserTurnSurvives
    BY DEF HistoryInit, StoppedOK, DoomedOK, AskedOK, UserTurnSurvives
  <1>4. FreshOK /\ ClearedOK
    BY <1>1, TurnsOfNothing DEF HistoryInit, FreshOK, KeptTurns, ClearedOK, NoLog
  <1>5. FileFollowsMemory
    BY <1>1, TurnsOfNothing, PrefixFacts DEF FileFollowsMemory
  <1>6. SideOK /\ CostOK
    BY DEF HistoryInit, SideOK, CostOK, NoSide
  <1> QED BY <1>2, <1>3, <1>4, <1>5, <1>6 DEF HInv

\* The worker's steps but those that begin a turn.
WorkerSteps ==
    \/ OpenLog \/ Ask \/ EarlySave \/ Request \/ Stream \/ PreservePartial \/ LogAnswer
    \/ Answer \/ Continue \/ Decide \/ DropLog \/ FinalSave

LEMMA WorkerFrame ==
  ASSUME WorkerSteps
  PROVE  /\ UNCHANGED <<turn, ctx, halt, epoch, clearing, side, cost>>
         /\ phase \notin {"idle", "queued"} /\ phase' \notin {"idle", "queued", "active"}
         /\ phase' = "logged" <=> phase = "active"
         /\ phase' = "asked" <=> phase = "logged"
         /\ phase \in {"ended", "complete", "saving"} => phase' \in {"complete", "leaving", "saving"}
         /\ billed' \in {billed, cost}
         /\ \/ log' \in {log, NoLog, AfterAppend}
            \/ phase = "active" /\ log' = [turn |-> turn, answer |-> FALSE]
  <1> USE DEF WorkerGoes, kept, disk, clearing
  <1>1. CASE OpenLog \/ Ask
    BY <1>1 DEF OpenLog, Ask
  <1>2. CASE EarlySave \/ FinalSave
    BY <1>2 DEF EarlySave, FinalSave, Save
  <1>3. CASE Request \/ Stream \/ PreservePartial
    BY <1>3 DEF Request, Stream, PreservePartial
  <1>4. CASE LogAnswer
    BY <1>4 DEF LogAnswer, AfterAppend
  <1>5. CASE Answer \/ Continue \/ Decide
    BY <1>5 DEF Answer, Continue, Decide
  <1>6. CASE DropLog
    BY <1>6 DEF DropLog, NoLog
  <1> QED BY <1>1, <1>2, <1>3, <1>4, <1>5, <1>6 DEF WorkerSteps

LEMMA NextSplit ==
  ASSUME [HistoryNext]_historyVars
  PROVE  \/ Send \/ Activate \/ WorkerSteps \/ Leave \/ Expire \/ UserStop \/ Clear \/ Edit
         \/ DiscardRecovery \/ Side \/ HistoryRestart \/ UNCHANGED historyVars
  BY DEF HistoryNext, Turn, WorkerSteps

\* Clear, Stop, the context of the turn and the bounds of the clears.
LEMMA StoppedStep == HInv /\ [HistoryNext]_historyVars => StoppedOK' /\ DoomedOK'
  <1> SUFFICES ASSUME HInv, [HistoryNext]_historyVars PROVE StoppedOK' /\ DoomedOK'
    OBVIOUS
  <1> USE DEF StoppedOK, DoomedOK, clearing, worker, WorkerGoes, ClearGoes, Stops, AfterStop
  <1>1. StoppedOK /\ DoomedOK
    BY DEF HInv
  <1>2. CASE Send \/ Activate \/ Leave
    BY <1>1, <1>2 DEF Send, Begins, Activate, Leave
  <1>3. CASE WorkerSteps
    BY <1>1, <1>3, WorkerFrame
  <1>4. CASE Expire \/ UserStop
    BY <1>1, <1>4 DEF Expire, UserStop
  <1>5. CASE Edit \/ DiscardRecovery
    BY <1>1, <1>5 DEF Edit, DiscardRecovery
  <1>6. CASE ClearBegin \/ ClearStop
    BY <1>1, <1>6 DEF ClearBegin, ClearStop
  <1>7. CASE ClearDelete \/ ClearWipe \/ ClearLog
    BY <1>1, <1>7 DEF ClearDelete, ClearWipe, ClearLog
  <1>8. CASE Side
    BY <1>1, <1>8 DEF Side, SideStart, SideClaim, SideAnswered, SidePersist
  <1>9. CASE HistoryRestart
    BY <1>9 DEF HistoryRestart
  <1>10. CASE UNCHANGED historyVars
    BY <1>1, <1>10 DEF historyVars
  <1> QED
    BY <1>2, <1>3, <1>4, <1>5, <1>6, <1>7, <1>8, <1>9, <1>10, NextSplit DEF Clear

\* What a step may do to the books of the clears and of the latest turn.
LEMMA BooksStep ==
  ASSUME HInv, [HistoryNext]_historyVars
  PROVE  /\ \/ UNCHANGED <<doomed, wiped>>
            \/ ClearWipe /\ doomed' = AllTurns(mem) /\ UNCHANGED wiped
            \/ ClearLog /\ wiped' = wiped \union doomed /\ doomed' = {}
            \/ HistoryRestart /\ doomed' = {} /\ wiped' = wiped \ AllTurns(InFile)
         /\ \/ UNCHANGED turn
            \/ /\ turn' = turn + 1 /\ turn < MaxTurns /\ phase' = "queued"
               /\ UNCHANGED <<mem, file, doomed, wiped, log>>
  <1> USE DEF clearing, worker, WorkerGoes, ClearGoes, disk, kept
  <1>1. CASE Send \/ Leave
    BY <1>1 DEF Send, Begins, Leave
  <1>2. CASE WorkerSteps
    BY <1>2, WorkerFrame
  <1>3. CASE Activate \/ Expire \/ UserStop \/ DiscardRecovery
    BY <1>3 DEF Activate, Expire, UserStop, DiscardRecovery
  <1>4. CASE Edit
    BY <1>4 DEF Edit
  <1>5. CASE ClearBegin \/ ClearStop \/ ClearDelete
    BY <1>5 DEF ClearBegin, ClearStop, ClearDelete
  <1>6. CASE ClearWipe \/ ClearLog
    BY <1>6 DEF ClearWipe, ClearLog
  <1>7. CASE Side
    BY <1>7 DEF Side, SideStart, SideClaim, SideAnswered, SidePersist
  <1>8. CASE HistoryRestart
    BY <1>8 DEF HistoryRestart
  <1>9. CASE UNCHANGED historyVars
    BY <1>9 DEF historyVars
  <1> QED
    BY <1>1, <1>2, <1>3, <1>4, <1>5, <1>6, <1>7, <1>8, <1>9, NextSplit DEF Clear

\* Nothing is kept of a turn that has not begun.
LEMMA FreshStep == HInv /\ [HistoryNext]_historyVars => FreshOK'
  <1> SUFFICES ASSUME HInv, [HistoryNext]_historyVars PROVE FreshOK'
    OBVIOUS
  <1>1. /\ HistoryTypeOK /\ FreshOK /\ mem \in Seq(Entry) /\ InFile \in Seq(Entry)
        /\ turn \in Nat /\ turn' \in Nat /\ turn <= turn'
    BY BooksStep, FileRead DEF HInv, HistoryTypeOK
  <1>2. AllTurns(mem') \subseteq AllTurns(mem) \union AllTurns(InFile) \union {turn}
    BY <1>1, MemoryStep, EditIs, TurnsOfNothing
  <1>3. (\E who \in {"user", "nudge", "model"} : Speaks(who)) \/ AllTurns(mem') \subseteq KeptTurns
    BY <1>1, MemoryStep, EditIs, TurnsOfNothing DEF KeptTurns
  <1>4. /\ AllTurns(InFile') \subseteq AllTurns(mem) \union AllTurns(InFile) \union AllTurns(mem')
        /\ UNCHANGED mem \/ Edit \/ AllTurns(InFile') \subseteq AllTurns(InFile)
    BY <1>1, FileStep, TurnsOfNothing
  <1>5. doomed' \union wiped' \subseteq KeptTurns
    BY BooksStep DEF KeptTurns
  <1>6. phase' # "idle" => turn' >= 1
    <2>1. CASE turn' = turn + 1
      BY <1>1, <2>1
    <2>2. CASE UNCHANGED turn /\ phase # "idle"
      BY <1>1, <2>2 DEF FreshOK
    <2>3. CASE UNCHANGED turn /\ phase = "idle"
      <3> USE DEF worker, WorkerGoes, clearing
      <3>1. CASE Send \/ Activate \/ Leave
        BY <1>1, <2>3, <3>1 DEF Send, Begins, Activate, Leave
      <3>2. CASE WorkerSteps
        BY <2>3, <3>2, WorkerFrame
      <3>3. CASE Expire \/ UserStop \/ DiscardRecovery \/ Edit
        BY <2>3, <3>3 DEF Expire, UserStop, DiscardRecovery, Edit
      <3>4. CASE Clear
        BY <2>3, <3>4 DEF Clear, ClearBegin, ClearStop, ClearDelete, ClearWipe, ClearLog
      <3>5. CASE Side
        BY <2>3, <3>5 DEF Side, SideStart, SideClaim, SideAnswered, SidePersist
      <3>6. CASE HistoryRestart \/ UNCHANGED historyVars
        BY <2>3, <3>6 DEF HistoryRestart, historyVars
      <3> QED BY <3>1, <3>2, <3>3, <3>4, <3>5, <3>6, NextSplit
    <2> QED BY <2>1, <2>2, <2>3, BooksStep
  <1>7. KeptTurns' \subseteq 1..turn'
    <2>1. KeptTurns \subseteq 1..turn
      BY <1>1 DEF FreshOK
    <2>2. 1..turn \subseteq 1..turn'
      BY <1>1
    <2>3. AllTurns(mem') \subseteq 1..turn
      <3>1. CASE \E who \in {"user", "nudge", "model"} : Speaks(who)
        <4>1. turn \in 1..turn
          BY <1>1, <3>1 DEF Speaks, FreshOK
        <4> QED BY <1>2, <2>1, <4>1 DEF KeptTurns
      <3> QED BY <1>3, <2>1, <3>1
    <2>4. AllTurns(InFile') \subseteq 1..turn
      BY <1>4, <2>1, <2>3 DEF KeptTurns
    <2> QED BY <1>5, <2>1, <2>2, <2>3, <2>4 DEF KeptTurns
  <1>8. ASSUME phase' \in {"queued", "active", "logged"} PROVE turn' \notin KeptTurns'
    <2>1. CASE turn' = turn + 1 /\ UNCHANGED <<mem, file, doomed, wiped>>
      <3>1. KeptTurns' = KeptTurns
        BY <2>1 DEF KeptTurns, InFile
      <3> QED BY <1>1, <2>1, <3>1 DEF FreshOK
    <2>2. CASE UNCHANGED turn
      <3>1. phase \in {"queued", "active", "logged"}
        <4> USE DEF worker, WorkerGoes, clearing
        <4>1. CASE Send \/ Activate \/ Leave
          BY <1>1, <1>8, <2>2, <4>1 DEF Send, Begins, Activate, Leave
        <4>2. CASE WorkerSteps
          BY <1>8, <4>2, WorkerFrame
        <4>3. CASE Expire \/ UserStop \/ DiscardRecovery \/ Edit
          BY <1>8, <4>3 DEF Expire, UserStop, DiscardRecovery, Edit
        <4>4. CASE Clear
          BY <1>8, <4>4 DEF Clear, ClearBegin, ClearStop, ClearDelete, ClearWipe, ClearLog
        <4>5. CASE Side
          BY <1>8, <4>5 DEF Side, SideStart, SideClaim, SideAnswered, SidePersist
        <4>6. CASE HistoryRestart \/ UNCHANGED historyVars
          BY <1>8, <4>6 DEF HistoryRestart, historyVars
        <4> QED BY <4>1, <4>2, <4>3, <4>4, <4>5, <4>6, NextSplit
      <3>2. turn \notin KeptTurns
        BY <1>1, <3>1 DEF FreshOK
      <3>3. ~\E who \in {"user", "nudge", "model"} : Speaks(who)
        <4>1. ASSUME NEW who \in {"user", "nudge", "model"}, Speaks(who) PROVE FALSE
          BY <1>8, <3>1, <4>1 DEF Speaks
        <4> QED BY <4>1
      <3>4. AllTurns(mem') \subseteq KeptTurns
        BY <1>3, <3>3
      <3>5. AllTurns(InFile') \subseteq KeptTurns
        BY <1>4, <3>4 DEF KeptTurns
      <3> QED BY <1>5, <2>2, <3>2, <3>4, <3>5 DEF KeptTurns
    <2> QED BY <2>1, <2>2, BooksStep
  <1> QED BY <1>6, <1>7, <1>8 DEF FreshOK

\* A turn that has asked was asked before, or asks now.
LEMMA AskedFrom ==
  ASSUME HInv, [HistoryNext]_historyVars, phase' \in Asked, ctx' = "live"
  PROVE  /\ UNCHANGED turn /\ ctx = "live" /\ ~Edit /\ ~HistoryRestart
         /\ phase \in Asked \/ (Ask /\ phase' = "asked")
         /\ EarlySave \/ (UNCHANGED failed /\ (phase = "asked" => phase' = "asked"))
  <1> USE DEF worker, WorkerGoes, clearing, Asked, Stops, AfterStop
  <1>1. CASE Send \/ Activate \/ Leave \/ HistoryRestart \/ Edit
    <2>1. ~(Send \/ Activate \/ Leave \/ HistoryRestart)
      BY DEF Send, Begins, Activate, Leave, HistoryRestart
    <2>2. ~Edit
      BY DEF Edit
    <2> QED BY <1>1, <2>1, <2>2
  <1>2. ~Edit /\ ~HistoryRestart
    BY DEF Edit, HistoryRestart
  <1>3. CASE OpenLog \/ Ask
    BY <1>2, <1>3 DEF OpenLog, Ask
  <1>4. CASE EarlySave
    BY <1>2, <1>4, WorkerFrame DEF EarlySave, WorkerSteps
  <1>5. CASE Request \/ Stream \/ PreservePartial \/ LogAnswer
    BY <1>2, <1>5 DEF Request, Stream, PreservePartial, LogAnswer
  <1>6. CASE Answer \/ Continue \/ Decide \/ DropLog \/ FinalSave
    BY <1>2, <1>6 DEF Answer, Continue, Decide, DropLog, FinalSave
  <1>7. CASE Expire \/ UserStop \/ DiscardRecovery
    BY <1>2, <1>7 DEF Expire, UserStop, DiscardRecovery
  <1>8. CASE Clear
    BY <1>2, <1>8 DEF Clear, ClearBegin, ClearStop, ClearDelete, ClearWipe, ClearLog
  <1>9. CASE Side
    BY <1>2, <1>9 DEF Side, SideStart, SideClaim, SideAnswered, SidePersist
  <1>10. CASE UNCHANGED historyVars
    BY <1>2, <1>10 DEF historyVars
  <1> QED
    BY <1>1, <1>3, <1>4, <1>5, <1>6, <1>7, <1>8, <1>9, <1>10, NextSplit DEF WorkerSteps

LEMMA AskedStep == HInv /\ [HistoryNext]_historyVars => AskedOK' /\ UserTurnSurvives'
  <1> SUFFICES ASSUME HInv, [HistoryNext]_historyVars, phase' \in Asked, ctx' = "live"
               PROVE  /\ turn' \in Turns(mem')
                      /\ phase' # "asked" /\ ~failed' => turn' \in Turns(InFile')
    BY DEF AskedOK, UserTurnSurvives, Asked
  <1>1. /\ HistoryTypeOK /\ FreshOK /\ AskedOK /\ UserTurnSurvives /\ StoppedOK
    BY DEF HInv
  <1>2. /\ UNCHANGED turn /\ ctx = "live" /\ ~Edit /\ ~HistoryRestart
        /\ phase \in Asked \/ (Ask /\ phase' = "asked")
        /\ EarlySave \/ (UNCHANGED failed /\ (phase = "asked" => phase' = "asked"))
    BY AskedFrom
  <1>3. clear \notin {"stopped", "deleted", "wiped"} /\ ~ClearWipe
    BY <1>1, <1>2 DEF StoppedOK, ClearWipe
  <1>4. turn \in Turns(mem')
    <2>1. CASE phase \in Asked
      <3>1. turn \in Turns(mem)
        BY <1>1, <1>2, <2>1 DEF AskedOK
      <3>2. Turns(mem) \subseteq Turns(mem')
        BY <1>1, <1>2, <1>3, MemoryStep
      <3> QED BY <3>1, <3>2
    <2>2. CASE Ask
      <3>1. turn >= 1 /\ mem \in Seq(Entry)
        BY <1>1, <2>2 DEF Ask, FreshOK, HistoryTypeOK
      <3>2. Said("user") \in Entry /\ Said("user").turn = turn /\ Said("user").by = "user"
        BY <1>1, <3>1, SaidIs
      <3>3. turn \in Turns(Append(mem, Said("user")))
        BY <3>1, <3>2, TurnsOfAppend
      <3> QED BY <2>2, <3>3 DEF Ask, Says
    <2> QED BY <1>2, <2>1, <2>2
  <1>5. ASSUME phase' # "asked", ~failed' PROVE turn \in Turns(InFile')
    <2>1. phase \in Asked /\ turn \in Turns(mem)
      BY <1>1, <1>2, <1>5 DEF AskedOK
    <2>2. CASE EarlySave
      <3>1. file' = mem
        BY <1>5, <2>2 DEF EarlySave, EarlySnapshot
      <3>2. InFile' = mem
        BY <1>1, <3>1, FileRead DEF InFile, HistoryTypeOK
      <3> QED BY <2>1, <3>2
    <2>3. CASE ~EarlySave
      <3>1. turn \in Turns(InFile)
        BY <1>1, <1>2, <1>5, <2>1, <2>3 DEF UserTurnSurvives, Asked
      <3> QED BY <1>1, <1>2, <1>3, <2>1, <3>1, FileStep
    <2> QED BY <2>2, <2>3
  <1> QED BY <1>2, <1>4, <1>5

\* A step that saves saves what the memory has.
LEMMA FollowStep == HInv /\ [HistoryNext]_historyVars => FileFollowsMemory'
  <1> SUFFICES ASSUME HInv, [HistoryNext]_historyVars, AllTurns(InFile') \intersect (doomed' \union wiped') = {}
               PROVE  IsPrefix(InFile', mem')
    BY DEF FileFollowsMemory
  <1>1. /\ HistoryTypeOK /\ FreshOK /\ FileFollowsMemory /\ DoomedOK
        /\ mem \in Seq(Entry) /\ InFile \in Seq(Entry) /\ mem' \in Seq(Entry)
    BY FileRead, MemoryStep DEF HInv, HistoryTypeOK
  <1>2. CASE InFile' = mem /\ UNCHANGED mem
    BY <1>1, <1>2, PrefixFacts
  <1>3. CASE InFile' = <<>>
    BY <1>1, <1>3, PrefixFacts
  <1>4. CASE Edit /\ InFile' = mem'
    BY <1>1, <1>4, PrefixFacts
  <1>5. CASE InFile' = InFile /\ HistoryRestart
    <2>1. mem' = InFile
      BY <1>5 DEF HistoryRestart
    <2> QED BY <1>1, <1>5, <2>1, PrefixFacts
  <1>6. CASE InFile' = InFile /\ ClearWipe
    <2>1. doomed' = AllTurns(mem) /\ UNCHANGED wiped /\ mem' = <<>> /\ doomed = {}
      BY <1>1, <1>6 DEF ClearWipe, MemAfterWipe, DoomedOK
    <2>2. AllTurns(InFile) \intersect (AllTurns(mem) \union wiped) = {}
      BY <1>6, <2>1
    <2>3. IsPrefix(InFile, mem)
      BY <1>1, <2>1, <2>2 DEF FileFollowsMemory
    <2>4. AllTurns(InFile) \subseteq AllTurns(mem)
      BY <1>1, <2>3, PrefixFacts
    <2>5. AllTurns(InFile) = {}
      BY <2>2, <2>4
    <2>6. InFile = <<>>
      BY <1>1, <2>5, PrefixFacts
    <2> QED BY <1>3, <1>6, <2>6
  <1>7. CASE InFile' = InFile /\ ~HistoryRestart /\ ~ClearWipe /\ ~Edit
    <2>1. AllTurns(InFile) \intersect (doomed \union wiped) = {}
      BY <1>7, BooksStep
    <2>2. IsPrefix(InFile, mem)
      BY <1>1, <2>1 DEF FileFollowsMemory
    <2> QED BY <1>1, <1>7, <2>2, MemoryStep
  <1>8. CASE Edit
    <2>1. InFile' = mem'
      BY <1>1, <1>8, EditIs, FileRead DEF InFile
    <2> QED BY <1>4, <1>8, <2>1
  <1> QED BY <1>1, <1>2, <1>3, <1>4, <1>5, <1>6, <1>7, <1>8, FileStep

\* What the log is after a step.
LEMMA LogStep ==
  ASSUME [HistoryNext]_historyVars
  PROVE  \/ UNCHANGED log /\ ~ClearLog
         \/ log' = NoLog
         \/ log' = AfterAppend /\ UNCHANGED wiped
         \/ phase = "active" /\ log' = [turn |-> turn, answer |-> FALSE] /\ UNCHANGED <<turn, wiped>>
  <1> USE DEF disk, worker, WorkerGoes, clearing, ClearGoes
  <1>0. ClearLog => log' = NoLog
    BY DEF ClearLog
  <1>1. CASE Send \/ Activate \/ Leave
    BY <1>0, <1>1 DEF Send, Activate, Leave
  <1>2. CASE WorkerSteps
    BY <1>0, <1>2, WorkerFrame
  <1>3. CASE Expire \/ UserStop \/ DiscardRecovery \/ Edit
    BY <1>0, <1>3 DEF Expire, UserStop, DiscardRecovery, Edit
  <1>4. CASE Clear
    BY <1>0, <1>4 DEF Clear, ClearBegin, ClearStop, ClearDelete, ClearWipe
  <1>5. CASE Side
    BY <1>0, <1>5 DEF Side, SideStart, SideClaim, SideAnswered, SidePersist
  <1>6. CASE HistoryRestart \/ UNCHANGED historyVars
    BY <1>0, <1>6 DEF HistoryRestart, historyVars
  <1> QED BY <1>1, <1>2, <1>3, <1>4, <1>5, <1>6, NextSplit

\* What was cleared stays out of the memory and of the log.
LEMMA ClearedStep == HInv /\ [HistoryNext]_historyVars => ClearedOK'
  <1> SUFFICES ASSUME HInv, [HistoryNext]_historyVars PROVE ClearedOK'
    OBVIOUS
  <1>1. /\ HistoryTypeOK /\ FreshOK /\ ClearedOK /\ mem \in Seq(Entry) /\ InFile \in Seq(Entry)
        /\ turn \in 0..MaxTurns
    BY FileRead DEF HInv, HistoryTypeOK
  <1>2. Turns(mem') \intersect (doomed' \union wiped') = {}
    <2>1. CASE ClearWipe
      <3>1. mem' = <<>>
        BY <2>1 DEF ClearWipe, MemAfterWipe
      <3> QED BY <3>1, TurnsOfNothing
    <2>2. CASE HistoryRestart
      <3>1. mem' = InFile /\ doomed' = {} /\ wiped' = wiped \ AllTurns(InFile)
        BY <2>2 DEF HistoryRestart
      <3>2. Turns(InFile) \subseteq AllTurns(InFile)
        BY <1>1, TurnsTyped
      <3> QED BY <3>1, <3>2
    <2>3. CASE ~ClearWipe /\ ~HistoryRestart
      <3>1. doomed' \union wiped' = doomed \union wiped
        BY <2>3, BooksStep
      <3>2. CASE UNCHANGED mem \/ Edit
        <4>1. Turns(mem') \subseteq Turns(mem)
          BY <1>1, <3>2, EditIs
        <4> QED BY <1>1, <3>1, <4>1 DEF ClearedOK
      <3>3. ASSUME NEW who \in {"user", "nudge", "model"}, Speaks(who),
                   Turns(mem') \subseteq Turns(mem) \union {turn},
                   who # "user" => Turns(mem') = Turns(mem)
            PROVE  Turns(mem') \intersect (doomed' \union wiped') = {}
        <4>1. CASE who = "user"
          <5>1. turn \notin KeptTurns
            BY <1>1, <3>3, <4>1 DEF FreshOK, Speaks
          <5> QED BY <1>1, <3>1, <3>3, <5>1 DEF ClearedOK, KeptTurns
        <4>2. CASE who # "user"
          BY <1>1, <3>1, <3>3, <4>2 DEF ClearedOK
        <4> QED BY <4>1, <4>2
      <3> QED BY <1>1, <2>3, <3>2, <3>3, MemoryStep
    <2> QED BY <2>1, <2>2, <2>3
  <1>3. log' \in [turn : 0..MaxTurns, answer : BOOLEAN] /\ log'.turn \notin wiped'
    <2>0. log \in [turn : 0..MaxTurns, answer : BOOLEAN] /\ log.turn \notin wiped
      BY <1>1 DEF ClearedOK
    <2>1. CASE UNCHANGED log /\ ~ClearLog
      <3>1. wiped' \subseteq wiped
        BY <2>1, BooksStep
      <3> QED BY <2>0, <2>1, <3>1
    <2>2. CASE log' = NoLog
      <3>1. 0 \notin wiped'
        <4>1. KeptTurns \subseteq 1..turn /\ wiped' \subseteq KeptTurns
          BY <1>1, BooksStep DEF FreshOK, KeptTurns
        <4> QED BY <4>1
      <3>2. log' = [turn |-> 0, answer |-> FALSE]
        BY <2>2 DEF NoLog
      <3> QED BY <3>1, <3>2
    <2>3. CASE log' = AfterAppend /\ UNCHANGED wiped
      <3>1. CASE log = NoLog
        BY <2>0, <2>3, <3>1 DEF AfterAppend
      <3>2. CASE log # NoLog
        <4>1. log' = [log EXCEPT !.answer = TRUE]
          BY <2>3, <3>2 DEF AfterAppend
        <4> QED BY <2>0, <2>3, <4>1
      <3> QED BY <3>1, <3>2
    <2>4. CASE phase = "active" /\ log' = [turn |-> turn, answer |-> FALSE] /\ UNCHANGED <<turn, wiped>>
      <3>1. turn \notin wiped
        BY <1>1, <2>4 DEF FreshOK, KeptTurns
      <3> QED BY <1>1, <2>4, <3>1
    <2> QED BY <2>1, <2>2, <2>3, <2>4, LogStep
  <1> QED BY <1>2, <1>3 DEF ClearedOK

\* No save works from a transcript older than the latest clear.
LEMMA StaleStep ==
  HInv /\ [HistoryNext]_historyVars => wiped \intersect Turns(InFile') \subseteq Turns(InFile)
  <1> SUFFICES ASSUME HInv, [HistoryNext]_historyVars
               PROVE  wiped \intersect Turns(InFile') \subseteq Turns(InFile)
    OBVIOUS
  <1>1. HistoryTypeOK /\ ClearedOK
    BY DEF HInv
  <1>2. Turns(InFile') = Turns(InFile) \/ Turns(InFile') \subseteq Turns(mem) \/ Turns(InFile') = {}
    BY <1>1, FileStep, EditIs, TurnsOfNothing
  <1> QED BY <1>1, <1>2 DEF ClearedOK

-----------------------------------------------------------------------------
(* Side questions and what they cost. *)

LEMMA SideFrame ==
  ASSUME Send \/ Activate \/ Leave \/ WorkerSteps \/ Expire \/ UserStop \/ DiscardRecovery \/ Edit
         \/ ClearStop \/ ClearDelete \/ ClearLog \/ UNCHANGED historyVars
  PROVE  /\ UNCHANGED <<side, epoch, clears, cost, revived>>
         /\ billed' \in {billed, cost, {}}
  <1> USE DEF clearing, ClearGoes, disk, kept
  <1>1. CASE Send \/ Activate \/ Leave \/ Expire \/ UserStop
    BY <1>1 DEF Send, Activate, Leave, Expire, UserStop
  <1>2. CASE WorkerSteps
    BY <1>2, WorkerFrame
  <1>3. CASE DiscardRecovery \/ Edit
    BY <1>3 DEF DiscardRecovery, Edit
  <1>4. CASE ClearStop \/ ClearDelete \/ ClearLog
    BY <1>4 DEF ClearStop, ClearDelete, Deleted, ClearLog
  <1>5. CASE UNCHANGED historyVars
    BY <1>5 DEF historyVars
  <1> QED BY <1>1, <1>2, <1>3, <1>4, <1>5

\* The epoch moves whenever a clear begins and whenever it empties the memory.
LEMMA SideStep == HInv /\ [HistoryNext]_historyVars => SideOK' /\ CostOK'
  <1> SUFFICES ASSUME HInv, [HistoryNext]_historyVars PROVE SideOK' /\ CostOK'
    OBVIOUS
  <1>1. SideOK /\ CostOK /\ epoch \in Nat /\ clears \in Nat
    BY DEF HInv, HistoryTypeOK
  <1> USE DEF SideOK, CostOK, clearing, ClearGoes, disk, kept
  <1>2. CASE Send \/ Activate \/ Leave \/ WorkerSteps \/ Expire \/ UserStop \/ DiscardRecovery \/ Edit
             \/ ClearStop \/ ClearDelete \/ ClearLog \/ UNCHANGED historyVars
    BY <1>1, <1>2, SideFrame
  <1>3. CASE ClearBegin
    <2>1. epoch' = epoch + 1 /\ UNCHANGED <<clears, cost, billed, revived>>
      BY <1>3 DEF ClearBegin
    <2>2. \E b \in BOOLEAN : side' = [side EXCEPT !.cancelled = b]
      <3>1. side.cancelled \in BOOLEAN
        BY <1>1
      <3> QED BY <1>3, <3>1 DEF ClearBegin
    <2> QED BY <1>1, <2>1, <2>2
  <1>4. CASE ClearWipe
    <2>1. epoch' = epoch + 1 /\ clears' = clears + 1 /\ cost' = {} /\ UNCHANGED <<side, billed>>
      BY <1>4 DEF ClearWipe, EpochAfterWipe
    <2> QED BY <1>1, <2>1
  <1>5. CASE SideStart \/ SideClaim \/ SideAnswered
    <2>1. UNCHANGED <<epoch, clears, cost, billed, revived>>
      BY <1>5 DEF SideStart, SideClaim, SideAnswered
    <2>2. CASE SideStart
      BY <1>1, <2>1, <2>2 DEF SideStart
    <2>3. CASE SideClaim \/ SideAnswered
      <3>1. \/ side.at # "off" /\ \E p \in {"asking", "answered"} : side' = [side EXCEPT !.at = p]
            \/ side' = NoSide
        BY <2>3 DEF SideClaim, SideAnswered
      <3>2. SideOK'
        <4>1. ASSUME NEW p \in {"asking", "answered"}, side.at # "off", side' = [side EXCEPT !.at = p]
              PROVE  SideOK'
          <5>1. /\ side' \in [at : {"off", "read", "asking", "answered"}, epoch : Nat, clears : Nat,
                              cancelled : BOOLEAN]
                /\ side'.epoch = side.epoch /\ side'.clears = side.clears
            BY <1>1, <4>1
          <5> QED BY <1>1, <2>1, <4>1, <5>1
        <4>2. CASE side' = NoSide
          BY <4>2 DEF NoSide
        <4> QED BY <3>1, <4>1, <4>2
      <3>3. CostOK'
        BY <1>1, <2>1
      <3> QED BY <3>2, <3>3
    <2> QED BY <1>5, <2>2, <2>3
  <1>6. CASE SidePersist
    <2>1. side' = NoSide /\ side.at = "answered" /\ UNCHANGED <<epoch, clears, revived>>
      BY <1>6 DEF SidePersist
    <2>2. CASE side.epoch = epoch
      <3>1. cost' = cost \union {side.clears} /\ billed' \in {billed, cost'} /\ side.clears = clears
        BY <1>1, <1>6, <2>1, <2>2 DEF SidePersist, EpochMatches, Save
      <3> QED BY <1>1, <2>1, <3>1 DEF NoSide
    <2>3. CASE side.epoch # epoch
      <3>1. UNCHANGED <<cost, billed>>
        BY <1>6, <2>3 DEF SidePersist, EpochMatches
      <3> QED BY <1>1, <2>1, <3>1 DEF NoSide
    <2> QED BY <2>2, <2>3
  <1>7. CASE HistoryRestart
    <2>1. /\ side' = NoSide /\ epoch' = 0 /\ UNCHANGED <<clears, billed>>
          /\ cost' = billed /\ revived' = {n \in billed : n < clears}
      BY <1>7 DEF HistoryRestart
    <2>2. \A n \in cost' \ revived' : n = clears
      BY <1>1, <2>1
    <2> QED BY <1>1, <2>1, <2>2 DEF NoSide
  <1> QED BY <1>2, <1>3, <1>4, <1>5, <1>6, <1>7, NextSplit DEF Clear, Side

-----------------------------------------------------------------------------
(* The types, and what follows. *)

LEMMA PhaseStep ==
  ASSUME HInv, [HistoryNext]_historyVars
  PROVE  /\ phase' \in {"idle", "queued", "active", "logged", "asked", "loop", "stream",
                     "broken", "got", "recorded", "answered", "ended", "complete",
                     "saving", "leaving"}
         /\ ctx' \in {"none", "live", "expired", "canceled"} /\ failed' \in BOOLEAN
         /\ halt' \in BOOLEAN /\ clear' \in {"off", "begun", "stopped", "deleted", "wiped"}
  <1> DEFINE Typed(p, x, f, h, c) ==
        /\ p \in {"idle", "queued", "active", "logged", "asked", "loop", "stream",
                  "broken", "got", "recorded", "answered", "ended", "complete",
                  "saving", "leaving"}
        /\ x \in {"none", "live", "expired", "canceled"} /\ f \in BOOLEAN
        /\ h \in BOOLEAN /\ c \in {"off", "begun", "stopped", "deleted", "wiped"}
  <1>1. Typed(phase, ctx, failed, halt, clear)
    BY DEF HInv, HistoryTypeOK
  <1> USE DEF worker, WorkerGoes, clearing, ClearGoes, Stops, AfterStop
  <1>2. CASE Send \/ Activate \/ Leave
    BY <1>1, <1>2 DEF Send, Begins, Activate, Leave
  <1>3. CASE OpenLog \/ Ask \/ EarlySave \/ Request \/ Stream \/ PreservePartial
    BY <1>1, <1>3 DEF OpenLog, Ask, EarlySave, Request, Stream, PreservePartial
  <1>4. CASE LogAnswer \/ Answer \/ Continue \/ Decide \/ DropLog \/ FinalSave
    BY <1>1, <1>4 DEF LogAnswer, Answer, Continue, Decide, DropLog, FinalSave
  <1>5. CASE Expire \/ UserStop \/ DiscardRecovery \/ Edit
    BY <1>1, <1>5 DEF Expire, UserStop, DiscardRecovery, Edit
  <1>6. CASE Clear
    BY <1>1, <1>6 DEF Clear, ClearBegin, ClearStop, ClearDelete, ClearWipe, ClearLog
  <1>7. CASE Side
    BY <1>1, <1>7 DEF Side, SideStart, SideClaim, SideAnswered, SidePersist
  <1>8. CASE HistoryRestart \/ UNCHANGED historyVars
    BY <1>1, <1>8 DEF HistoryRestart, historyVars
  <1>9. Typed(phase', ctx', failed', halt', clear')
    BY <1>2, <1>3, <1>4, <1>5, <1>6, <1>7, <1>8, NextSplit DEF WorkerSteps
  <1> QED BY <1>9

\* The counters of the clears.
LEMMA CountStep ==
  ASSUME HInv, [HistoryNext]_historyVars
  PROVE  epoch' \in Nat /\ clears' \in 0..MaxClears /\ revived' \subseteq 0..MaxClears
  <1>1. /\ epoch \in Nat /\ clears \in 0..MaxClears /\ revived \subseteq 0..MaxClears
        /\ billed \subseteq 0..clears /\ (clear = "deleted" => clears < MaxClears)
    BY DEF HInv, HistoryTypeOK, CostOK, DoomedOK
  <1>2. CASE UNCHANGED <<epoch, clears, revived>>
    BY <1>1, <1>2
  <1>3. CASE ClearBegin
    BY <1>1, <1>3 DEF ClearBegin, ClearGoes
  <1>6. CASE ClearWipe
    <2>1. /\ epoch' = epoch + 1 /\ clears' = clears + 1 /\ clears < MaxClears
          /\ UNCHANGED revived
      BY <1>1, <1>6 DEF ClearWipe, EpochAfterWipe
    <2> QED BY <1>1, <2>1
  <1>4. CASE HistoryRestart
    <2>1. epoch' = 0 /\ UNCHANGED clears /\ revived' = {n \in billed : n < clears}
      BY <1>4 DEF HistoryRestart
    <2>2. 0..clears \subseteq 0..MaxClears
      BY <1>1
    <2> QED BY <1>1, <2>1, <2>2
  <1>5. CASE Side
    BY <1>2, <1>5 DEF Side, SideStart, SideClaim, SideAnswered, SidePersist, clearing
  <1> QED BY <1>2, <1>3, <1>4, <1>5, <1>6, SideFrame, NextSplit DEF Clear

LEMMA TypeStep == HInv /\ [HistoryNext]_historyVars => HistoryTypeOK'
  <1> SUFFICES ASSUME HInv, [HistoryNext]_historyVars PROVE HistoryTypeOK'
    OBVIOUS
  <1>1. HistoryTypeOK /\ FreshOK /\ mem \in Seq(Entry) /\ turn \in 0..MaxTurns
    BY DEF HInv, HistoryTypeOK
  <1>2. mem' \in Seq(Entry) /\ (file' = NoFile \/ file' \in Seq(Entry))
    BY <1>1, MemoryStep
  <1>3. turn' \in 0..MaxTurns
    BY <1>1, BooksStep
  <1>4. log'.turn \in 0..MaxTurns /\ log'.answer \in BOOLEAN
    BY ClearedStep DEF ClearedOK
  <1>5. doomed' \subseteq 1..MaxTurns /\ wiped' \subseteq 1..MaxTurns
    <2>1. KeptTurns' \subseteq 1..turn'
      BY FreshStep DEF FreshOK
    <2>2. 1..turn' \subseteq 1..MaxTurns
      BY <1>3
    <2> QED BY <2>1, <2>2 DEF KeptTurns
  <1>6. side'.at \in {"off", "read", "asking", "answered"} /\ side'.cancelled \in BOOLEAN
    BY SideStep DEF SideOK
  <1>7. epoch' \in Nat /\ clears' \in 0..MaxClears /\ revived' \subseteq 0..MaxClears
    BY CountStep
  <1>8. cost' \subseteq 0..MaxClears /\ billed' \subseteq 0..MaxClears
    <2>1. 0..clears' \subseteq 0..MaxClears
      BY <1>7
    <2> QED BY <2>1, SideStep DEF CostOK
  <1> QED BY <1>2, <1>3, <1>4, <1>5, <1>6, <1>7, <1>8, PhaseStep DEF HistoryTypeOK

\* The inductive invariant: what each step of a turn, a clear, an edit and a side
\* question knows of memory, file and log.
THEOREM HistoryInvariant == HistorySpec => []HInv
  <1>1. HInv /\ [HistoryNext]_historyVars => HInv'
    BY TypeStep, StoppedStep, FreshStep, AskedStep, FollowStep, ClearedStep, SideStep DEF HInv
  <1> QED BY <1>1, InitHInv, PTL DEF HistorySpec

\* Memory, file, log and goroutines keep their types.
THEOREM HistoryTypeCorrect == HistorySpec => []HistoryTypeOK
  <1>1. HInv => HistoryTypeOK
    BY DEF HInv
  <1> QED BY <1>1, HistoryInvariant, PTL

\* While a turn works, the message of its user is in the file, whatever else
\* saves, fails, clears or restarts in between.
THEOREM MessageSurvives == HistorySpec => []UserTurnSurvives
  <1>1. HInv => UserTurnSurvives
    BY DEF HInv
  <1> QED BY <1>1, HistoryInvariant, PTL

\* The file is a beginning of the memory, unless a clear has run into a save.
THEOREM FileIsPrefix == HistorySpec => []FileFollowsMemory
  <1>1. HInv => FileFollowsMemory
    BY DEF HInv
  <1> QED BY <1>1, HistoryInvariant, PTL

\* Neither the log nor the cost of a cleared chat comes back.
THEOREM LeftoversAreGone == HistorySpec => []LeftoversStayGone
  <1>1. HInv => LeftoversStayGone
    BY DEF HInv, ClearedOK, CostOK, LeftoversStayGone, LogStaysGone, SideCostCleared
  <1> QED BY <1>1, HistoryInvariant, PTL

\* Once a clear has returned no save brings a message it emptied to the file.
THEOREM SavesAreFresh == HistorySpec => NoStaleSave
  <1>1. HInv /\ [HistoryNext]_historyVars => wiped \intersect Turns(InFile') \subseteq Turns(InFile)
    BY StaleStep
  <1> QED BY <1>1, HistoryInvariant, PTL DEF HistorySpec, NoStaleSave

-----------------------------------------------------------------------------
(* Questions and approvals.                                                   *)

\* The gate of a call, and the listing of the gate while the call is counted.
GateOK ==
    \A a \in Askers :
        /\ asker[a] \in Counted \union {"returning"} => gate[a] \in Askers
        /\ asker[a] \in Counted => /\ chatOf[a] \in Routes
                                   /\ routes[chatOf[a]] = gate[a]

\* One gate serves one chat, and a gate is not there before its creator is.
GateIsNew ==
    /\ \A r, s \in Routes : routes[r] = routes[s] /\ routes[r] # NoAsker => r = s
    /\ \A a \in Askers : asker[a] = "idle" =>
        /\ a \notin token
        /\ \A r \in Routes : routes[r] # a
        /\ \A b \in Askers : gate[b] # a

\* The token of a gate is in its channel or with one call.
TokenOK ==
    /\ \A a \in Askers : asker[a] \in Holding => gate[a] \notin token
    /\ \A a, b \in Askers :
        asker[a] \in Holding /\ asker[b] \in Holding /\ gate[a] = gate[b] => a = b

CountOK ==
    /\ \A g \in Askers : refs[g] = Cardinality(Members(g))
    /\ \A r \in Routes : routes[r] # NoAsker => refs[routes[r]] > 0

CardOK == \A a \in cards : asker[a] \in {"waiting", "leaving", "cleaned"}

\* A question owns an ID from its registration until somebody replies.
IDOK ==
    \A a \in Askers : asker[a] \in {"registered", "waiting"} /\ box[a] = "empty"
        => reply[a] # "none" \/ \E q \in QuestionIDs : pending[q] = a

AInv == AskTypeOK /\ GateOK /\ GateIsNew /\ TokenOK /\ CountOK /\ CardOK /\ IDOK

USE AskAssumption

LEMMA MembersFinite ==
  \A g : IsFiniteSet(Members(g)) /\ Cardinality(Members(g)) \in Nat
  BY FS_Subset, FS_CardinalityType DEF Members

LEMMA InitAInv == AskInit => AInv
  <1> SUFFICES ASSUME AskInit PROVE AInv
    OBVIOUS
  <1>1. AskTypeOK
    BY DEF AskInit, AskTypeOK, AskerStates
  <1>2. GateOK /\ GateIsNew /\ TokenOK /\ CardOK /\ IDOK
    BY DEF AskInit, GateOK, GateIsNew, TokenOK, CardOK, IDOK, Counted, Holding
  <1>3. CountOK
    <2>1. \A g \in Askers : Members(g) = {}
      BY DEF AskInit, Members, Counted
    <2>2. QED
      BY <2>1, FS_EmptySet DEF CountOK, AskInit
  <1>4. QED
    BY <1>1, <1>2, <1>3 DEF AInv

-----------------------------------------------------------------------------
\* What "Uncounted" does to the books of the gate that is left.
LEMMA UncountedTypes ==
  ASSUME AInv, NEW a \in Askers, asker[a] \in Counted, Uncounted(a)
  PROVE  /\ refs' \in [Askers -> Nat]
         /\ refs[gate[a]] >= 1
         /\ routes' \in [Routes -> Askers \union {NoAsker}]
         /\ gate[a] \in Askers /\ chatOf[a] \in Routes
  <1>1. gate[a] \in Askers /\ chatOf[a] \in Routes /\ routes[chatOf[a]] = gate[a]
    BY DEF AInv, GateOK
  <1>2. refs[gate[a]] >= 1
    <2>1. a \in Members(gate[a])
      BY DEF Members
    <2>2. Cardinality(Members(gate[a])) # 0
      BY <2>1, MembersFinite, FS_EmptySet
    <2>3. QED
      BY <1>1, <2>2, MembersFinite DEF AInv, CountOK
  <1>3. refs' = [refs EXCEPT ![gate[a]] = @ - 1]
    BY DEF Uncounted
  <1>4. refs' \in [Askers -> Nat]
    BY <1>1, <1>2, <1>3 DEF AInv, AskTypeOK
  <1>5. routes' = routes \/ routes' = [routes EXCEPT ![chatOf[a]] = NoAsker]
    BY DEF Uncounted
  <1>6. QED
    BY <1>1, <1>2, <1>4, <1>5 DEF AInv, AskTypeOK

LEMMA NextType ==
  ASSUME AInv, [AskNext]_askVars
  PROVE  AskTypeOK'
  <1> USE DEF AskTypeOK, Goes, AskerStates
  <1>0. AskTypeOK
    BY DEF AInv
  <1>1. ASSUME NEW a \in Askers, NEW r \in Routes, Join(a, r)
        PROVE  AskTypeOK'
    <2> DEFINE g == IF routes[r] = NoAsker THEN a ELSE routes[r]
    <2>1. g \in Askers
      BY <1>0
    <2>2. /\ routes' = [routes EXCEPT ![r] = g]
          /\ refs' = [refs EXCEPT ![g] = @ + 1]
          /\ token' = IF g = a THEN token \union {a} ELSE token
          /\ gate' = [gate EXCEPT ![a] = g]
          /\ chatOf' = [chatOf EXCEPT ![a] = r]
          /\ asker' = [asker EXCEPT ![a] = "queued"]
          /\ UNCHANGED <<pending, box, reply, cards, ended>>
      BY <1>1 DEF Join, cardVars
    <2> HIDE DEF g
    <2>3. QED
      BY <1>0, <2>1, <2>2
  <1>2. ASSUME NEW a \in Askers, TurnedAway(a) \/ TakeToken(a) \/ Recheck(a)
        PROVE  AskTypeOK'
    BY <1>0, <1>2 DEF TurnedAway, TakeToken, Recheck, gateVars, cardVars
  <1>3. ASSUME NEW a \in Askers, Abandon(a)
        PROVE  AskTypeOK'
    BY <1>0, <1>3, UncountedTypes DEF Abandon, gateVars, cardVars, Counted
  <1>4. ASSUME NEW a \in Askers, Release(a)
        PROVE  AskTypeOK'
    BY <1>0, <1>4, UncountedTypes DEF Release, gateVars, cardVars, Counted
  <1>5. ASSUME NEW a \in Askers, ReturnToken(a)
        PROVE  AskTypeOK'
    <2>1. gate[a] \in Askers
      BY <1>5 DEF ReturnToken, AInv, GateOK
    <2>2. QED
      BY <1>0, <1>5, <2>1 DEF ReturnToken, cardVars
  <1>6. ASSUME NEW a \in Askers,
               Register(a) \/ ShowCard(a) \/ Receive(a) \/ Cleanup(a) \/ CloseCard(a)
        PROVE  AskTypeOK'
    BY <1>0, <1>6 DEF Register, ShowCard, Receive, Cleanup, CloseCard, gateVars, cardVars
  <1>7. ASSUME NEW a \in Askers, Deliver(a) \/ EndContext(a)
        PROVE  AskTypeOK'
    BY <1>0, <1>7 DEF Deliver, EndContext, gateVars, cardVars
  <1>8. ASSUME NEW q \in QuestionIDs, NEW kind \in {"answer", "dismissed"},
               Resolve(q, kind)
        PROVE  AskTypeOK'
    BY <1>0, <1>8 DEF Resolve, gateVars
  <1>9. CASE UNCHANGED askVars
    BY <1>0, <1>9 DEF askVars, gateVars, cardVars
  <1>10. QED
    BY <1>1, <1>2, <1>3, <1>4, <1>5, <1>6, <1>7, <1>8, <1>9 DEF AskNext, AskerStep

-----------------------------------------------------------------------------
(* The books of the gates. *)

Books == GateOK /\ GateIsNew /\ TokenOK /\ CountOK

\* A call that keeps its standing at its gate leaves the books as they are.
LEMMA SameStanding ==
  ASSUME Books, UNCHANGED gateVars,
         \A a \in Askers :
            /\ asker'[a] \in Counted <=> asker[a] \in Counted
            /\ asker'[a] \in Holding <=> asker[a] \in Holding
            /\ asker'[a] = "idle" => asker[a] = "idle"
  PROVE  Books'
  <1> USE DEF gateVars
  <1>1. \A a \in Askers : asker'[a] = "returning" => asker[a] = "returning"
    BY DEF Counted, Holding
  <1>2. GateOK' /\ GateIsNew' /\ TokenOK'
    BY <1>1 DEF Books, GateOK, GateIsNew, TokenOK
  <1>3. \A g \in Askers : Members(g)' = Members(g)
    BY DEF Members
  <1>4. CountOK'
    BY <1>3 DEF Books, CountOK
  <1>5. QED
    BY <1>2, <1>4 DEF Books

LEMMA TakeBooks ==
  ASSUME AskTypeOK, Books, NEW a \in Askers, TakeToken(a)
  PROVE  Books'
  <1>1. /\ asker[a] = "queued" /\ asker'[a] = "took"
        /\ \A b \in Askers \ {a} : asker'[b] = asker[b]
        /\ gate[a] \in token /\ token' = token \ {gate[a]}
        /\ UNCHANGED <<routes, refs, chatOf, gate>>
    BY DEF TakeToken, Goes, AskTypeOK
  <1>2. \A b \in Askers : asker'[b] \in Counted <=> asker[b] \in Counted
    BY <1>1 DEF Counted
  <1>3. GateOK' /\ GateIsNew'
    BY <1>1, <1>2 DEF Books, GateOK, GateIsNew
  <1>4. \A b \in Askers : asker[b] \in Holding => gate[b] # gate[a]
    BY <1>1 DEF Books, TokenOK
  <1>5. \A b \in Askers \ {a} : asker'[b] \in Holding => asker[b] \in Holding
    BY <1>1
  <1>6. TokenOK'
    BY <1>1, <1>4, <1>5 DEF Books, TokenOK
  <1>7. \A g \in Askers : Members(g)' = Members(g)
    BY <1>1, <1>2 DEF Members
  <1>8. CountOK'
    BY <1>1, <1>7 DEF Books, CountOK
  <1>9. QED
    BY <1>3, <1>6, <1>8 DEF Books

LEMMA ReturnBooks ==
  ASSUME AskTypeOK, Books, NEW a \in Askers, ReturnToken(a)
  PROVE  Books'
  <1>1. /\ asker[a] = "returning" /\ asker'[a] = "out"
        /\ \A b \in Askers \ {a} : asker'[b] = asker[b]
        /\ token' = token \union {gate[a]}
        /\ UNCHANGED <<routes, refs, chatOf, gate>>
    BY DEF ReturnToken, Goes, AskTypeOK
  <1>2. \A b \in Askers : asker'[b] \in Counted <=> asker[b] \in Counted
    BY <1>1 DEF Counted
  <1>3. asker[a] \in Holding /\ asker'[a] \notin Holding
    BY <1>1 DEF Holding, Counted
  <1>4. \A b \in Askers : asker[b] = "idle" => gate[a] # b
    BY <1>1 DEF Books, GateIsNew
  <1>5. GateOK' /\ GateIsNew'
    BY <1>1, <1>2, <1>4 DEF Books, GateOK, GateIsNew
  <1>6. \A b \in Askers \ {a} : asker[b] \in Holding => gate[b] # gate[a]
    BY <1>3 DEF Books, TokenOK
  <1>7. TokenOK'
    BY <1>1, <1>3, <1>6 DEF Books, TokenOK
  <1>8. \A g \in Askers : Members(g)' = Members(g)
    BY <1>1, <1>2 DEF Members
  <1>9. CountOK'
    BY <1>1, <1>8 DEF Books, CountOK
  <1>10. QED
    BY <1>5, <1>7, <1>9 DEF Books

LEMMA JoinBooks ==
  ASSUME AskTypeOK, Books, NEW a \in Askers, NEW r \in Routes, Join(a, r),
         NEW g \in Askers, g = IF routes[r] = NoAsker THEN a ELSE routes[r]
  PROVE  Books'
  <1>1. /\ asker[a] = "idle" /\ asker'[a] = "queued"
        /\ \A b \in Askers \ {a} : asker'[b] = asker[b]
        /\ chatOf'[a] = r /\ \A b \in Askers \ {a} : chatOf'[b] = chatOf[b]
        /\ gate'[a] = g /\ \A b \in Askers \ {a} : gate'[b] = gate[b]
        /\ routes'[r] = g /\ \A q \in Routes \ {r} : routes'[q] = routes[q]
        /\ token' = IF g = a THEN token \union {a} ELSE token
    BY DEF Join, Goes, AskTypeOK
  <1>2. g \in Askers
    OBVIOUS
  <1>3. refs'[g] = refs[g] + 1 /\ \A h \in Askers \ {g} : refs'[h] = refs[h]
    BY <1>2 DEF Join, AskTypeOK
  <1>4. /\ a \notin token
        /\ \A q \in Routes : routes[q] # a
        /\ \A b \in Askers : gate[b] # a
    BY <1>1 DEF Books, GateIsNew
  <1>5. routes[r] # NoAsker => g = routes[r]
    OBVIOUS
  <1>6. routes[r] = NoAsker => g = a
    OBVIOUS
  <1>7. /\ \A b \in Askers : asker'[b] \in Counted <=> (asker[b] \in Counted \/ b = a)
        /\ \A b \in Askers : asker'[b] \in Holding <=> asker[b] \in Holding
        /\ \A b \in Askers : asker'[b] = "returning" <=> asker[b] = "returning"
    BY <1>1 DEF Counted, Holding
  <1>8. a \notin {b \in Askers : asker[b] \in Counted \/ asker[b] \in Holding}
    BY <1>1 DEF Counted, Holding
  <1>9. GateOK'
    <2>1. \A b \in Askers \ {a} : asker[b] \in Counted /\ chatOf[b] = r
            => routes[r] = gate[b] /\ gate[b] \in Askers
      BY DEF Books, GateOK
    <2>2. \A b \in Askers \ {a} : asker[b] \in Counted => routes'[chatOf[b]] = gate[b]
      BY <1>1, <1>5, <2>1 DEF Books, GateOK
    <2>3. QED
      BY <1>1, <1>2, <1>7, <2>2 DEF Books, GateOK
  <1>10. GateIsNew'
    <2>1. \A q, s \in Routes : routes'[q] = routes'[s] /\ routes'[q] # NoAsker => q = s
      BY <1>1, <1>4, <1>5, <1>6 DEF Books, GateIsNew
    <2>2. \A b \in Askers : asker'[b] = "idle" => b # a /\ asker[b] = "idle"
      BY <1>1
    <2>3. \A b \in Askers : asker[b] = "idle" /\ b # a => g # b
      BY <1>5, <1>6 DEF Books, GateIsNew
    <2>4. QED
      BY <1>1, <2>1, <2>2, <2>3 DEF Books, GateIsNew
  <1>11. TokenOK'
    BY <1>1, <1>4, <1>7, <1>8 DEF Books, TokenOK
  <1>12. CountOK'
    <2>1. Members(g)' = Members(g) \union {a} /\ a \notin Members(g)
      BY <1>1, <1>2, <1>7, <1>8 DEF Members
    <2>2. \A h \in Askers \ {g} : Members(h)' = Members(h)
      BY <1>1, <1>7, <1>8 DEF Members
    <2>3. Cardinality(Members(g)') = Cardinality(Members(g)) + 1
      BY <2>1, MembersFinite, FS_AddElement
    <2>4. \A h \in Askers : refs'[h] = Cardinality(Members(h)')
      BY <1>2, <1>3, <2>2, <2>3 DEF Books, CountOK
    <2>5. \A q \in Routes : routes'[q] # NoAsker => refs'[routes'[q]] > 0
      <3>1. refs'[g] > 0
        BY <1>2, <1>3, MembersFinite DEF Books, CountOK
      <3>2. \A q \in Routes \ {r} : routes'[q] # NoAsker => refs[routes[q]] > 0
        BY <1>1 DEF Books, CountOK
      <3>3. QED
        BY <1>1, <1>3, <3>1, <3>2 DEF AskTypeOK
    <2>6. QED
      BY <2>4, <2>5 DEF CountOK
  <1>13. QED
    BY <1>9, <1>10, <1>11, <1>12 DEF Books

\* A call that is counted off: for the last one its gate goes, if it is listed.
LEMMA UncountBooks ==
  ASSUME AInv, NEW a \in Askers, asker[a] \in Counted, Uncounted(a),
         asker'[a] \in {"out", "returning"},
         asker'[a] = "returning" => asker[a] \in Holding,
         \A b \in Askers \ {a} : asker'[b] = asker[b],
         UNCHANGED <<token, chatOf, gate>>,
         NEW g \in Askers, g = gate[a]
  PROVE  Books'
  <1>0. AskTypeOK /\ Books
    BY DEF AInv, Books
  <1>1. /\ g \in Askers /\ chatOf[a] \in Routes /\ routes[chatOf[a]] = g
        /\ refs[g] >= 1
    BY UncountedTypes DEF AInv, GateOK
  <1>2. refs'[g] = refs[g] - 1 /\ \A h \in Askers \ {g} : refs'[h] = refs[h]
    BY <1>0, <1>1 DEF Uncounted, AskTypeOK
  <1>3. /\ refs'[g] = 0 => routes'[chatOf[a]] = NoAsker
        /\ refs'[g] # 0 => routes' = routes
        /\ \A q \in Routes \ {chatOf[a]} : routes'[q] = routes[q]
    BY <1>0, <1>1 DEF Uncounted, AskTypeOK
  <1>4. asker'[a] \notin Counted
    BY DEF Counted
  <1>5. /\ Members(g)' = Members(g) \ {a} /\ a \in Members(g)
        /\ \A h \in Askers \ {g} : Members(h)' = Members(h)
    BY <1>4 DEF Members
  <1>6. Cardinality(Members(g)') = Cardinality(Members(g)) - 1
    BY <1>5, MembersFinite, FS_RemoveElement
  <1>7. \A h \in Askers : refs'[h] = Cardinality(Members(h)')
    BY <1>0, <1>1, <1>2, <1>5, <1>6 DEF Books, CountOK
  <1>8. \A q \in Routes : routes'[q] # NoAsker => routes'[q] = routes[q]
    BY <1>3
  <1>9. \A q \in Routes : routes'[q] # NoAsker => refs'[routes'[q]] > 0
    <2> SUFFICES ASSUME NEW q \in Routes, routes'[q] # NoAsker
                 PROVE  refs'[routes'[q]] > 0
      OBVIOUS
    <2>1. routes'[q] = routes[q] /\ routes[q] \in Askers /\ refs[routes[q]] > 0
      BY <1>0, <1>8 DEF Books, CountOK, AskTypeOK
    <2>2. CASE routes[q] = g
      <3>1. q = chatOf[a]
        BY <1>0, <1>1, <2>1, <2>2 DEF Books, GateIsNew
      <3>2. refs'[g] # 0
        BY <1>3, <3>1
      <3>3. QED
        BY <1>1, <1>2, <2>1, <2>2, <3>2, <1>0 DEF AskTypeOK
    <2>3. CASE routes[q] # g
      BY <1>2, <2>1, <2>3
    <2>4. QED
      BY <2>2, <2>3
  <1>10. CountOK'
    BY <1>7, <1>9 DEF CountOK
  <1>11. GateOK'
    <2> SUFFICES ASSUME NEW b \in Askers
                 PROVE  /\ asker'[b] \in Counted \union {"returning"} => gate'[b] \in Askers
                        /\ asker'[b] \in Counted => /\ chatOf'[b] \in Routes
                                                    /\ routes'[chatOf'[b]] = gate'[b]
      BY DEF GateOK
    <2>1. CASE b = a
      BY <1>1, <1>4, <2>1
    <2>2. CASE b # a
      <3>1. /\ asker'[b] = asker[b] /\ gate'[b] = gate[b] /\ chatOf'[b] = chatOf[b]
        BY <2>2
      <3>2. asker[b] \in Counted \union {"returning"} => gate[b] \in Askers
        BY <1>0 DEF Books, GateOK
      <3>3. ASSUME asker[b] \in Counted
            PROVE  chatOf[b] \in Routes /\ routes'[chatOf[b]] = gate[b]
        <4>1. chatOf[b] \in Routes /\ routes[chatOf[b]] = gate[b] /\ gate[b] \in Askers
          BY <1>0, <3>3 DEF Books, GateOK
        <4>2. CASE chatOf[b] = chatOf[a]
          <5>1. gate[b] = g
            BY <1>1, <4>1, <4>2
          <5>2. b \in Members(g)'
            BY <2>2, <3>3, <5>1 DEF Members
          <5>3. Cardinality(Members(g)') # 0
            <6>1. IsFiniteSet(Members(g))
              BY MembersFinite
            <6>2. IsFiniteSet(Members(g)')
              BY <6>1, <1>5, FS_RemoveElement
            <6>3. QED
              BY <6>2, <5>2, FS_EmptySet
          <5>4. refs'[g] # 0
            BY <1>1, <1>7, <5>3
          <5>5. QED
            BY <1>3, <4>1, <5>4
        <4>3. CASE chatOf[b] # chatOf[a]
          BY <1>3, <4>1, <4>3
        <4>4. QED
          BY <4>2, <4>3
      <3>4. QED
        BY <3>1, <3>2, <3>3
    <2>3. QED
      BY <2>1, <2>2
  <1>12. GateIsNew'
    <2>1. \A b \in Askers : asker'[b] = "idle" => asker[b] = "idle"
      OBVIOUS
    <2>2. \A q \in Routes : \A b \in Askers : routes[q] # b => routes'[q] # b
      BY <1>8
    <2>3. QED
      BY <1>0, <1>8, <2>1, <2>2 DEF Books, GateIsNew
  <1>13. TokenOK'
    <2>1. \A b \in Askers : asker'[b] \in Holding => asker[b] \in Holding
      BY DEF Holding, Counted
    <2>2. QED
      BY <1>0, <2>1 DEF Books, TokenOK
  <1>14. QED
    BY <1>10, <1>11, <1>12, <1>13 DEF Books

LEMMA NextBooks ==
  ASSUME AInv, [AskNext]_askVars
  PROVE  Books'
  <1>0. AskTypeOK /\ Books
    BY DEF AInv, Books
  <1>1. ASSUME UNCHANGED <<gateVars, asker>>
        PROVE  Books'
    BY <1>0, <1>1, SameStanding
  <1>2. ASSUME NEW a \in Askers, NEW from, NEW to, Goes(a, from, to),
               UNCHANGED gateVars,
               \/ {from, to} \subseteq Counted \intersect Holding
               \/ from = "idle" /\ to = "out"
        PROVE  Books'
    <2>1. /\ asker[a] = from /\ asker'[a] = to
          /\ \A b \in Askers \ {a} : asker'[b] = asker[b]
      BY <1>0, <1>2 DEF Goes, AskTypeOK
    <2>2. \A b \in Askers :
            /\ asker'[b] \in Counted <=> asker[b] \in Counted
            /\ asker'[b] \in Holding <=> asker[b] \in Holding
            /\ asker'[b] = "idle" => asker[b] = "idle"
      BY <1>2, <2>1 DEF Counted, Holding
    <2>3. QED
      BY <1>0, <1>2, <2>2, SameStanding
  <1>3. ASSUME NEW a \in Askers, NEW r \in Routes, Join(a, r)
        PROVE  Books'
    <2>1. (IF routes[r] = NoAsker THEN a ELSE routes[r]) \in Askers
      BY <1>0 DEF AskTypeOK
    <2>2. QED
      BY <1>0, <1>3, <2>1, JoinBooks
  <1>4. ASSUME NEW a \in Askers, TurnedAway(a)
        PROVE  Books'
    BY <1>2, <1>4 DEF TurnedAway
  <1>5. ASSUME NEW a \in Askers, TakeToken(a)
        PROVE  Books'
    BY <1>0, <1>5, TakeBooks
  <1>6. ASSUME NEW a \in Askers, Abandon(a)
        PROVE  Books'
    <2>1. /\ asker[a] = "queued" /\ asker'[a] = "out" /\ Uncounted(a)
          /\ \A b \in Askers \ {a} : asker'[b] = asker[b]
          /\ UNCHANGED <<token, chatOf, gate>>
      BY <1>0, <1>6 DEF Abandon, Goes, AskTypeOK
    <2>2. asker[a] \in Counted /\ gate[a] \in Askers
      BY <1>0, <2>1 DEF Counted, Books, GateOK
    <2>3. QED
      BY <2>1, <2>2, UncountBooks
  <1>7. ASSUME NEW a \in Askers, Release(a)
        PROVE  Books'
    <2>1. /\ asker[a] = "releasing" /\ asker'[a] \in {"out", "returning"}
          /\ Uncounted(a)
          /\ \A b \in Askers \ {a} : asker'[b] = asker[b]
          /\ UNCHANGED <<token, chatOf, gate>>
      BY <1>0, <1>7 DEF Release, Goes, AskTypeOK
    <2>2. asker[a] \in Counted /\ asker[a] \in Holding /\ gate[a] \in Askers
      BY <1>0, <2>1 DEF Counted, Holding, Books, GateOK
    <2>3. QED
      BY <2>1, <2>2, UncountBooks
  <1>8. ASSUME NEW a \in Askers, ReturnToken(a)
        PROVE  Books'
    BY <1>0, <1>8, ReturnBooks
  <1>9. ASSUME NEW a \in Askers, Recheck(a)
        PROVE  Books'
    <2>1. {"took", "granted", "releasing"} \subseteq Counted \intersect Holding
      BY DEF Counted, Holding
    <2>2. QED
      BY <1>2, <1>9, <2>1 DEF Recheck
  <1>10. ASSUME NEW a \in Askers,
                Register(a) \/ ShowCard(a) \/ Receive(a) \/ Cleanup(a) \/ CloseCard(a)
         PROVE  Books'
    <2>1. {"granted", "registered", "waiting", "leaving", "cleaned", "releasing"}
            \subseteq Counted \intersect Holding
      BY DEF Counted, Holding
    <2>2. QED
      BY <1>2, <1>10, <2>1 DEF Register, ShowCard, Receive, Cleanup, CloseCard
  <1>11. ASSUME NEW a \in Askers, Deliver(a) \/ EndContext(a)
         PROVE  Books'
    BY <1>1, <1>11 DEF Deliver, EndContext
  <1>12. ASSUME NEW q \in QuestionIDs, NEW kind, Resolve(q, kind)
         PROVE  Books'
    BY <1>1, <1>12 DEF Resolve
  <1>13. CASE UNCHANGED askVars
    BY <1>1, <1>13 DEF askVars
  <1>14. QED
    BY <1>3, <1>4, <1>5, <1>6, <1>7, <1>8, <1>9, <1>10, <1>11, <1>12, <1>13
       DEF AskNext, AskerStep

-----------------------------------------------------------------------------
(* The cards and the IDs of the questions. *)

LEMMA NextCards ==
  ASSUME AInv, [AskNext]_askVars
  PROVE  CardOK'
  <1>0. AskTypeOK /\ CardOK
    BY DEF AInv
  <1>1. ASSUME NEW a \in Askers, a \notin cards', cards' \subseteq cards,
               \A b \in Askers \ {a} : asker'[b] = asker[b]
        PROVE  CardOK'
    BY <1>0, <1>1 DEF CardOK, AskTypeOK
  <1>2. ASSUME NEW a \in Askers, NEW from, NEW to, Goes(a, from, to), cards' = cards,
               from \notin {"waiting", "leaving", "cleaned"}
        PROVE  CardOK'
    <2>1. a \notin cards
      BY <1>0, <1>2 DEF Goes, CardOK
    <2>2. \A b \in Askers \ {a} : asker'[b] = asker[b]
      BY <1>0, <1>2 DEF Goes, AskTypeOK
    <2>3. QED
      BY <1>1, <1>2, <2>1, <2>2
  <1>3. ASSUME UNCHANGED <<cards, asker>>
        PROVE  CardOK'
    BY <1>0, <1>3 DEF CardOK
  <1>4. ASSUME NEW a \in Askers, NEW r \in Routes, Join(a, r)
        PROVE  CardOK'
    BY <1>2, <1>4 DEF Join, cardVars
  <1>5. ASSUME NEW a \in Askers,
               \/ TurnedAway(a) \/ TakeToken(a) \/ Abandon(a) \/ Recheck(a)
               \/ Release(a) \/ ReturnToken(a) \/ Register(a)
        PROVE  CardOK'
    BY <1>2, <1>5 DEF TurnedAway, TakeToken, Abandon, Recheck, Release, ReturnToken,
                      Register, cardVars
  <1>6. ASSUME NEW a \in Askers, ShowCard(a) \/ Receive(a) \/ Cleanup(a)
        PROVE  CardOK'
    <2>1. /\ cards' \subseteq cards \union {a}
          /\ asker'[a] \in {"waiting", "leaving", "cleaned"}
          /\ \A b \in Askers \ {a} : asker'[b] = asker[b]
      BY <1>0, <1>6 DEF ShowCard, Receive, Cleanup, Goes, AskTypeOK, cardVars
    <2>2. QED
      BY <1>0, <2>1 DEF CardOK, AskTypeOK
  <1>7. ASSUME NEW a \in Askers, CloseCard(a)
        PROVE  CardOK'
    BY <1>0, <1>1, <1>7 DEF CloseCard, Goes, AskTypeOK
  <1>8. ASSUME NEW a \in Askers, Deliver(a) \/ EndContext(a)
        PROVE  CardOK'
    BY <1>3, <1>8 DEF Deliver, EndContext, cardVars
  <1>9. ASSUME NEW q \in QuestionIDs, NEW kind, Resolve(q, kind)
        PROVE  CardOK'
    BY <1>3, <1>9 DEF Resolve
  <1>10. CASE UNCHANGED askVars
    BY <1>3, <1>10 DEF askVars, cardVars
  <1>11. QED
    BY <1>4, <1>5, <1>6, <1>7, <1>8, <1>9, <1>10 DEF AskNext, AskerStep

LEMMA NextIDs ==
  ASSUME AInv, [AskNext]_askVars
  PROVE  IDOK'
  <1>0. AskTypeOK /\ IDOK
    BY DEF AInv
  <1> DEFINE Open(a) == asker[a] \in {"registered", "waiting"} /\ box[a] = "empty"
             Safe(a) == reply[a] # "none" \/ \E q \in QuestionIDs : pending[q] = a
  <1>1. ASSUME UNCHANGED <<pending, box, reply>>,
               \A a \in Askers : asker'[a] \in {"registered", "waiting"}
                    => asker[a] \in {"registered", "waiting"}
        PROVE  IDOK'
    BY <1>0, <1>1 DEF IDOK
  <1>2. ASSUME NEW a \in Askers, NEW from, NEW to, Goes(a, from, to),
               UNCHANGED <<pending, box, reply>>,
               to \in {"registered", "waiting"} => from \in {"registered", "waiting"}
        PROVE  IDOK'
    <2>1. /\ asker[a] = from /\ asker'[a] = to
          /\ \A b \in Askers \ {a} : asker'[b] = asker[b]
      BY <1>0, <1>2 DEF Goes, AskTypeOK
    <2>2. QED
      BY <1>1, <1>2, <2>1
  <1>3. ASSUME NEW a \in Askers, NEW r \in Routes, Join(a, r)
        PROVE  IDOK'
    BY <1>2, <1>3 DEF Join, cardVars
  <1>4. ASSUME NEW a \in Askers,
               \/ TurnedAway(a) \/ TakeToken(a) \/ Abandon(a)
               \/ Release(a) \/ ReturnToken(a) \/ ShowCard(a) \/ Receive(a) \/ CloseCard(a)
        PROVE  IDOK'
    BY <1>2, <1>4 DEF TurnedAway, TakeToken, Abandon, Release, ReturnToken,
                      ShowCard, Receive, CloseCard, cardVars
  <1>5. ASSUME NEW a \in Askers, Recheck(a)
        PROVE  IDOK'
    <2>1. (IF a \in ended THEN "releasing" ELSE "granted") \notin {"registered", "waiting"}
      OBVIOUS
    <2>2. QED
      BY <1>2, <1>5, <2>1 DEF Recheck, cardVars
  <1>6. ASSUME NEW a \in Askers, Register(a)
        PROVE  IDOK'
    <2>1. PICK q \in QuestionIDs :
                pending[q] = NoAsker /\ pending' = [pending EXCEPT ![q] = a]
      BY <1>6 DEF Register, MayRegister
    <2>2. /\ \A b \in Askers \ {a} : asker'[b] = asker[b]
          /\ UNCHANGED <<box, reply>>
      BY <1>0, <1>6 DEF Register, Goes, AskTypeOK
    <2>3. pending'[q] = a /\ \A p \in QuestionIDs \ {q} : pending'[p] = pending[p]
      BY <1>0, <2>1 DEF AskTypeOK
    <2>4. \A b \in Askers \ {a} :
            (\E p \in QuestionIDs : pending[p] = b) => \E p \in QuestionIDs : pending'[p] = b
      BY <2>1, <2>3
    <2>5. QED
      BY <1>0, <2>2, <2>3, <2>4 DEF IDOK
  <1>7. ASSUME NEW a \in Askers, Cleanup(a)
        PROVE  IDOK'
    <2>1. /\ asker'[a] = "cleaned" /\ \A b \in Askers \ {a} : asker'[b] = asker[b]
          /\ UNCHANGED <<box, reply>>
          /\ \A q \in QuestionIDs : pending[q] # a => pending'[q] = pending[q]
      BY <1>0, <1>7 DEF Cleanup, Goes, AskTypeOK
    <2>2. QED
      BY <1>0, <2>1 DEF IDOK
  <1>8. ASSUME NEW a \in Askers, Deliver(a)
        PROVE  IDOK'
    <2>1. /\ box'[a] # "empty"
          /\ \A b \in Askers \ {a} : box'[b] = box[b] /\ reply'[b] = reply[b]
          /\ UNCHANGED <<pending, asker>>
      BY <1>0, <1>8 DEF Deliver, AskTypeOK
    <2>2. QED
      BY <1>0, <2>1 DEF IDOK
  <1>9. ASSUME NEW a \in Askers, EndContext(a)
        PROVE  IDOK'
    BY <1>1, <1>9 DEF EndContext, cardVars
  <1>10. ASSUME NEW q \in QuestionIDs, NEW kind \in {"answer", "dismissed"},
                Resolve(q, kind)
         PROVE  IDOK'
    <2> DEFINE a == pending[q]
    <2>1. /\ a \in Askers /\ reply'[a] # "none"
          /\ \A b \in Askers \ {a} : reply'[b] = reply[b]
          /\ \A p \in QuestionIDs \ {q} : pending'[p] = pending[p]
          /\ UNCHANGED <<box, asker>>
      BY <1>0, <1>10 DEF Resolve, AskTypeOK
    <2>2. \A b \in Askers \ {a} :
            (\E p \in QuestionIDs : pending[p] = b) => \E p \in QuestionIDs : pending'[p] = b
      BY <2>1
    <2> HIDE DEF a
    <2>3. QED
      BY <1>0, <2>1, <2>2 DEF IDOK
  <1>11. CASE UNCHANGED askVars
    BY <1>1, <1>11 DEF askVars, cardVars
  <1>12. QED
    BY <1>3, <1>4, <1>5, <1>6, <1>7, <1>8, <1>9, <1>10, <1>11 DEF AskNext, AskerStep

LEMMA Invariance == AskSpec => []AInv
  <1>1. AInv /\ [AskNext]_askVars => AInv'
    BY NextType, NextBooks, NextCards, NextIDs DEF AInv, Books
  <1>2. QED
    BY InitAInv, <1>1, PTL DEF AskSpec

-----------------------------------------------------------------------------
\* The registry (askUserRegistry), the gates and the calls keep their types.
THEOREM AskTypeCorrect == AskSpec => []AskTypeOK
  <1>1. AInv => AskTypeOK
    BY DEF AInv
  <1>2. QED
    BY Invariance, <1>1, PTL

\* acquireRoute and releaseRoute let one question of a chat through at a time.
THEOREM OneCardPerChat == AskSpec => []OneCard
  <1>1. AInv => OneCard
    <2> SUFFICES ASSUME AInv, NEW a \in cards, NEW b \in cards, chatOf[a] = chatOf[b]
                 PROVE  a = b
      BY DEF OneCard
    <2>1. /\ a \in Askers /\ asker[a] \in Counted /\ asker[a] \in Holding
          /\ b \in Askers /\ asker[b] \in Counted /\ asker[b] \in Holding
      BY DEF AInv, AskTypeOK, CardOK, Counted, Holding
    <2>2. gate[a] = gate[b]
      BY <2>1 DEF AInv, GateOK
    <2>3. QED
      BY <2>1, <2>2 DEF AInv, TokenOK
  <1>2. QED
    BY Invariance, <1>1, PTL

\* The reference counts of the gates are right, and no chat is left with a
\* gate that nobody can pass (abandonRoute, releaseRoute).
THEOREM GatesAreRight == AskSpec => []GateAccounts
  <1>1. AInv => GateAccounts
    BY DEF AInv, GateOK, TokenOK, CountOK, GateAccounts
  <1>2. QED
    BY Invariance, <1>1, PTL

\* register, resolve, cancel and cleanup never orphan a question that waits.
THEOREM QuestionsAreReachable == AskSpec => []WaiterIsReachable
  <1>1. AInv => WaiterIsReachable
    BY DEF AInv, IDOK, WaiterIsReachable
  <1>2. QED
    BY Invariance, <1>1, PTL

\* However the calls interleave, cards stay apart and can be answered.
THEOREM QuestionsAlwaysStand == AskSpec => []QuestionsStand
  BY OneCardPerChat, QuestionsAreReachable, PTL DEF QuestionsStand

-----------------------------------------------------------------------------
(* The agent loop of a chat.                                                  *)

\* While tools are at work, and until their results are in the transcript, the
\* calls of the latest answer are those with an outcome and those without.
ToolStages == {"tools", "person", "confirm", "allowed", "working"}
PendingStages == ToolStages \union {"answering", "resulted"}
CallsOK ==
    stage \in PendingStages =>
        transcript = <<>> \/ transcript[Len(transcript)].calls = todo \union outcomes

BusyOK ==
    /\ stage \in {"answering", "resulted"} => todo = {}
    /\ stage \in {"person", "confirm", "allowed", "working"} => todo # {}
    /\ emptying => life # "live"
    /\ stage = "idle" => life = "none" /\ ran = {}

\* What has run is in the transcript, or its results are still on their way.
RecordedIn(h) == UNION {h[i].results : i \in 1..Len(h)}
OnItsWay ==
    IF stage \in PendingStages
    THEN outcomes \union (IF stage = "working" THEN {AtHand} ELSE {})
    ELSE {}
RanOK == life = "live" => ran \subseteq RecordedIn(transcript) \union OnItsWay

\* A refusal is on record, and no question is asked twice.
ConsentOK ==
    /\ \A g \in turnedDown : consent[g] = "no"
    /\ stage = "person" => using \in Grants /\ consent[using] = "open"
    /\ stage \in {"confirm", "allowed", "working"} => using \notin turnedDown

LoopInv == AgentTypeOK /\ BusyOK /\ CallsOK /\ ResultsFollowCalls /\ RanOK /\ ConsentOK

\* A set of numbers has a least one: intervals are finite sets, and these are
\* well-founded.
LEMMA LeastIs ==
  ASSUME NEW S, S \subseteq Nat, S # {}
  PROVE  Least(S) \in S /\ \A j \in S : Least(S) <= j
  <1> DEFINE T == {1..i : i \in S}
  <1>1. T \subseteq FiniteSubsetsOf(Nat) /\ T # {}
    <2>1. ASSUME NEW i \in S
          PROVE  1..i \in FiniteSubsetsOf(Nat)
      <3>1. i \in Int /\ 1 \in Int /\ 1..i \in SUBSET Nat
        OBVIOUS
      <3>2. IsFiniteSet(1..i)
        BY <3>1, FS_Interval
      <3>3. QED
        BY <3>1, <3>2 DEF FiniteSubsetsOf
    <2>2. T \subseteq FiniteSubsetsOf(Nat)
      BY <2>1
    <2>3. T # {}
      OBVIOUS
    <2>4. QED
      BY <2>2, <2>3
  <1>2. \E x \in T : \A y \in T : ~(<<y, x>> \in StrictSubsetOrdering(Nat))
    <2> HIDE DEF T
    <2>1. IsWellFoundedOn(StrictSubsetOrdering(Nat), FiniteSubsetsOf(Nat))
      BY FS_StrictSubsetOrderingWellFounded
    <2>2. QED
      BY <1>1, <2>1, WFMin
  <1>3. PICK i \in S : \A j \in S : ~(<<1..j, 1..i>> \in StrictSubsetOrdering(Nat))
    BY <1>2
  <1>4. ASSUME NEW j \in S, j < i
        PROVE  FALSE
    <2>1. i \in Nat /\ j \in Nat
      OBVIOUS
    <2>2. 1..j \in SUBSET Nat /\ 1..i \in SUBSET Nat /\ 1..j \subseteq 1..i
      BY <1>4, <2>1
    <2>3. i \in 1..i /\ i \notin 1..j
      BY <1>4, <2>1
    <2>4. 1..j # 1..i
      BY <2>3
    <2>5. <<1..j, 1..i>> \in StrictSubsetOrdering(Nat)
      BY <2>2, <2>4 DEF StrictSubsetOrdering
    <2>6. QED
      BY <1>3, <2>5
  <1>5. \A j \in S : i <= j
    BY <1>4
  <1>6. QED
    BY <1>5 DEF Least

LEMMA AtHandIs ==
  ASSUME AgentTypeOK, todo # {}
  PROVE  AtHand \in todo /\ AtHand \in Calls
  <1>1. todo \subseteq Calls /\ Calls \subseteq Nat
    BY AgentAssumption DEF AgentTypeOK, Calls
  <1>2. QED
    BY <1>1, LeastIs DEF AtHand

LEMMA WordsTyped ==
  ASSUME NEW who \in {"prompt", "nudge", "model"}, NEW n \in Nat
  PROVE  Words(who, n) \in Item /\ Words(who, n).results = {}
  BY DEF Words, Item

LEMMA SpokenTyped ==
  ASSUME NEW r \in Reply
  PROVE  /\ Spoken(r) \in Item /\ Spoken(r).results = {}
         /\ Spoken(r).calls = r.calls
  BY DEF Spoken, Reply, Item

LEMMA PartialTyped == Partial \in Item /\ Partial.results = {}
  <1>1. [text |-> TRUE, calls |-> {}, cut |-> FALSE] \in Reply
    BY DEF Reply
  <1>2. QED
    BY <1>1, SpokenTyped DEF Partial

LEMMA ResultsTyped ==
  ASSUME AgentTypeOK
  PROVE  Results \in Item /\ Results.results = outcomes
  BY DEF AgentTypeOK, Results, Item

LEMMA HintTyped ==
  ASSUME NEW h \in Seq(Item)
  PROVE  WithHint(h) \in Seq(Item)
  <1>1. CASE h # <<>> /\ h[Len(h)].by # "model"
    <2>1. Len(h) \in 1..Len(h) /\ h[Len(h)] \in Item
      BY <1>1, EmptySeq, ElementOfSeq
    <2>2. [h[Len(h)] EXCEPT !.other = TRUE] \in Item
      BY <2>1 DEF Item
    <2>3. [h EXCEPT ![Len(h)].other = TRUE] = [h EXCEPT ![Len(h)] = [h[Len(h)] EXCEPT !.other = TRUE]]
      OBVIOUS
    <2>4. QED
      BY <1>1, <2>1, <2>2, <2>3, ExceptSeq DEF WithHint
  <1>2. CASE ~(h # <<>> /\ h[Len(h)].by # "model")
    <2>1. WithHint(h) = Append(h, Words("nudge", 0))
      BY <1>2 DEF WithHint
    <2>2. QED
      BY <2>1, WordsTyped, AppendProperties
  <1>3. QED
    BY <1>1, <1>2

LEMMA FromTyped ==
  ASSUME NEW h \in Seq(Item), NEW i \in 1..Len(h)
  PROVE  From(h, i) \in Seq(Item) /\ SubSeq(h, 1, i - 1) \in Seq(Item)
  <1>1. Len(h) \in Nat /\ i \in Int
    BY LenProperties
  <1>2. \A j \in 1..Len(h) : h[j] \in Item
    BY ElementOfSeq
  <1>3. SubSeq(h, i, Len(h)) \in Seq(Item)
    <2>1. \A j \in i..Len(h) : h[j] \in Item
      BY <1>1, <1>2
    <2>2. QED
      BY <1>1, <2>1, SubSeqProperties
  <1>4. SubSeq(h, 1, i - 1) \in Seq(Item)
    <2>1. i - 1 \in Int /\ \A j \in 1..(i - 1) : h[j] \in Item
      BY <1>1, <1>2
    <2>2. QED
      BY <2>1, SubSeqProperties
  <1>5. QED
    BY <1>3, <1>4 DEF From

LEMMA CutIs ==
  ASSUME NEW h \in Seq(Item), NEW i \in 1..Len(h)
  PROVE  /\ Len(SubSeq(h, 1, i - 1)) = i - 1
         /\ \A j \in 1..(i - 1) : SubSeq(h, 1, i - 1)[j] = h[j]
  <1>1. Len(h) \in Nat /\ i \in Int
    BY LenProperties
  <1>2. i - 1 \in Int /\ \A j \in 1..(i - 1) : h[j] \in Item
    BY <1>1, ElementOfSeq
  <1>3. QED
    BY <1>1, <1>2, SubSeqProperties

\* Whatever a compaction drops, it leaves contents of a history.
LEMMA CompactionsTyped ==
  ASSUME NEW h \in Seq(Item)
  PROVE  Compactions(h) \subseteq Seq(Item) /\ Emergencies(h) \subseteq Seq(Item)
  <1> DEFINE later == Starts(h) \ {Least(Starts(h))}
  <1>1. later \subseteq 1..Len(h)
    BY DEF Starts
  <1>2. Len(h) \in Nat
    BY LenProperties
  <1>3. \A i \in later : WithHint(From(h, i)) \in Seq(Item)
    BY <1>1, FromTyped, HintTyped
  <1>4. \A i \in later :
           WithHint(SubSeq(h, 1, Least(later) - 1) \o From(h, i)) \in Seq(Item)
    <2> SUFFICES ASSUME NEW i \in later
                 PROVE  WithHint(SubSeq(h, 1, Least(later) - 1) \o From(h, i)) \in Seq(Item)
      OBVIOUS
    <2>1. later \subseteq Nat /\ later # {}
      BY <1>1, <1>2
    <2>2. Least(later) \in 1..Len(h)
      BY <1>1, <2>1, LeastIs
    <2>3. SubSeq(h, 1, Least(later) - 1) \in Seq(Item) /\ From(h, i) \in Seq(Item)
      BY <1>1, <2>2, FromTyped
    <2>4. QED
      BY <2>3, ConcatProperties, HintTyped
  <1>5. Compactions(h) \subseteq Seq(Item)
    BY <1>4 DEF Compactions
  <1>6. Emergencies(h) \subseteq Seq(Item)
    BY <1>3 DEF Emergencies
  <1>7. QED
    BY <1>5, <1>6

LEMMA SnapshotTyped ==
  ASSUME AgentTypeOK, Snapshot
  PROVE  sent' \in Seq(Item) /\ squeezed' \in {"no", "compacted"}
  BY CompactionsTyped DEF AgentTypeOK, Snapshot

LEMMA EndsTyped ==
  ASSUME Ends
  PROVE  /\ sent' \in Seq(Item) /\ stage' = "idle" /\ life' = "none"
         /\ squeezed' = "no" /\ answer' \in Reply
         /\ todo' = {} /\ outcomes' = {} /\ ran' = {} /\ turnedDown' = {}
         /\ pictures' = FALSE /\ using' = "none"
         /\ consent' \in [Grants -> {"open", "yes", "no"}]
  <1>1. sent' \in Seq(Item)
    BY EmptySeq DEF Ends
  <1>2. answer' \in Reply
    BY DEF Ends, NoReply, Reply
  <1>3. QED
    BY <1>1, <1>2 DEF Ends, Proceed
USE AgentAssumption

LEMMA InitLoop == AgentInit => LoopInv
  <1> SUFFICES ASSUME AgentInit
               PROVE  LoopInv
    OBVIOUS
  <1>1. AgentTypeOK
    <2>1. transcript \in Seq(Item) /\ sent \in Seq(Item)
      BY EmptySeq DEF AgentInit
    <2>2. answer \in Reply
      BY DEF AgentInit, NoReply, Reply
    <2>3. consent \in [Grants -> {"open", "yes", "no"}]
      BY DEF AgentInit
    <2>4. issued \in 0..MaxCalls
      BY DEF AgentInit
    <2>5. QED
      BY <2>1, <2>2, <2>3, <2>4 DEF AgentInit, AgentTypeOK
  <1>2. BusyOK /\ CallsOK /\ RanOK /\ ConsentOK
    BY DEF AgentInit, BusyOK, CallsOK, PendingStages, ToolStages, RanOK, ConsentOK
  <1>3. ResultsFollowCalls
    BY DEF AgentInit, ResultsFollowCalls
  <1>4. QED
    BY <1>1, <1>2, <1>3 DEF LoopInv

\* A step keeps the transcript, adds words or the results of the calls, cuts it
\* between two turns, or empties it.
Added(it) == it \in Item /\ it.results = {} /\ transcript' = Append(transcript, it)
AddsWords == \E it \in Item : Added(it)
AddsResults == stage = "resulted" /\ transcript' = Append(transcript, Results)
Cuts == stage = "idle" /\ \E i \in 1..Len(transcript) : transcript' = SubSeq(transcript, 1, i - 1)
Empties == emptying /\ transcript' = <<>>

LEMMA TranscriptStep ==
  ASSUME AgentTypeOK, [AgentNext]_agentVars
  PROVE  transcript' = transcript \/ AddsWords \/ AddsResults \/ Cuts \/ Empties
  <1>1. CASE TakePrompt
    BY <1>1, WordsTyped DEF TakePrompt, AddsWords, Added, AgentTypeOK
  <1>2. CASE ProviderFails
    BY <1>2, PartialTyped DEF ProviderFails, AddsWords, Added
  <1>3. CASE AppendResults
    BY <1>3 DEF AppendResults, AddsResults
  <1>4. CASE RecordReply
    BY <1>4, SpokenTyped DEF RecordReply, AddsWords, Added, AgentTypeOK
  <1>5. CASE Nudge
    BY <1>5, WordsTyped DEF Nudge, AddsWords, Added
  <1>6. CASE ClearEmpties
    BY <1>6 DEF ClearEmpties, Empties
  <1>7. CASE CutTranscript
    BY <1>7 DEF CutTranscript, Cuts
  <1>8. CASE \/ GiveUp \/ OpenRound \/ Overflow \/ Hear \/ RefuseCall \/ Permit \/ AskPerson
             \/ Execute \/ ToolReturns \/ LoopGuard \/ SendResults \/ EndLoop
             \/ PersonAllows \/ Declined \/ PersonConfirms \/ StopOrExpire \/ ClearStops
    BY <1>8 DEF GiveUp, OpenRound, Overflow, Hear, RefuseCall, Permit, AskPerson, Execute,
       ToolReturns, LoopGuard, SendResults, EndLoop, PersonAllows, Declined, PersonConfirms,
       StopOrExpire, ClearStops
  <1>9. CASE UNCHANGED agentVars
    BY <1>9 DEF agentVars
  <1>10. QED
    BY <1>1, <1>2, <1>3, <1>4, <1>5, <1>6, <1>7, <1>8, <1>9 DEF AgentNext, Loop, QuestionEnds

LEMMA TranscriptTyped ==
  ASSUME AgentTypeOK, [AgentNext]_agentVars
  PROVE  transcript' \in Seq(Item)
  <1>1. CASE AddsWords
    BY <1>1, AppendProperties DEF AddsWords, Added, AgentTypeOK
  <1>2. CASE AddsResults
    BY <1>2, ResultsTyped, AppendProperties DEF AddsResults, AgentTypeOK
  <1>3. CASE Cuts
    BY <1>3, FromTyped DEF Cuts, AgentTypeOK
  <1>4. CASE Empties
    BY <1>4, EmptySeq DEF Empties
  <1>5. CASE transcript' = transcript
    BY <1>5 DEF AgentTypeOK
  <1>6. QED
    BY <1>1, <1>2, <1>3, <1>4, <1>5, TranscriptStep

\* What was there before an addition stays where it is.
LEMMA AdditionIs ==
  ASSUME NEW h \in Seq(Item), NEW it \in Item
  PROVE  /\ Len(Append(h, it)) = Len(h) + 1 /\ Len(h) \in Nat
         /\ Append(h, it)[Len(h) + 1] = it /\ Append(h, it) # <<>>
         /\ \A i \in 1..Len(h) : Append(h, it)[i] = h[i]
  BY AppendProperties, LenProperties

LEMMA CausalStep == LoopInv /\ [AgentNext]_agentVars => ResultsFollowCalls'
  <1> SUFFICES ASSUME LoopInv, [AgentNext]_agentVars
               PROVE  ResultsFollowCalls'
    OBVIOUS
  <1>1. AgentTypeOK /\ ResultsFollowCalls /\ transcript \in Seq(Item) /\ Len(transcript) \in Nat
    BY LenProperties DEF LoopInv, AgentTypeOK
  <1>2. CASE AddsWords
    <2>1. PICK it \in Item : Added(it)
      BY <1>2 DEF AddsWords
    <2>2. /\ Len(transcript') = Len(transcript) + 1 /\ transcript'[Len(transcript) + 1] = it
          /\ \A i \in 1..Len(transcript) : transcript'[i] = transcript[i]
      BY <1>1, <2>1, AdditionIs DEF Added
    <2>3. QED
      BY <1>1, <2>1, <2>2 DEF ResultsFollowCalls, Added
  <1>3. CASE AddsResults
    <2>1. Results \in Item /\ Results.results = outcomes
      BY <1>1, ResultsTyped
    <2>2. /\ Len(transcript') = Len(transcript) + 1
          /\ transcript'[Len(transcript) + 1] = Results
          /\ \A i \in 1..Len(transcript) : transcript'[i] = transcript[i]
      BY <1>1, <1>3, <2>1, AdditionIs DEF AddsResults
    <2>3. transcript = <<>> \/ transcript[Len(transcript)].calls = outcomes
      BY <1>3 DEF LoopInv, CallsOK, BusyOK, PendingStages, AddsResults
    <2>4. transcript = <<>> => Len(transcript) = 0
      BY EmptySeq
    <2>5. SUFFICES ASSUME NEW i \in 2..Len(transcript'), transcript'[i].results # {}
                   PROVE  transcript'[i].results = transcript'[i - 1].calls
      BY DEF ResultsFollowCalls
    <2>6. CASE i = Len(transcript) + 1
      BY <1>1, <2>1, <2>2, <2>3, <2>4, <2>6
    <2>7. CASE i # Len(transcript) + 1
      <3>1. i \in 2..Len(transcript) /\ i \in 1..Len(transcript) /\ i - 1 \in 1..Len(transcript)
        BY <1>1, <2>2, <2>7
      <3>2. transcript'[i] = transcript[i] /\ transcript'[i - 1] = transcript[i - 1]
        BY <2>2, <3>1
      <3>3. QED
        BY <1>1, <2>5, <3>1, <3>2 DEF ResultsFollowCalls
    <2>8. QED
      BY <2>6, <2>7
  <1>4. CASE Cuts
    <2>1. PICK i \in 1..Len(transcript) : transcript' = SubSeq(transcript, 1, i - 1)
      BY <1>4 DEF Cuts
    <2>2. Len(transcript') = i - 1 /\ \A j \in 1..(i - 1) : transcript'[j] = transcript[j]
      BY <1>1, <2>1, CutIs
    <2>3. SUFFICES ASSUME NEW j \in 2..(i - 1)
                   PROVE  transcript'[j].results # {} =>
                              transcript'[j].results = transcript'[j - 1].calls
      BY <2>2 DEF ResultsFollowCalls
    <2>4. j \in 2..Len(transcript) /\ j \in 1..(i - 1) /\ j - 1 \in 1..(i - 1)
      BY <1>1
    <2>5. transcript'[j] = transcript[j] /\ transcript'[j - 1] = transcript[j - 1]
      BY <2>2, <2>4
    <2>6. QED
      BY <1>1, <2>4, <2>5 DEF ResultsFollowCalls
  <1>5. CASE Empties
    BY <1>5, EmptySeq DEF Empties, ResultsFollowCalls
  <1>6. CASE transcript' = transcript
    BY <1>1, <1>6 DEF ResultsFollowCalls
  <1>7. QED
    BY <1>1, <1>2, <1>3, <1>4, <1>5, <1>6, TranscriptStep
LEMMA AnswerTyped ==
  ASSUME AgentTypeOK, todo # {}, AnswerCall
  PROVE  /\ todo' \subseteq Calls /\ outcomes' \subseteq Calls
         /\ todo' \union outcomes' = todo \union outcomes
         /\ outcomes' = outcomes \union {AtHand}
         /\ using' = "none" /\ stage' = "tools"
  BY AtHandIs DEF AnswerCall, AgentTypeOK, Proceed

LEMMA HearTyped ==
  ASSUME AgentTypeOK, Hear
  PROVE  issued' \in 0..MaxCalls /\ answer' \in Reply
  <1>1. PICK text, cut \in BOOLEAN, n \in 0..CallsAtOnce :
           /\ issued' = issued + n /\ issued' <= MaxCalls
           /\ answer' = [text |-> text, calls |-> issued + 1..issued', cut |-> cut]
    BY DEF Hear
  <1>2. issued \in Nat /\ n \in Nat /\ MaxCalls \in Nat
    BY DEF AgentTypeOK
  <1>3. issued' \in 0..MaxCalls
    BY <1>1, <1>2
  <1>4. issued + 1..issued' \subseteq Calls
    BY <1>1, <1>2, <1>3 DEF Calls
  <1>5. answer' \in Reply
    BY <1>1, <1>4 DEF Reply
  <1>6. QED
    BY <1>3, <1>5

\* A turn that is over leaves the loop as it was before the first.
EndsAll == UNCHANGED <<prompt, emptying, issued>> /\ Ends
LEMMA EndsLoop ==
  ASSUME AgentTypeOK, EndsAll, transcript' \in Seq(Item)
  PROVE  AgentTypeOK'
  <1>1. /\ prompt' \in Nat /\ issued' \in 0..MaxCalls /\ emptying' \in BOOLEAN
    BY DEF AgentTypeOK, EndsAll
  <1>2. Ends
    BY DEF EndsAll
  <1>3. QED
    BY <1>1, <1>2, EndsTyped DEF AgentTypeOK

LEMMA LoopTypes == LoopInv /\ [AgentNext]_agentVars => AgentTypeOK'
  <1> SUFFICES ASSUME LoopInv, [AgentNext]_agentVars
               PROVE  AgentTypeOK'
    OBVIOUS
  <1>1. AgentTypeOK /\ BusyOK /\ transcript' \in Seq(Item)
    BY TranscriptTyped DEF LoopInv
  <1>2. CASE TakePrompt
    BY <1>1, <1>2 DEF TakePrompt, Proceed, AgentTypeOK, asking, replying, calling, approving
  <1>3. CASE GiveUp
    BY <1>1, <1>3, EndsLoop DEF GiveUp, EndsAll
  <1>4. CASE OpenRound
    <2>1. sent' \in Seq(Item) /\ squeezed' \in {"no", "compacted"}
      BY <1>1, <1>4, SnapshotTyped DEF OpenRound
    <2>2. QED
      BY <1>1, <1>4, <2>1 DEF OpenRound, AgentTypeOK, Proceed, ConsentNextRound, replying,
         calling, approving
  <1>5. CASE Overflow
    <2>1. sent' \in Seq(Item)
      BY <1>1, <1>5, CompactionsTyped DEF Overflow, AgentTypeOK
    <2>2. QED
      BY <1>1, <1>5, <2>1 DEF Overflow, AgentTypeOK, replying, calling, approving
  <1>6. CASE ProviderFails
    BY <1>1, <1>6, EndsLoop DEF ProviderFails, EndsAll
  <1>7. CASE Hear
    <2>1. issued' \in 0..MaxCalls /\ answer' \in Reply /\ sent' \in Seq(Item)
      BY <1>1, <1>7, HearTyped, EmptySeq DEF Hear
    <2>2. QED
      BY <1>1, <1>7, <2>1 DEF Hear, AfterAnswer, AgentTypeOK, Proceed, calling, approving
  <1>8. CASE AppendResults
    BY <1>1, <1>8 DEF AppendResults, Proceed, AgentTypeOK, asking, replying, calling, approving
  <1>9. CASE RecordReply
    <2>1. answer.calls \subseteq Calls
      BY <1>1 DEF AgentTypeOK, Reply
    <2>2. todo' \subseteq Calls /\ stage' \in {"tools", "judge"}
      BY <1>9, <2>1 DEF RecordReply, Proceed
    <2>3. QED
      BY <1>1, <1>9, <2>2 DEF RecordReply, AgentTypeOK, asking, replying, approving
  <1>10. CASE RefuseCall
    <2>1. todo' \subseteq Calls /\ outcomes' \subseteq Calls /\ using' = "none" /\ stage' = "tools"
      BY <1>1, <1>10, AnswerTyped DEF RefuseCall, NextCall, BusyOK
    <2>2. QED
      BY <1>1, <1>10, <2>1 DEF RefuseCall, AgentTypeOK, asking, replying, approving
  <1>11. CASE Permit
    <2>1. /\ using' \in {"free", "kept", "exact"} \union Grants
          /\ stage' \in {"allowed", "confirm", "person"}
      BY <1>11 DEF Permit, Proceed, Grants
    <2>2. QED
      BY <1>1, <1>11, <2>1 DEF Permit, AgentTypeOK, asking, replying, approving
  <1>12. CASE AskPerson
    <2>1. /\ using' \in {"free", "kept", "exact"} \union Grants
          /\ stage' \in {"allowed", "confirm", "person"}
      BY <1>12 DEF AskPerson, Proceed, Grants
    <2>2. QED
      BY <1>1, <1>12, <2>1 DEF AskPerson, AgentTypeOK, asking, replying, approving
  <1>13. CASE Execute
    <2>1. AtHand \in Calls
      BY <1>1, <1>13, AtHandIs DEF Execute, BusyOK
    <2>2. QED
      BY <1>1, <1>13, <2>1 DEF Execute, AgentTypeOK, Proceed, asking, replying, calling, approving
  <1>14. CASE ToolReturns
    <2>1. todo' \subseteq Calls /\ outcomes' \subseteq Calls /\ using' = "none" /\ stage' = "tools"
      BY <1>1, <1>14, AnswerTyped DEF ToolReturns, BusyOK
    <2>2. QED
      BY <1>1, <1>14, <2>1 DEF ToolReturns, AgentTypeOK, asking, replying, approving
  <1>15. CASE LoopGuard
    <2>1. CASE Ends
      BY <1>1, <1>15, <2>1, EndsLoop DEF LoopGuard, EndsAll
    <2>2. CASE AnswerCall /\ UNCHANGED <<life, asking, answer, pictures, approving, ran>>
      <3>1. todo' \subseteq Calls /\ outcomes' \subseteq Calls /\ using' = "none" /\ stage' = "tools"
        BY <1>1, <1>15, <2>2, AnswerTyped DEF LoopGuard, BusyOK
      <3>2. QED
        BY <1>1, <1>15, <2>2, <3>1 DEF LoopGuard, AgentTypeOK, asking, approving
    <2>3. QED
      BY <1>15, <2>1, <2>2 DEF LoopGuard
  <1>16. CASE SendResults
    <2>1. sent' \in Seq(Item) /\ squeezed' \in {"no", "compacted"}
      BY <1>1, <1>16, SnapshotTyped DEF SendResults
    <2>2. QED
      BY <1>1, <1>16, <2>1 DEF SendResults, AgentTypeOK, Proceed, ConsentNextRound, replying,
         calling, approving
  <1>17. CASE Nudge
    BY <1>1, <1>17 DEF Nudge, Proceed, AgentTypeOK, asking, replying, calling, approving
  <1>18. CASE EndLoop
    BY <1>1, <1>18, EndsLoop DEF EndLoop, EndsAll
  <1>19. CASE PersonAllows
    <2>1. /\ consent' \in [Grants -> {"open", "yes", "no"}]
          /\ using' \in {using, "kept"} /\ stage' \in {"allowed", "confirm"}
      BY <1>1, <1>19 DEF PersonAllows, AgentTypeOK, Proceed
    <2>2. QED
      BY <1>1, <1>19, <2>1 DEF PersonAllows, AgentTypeOK, asking, replying
  <1>20. CASE Declined
    <2>1. todo' \subseteq Calls /\ outcomes' \subseteq Calls /\ using' = "none" /\ stage' = "tools"
      BY <1>1, <1>20, AnswerTyped DEF Declined, BusyOK
    <2>2. consent' \in [Grants -> {"open", "yes", "no"}] /\ turnedDown' \subseteq Grants
      BY <1>1, <1>20 DEF Declined, AgentTypeOK, LoopInv, ConsentOK
    <2>3. QED
      BY <1>1, <1>20, <2>1, <2>2 DEF Declined, AgentTypeOK, asking, replying
  <1>21. CASE PersonConfirms
    <2>1. /\ todo' \subseteq Calls /\ outcomes' \subseteq Calls /\ using' \in {"none", using}
          /\ stage' \in {"tools", "allowed"}
      BY <1>1, <1>21, AnswerTyped DEF PersonConfirms, BusyOK, AgentTypeOK, Proceed
    <2>2. QED
      BY <1>1, <1>21, <2>1 DEF PersonConfirms, AgentTypeOK, asking, replying, approving
  <1>22. CASE StopOrExpire
    BY <1>1, <1>22 DEF StopOrExpire, Proceed, AgentTypeOK, asking, replying, calling, approving
  <1>23. CASE ClearStops
    BY <1>1, <1>23 DEF ClearStops, Proceed, AgentTypeOK, asking, replying, calling, approving
  <1>24. CASE ClearEmpties
    BY <1>1, <1>24 DEF ClearEmpties, Proceed, AgentTypeOK, asking, replying, calling, approving
  <1>25. CASE CutTranscript
    BY <1>1, <1>25 DEF CutTranscript, Proceed, AgentTypeOK, asking, replying, calling, approving
  <1>26. CASE UNCHANGED agentVars
    BY <1>1, <1>26 DEF AgentTypeOK, agentVars, asking, replying, calling, approving
  <1>27. QED
    BY <1>2, <1>3, <1>4, <1>5, <1>6, <1>7, <1>8, <1>9, <1>10, <1>11, <1>12, <1>13, <1>14, <1>15,
       <1>16, <1>17, <1>18, <1>19, <1>20, <1>21, <1>22, <1>23, <1>24, <1>25, <1>26 DEF AgentNext,
       Loop, QuestionEnds
\* Between an answer and its results the loop has calls at hand, and a turn
\* that is over has left nothing behind.
LEMMA BusyStep == LoopInv /\ [AgentNext]_agentVars => BusyOK'
  <1> SUFFICES ASSUME LoopInv, [AgentNext]_agentVars
               PROVE  BusyOK'
    OBVIOUS
  <1>1. AgentTypeOK /\ BusyOK
    BY DEF LoopInv
  <1>2. CASE GiveUp \/ ProviderFails \/ EndLoop
    BY <1>2 DEF GiveUp, ProviderFails, EndLoop, Ends, Proceed, BusyOK
  <1>3. CASE TakePrompt \/ OpenRound \/ Overflow \/ Hear \/ AppendResults \/ Nudge
    BY <1>1, <1>3 DEF TakePrompt, OpenRound, Overflow, Hear, AppendResults, Nudge, AfterAnswer,
       InFlight, Proceed, calling, BusyOK
  <1>4. CASE RecordReply \/ SendResults
    BY <1>1, <1>4 DEF RecordReply, SendResults, Proceed, calling, BusyOK
  <1>5. CASE RefuseCall \/ ToolReturns \/ Declined
    <2>1. stage' = "tools" /\ life' = life /\ emptying' = emptying
      BY <1>5 DEF RefuseCall, ToolReturns, Declined, AnswerCall, Proceed
    <2>2. QED
      BY <1>1, <2>1 DEF BusyOK
  <1>6. CASE PersonConfirms
    BY <1>1, <1>6 DEF PersonConfirms, AnswerCall, Proceed, BusyOK
  <1>7. CASE LoopGuard
    BY <1>1, <1>7 DEF LoopGuard, AnswerCall, Ends, Proceed, BusyOK
  <1>8. CASE Permit \/ AskPerson \/ PersonAllows \/ Execute
    BY <1>1, <1>8 DEF Permit, AskPerson, PersonAllows, Execute, NextCall, Proceed, calling, BusyOK
  <1>9. CASE StopOrExpire \/ ClearStops \/ ClearEmpties \/ CutTranscript
    BY <1>1, <1>9 DEF StopOrExpire, ClearStops, ClearEmpties, CutTranscript, calling, BusyOK
  <1>10. CASE UNCHANGED agentVars
    BY <1>1, <1>10 DEF agentVars, calling, BusyOK
  <1>11. QED
    BY <1>2, <1>3, <1>4, <1>5, <1>6, <1>7, <1>8, <1>9, <1>10 DEF AgentNext, Loop, QuestionEnds

LEMMA CallsKept ==
  ASSUME CallsOK, transcript' = transcript, todo' \union outcomes' = todo \union outcomes,
         stage \in PendingStages \/ stage' \notin PendingStages
  PROVE  CallsOK'
  BY DEF CallsOK

\* The calls at hand are those of the latest answer.
LEMMA CallsStep == LoopInv /\ [AgentNext]_agentVars => CallsOK'
  <1> SUFFICES ASSUME LoopInv, [AgentNext]_agentVars
               PROVE  CallsOK'
    OBVIOUS
  <1>1. AgentTypeOK /\ BusyOK /\ CallsOK /\ transcript \in Seq(Item)
    BY DEF LoopInv, AgentTypeOK
  <1>2. CASE TakePrompt \/ GiveUp \/ OpenRound \/ ProviderFails \/ AppendResults \/ Nudge \/ EndLoop
    BY <1>2 DEF TakePrompt, GiveUp, OpenRound, ProviderFails, AppendResults, Nudge, EndLoop, Ends,
       Proceed, CallsOK, PendingStages, ToolStages
  <1>3. CASE Overflow \/ Hear
    <2>1. transcript' = transcript /\ todo' = todo /\ outcomes' = outcomes
      BY <1>3 DEF Overflow, Hear, calling
    <2>2. stage \in PendingStages \/ stage' \notin PendingStages
      BY <1>3 DEF Overflow, Hear, AfterAnswer, InFlight, Proceed, PendingStages, ToolStages
    <2>3. QED
      BY <1>1, <2>1, <2>2, CallsKept
  <1>4. CASE RecordReply
    <2>1. answer \in Reply /\ transcript' = Append(transcript, Spoken(answer))
      BY <1>1, <1>4 DEF RecordReply, AgentTypeOK
    <2>2. Spoken(answer) \in Item /\ Spoken(answer).calls = answer.calls
      BY <2>1, SpokenTyped
    <2>3. transcript'[Len(transcript')] = Spoken(answer)
      BY <1>1, <2>1, <2>2, AdditionIs
    <2>4. outcomes' = {} /\ ((stage' = "tools" /\ todo' = answer.calls) \/ stage' = "judge")
      BY <1>4 DEF RecordReply, Proceed
    <2>5. QED
      BY <2>2, <2>3, <2>4 DEF CallsOK, PendingStages, ToolStages
  <1>5. CASE RefuseCall \/ ToolReturns \/ Declined \/ PersonConfirms \/ LoopGuard
    <2>1. CASE AnswerCall
      <3>1. transcript' = transcript /\ todo # {} /\ stage \in PendingStages
        BY <1>1, <1>5 DEF RefuseCall, ToolReturns, Declined, PersonConfirms, LoopGuard, NextCall,
           BusyOK, PendingStages, ToolStages
      <3>2. QED
        BY <1>1, <2>1, <3>1, AnswerTyped, CallsKept
    <2>2. CASE PersonConfirms /\ Proceed("allowed") /\ UNCHANGED <<todo, outcomes, using>>
      <3>1. transcript' = transcript /\ stage \in PendingStages
        BY <2>2 DEF PersonConfirms, PendingStages, ToolStages
      <3>2. QED
        BY <1>1, <2>2, <3>1, CallsKept
    <2>3. CASE Ends
      BY <2>3 DEF Ends, Proceed, CallsOK, PendingStages, ToolStages
    <2>4. QED
      BY <1>5, <2>1, <2>2, <2>3 DEF RefuseCall, ToolReturns, Declined, PersonConfirms, LoopGuard
  <1>6. CASE Permit \/ AskPerson \/ PersonAllows \/ Execute \/ SendResults
    <2>1. transcript' = transcript /\ todo' = todo /\ outcomes' = outcomes
      BY <1>6 DEF Permit, AskPerson, PersonAllows, Execute, SendResults, calling
    <2>2. stage \in PendingStages
      BY <1>6 DEF Permit, AskPerson, PersonAllows, Execute, SendResults, NextCall, PendingStages,
         ToolStages
    <2>3. QED
      BY <1>1, <2>1, <2>2, CallsKept
  <1>7. CASE StopOrExpire \/ ClearStops \/ UNCHANGED agentVars
    <2>1. transcript' = transcript /\ todo' = todo /\ outcomes' = outcomes /\ stage' = stage
      BY <1>7 DEF StopOrExpire, ClearStops, agentVars, calling
    <2>2. QED
      BY <1>1, <2>1, CallsKept
  <1>8. CASE ClearEmpties
    BY <1>1, <1>8 DEF ClearEmpties, calling, CallsOK
  <1>9. CASE CutTranscript
    BY <1>9 DEF CutTranscript, CallsOK, PendingStages, ToolStages
  <1>10. QED
    BY <1>2, <1>3, <1>4, <1>5, <1>6, <1>7, <1>8, <1>9 DEF AgentNext, Loop, QuestionEnds

\* What is recorded stays so, but for an edit between two turns and a clear.
LEMMA RecordsKept ==
  ASSUME AgentTypeOK, [AgentNext]_agentVars, stage # "idle", ~emptying
  PROVE  /\ RecordedIn(transcript) \subseteq RecordedIn(transcript')
         /\ AddsResults => outcomes \subseteq RecordedIn(transcript')
  <1>1. transcript \in Seq(Item) /\ Len(transcript) \in Nat
    BY LenProperties DEF AgentTypeOK
  <1>2. ASSUME NEW it \in Item, transcript' = Append(transcript, it)
        PROVE  /\ RecordedIn(transcript) \subseteq RecordedIn(transcript')
               /\ it.results \subseteq RecordedIn(transcript')
    <2>1. /\ Len(transcript') = Len(transcript) + 1 /\ transcript'[Len(transcript) + 1] = it
          /\ \A i \in 1..Len(transcript) : transcript'[i] = transcript[i]
      BY <1>1, <1>2, AdditionIs
    <2>2. /\ \A i \in 1..Len(transcript) : i \in 1..Len(transcript')
          /\ Len(transcript) + 1 \in 1..Len(transcript')
      BY <1>1, <2>1
    <2>3. QED
      BY <2>1, <2>2 DEF RecordedIn
  <1>3. CASE AddsWords
    <2>1. Results \in Item /\ Results.results = outcomes
      BY ResultsTyped
    <2>2. QED
      BY <1>2, <1>3, <2>1 DEF AddsWords, Added, AddsResults
  <1>4. CASE AddsResults
    BY <1>2, <1>4, ResultsTyped DEF AddsResults
  <1>5. CASE transcript' = transcript /\ ~AddsResults
    BY <1>5
  <1>6. ~Cuts /\ ~Empties
    BY DEF Cuts, Empties
  <1>7. QED
    BY <1>3, <1>4, <1>5, <1>6, TranscriptStep

LEMMA RanStep == LoopInv /\ [AgentNext]_agentVars => RanOK'
  <1> SUFFICES ASSUME LoopInv, [AgentNext]_agentVars, life' = "live"
               PROVE  ran' \subseteq RecordedIn(transcript') \union OnItsWay'
    BY DEF RanOK, RecordedIn
  <1>1. AgentTypeOK /\ BusyOK /\ RanOK
    BY DEF LoopInv
  <1>2. CASE TakePrompt
    BY <1>1, <1>2 DEF TakePrompt, BusyOK
  <1>3. CASE ~TakePrompt
    <2>1. life = "live" /\ ~emptying /\ stage # "idle" /\ ~Ends
      <3>1. life = "live"
        BY <1>3 DEF AgentNext, Loop, QuestionEnds, GiveUp, OpenRound, Overflow, ProviderFails, Hear,
           AppendResults, RecordReply, RefuseCall, Permit, AskPerson, Execute, ToolReturns,
           LoopGuard, SendResults, Nudge, EndLoop, PersonAllows, Declined, PersonConfirms,
           StopOrExpire, ClearStops, ClearEmpties, CutTranscript, Ends, agentVars
      <3>2. QED
        BY <1>1, <3>1 DEF BusyOK, Ends
    <2>2. /\ RecordedIn(transcript) \subseteq RecordedIn(transcript')
          /\ AddsResults => outcomes \subseteq RecordedIn(transcript')
      BY <1>1, <2>1, RecordsKept
    <2>3. ran \subseteq RecordedIn(transcript) \union OnItsWay
      BY <1>1, <2>1 DEF RanOK
    <2>4. ran' \subseteq ran \union OnItsWay' /\ (AddsResults \/ OnItsWay \subseteq OnItsWay')
      <3>1. CASE GiveUp \/ ProviderFails \/ EndLoop
        BY <2>1, <3>1 DEF GiveUp, ProviderFails, EndLoop
      <3>2. CASE OpenRound \/ RecordReply \/ Nudge
        BY <3>2 DEF OpenRound, RecordReply, Nudge, OnItsWay, PendingStages, ToolStages
      <3>3. CASE Overflow \/ Hear
        BY <3>3 DEF Overflow, Hear, AfterAnswer, InFlight, Proceed, calling, OnItsWay,
           PendingStages, ToolStages
      <3>4. CASE AppendResults
        BY <3>4 DEF AppendResults, AddsResults
      <3>5. CASE RefuseCall \/ ToolReturns \/ Declined \/ PersonConfirms \/ LoopGuard
        <4>1. CASE AnswerCall
          <5>1. outcomes' = outcomes \union {AtHand} /\ stage' = "tools" /\ ran' = ran
            BY <2>1, <3>5, <4>1 DEF AnswerCall, Proceed, RefuseCall, ToolReturns, Declined,
               PersonConfirms, LoopGuard
          <5>2. QED
            BY <5>1 DEF OnItsWay, PendingStages, ToolStages
        <4>2. CASE PersonConfirms /\ Proceed("allowed") /\ UNCHANGED <<todo, outcomes, using>>
          BY <4>2 DEF PersonConfirms, Proceed, OnItsWay, PendingStages, ToolStages
        <4>3. QED
          BY <2>1, <3>5, <4>1, <4>2 DEF RefuseCall, ToolReturns, Declined, PersonConfirms, LoopGuard
      <3>6. CASE Permit \/ AskPerson \/ PersonAllows \/ SendResults
        BY <3>6 DEF Permit, AskPerson, PersonAllows, SendResults, NextCall, Proceed, calling,
           OnItsWay, PendingStages, ToolStages
      <3>7. CASE Execute
        BY <3>7 DEF Execute, Proceed, AtHand, calling, OnItsWay, PendingStages, ToolStages
      <3>8. CASE StopOrExpire \/ ClearStops \/ ClearEmpties \/ CutTranscript \/ UNCHANGED agentVars
        BY <3>8 DEF StopOrExpire, ClearStops, ClearEmpties, CutTranscript, agentVars, calling,
           AtHand,
           OnItsWay, PendingStages, ToolStages
      <3>9. QED
        BY <1>3, <3>1, <3>2, <3>3, <3>4, <3>5, <3>6, <3>7, <3>8 DEF AgentNext, Loop, QuestionEnds
    <2>5. OnItsWay \subseteq outcomes \/ ~AddsResults
      BY DEF OnItsWay, AddsResults
    <2>6. QED
      BY <2>2, <2>3, <2>4, <2>5
  <1>4. QED
    BY <1>2, <1>3

LEMMA ConsentStep == LoopInv /\ [AgentNext]_agentVars => ConsentOK'
  <1> SUFFICES ASSUME LoopInv, [AgentNext]_agentVars
               PROVE  ConsentOK'
    OBVIOUS
  <1>1. AgentTypeOK /\ ConsentOK
    BY DEF LoopInv
  <1>2. turnedDown \subseteq Grants /\ consent \in [Grants -> {"open", "yes", "no"}]
    BY <1>1 DEF AgentTypeOK
  <1>3. {"none", "free", "kept", "exact"} \intersect Grants = {}
    BY DEF Grants
  <1>4. CASE TakePrompt \/ OpenRound \/ Overflow \/ Hear \/ AppendResults \/ RecordReply \/ SendResults \/ Nudge
    BY <1>1, <1>4 DEF TakePrompt, OpenRound, Overflow, Hear, AppendResults, RecordReply,
       SendResults,
       Nudge, AfterAnswer, ConsentNextRound, InFlight, Proceed, approving, ConsentOK
  <1>5. CASE Ends
    BY <1>5 DEF Ends, Proceed, ConsentOK
  <1>6. CASE RefuseCall \/ ToolReturns
    BY <1>1, <1>6 DEF RefuseCall, ToolReturns, AnswerCall, Proceed, approving, ConsentOK
  <1>7. CASE LoopGuard /\ AnswerCall
    BY <1>1, <1>7 DEF LoopGuard, Ends, AnswerCall, Proceed, approving, ConsentOK
  <1>8. CASE PersonConfirms
    BY <1>1, <1>8 DEF PersonConfirms, AnswerCall, Proceed, approving, ConsentOK
  <1>9. CASE Permit
    <2>1. using' \notin turnedDown
      BY <1>1, <1>2, <1>3, <1>9 DEF Permit, ConsentOK
    <2>2. consent' = consent /\ turnedDown' = turnedDown /\ stage' \in {"allowed", "confirm"}
      BY <1>9 DEF Permit, Proceed, approving
    <2>3. QED
      BY <1>1, <2>1, <2>2 DEF ConsentOK
  <1>10. CASE AskPerson
    <2>1. consent' = consent /\ turnedDown' = turnedDown
      BY <1>10 DEF AskPerson, approving
    <2>2. CASE using' = "exact" /\ Proceed("confirm")
      BY <1>1, <1>2, <1>3, <2>1, <2>2 DEF Proceed, ConsentOK
    <2>3. CASE using' \in {g \in Grants : consent[g] = "open"} /\ Proceed("person")
      BY <1>1, <2>1, <2>3 DEF Proceed, ConsentOK
    <2>4. QED
      BY <1>10, <2>2, <2>3 DEF AskPerson
  <1>11. CASE PersonAllows
    <2>1. /\ using \in Grants /\ consent[using] = "open" /\ using \notin turnedDown
          /\ turnedDown' = turnedDown /\ stage' \in {"allowed", "confirm"}
      BY <1>1, <1>11 DEF PersonAllows, Proceed, ConsentOK
    <2>2. CASE consent' = [consent EXCEPT ![using] = "yes"] /\ using' = using
      BY <1>1, <1>2, <2>1, <2>2 DEF ConsentOK
    <2>3. CASE consent' = consent /\ using' = "kept"
      BY <1>1, <1>2, <1>3, <2>1, <2>3 DEF ConsentOK
    <2>4. QED
      BY <1>11, <2>2, <2>3 DEF PersonAllows
  <1>12. CASE Declined
    <2>1. using \in Grants /\ stage' = "tools"
      BY <1>1, <1>12 DEF Declined, AnswerCall, Proceed, ConsentOK
    <2>2. /\ consent' = [consent EXCEPT ![using] = "no"]
          /\ turnedDown' = turnedDown \union {using}
      BY <1>12 DEF Declined
    <2>3. QED
      BY <1>1, <1>2, <2>1, <2>2 DEF ConsentOK
  <1>13. CASE Execute
    BY <1>1, <1>13 DEF Execute, Proceed, calling, approving, ConsentOK
  <1>14. CASE StopOrExpire \/ ClearStops \/ ClearEmpties \/ CutTranscript \/ UNCHANGED agentVars
    BY <1>1, <1>14 DEF StopOrExpire, ClearStops, ClearEmpties, CutTranscript, agentVars, calling,
       approving,
       ConsentOK
  <1>15. QED
    BY <1>4, <1>5, <1>6, <1>7, <1>8, <1>9, <1>10, <1>11, <1>12, <1>13, <1>14 DEF AgentNext, Loop,
       QuestionEnds, GiveUp, ProviderFails, EndLoop, LoopGuard

\* Every step of sendMessage keeps the calls it has taken up, their outcomes
\* and the transcript in step.
THEOREM LoopInvariant == AgentSpec => []LoopInv
  <1>1. LoopInv /\ [AgentNext]_agentVars => LoopInv'
    BY LoopTypes, BusyStep, CallsStep, CausalStep, RanStep, ConsentStep DEF LoopInv
  <1>2. QED
    BY InitLoop, <1>1, PTL DEF AgentSpec

\* The agent loop keeps its types, however long the conversation.
THEOREM AgentTypeCorrect == AgentSpec => []AgentTypeOK
  <1>1. LoopInv => AgentTypeOK
    BY DEF LoopInv
  <1>2. QED
    BY LoopInvariant, <1>1, PTL

\* sendMessage appends the results of all the calls of an answer right behind
\* it, and whatever ran in a turn that goes on is among them.
THEOREM TranscriptAlwaysCausal == AgentSpec => []TranscriptIsCausal
  <1>1. LoopInv => TranscriptIsCausal
    <2> SUFFICES ASSUME LoopInv
                 PROVE  ResultsFollowCalls /\ RunsAreRecorded
      BY DEF TranscriptIsCausal
    <2>1. stage \in {"round", "judge"} /\ life = "live" => ran \subseteq RecordedIn(transcript)
      BY DEF LoopInv, RanOK, OnItsWay, PendingStages, ToolStages
    <2>2. QED
      BY <2>1 DEF LoopInv, RunsAreRecorded, RecordedIn
  <1>2. QED
    BY LoopInvariant, <1>1, PTL

\* toolApproval and its caches: no nudge, no further round and no other
\* application lets a tool run that the person has turned down.
THEOREM DenialAlwaysStands == AgentSpec => []DenialStands
  <1>1. LoopInv => DenialStands
    BY DEF LoopInv, ConsentOK, DenialStands
  <1>2. QED
    BY LoopInvariant, <1>1, PTL

\* An answer holds no results and a message no calls; a call and its result
\* stand in one content each; and results stand directly behind their calls,
\* unless a clear or a compaction took the calls away.
CallsIn(h) == UNION {h[i].calls : i \in 1..Len(h)}
Shaped(it) == IF it.by = "model" THEN it.results = {} ELSE it.calls = {}
Once(h) ==
    \A i, j \in 1..Len(h) : i # j =>
        /\ h[i].calls \intersect h[j].calls = {}
        /\ h[i].results \intersect h[j].results = {}
Matched(h) ==
    \A i \in 1..Len(h) :
        \/ i > 1 /\ h[i].results = h[i - 1].calls
        \/ \A j \in 1..Len(h) : h[i].results \intersect h[j].calls = {}
Paired(h) == (\A i \in 1..Len(h) : Shaped(h[i])) /\ Once(h) /\ Matched(h)

LEMMA NothingPaired == Paired(<<>>) /\ CallsIn(<<>>) = {} /\ RecordedIn(<<>>) = {}
  BY EmptySeq DEF Paired, Once, Matched, CallsIn, RecordedIn

\* What the contents of a history hold, one by one and all together.
LEMMA PartOf ==
  ASSUME NEW h, NEW i \in 1..Len(h)
  PROVE  h[i].calls \subseteq CallsIn(h) /\ h[i].results \subseteq RecordedIn(h)
  BY DEF CallsIn, RecordedIn

LEMMA AllParts ==
  ASSUME NEW h, NEW cs, NEW rs,
         \A i \in 1..Len(h) : h[i].calls \subseteq cs /\ h[i].results \subseteq rs
  PROVE  CallsIn(h) \subseteq cs /\ RecordedIn(h) \subseteq rs
  BY DEF CallsIn, RecordedIn

\* Facts about numbers and lists, stated apart from the histories they are used for.
LEMMA Before ==
  ASSUME NEW n \in Nat, NEW i \in 1..n, i > 1
  PROVE  i - 1 \in 1..n /\ i \in 2..n
  OBVIOUS

LEMMA Final ==
  ASSUME NEW n \in Nat
  PROVE  n + 1 \in 1..(n + 1)
  OBVIOUS

LEMMA Remaining ==
  ASSUME NEW n \in Nat, NEW i \in 1..n
  PROVE  n - i + 1 \in Nat /\ (n - i + 1) + (i - 1) = n /\ 0 < n - i + 1
  OBVIOUS

LEMMA Wider ==
  ASSUME NEW n \in Nat, NEW m \in Nat, n <= m, NEW i \in 1..n
  PROVE  i \in 1..m /\ i \in 1..(m + 1)
  OBVIOUS

LEMMA ListOf ==
  ASSUME NEW n \in Nat, NEW T, NEW f \in [1..n -> T]
  PROVE  f \in Seq(T) /\ Len(f) = n
  OBVIOUS

LEMMA NewIDs ==
  ASSUME NEW i \in Nat, NEW j \in Nat, i <= j
  PROVE  /\ 1..i \subseteq 1..j /\ (i + 1)..j \subseteq 1..j
         /\ ((i + 1)..j) \intersect 1..i = {}
  OBVIOUS

LEMMA Successor ==
  ASSUME NEW i \in Nat, NEW n \in Nat, i + 1 <= n
  PROVE  /\ i + 1 \in 1..n /\ (i + 1) - 1 = i /\ i + 1 # 0 /\ i + 1 > i
         /\ i = 0 \/ i + 1 \in 2..n
  OBVIOUS

\* Where a content has stood before s of them were dropped behind the first d.
Past(k, d, s) == IF k <= d THEN k ELSE k + s

LEMMA PastIs ==
  ASSUME NEW d \in Nat, NEW s \in Nat, NEW n \in Nat, NEW m \in Nat, m + s <= n
  PROVE  /\ \A k \in 1..m : Past(k, d, s) \in 1..n
         /\ \A i, j \in 1..m : i # j => Past(i, d, s) # Past(j, d, s)
         /\ \A i, j \in 1..m : Past(j, d, s) = Past(i, d, s) - 1 => i > 1 /\ j = i - 1
  BY DEF Past

\* Contents that are dropped, in one stretch, take their pairs with them.
LEMMA CutPaired ==
  ASSUME NEW h \in Seq(Item), Paired(h), NEW g \in Seq(Item), NEW d \in Nat, NEW s \in Nat,
         Len(g) + s <= Len(h),
         \A k \in 1..Len(g) : g[k] = h[IF k <= d THEN k ELSE k + s]
  PROVE  /\ Paired(g)
         /\ CallsIn(g) \subseteq CallsIn(h) /\ RecordedIn(g) \subseteq RecordedIn(h)
  <1> DEFINE at(k) == Past(k, d, s)
  <1>1. Len(g) \in Nat /\ Len(h) \in Nat
    BY LenProperties
  <1>2. \A k \in 1..Len(g) : at(k) \in 1..Len(h) /\ g[k] = h[at(k)]
    <2>1. \A k \in 1..Len(g) : at(k) \in 1..Len(h)
      BY <1>1, PastIs
    <2>2. \A k \in 1..Len(g) : g[k] = h[at(k)]
      BY DEF Past
    <2>3. QED
      BY <2>1, <2>2
  <1>3. \A i, j \in 1..Len(g) : i # j => at(i) # at(j)
    BY <1>1, PastIs
  <1>4. \A i, j \in 1..Len(g) : at(j) = at(i) - 1 => i > 1 /\ j = i - 1
    BY <1>1, PastIs
  <1> HIDE DEF at
  <1>5. (\A i \in 1..Len(g) : Shaped(g[i])) /\ Once(g)
    <2>1. \A i \in 1..Len(g) : Shaped(g[i])
      BY <1>2 DEF Paired
    <2>2. ASSUME NEW i \in 1..Len(g), NEW j \in 1..Len(g), i # j
          PROVE  /\ g[i].calls \intersect g[j].calls = {}
                 /\ g[i].results \intersect g[j].results = {}
      <3>1. /\ at(i) \in 1..Len(h) /\ at(j) \in 1..Len(h) /\ at(i) # at(j)
            /\ g[i] = h[at(i)] /\ g[j] = h[at(j)]
        BY <1>2, <1>3, <2>2
      <3>2. QED
        BY <3>1 DEF Paired, Once
    <2>3. QED
      BY <2>1, <2>2 DEF Once
  <1>6. Matched(g)
    <2> SUFFICES ASSUME NEW i \in 1..Len(g),
                        NEW j \in 1..Len(g), g[i].results \intersect g[j].calls # {}
                 PROVE  i > 1 /\ g[i].results = g[i - 1].calls
      BY DEF Matched
    <2>1. /\ at(i) \in 1..Len(h) /\ at(j) \in 1..Len(h)
          /\ g[i] = h[at(i)] /\ g[j] = h[at(j)]
      BY <1>2
    <2>2. at(i) > 1 /\ h[at(i)].results = h[at(i) - 1].calls
      BY <2>1 DEF Paired, Matched
    <2>3. at(i) - 1 \in 1..Len(h)
      <3>1. at(i) \in 1..Len(h) /\ at(i) > 1
        BY <2>1, <2>2
      <3>2. QED
        BY <1>1, <3>1, Before
    <2>4. at(j) = at(i) - 1
      BY <2>1, <2>2, <2>3 DEF Paired, Once
    <2>5. i > 1 /\ j = i - 1
      BY <1>4, <2>4
    <2>6. QED
      BY <2>1, <2>2, <2>4, <2>5
  <1>7. CallsIn(g) \subseteq CallsIn(h) /\ RecordedIn(g) \subseteq RecordedIn(h)
    <2>1. ASSUME NEW k \in 1..Len(g)
          PROVE  g[k].calls \subseteq CallsIn(h) /\ g[k].results \subseteq RecordedIn(h)
      <3>1. at(k) \in 1..Len(h) /\ g[k] = h[at(k)]
        BY <1>2
      <3>2. QED
        BY <3>1, PartOf
    <2>2. QED
      BY <2>1, AllParts
  <1>8. QED
    BY <1>5, <1>6, <1>7 DEF Paired

\* A fresh answer, the results of the last answer, and words keep the pairs.
LEMMA AddPaired ==
  ASSUME NEW h \in Seq(Item), Paired(h), NEW it \in Item, Shaped(it),
         it.calls \intersect (CallsIn(h) \union RecordedIn(h)) = {},
         it.results \intersect RecordedIn(h) = {},
         \/ h # <<>> /\ it.results = h[Len(h)].calls
         \/ it.results \intersect CallsIn(h) = {}
  PROVE  /\ Paired(Append(h, it))
         /\ CallsIn(Append(h, it)) = CallsIn(h) \union it.calls
         /\ RecordedIn(Append(h, it)) = RecordedIn(h) \union it.results
  <1> DEFINE g == Append(h, it)
             n == Len(h) + 1
  <1>1. /\ Len(g) = n /\ Len(h) \in Nat /\ g[n] = it
        /\ \A i \in 1..Len(h) : g[i] = h[i]
    BY AdditionIs
  <1>2. \A i \in 1..n : i = n \/ i \in 1..Len(h)
    BY <1>1
  <1>3. \A i \in 1..Len(h) : i \in 1..n /\ n \in 1..n
    BY <1>1
  <1>4. \A i \in 1..Len(h) : h[i].calls \subseteq CallsIn(h) /\ h[i].results \subseteq RecordedIn(h)
    BY DEF CallsIn, RecordedIn
  <1> HIDE DEF g
  <1>5. \A i \in 1..n : Shaped(g[i])
    BY <1>1, <1>2 DEF Paired
  <1>6. Once(g)
    <2> SUFFICES ASSUME NEW i \in 1..n, NEW j \in 1..n, i # j
                 PROVE  /\ g[i].calls \intersect g[j].calls = {}
                        /\ g[i].results \intersect g[j].results = {}
      BY <1>1 DEF Once
    <2>1. CASE i = n \/ j = n
      BY <1>1, <1>2, <1>4, <2>1
    <2>2. CASE i # n /\ j # n
      BY <1>1, <1>2, <2>2 DEF Paired, Once
    <2>3. QED
      BY <2>1, <2>2
  <1>7. Matched(g)
    <2> SUFFICES ASSUME NEW i \in 1..n
                 PROVE  \/ i > 1 /\ g[i].results = g[i - 1].calls
                        \/ \A j \in 1..n : g[i].results \intersect g[j].calls = {}
      BY <1>1 DEF Matched
    <2>1. CASE i = n
      <3>1. CASE h # <<>> /\ it.results = h[Len(h)].calls
        <4>1. Len(h) \in 1..Len(h)
          BY <1>1, <3>1, EmptySeq
        <4>2. i - 1 = Len(h) /\ i > 1
          BY <1>1, <2>1, <4>1
        <4>3. QED
          BY <1>1, <2>1, <3>1, <4>1, <4>2
      <3>2. CASE it.results \intersect CallsIn(h) = {}
        <4>1. it.results \intersect it.calls = {}
          BY DEF Shaped
        <4>2. QED
          BY <1>1, <1>2, <1>4, <2>1, <3>2, <4>1
      <3>3. QED
        BY <3>1, <3>2
    <2>2. CASE i # n
      <3>1. i \in 1..Len(h)
        BY <1>2, <2>2
      <3>2. CASE i > 1 /\ h[i].results = h[i - 1].calls
        <4>1. i - 1 \in 1..Len(h)
          BY <1>1, <3>1, <3>2
        <4>2. QED
          BY <1>1, <3>1, <3>2, <4>1
      <3>3. CASE \A j \in 1..Len(h) : h[i].results \intersect h[j].calls = {}
        BY <1>1, <1>2, <1>4, <3>1, <3>3
      <3>4. QED
        BY <3>1, <3>2, <3>3 DEF Paired, Matched
    <2>3. QED
      BY <2>1, <2>2
  <1>8. /\ CallsIn(g) \subseteq CallsIn(h) \union it.calls
        /\ RecordedIn(g) \subseteq RecordedIn(h) \union it.results
    <2> DEFINE cs == CallsIn(h) \union it.calls
               rs == RecordedIn(h) \union it.results
    <2>1. ASSUME NEW i \in 1..Len(g)
          PROVE  g[i].calls \subseteq cs /\ g[i].results \subseteq rs
      <3>1. i = n \/ i \in 1..Len(h)
        BY <1>1, <1>2
      <3>2. CASE i = n
        BY <1>1, <3>2
      <3>3. CASE i \in 1..Len(h)
        BY <1>1, <1>4, <3>3
      <3>4. QED
        BY <3>1, <3>2, <3>3
    <2> HIDE DEF cs, rs
    <2>2. CallsIn(g) \subseteq cs /\ RecordedIn(g) \subseteq rs
      BY <2>1, AllParts
    <2>3. QED
      BY <2>2 DEF cs, rs
  <1>9. CallsIn(h) \subseteq CallsIn(g) /\ RecordedIn(h) \subseteq RecordedIn(g)
    <2>1. ASSUME NEW i \in 1..Len(h)
          PROVE  h[i].calls \subseteq CallsIn(g) /\ h[i].results \subseteq RecordedIn(g)
      <3>1. i \in 1..n
        BY <1>3
      <3>2. Len(g) = n /\ g[i] = h[i]
        BY <1>1
      <3>3. QED
        BY <3>1, <3>2, PartOf
    <2>2. QED
      BY <2>1, AllParts
  <1>10. it.calls \subseteq CallsIn(g) /\ it.results \subseteq RecordedIn(g)
    <2>1. n \in 1..n
      BY <1>1, Final
    <2>2. Len(g) = n /\ g[n] = it
      BY <1>1
    <2>3. QED
      BY <2>1, <2>2, PartOf
  <1>11. /\ CallsIn(g) = CallsIn(h) \union it.calls
         /\ RecordedIn(g) = RecordedIn(h) \union it.results
    BY <1>8, <1>9, <1>10
  <1>12. QED
    BY <1>1, <1>5, <1>6, <1>7, <1>11 DEF Paired, g

\* What a history ends in: an answer with these calls, or that and a hint.
EndsIn(h, cs) == h # <<>> /\ h[Len(h)].calls = cs
Hinted(h, cs) == \E s \in Seq(Item) : EndsIn(s, cs) /\ h = Append(s, Words("nudge", 0))

\* The hint to go on changes no pair.
LEMMA HintPaired ==
  ASSUME NEW h \in Seq(Item), Paired(h)
  PROVE  /\ Paired(WithHint(h))
         /\ \A cs : EndsIn(h, cs) => EndsIn(WithHint(h), cs) \/ Hinted(WithHint(h), cs)
  <1>1. CASE h # <<>> /\ h[Len(h)].by # "model"
    <2> DEFINE g == WithHint(h)
               n == Len(h)
    <2>1. n \in 1..n /\ h[n] \in Item
      BY <1>1, EmptySeq, ElementOfSeq
    <2>2. g = [h EXCEPT ![n] = [h[n] EXCEPT !.other = TRUE]]
      BY <1>1 DEF WithHint
    <2>3. g \in Seq(Item)
      BY HintTyped
    <2>4. /\ Len(g) = n /\ g # <<>>
          /\ \A i \in 1..n : g[i].by = h[i].by /\ g[i].calls = h[i].calls
                             /\ g[i].results = h[i].results
      <3>1. [h[n] EXCEPT !.other = TRUE] \in Item
        BY <2>1 DEF Item
      <3>2. /\ Len(g) = n
            /\ \A i \in 1..n : g[i] = IF i = n THEN [h[n] EXCEPT !.other = TRUE] ELSE h[i]
        BY <2>1, <2>2, <3>1, ExceptSeq
      <3>3. \A i \in 1..n : g[i].by = h[i].by /\ g[i].calls = h[i].calls
                            /\ g[i].results = h[i].results
        <4>1. [h[n] EXCEPT !.other = TRUE].by = h[n].by
              /\ [h[n] EXCEPT !.other = TRUE].calls = h[n].calls
              /\ [h[n] EXCEPT !.other = TRUE].results = h[n].results
          BY <2>1 DEF Item
        <4>2. QED
          BY <3>2, <4>1
      <3>4. QED
        BY <2>1, <3>2, <3>3, EmptySeq
    <2> HIDE DEF g
    <2>5. n \in Nat /\ \A i \in 1..n : i > 1 => i - 1 \in 1..n
      BY LenProperties
    <2>6. \A i \in 1..n : Shaped(g[i])
      BY <2>4 DEF Paired, Shaped
    <2>7. Once(g)
      BY <2>4 DEF Paired, Once
    <2>8. Matched(g)
      BY <2>4, <2>5 DEF Paired, Matched
    <2>9. \A cs : EndsIn(h, cs) => EndsIn(g, cs)
      BY <2>1, <2>4 DEF EndsIn
    <2>10. QED
      BY <2>4, <2>6, <2>7, <2>8, <2>9 DEF Paired, g
  <1>2. CASE ~(h # <<>> /\ h[Len(h)].by # "model")
    <2> DEFINE it == Words("nudge", 0)
    <2>1. WithHint(h) = Append(h, it)
      BY <1>2 DEF WithHint
    <2>2. it \in Item /\ it.results = {}
      BY WordsTyped
    <2>3. it.calls = {} /\ Shaped(it)
      BY DEF Words, Shaped
    <2>4. Paired(Append(h, it))
      BY <2>2, <2>3, AddPaired
    <2>5. QED
      BY <2>1, <2>4 DEF Hinted
  <1>3. QED
    BY <1>1, <1>2

LEMMA FromIs ==
  ASSUME NEW h \in Seq(Item), NEW i \in 1..Len(h)
  PROVE  /\ Len(From(h, i)) = Len(h) - i + 1
         /\ \A k \in 1..Len(From(h, i)) : From(h, i)[k] = h[k + (i - 1)]
  <1>1. Len(h) \in Nat /\ i \in Int /\ i <= Len(h)
    BY LenProperties
  <1>2. \A j \in i..Len(h) : h[j] \in Item
    BY <1>1, ElementOfSeq
  <1>3. /\ Len(SubSeq(h, i, Len(h))) = Len(h) - i + 1
        /\ \A k \in 1..(Len(h) - i + 1) : SubSeq(h, i, Len(h))[k] = h[i + k - 1]
    BY <1>1, <1>2, SubSeqProperties
  <1>4. \A k \in 1..(Len(h) - i + 1) : i + k - 1 = k + (i - 1)
    BY <1>1
  <1>5. QED
    BY <1>3, <1>4 DEF From

\* What a compaction leaves: the contents up to one, and those from another on.
Rest(h, m, i) == SubSeq(h, 1, m - 1) \o From(h, i)
LEMMA RestIs ==
  ASSUME NEW h \in Seq(Item), NEW m \in 1..Len(h), NEW i \in 1..Len(h), m <= i
  PROVE  /\ Rest(h, m, i) \in Seq(Item) /\ Len(Rest(h, m, i)) + (i - m) = Len(h)
         /\ \A k \in 1..Len(Rest(h, m, i)) :
               Rest(h, m, i)[k] = h[IF k <= m - 1 THEN k ELSE k + (i - m)]
  <1> DEFINE g == Rest(h, m, i)
             a == SubSeq(h, 1, m - 1)
             b == From(h, i)
  <1>1. a \in Seq(Item) /\ b \in Seq(Item)
    BY FromTyped
  <1>2. Len(a) = m - 1 /\ \A k \in 1..(m - 1) : a[k] = h[k]
    BY CutIs
  <1>3. Len(b) = Len(h) - i + 1 /\ \A k \in 1..Len(b) : b[k] = h[k + (i - 1)]
    BY FromIs
  <1>4. Len(h) \in Nat /\ i \in Int /\ m \in Int /\ m >= 1 /\ i <= Len(h)
    BY LenProperties
  <1> HIDE DEF a, b
  <1>5. /\ g \in Seq(Item) /\ Len(g) = Len(a) + Len(b)
        /\ \A k \in 1..(Len(a) + Len(b)) : g[k] = IF k <= Len(a) THEN a[k] ELSE b[k - Len(a)]
    BY <1>1, ConcatProperties DEF a, b, Rest
  <1> HIDE DEF g
  <1>6. ASSUME NEW k \in 1..Len(g)
        PROVE  g[k] = h[IF k <= m - 1 THEN k ELSE k + (i - m)]
    <2>1. CASE k <= m - 1
      BY <1>2, <1>3, <1>4, <1>5, <2>1
    <2>2. CASE k > m - 1
      <3>1. k - (m - 1) \in 1..Len(b) /\ (k - (m - 1)) + (i - 1) = k + (i - m)
        BY <1>2, <1>3, <1>4, <1>5, <2>2
      <3>2. g[k] = b[k - (m - 1)]
        <4>1. Len(a) = m - 1 /\ k \in 1..(Len(a) + Len(b))
          BY <1>2, <1>5
        <4>2. ~(k <= Len(a))
          BY <1>4, <2>2, <4>1
        <4>3. g[k] = b[k - Len(a)]
          BY <1>5, <4>1, <4>2
        <4>4. QED
          BY <4>1, <4>3
      <3>3. b[k - (m - 1)] = h[k + (i - m)]
        BY <1>3, <3>1
      <3>4. ~(k <= m - 1)
        BY <1>2, <1>3, <1>4, <1>5, <2>2
      <3>5. QED
        BY <3>2, <3>3, <3>4
    <2>3. QED
      BY <1>4, <2>1, <2>2
  <1>7. QED
    BY <1>2, <1>3, <1>4, <1>5, <1>6 DEF g

\* Whatever a compaction drops, calls and results stay paired, and what the
\* history ended in is still there.
LEMMA CompactionsPaired ==
  ASSUME NEW h \in Seq(Item), Paired(h), NEW g \in Compactions(h) \union Emergencies(h)
  PROVE  /\ Paired(g)
         /\ \A cs : EndsIn(h, cs) => EndsIn(g, cs) \/ Hinted(g, cs)
  <1> DEFINE later == Starts(h) \ {Least(Starts(h))}
  <1>1. later \subseteq 1..Len(h) /\ Len(h) \in Nat
    BY LenProperties DEF Starts
  <1>2. ASSUME NEW f \in Seq(Item), NEW d \in Nat, NEW s \in Nat,
               Len(f) + s = Len(h), d < Len(f),
               \A k \in 1..Len(f) : f[k] = h[IF k <= d THEN k ELSE k + s], g = WithHint(f)
        PROVE  /\ Paired(g)
               /\ \A cs : EndsIn(h, cs) => EndsIn(g, cs) \/ Hinted(g, cs)
    <2>1. Paired(f)
      <3>1. Len(f) + s <= Len(h)
        BY <1>1, <1>2
      <3>2. QED
        BY <1>2, <3>1, CutPaired
    <2>2. Len(f) \in Nat /\ Len(f) \in 1..Len(f)
      BY <1>2, LenProperties
    <2>3. f # <<>> /\ f[Len(f)] = h[Len(h)]
      <3>1. f[Len(f)] = h[IF Len(f) <= d THEN Len(f) ELSE Len(f) + s]
        BY <1>2, <2>2
      <3>2. ~(Len(f) <= d)
        BY <1>2, <2>2
      <3>3. f[Len(f)] = h[Len(h)]
        BY <1>2, <3>1, <3>2
      <3>4. QED
        BY <2>2, <3>3, EmptySeq
    <2>4. \A cs : EndsIn(h, cs) => EndsIn(f, cs)
      BY <2>3 DEF EndsIn
    <2>5. QED
      BY <1>2, <2>1, <2>4, HintPaired
  <1>3. CASE g \in Emergencies(h)
    <2>1. PICK i \in later : g = WithHint(From(h, i))
      BY <1>3 DEF Emergencies
    <2> HIDE DEF later
    <2>2. i \in 1..Len(h) /\ i \in Int /\ i - 1 \in Nat
      BY <1>1
    <2>3. /\ From(h, i) \in Seq(Item) /\ Len(From(h, i)) = Len(h) - i + 1
          /\ \A k \in 1..Len(From(h, i)) : From(h, i)[k] = h[k + (i - 1)]
      BY <2>2, FromTyped, FromIs
    <2>4. /\ Len(From(h, i)) + (i - 1) = Len(h) /\ 0 < Len(From(h, i))
          /\ \A k \in 1..Len(From(h, i)) : ~(k <= 0)
      <3> DEFINE l == Len(From(h, i))
      <3>1. l = Len(h) - i + 1 /\ Len(h) \in Nat /\ l \in Nat
        BY <1>1, <2>2, <2>3, Remaining, LenProperties
      <3> HIDE DEF l
      <3>2. l + (i - 1) = Len(h) /\ 0 < l
        BY <2>2, <3>1, Remaining
      <3>3. \A k \in 1..l : ~(k <= 0)
        BY <3>1
      <3>4. QED
        BY <3>2, <3>3 DEF l
    <2>5. \A k \in 1..Len(From(h, i)) :
             From(h, i)[k] = h[IF k <= 0 THEN k ELSE k + (i - 1)]
      BY <2>3, <2>4
    <2>6. 0 \in Nat
      OBVIOUS
    <2>7. QED
      BY <1>2, <2>1, <2>2, <2>3, <2>4, <2>5, <2>6
  <1>4. CASE g \in Compactions(h)
    <2> DEFINE m == Least(later)
    <2>1. PICK i \in later : g = WithHint(SubSeq(h, 1, m - 1) \o From(h, i))
      BY <1>4 DEF Compactions
    <2>2. later \subseteq Nat /\ later # {}
      BY <1>1, <2>1
    <2>3. m \in later /\ m <= i
      BY <2>2, LeastIs
    <2> HIDE DEF m, later
    <2>4. /\ m \in 1..Len(h) /\ i \in 1..Len(h) /\ m - 1 \in Nat /\ i - m \in Nat
          /\ m \in Int /\ i \in Int /\ i <= Len(h)
      BY <1>1, <2>3
    <2> DEFINE f == Rest(h, m, i)
    <2>5. /\ f \in Seq(Item) /\ Len(f) + (i - m) = Len(h)
          /\ \A k \in 1..Len(f) : f[k] = h[IF k <= m - 1 THEN k ELSE k + (i - m)]
      BY <2>3, <2>4, RestIs
    <2>6. Len(f) \in Nat
      BY <2>5, LenProperties
    <2>7. g = WithHint(f)
      BY <2>1 DEF Rest
    <2> HIDE DEF f
    <2>8. m - 1 < Len(f)
      <3>1. Len(f) + (i - m) = Len(h)
        BY <2>5
      <3>2. QED
        BY <1>1, <2>4, <2>6, <3>1
    <2>9. QED
      BY <1>2, <2>4, <2>5, <2>7, <2>8
  <1>5. QED
    BY <1>3, <1>4

-----------------------------------------------------------------------------
(* What the sanitizer and the merge compute of a transcript.                   *)

\* What begins with nothing and goes on from each number to the next is all of them.
LEMMA Induction ==
  ASSUME NEW S, 0 \in S, \A n \in Nat : n \in S => n + 1 \in S
  PROVE  \A n \in Nat : n \in S
  <1> SUFFICES ASSUME Nat \ S # {}
               PROVE  FALSE
    OBVIOUS
  <1>1. PICK m \in Nat \ S : \A j \in Nat \ S : m <= j
    <2>1. Nat \ S \subseteq Nat
      OBVIOUS
    <2>2. QED
      BY <2>1, LeastIs
  <1>2. m # 0 /\ m - 1 \in Nat /\ m = (m - 1) + 1
    OBVIOUS
  <1>3. m - 1 \in S
    BY <1>1, <1>2
  <1>4. QED
    BY <1>2, <1>3

\* Of the numbers up to k + 1 one is the last, and the others come before it.
LEMMA UpTo ==
  ASSUME NEW k \in Nat
  PROVE  \A n \in 0..(k + 1) :
            /\ n = k + 1 => n # 0 /\ n - 1 = k
            /\ n # k + 1 => n \in 0..k
            /\ n # 0 => n - 1 \in 0..(k + 1) /\ n - 1 # k + 1
  OBVIOUS

\* A function that is computed from its value at the number before exists.
Computes(f, N, a, G) == \A n \in 0..N : f[n] = IF n = 0 THEN a ELSE G[n][f[n - 1]]
LEMMA Recursion ==
  ASSUME NEW N \in Nat, NEW V, NEW a \in V, NEW G \in [1..N -> [V -> V]]
  PROVE  \E f \in [0..N -> V] : Computes(f, N, a, G)
  <1> DEFINE Up(k) == \E f \in [0..k -> V] :
                         \A n \in 0..k : f[n] = IF n = 0 THEN a ELSE G[n][f[n - 1]]
             S == {k \in Nat : k <= N => Up(k)}
  <1>1. 0 \in S
    <2>1. [n \in 0..0 |-> a] \in [0..0 -> V]
      OBVIOUS
    <2>2. \A n \in 0..0 : n = 0 /\ [i \in 0..0 |-> a][n] = a
      OBVIOUS
    <2>3. Up(0)
      BY <2>1, <2>2
    <2>4. QED
      BY <2>3
  <1>2. ASSUME NEW k \in Nat, k \in S
        PROVE  k + 1 \in S
    <2> SUFFICES ASSUME k + 1 <= N
                 PROVE  Up(k + 1)
      <3> HIDE DEF Up
      <3>1. QED
        OBVIOUS
    <2>1. PICK f \in [0..k -> V] :
             \A n \in 0..k : f[n] = IF n = 0 THEN a ELSE G[n][f[n - 1]]
      <3>1. k <= N
        OBVIOUS
      <3>2. Up(k)
        BY <1>2, <3>1
      <3>3. QED
        BY <3>2
    <2>2. k + 1 \in 1..N /\ k \in 0..k
      OBVIOUS
    <2>3. G[k + 1][f[k]] \in V
      BY <2>2
    <2> DEFINE g == [n \in 0..(k + 1) |-> IF n = k + 1 THEN G[k + 1][f[k]] ELSE f[n]]
    <2>4. g \in [0..(k + 1) -> V]
      <3>1. \A n \in 0..(k + 1) : n # k + 1 => n \in 0..k
        BY UpTo
      <3>2. QED
        BY <2>3, <3>1
    <2>5. ASSUME NEW n \in 0..(k + 1)
          PROVE  g[n] = IF n = 0 THEN a ELSE G[n][g[n - 1]]
      <3>1. CASE n = k + 1
        <4>1. n # 0 /\ n - 1 = k /\ n - 1 \in 0..(k + 1) /\ n - 1 # k + 1
          BY <3>1, UpTo
        <4>2. g[n] = G[k + 1][f[k]] /\ g[n - 1] = f[k]
          BY <3>1, <4>1
        <4>3. QED
          BY <3>1, <4>1, <4>2
      <3>2. CASE n # k + 1
        <4>1. n \in 0..k /\ g[n] = f[n]
          BY <3>2, UpTo
        <4>2. n # 0 => n - 1 \in 0..(k + 1) /\ n - 1 # k + 1
          BY <3>2, UpTo
        <4>3. n # 0 => g[n - 1] = f[n - 1]
          BY <4>2
        <4>4. QED
          BY <2>1, <4>1, <4>3
      <3>3. QED
        BY <3>1, <3>2
    <2>6. QED
      BY <2>4, <2>5
  <1>3. \A k \in Nat : k \in S
    <2> HIDE DEF S
    <2>1. QED
      BY <1>1, <1>2, Induction
  <1>4. Up(N)
    <2> HIDE DEF Up
    <2>1. N \in S
      BY <1>3
    <2>2. QED
      BY <2>1
  <1>5. QED
    BY <1>4 DEF Computes

\* The sanitizer goes through a history content by content.
LEMMA SanitizedIs ==
  ASSUME NEW h \in Seq(Item), NEW late,
         \A i \in 1..Len(h) : Clean(h, late, i) \in Item
  PROVE  \E left :
            /\ left[0] = <<>>
            /\ \A n \in 1..Len(h) : left[n] = Keep(left[n - 1], Clean(h, late, n))
            /\ Sanitized(h, late) = left[Len(h)]
  <1> DEFINE N == Len(h)
             V == Seq(Item)
             none == <<>>
             G == [n \in 1..N |-> [v \in V |-> Keep(v, Clean(h, late, n))]]
             g == CHOOSE left : left = [n \in 0..N |->
                     IF n = 0 THEN <<>> ELSE Keep(left[n - 1], Clean(h, late, n))]
  <1>1. N \in Nat /\ none \in V
    BY LenProperties, EmptySeq
  <1>2. G \in [1..N -> [V -> V]]
    <2>1. \A n \in 1..N : \A v \in V : Keep(v, Clean(h, late, n)) \in V
      BY AppendProperties DEF Keep
    <2> HIDE DEF N, V
    <2>2. QED
      BY <2>1
  <1>3. PICK f \in [0..N -> V] :
           \A n \in 0..N : f[n] = IF n = 0 THEN none ELSE G[n][f[n - 1]]
    <2> HIDE DEF N, V, G, g, none
    <2>1. \E f \in [0..N -> V] : Computes(f, N, none, G)
      BY <1>1, <1>2, Recursion
    <2>2. QED
      BY <2>1 DEF Computes
  <1>4. f = [n \in 0..N |-> IF n = 0 THEN <<>> ELSE Keep(f[n - 1], Clean(h, late, n))]
    <2>1. ASSUME NEW n \in 0..N, n # 0
          PROVE  f[n] = Keep(f[n - 1], Clean(h, late, n))
      <3> HIDE DEF N, V
      <3>1. n \in 1..N /\ n - 1 \in 0..N
        BY <1>1, <2>1
      <3>2. f[n - 1] \in V
        BY <3>1
      <3>3. f[n] = G[n][f[n - 1]]
        BY <1>3, <2>1
      <3>4. QED
        BY <3>1, <3>2, <3>3
    <2> HIDE DEF N, V, G
    <2>2. \A n \in 0..N : f[n] = IF n = 0 THEN <<>> ELSE Keep(f[n - 1], Clean(h, late, n))
      BY <1>3, <2>1
    <2>3. QED
      BY <2>2
  <1>5. g = [n \in 0..N |-> IF n = 0 THEN <<>> ELSE Keep(g[n - 1], Clean(h, late, n))]
    <2> HIDE DEF N, V, G
    <2>1. QED
      BY <1>4
  <1>6. Sanitized(h, late) = g[N]
    BY DEF Sanitized
  <1> HIDE DEF g
  <1>7. /\ g[0] = <<>>
        /\ \A n \in 1..N : g[n] = Keep(g[n - 1], Clean(h, late, n))
    <2> HIDE DEF N, V, G
    <2>1. 0 \in 0..N /\ \A n \in 1..N : n \in 0..N /\ n # 0
      BY <1>1
    <2> DEFINE F == [n \in 0..N |-> IF n = 0 THEN <<>> ELSE Keep(g[n - 1], Clean(h, late, n))]
    <2>2. \A n \in 0..N : F[n] = IF n = 0 THEN <<>> ELSE Keep(g[n - 1], Clean(h, late, n))
      OBVIOUS
    <2>3. g = F
      BY <1>5
    <2> HIDE DEF F
    <2>4. QED
      BY <2>1, <2>2, <2>3
  <1>8. QED
    BY <1>6, <1>7

\* The messages of a request; a message of the user holds no calls and one of
\* the assistant no results.
MessageType == [role : {"user", "assistant"}, prompts : SUBSET Nat,
                calls : SUBSET Calls, results : SUBSET Calls]
Mannered(m) == IF m.role = "user" THEN m.calls = {} ELSE m.results = {}

LEMMA MessageTyped ==
  ASSUME NEW it \in Item, Shaped(it)
  PROVE  /\ Message(it) \in MessageType /\ Mannered(Message(it))
         /\ Message(it).calls = it.calls /\ Message(it).results = it.results
         /\ Message(it).role = IF it.by = "model" THEN "assistant" ELSE "user"
  BY DEF Item, Shaped, Message, MessageType, Mannered

LEMMA MergedIs ==
  ASSUME NEW m \in MessageType, NEW n \in MessageType
  PROVE  /\ Merged(m, n) \in MessageType /\ Merged(m, n).role = m.role
         /\ Merged(m, n).calls = m.calls \union n.calls
         /\ Merged(m, n).results = m.results \union n.results
  BY DEF MessageType, Merged

LEMMA FrontIs ==
  ASSUME NEW S, NEW s \in Seq(S), s # <<>>
  PROVE  /\ Front(s) \in Seq(S) /\ Len(Front(s)) = Len(s) - 1
         /\ \A i \in 1..(Len(s) - 1) : Front(s)[i] = s[i]
  <1> DEFINE n == Len(s) - 1
  <1>1. Len(s) \in Nat /\ Len(s) # 0
    BY EmptySeq
  <1>2. n \in Nat
    BY <1>1
  <1>3. \A i \in 1..n : s[i] \in S
    BY <1>1, ElementOfSeq
  <1>4. Front(s) = SubSeq(s, 1, n)
    BY DEF Front
  <1> HIDE DEF n
  <1>5. /\ SubSeq(s, 1, n) \in Seq(S)
        /\ Len(SubSeq(s, 1, n)) = IF 1 <= n THEN n - 1 + 1 ELSE 0
        /\ \A i \in 1..(n - 1 + 1) : SubSeq(s, 1, n)[i] = s[1 + i - 1]
    <2>1. n \in Int /\ 1 \in Int
      BY <1>2
    <2>2. QED
      BY <1>3, <2>1, SubSeqProperties
  <1>6. Len(SubSeq(s, 1, n)) = n /\ \A i \in 1..n : SubSeq(s, 1, n)[i] = s[i]
    <2>1. n - 1 + 1 = n /\ (1 <= n \/ n = 0) /\ \A i \in 1..n : 1 + i - 1 = i
      BY <1>2
    <2>2. QED
      BY <1>5, <2>1
  <1>7. QED
    BY <1>4, <1>5, <1>6 DEF n

LEMMA FrontOfAppend ==
  ASSUME NEW S, NEW s \in Seq(S), NEW e \in S
  PROVE  Front(Append(s, e)) = s
  <1> DEFINE a == Append(s, e)
  <1>1. /\ a \in Seq(S) /\ a # <<>> /\ Len(a) = Len(s) + 1
        /\ \A i \in 1..Len(s) : a[i] = s[i]
        /\ Len(s) \in Nat
    BY AppendProperties, LenProperties
  <1> HIDE DEF a
  <1>2. Len(a) - 1 = Len(s)
    BY <1>1
  <1>3. /\ Front(a) \in Seq(S) /\ Len(Front(a)) = Len(a) - 1
        /\ \A i \in 1..(Len(a) - 1) : Front(a)[i] = a[i]
    BY <1>1, FrontIs
  <1>4. Len(Front(a)) = Len(s) /\ \A i \in 1..Len(Front(a)) : Front(a)[i] = s[i]
    BY <1>1, <1>2, <1>3
  <1>5. Front(a) = s
    BY <1>3, <1>4, SeqEqual
  <1>6. QED
    BY <1>5 DEF a

\* What a message does to the ones before it.
LEMMA JoinIs ==
  ASSUME NEW d \in Seq(MessageType), NEW m \in MessageType
  PROVE  /\ Len(d) \in Nat /\ Joining(d, m) \in Seq(MessageType) /\ Joining(d, m) # <<>>
         /\ d = <<>> \/ d[Len(d)].role # m.role =>
               /\ Joining(d, m) = Append(d, m)
               /\ Len(Joining(d, m)) = Len(d) + 1 /\ Joining(d, m)[Len(d) + 1] = m
               /\ \A i \in 1..Len(d) : Joining(d, m)[i] = d[i]
         /\ d # <<>> /\ d[Len(d)].role = m.role =>
               /\ Joining(d, m) = Append(Front(d), Merged(d[Len(d)], m))
               /\ Len(Joining(d, m)) = Len(d) /\ Joining(d, m)[Len(d)] = Merged(d[Len(d)], m)
               /\ \A i \in 1..Len(d) : i # Len(d) => Joining(d, m)[i] = d[i]
  <1>1. Len(d) \in Nat
    BY LenProperties
  <1>2. CASE d = <<>> \/ d[Len(d)].role # m.role
    <2>1. Joining(d, m) = Append(d, m)
      BY <1>2 DEF Joining, Last
    <2>2. QED
      BY <1>1, <1>2, <2>1, AppendProperties
  <1>3. CASE d # <<>> /\ d[Len(d)].role = m.role
    <2> DEFINE n == Len(d)
               f == Front(d)
               it == Merged(d[n], m)
    <2>1. n \in 1..n /\ d[n] \in MessageType
      BY <1>3, EmptySeq, ElementOfSeq
    <2>2. it \in MessageType
      BY <2>1, MergedIs
    <2>3. Joining(d, m) = Append(f, it)
      BY <1>3 DEF Joining, Last
    <2>4. /\ f \in Seq(MessageType) /\ Len(f) = n - 1
          /\ \A i \in 1..(n - 1) : f[i] = d[i]
      BY <1>3, FrontIs
    <2> HIDE DEF f, it
    <2>5. /\ Append(f, it) \in Seq(MessageType) /\ Append(f, it) # <<>>
          /\ Len(Append(f, it)) = Len(f) + 1 /\ Append(f, it)[Len(f) + 1] = it
          /\ \A i \in 1..Len(f) : Append(f, it)[i] = f[i]
      BY <2>2, <2>4, AppendProperties
    <2>6. Len(f) + 1 = n /\ \A i \in 1..n : i # n => i \in 1..Len(f) /\ i \in 1..(n - 1)
      BY <1>1, <2>4
    <2>7. QED
      BY <1>1, <1>3, <2>3, <2>4, <2>5, <2>6 DEF it, f
  <1>4. QED
    BY <1>2, <1>3

\* Two messages of one role are as good as one.
LEMMA JoinTwice ==
  ASSUME NEW d \in Seq(MessageType), NEW m \in MessageType, NEW n \in MessageType,
         m.role = n.role
  PROVE  Joining(Joining(d, m), n) = Joining(d, Merged(m, n))
  <1>1. /\ Joining(d, m) \in Seq(MessageType) /\ Joining(d, m) # <<>>
        /\ Merged(m, n) \in MessageType /\ Merged(m, n).role = m.role
    BY JoinIs, MergedIs
  <1>2. CASE d = <<>> \/ d[Len(d)].role # m.role
    <2>1. Joining(d, m) = Append(d, m) /\ Joining(d, m)[Len(Joining(d, m))] = m
      <3>1. /\ Joining(d, m) = Append(d, m) /\ Len(Joining(d, m)) = Len(d) + 1
            /\ Joining(d, m)[Len(d) + 1] = m
        BY <1>2, JoinIs
      <3>2. QED
        BY <3>1
    <2>2. Joining(Joining(d, m), n) = Append(Front(Joining(d, m)), Merged(m, n))
      BY <1>1, <2>1 DEF Joining, Last
    <2>3. Front(Append(d, m)) = d
      BY FrontOfAppend
    <2>4. Joining(d, Merged(m, n)) = Append(d, Merged(m, n))
      BY <1>1, <1>2 DEF Joining, Last
    <2>5. QED
      BY <2>1, <2>2, <2>3, <2>4
  <1>3. CASE d # <<>> /\ d[Len(d)].role = m.role
    <2> DEFINE l == d[Len(d)]
    <2>1. l \in MessageType
      BY <1>3, EmptySeq, ElementOfSeq
    <2>2. Joining(d, m) = Append(Front(d), Merged(l, m)) /\ Joining(d, m)[Len(Joining(d, m))] = Merged(l, m)
      <3>1. /\ Joining(d, m) = Append(Front(d), Merged(l, m)) /\ Len(Joining(d, m)) = Len(d)
            /\ Joining(d, m)[Len(d)] = Merged(l, m)
        BY <1>3, JoinIs
      <3>2. QED
        BY <3>1
    <2>3. Merged(l, m) \in MessageType /\ Merged(l, m).role = n.role
      BY <1>3, <2>1, MergedIs
    <2>4. Joining(Joining(d, m), n) = Append(Front(Joining(d, m)), Merged(Merged(l, m), n))
      BY <1>1, <2>2, <2>3 DEF Joining, Last
    <2>5. Front(Append(Front(d), Merged(l, m))) = Front(d)
      BY <1>3, <2>3, FrontIs, FrontOfAppend
    <2>6. Merged(Merged(l, m), n) = Merged(l, Merged(m, n))
      BY <2>1 DEF MessageType, Merged
    <2>7. Joining(d, Merged(m, n)) = Append(Front(d), Merged(l, Merged(m, n)))
      BY <1>1, <1>3 DEF Joining, Last
    <2>8. QED
      BY <2>2, <2>4, <2>5, <2>6, <2>7
  <1>4. QED
    BY <1>2, <1>3

\* Messages are joined one by one.
LEMMA JoinedIs ==
  ASSUME NEW ms \in Seq(MessageType)
  PROVE  \E done :
            /\ done[0] = <<>>
            /\ \A n \in 1..Len(ms) : done[n] = Joining(done[n - 1], ms[n])
            /\ Joined(ms) = done[Len(ms)]
  <1> DEFINE N == Len(ms)
             V == Seq(MessageType)
             none == <<>>
             G == [n \in 1..N |-> [v \in V |-> Joining(v, ms[n])]]
             g == CHOOSE done : done = [n \in 0..N |->
                     IF n = 0 THEN <<>> ELSE Joining(done[n - 1], ms[n])]
  <1>1. N \in Nat /\ none \in V
    BY LenProperties, EmptySeq
  <1>2. G \in [1..N -> [V -> V]]
    <2>1. \A n \in 1..N : \A v \in V : Joining(v, ms[n]) \in V
      BY ElementOfSeq, JoinIs
    <2> HIDE DEF N, V
    <2>2. QED
      BY <2>1
  <1>3. PICK f \in [0..N -> V] :
           \A n \in 0..N : f[n] = IF n = 0 THEN none ELSE G[n][f[n - 1]]
    <2> HIDE DEF N, V, G, g, none
    <2>1. \E f \in [0..N -> V] : Computes(f, N, none, G)
      BY <1>1, <1>2, Recursion
    <2>2. QED
      BY <2>1 DEF Computes
  <1>4. f = [n \in 0..N |-> IF n = 0 THEN <<>> ELSE Joining(f[n - 1], ms[n])]
    <2>1. ASSUME NEW n \in 0..N, n # 0
          PROVE  f[n] = Joining(f[n - 1], ms[n])
      <3> HIDE DEF N, V
      <3>1. n \in 1..N /\ n - 1 \in 0..N
        BY <1>1, <2>1
      <3>2. f[n - 1] \in V
        BY <3>1
      <3>3. f[n] = G[n][f[n - 1]]
        BY <1>3, <2>1
      <3>4. QED
        BY <3>1, <3>2, <3>3
    <2> HIDE DEF N, V, G
    <2>2. \A n \in 0..N : f[n] = IF n = 0 THEN <<>> ELSE Joining(f[n - 1], ms[n])
      BY <1>3, <2>1
    <2>3. QED
      BY <2>2
  <1>5. g = [n \in 0..N |-> IF n = 0 THEN <<>> ELSE Joining(g[n - 1], ms[n])]
    <2> HIDE DEF N, V, G
    <2>1. QED
      BY <1>4
  <1>6. Joined(ms) = g[N]
    BY DEF Joined
  <1> HIDE DEF g
  <1>7. /\ g[0] = <<>>
        /\ \A n \in 1..N : g[n] = Joining(g[n - 1], ms[n])
    <2> HIDE DEF N, V, G
    <2>1. 0 \in 0..N /\ \A n \in 1..N : n \in 0..N /\ n # 0
      BY <1>1
    <2> DEFINE F == [n \in 0..N |-> IF n = 0 THEN <<>> ELSE Joining(g[n - 1], ms[n])]
    <2>2. \A n \in 0..N : F[n] = IF n = 0 THEN <<>> ELSE Joining(g[n - 1], ms[n])
      OBVIOUS
    <2>3. g = F
      BY <1>5
    <2> HIDE DEF F
    <2>4. QED
      BY <2>1, <2>2, <2>3
  <1>8. QED
    BY <1>6, <1>7

\* A call stands in one content, and so does its result.
LEMMA CountIs ==
  ASSUME NEW h \in Seq(Item), Paired(h), NEW n \in 0..Len(h), NEW c
  PROVE  /\ \A i \in 1..n : c \in h[i].calls => Calling(h, c, n) = 1
         /\ (\A i \in 1..n : c \notin h[i].calls) => Calling(h, c, n) = 0
         /\ \A i \in 1..n : c \in h[i].results => Answering(h, c, n) = 1
         /\ (\A i \in 1..n : c \notin h[i].results) => Answering(h, c, n) = 0
  <1> DEFINE A == {i \in 1..n : c \in h[i].calls}
             B == {i \in 1..n : c \in h[i].results}
  <1>1. Len(h) \in Nat /\ \A i \in 1..n : i \in 1..Len(h)
    <2>1. Len(h) \in Nat
      BY LenProperties
    <2>2. QED
      BY <2>1
  <1>2. Calling(h, c, n) = Cardinality(A) /\ Answering(h, c, n) = Cardinality(B)
    BY DEF Calling, Answering
  <1>3. \A i \in 1..n : c \in h[i].calls => A = {i}
    BY <1>1 DEF Paired, Once
  <1>4. \A i \in 1..n : c \in h[i].results => B = {i}
    BY <1>1 DEF Paired, Once
  <1>5. (\A i \in 1..n : c \notin h[i].calls) => A = {}
    OBVIOUS
  <1>6. (\A i \in 1..n : c \notin h[i].results) => B = {}
    OBVIOUS
  <1> HIDE DEF A, B
  <1>7. Cardinality({}) = 0 /\ \A i : Cardinality({i}) = 1
    BY FS_EmptySet, FS_Singleton
  <1>8. QED
    BY <1>2, <1>3, <1>4, <1>5, <1>6, <1>7

\* What the sanitizer leaves of a content: the calls that have results, or
\* shall have them now, and the results that have calls.
LEMMA CleanIs ==
  ASSUME NEW h \in Seq(Item), Paired(h), NEW late, NEW i \in 1..Len(h)
  PROVE  /\ Clean(h, late, i) \in Item /\ Clean(h, late, i).by = h[i].by
         /\ Clean(h, late, i).calls = h[i].calls \intersect (RecordedIn(h) \union late)
         /\ Clean(h, late, i).results = h[i].results \intersect CallsIn(h)
  <1> DEFINE n == Len(h)
             calls == {c \in h[i].calls : Calling(h, c, i) <= Pairs(h, late, c)}
             results == {c \in h[i].results : Answering(h, c, i) <= Pairs(h, late, c)}
  <1>1. n \in Nat /\ i \in 0..n /\ n \in 0..n /\ i \in 1..i /\ h[i] \in Item
    <2>1. n \in Nat /\ h[i] \in Item
      BY LenProperties, ElementOfSeq
    <2>2. QED
      BY <2>1
  <1>2. \A c : c \in RecordedIn(h) <=> \E j \in 1..n : c \in h[j].results
    BY DEF RecordedIn
  <1>3. \A c : c \in CallsIn(h) <=> \E j \in 1..n : c \in h[j].calls
    BY DEF CallsIn
  <1>4. \A c : /\ c \in RecordedIn(h) => Answering(h, c, n) = 1
               /\ c \notin RecordedIn(h) => Answering(h, c, n) = 0
               /\ c \in CallsIn(h) => Calling(h, c, n) = 1
               /\ c \notin CallsIn(h) => Calling(h, c, n) = 0
    BY <1>1, <1>2, <1>3, CountIs
  <1>5. \A c : /\ c \in h[i].calls => Calling(h, c, i) = 1 /\ c \in CallsIn(h)
               /\ c \in h[i].results => Answering(h, c, i) = 1 /\ c \in RecordedIn(h)
    BY <1>1, <1>2, <1>3, CountIs
  <1>6. Clean(h, late, i) = [h[i] EXCEPT !.calls = calls, !.results = results]
    BY DEF Clean
  <1>7. calls = h[i].calls \intersect (RecordedIn(h) \union late)
    <2>1. ASSUME NEW c \in h[i].calls
          PROVE  Calling(h, c, i) <= Pairs(h, late, c) <=> c \in RecordedIn(h) \union late
      <3>1. Calling(h, c, i) = 1 /\ Calling(h, c, n) = 1
        BY <1>4, <1>5
      <3>2. CASE c \in RecordedIn(h)
        BY <1>4, <3>1, <3>2 DEF Pairs, Lesser
      <3>3. CASE c \notin RecordedIn(h)
        BY <1>4, <3>1, <3>3 DEF Pairs, Lesser
      <3>4. QED
        BY <3>2, <3>3
    <2>2. QED
      BY <2>1
  <1>8. results = h[i].results \intersect CallsIn(h)
    <2>1. ASSUME NEW c \in h[i].results
          PROVE  Answering(h, c, i) <= Pairs(h, late, c) <=> c \in CallsIn(h)
      <3>1. Answering(h, c, i) = 1 /\ Answering(h, c, n) = 1
        BY <1>4, <1>5
      <3>2. CASE c \in CallsIn(h)
        BY <1>4, <3>1, <3>2 DEF Pairs, Lesser
      <3>3. CASE c \notin CallsIn(h)
        BY <1>4, <3>1, <3>3 DEF Pairs, Lesser
      <3>4. QED
        BY <3>2, <3>3
    <2>2. QED
      BY <2>1
  <1>9. calls \subseteq Calls /\ results \subseteq Calls
    BY <1>1 DEF Item
  <1> HIDE DEF calls, results
  <1>10. QED
    BY <1>1, <1>6, <1>7, <1>8, <1>9 DEF Item

\* Every result directly behind its call, and every call but those of the last
\* content with its result: what a provider demands of a history.
OpenCalls(s) == IF s = <<>> THEN {} ELSE s[Len(s)].calls
Straight(s) ==
    /\ s # <<>> => s[1].results = {}
    /\ \A i \in 2..Len(s) : s[i].results = s[i - 1].calls

\* The last content that matters, and the calls in it that are open.
OpenAt(h, e, cs) ==
    /\ e \in 0..Len(h)
    /\ (cs = {} /\ e = Len(h)) \/ (e > 0 /\ h[e].calls = cs)
    /\ \A i \in 1..Len(h) : i > e => h[i].by # "model" /\ h[i].calls = {} /\ h[i].results = {}

\* Up to the content whose calls are open the sanitizer leaves just that.
LEMMA CleanIsStraight ==
  ASSUME NEW h \in Seq(Item), Paired(h), NEW late, NEW e, OpenAt(h, e, late)
  PROVE  /\ e > 0 => Clean(h, late, 1).results = {}
         /\ \A i \in 2..e : Clean(h, late, i).results = Clean(h, late, i - 1).calls
         /\ IF e = 0 THEN late = {} ELSE Clean(h, late, e).calls = late
         /\ \A i \in 1..Len(h) : /\ Clean(h, late, i) \in Item
                                 /\ Shaped(Clean(h, late, i))
                                 /\ Clean(h, late, i).by = h[i].by
                                 /\ Clean(h, late, i).calls \subseteq h[i].calls
                                 /\ Clean(h, late, i).results \subseteq h[i].results
  <1> DEFINE n == Len(h)
             clean(i) == Clean(h, late, i)
  <1>1. n \in Nat /\ e \in Nat /\ e <= n /\ \A i \in 1..e : i \in 1..n
    <2>1. n \in Nat
      BY LenProperties
    <2>2. QED
      BY <2>1 DEF OpenAt
  <1>2. \A i \in 1..n : /\ clean(i) \in Item /\ clean(i).by = h[i].by
                        /\ clean(i).calls = h[i].calls \intersect (RecordedIn(h) \union late)
                        /\ clean(i).results = h[i].results \intersect CallsIn(h)
    BY CleanIs
  <1>3. \A c : c \in RecordedIn(h) <=> \E j \in 1..n : c \in h[j].results
    BY DEF RecordedIn
  <1>4. \A c : c \in CallsIn(h) <=> \E j \in 1..n : c \in h[j].calls
    BY DEF CallsIn
  <1> HIDE DEF clean, n
  \* A recorded call has its result in the next content.
  <1>5. ASSUME NEW i \in 1..n, NEW c \in h[i].calls, c \in RecordedIn(h)
        PROVE  i + 1 \in 1..n /\ h[i + 1].results = h[i].calls
    <2>1. PICK j \in 1..n : c \in h[j].results
      BY <1>3, <1>5
    <2>2. j > 1 /\ h[j].results = h[j - 1].calls
      BY <2>1 DEF Paired, Matched, n
    <2>3. j - 1 \in 1..n
      BY <1>1, <2>2
    <2>4. j - 1 = i
      BY <2>1, <2>2, <2>3 DEF Paired, Once, n
    <2>5. j = i + 1
      BY <1>1, <2>4
    <2>6. QED
      BY <2>2, <2>4, <2>5
  \* A result with a call anywhere has it in the content before.
  <1>6. ASSUME NEW i \in 1..n, clean(i).results # {}
        PROVE  i > 1 /\ h[i].results = h[i - 1].calls /\ clean(i).results = h[i].results
    <2>1. PICK c \in h[i].results : c \in CallsIn(h)
      BY <1>2, <1>6
    <2>2. PICK j \in 1..n : c \in h[j].calls
      BY <1>4, <2>1
    <2>3. i > 1 /\ h[i].results = h[i - 1].calls
      BY <2>1, <2>2 DEF Paired, Matched, n
    <2>4. i - 1 \in 1..n
      BY <1>1, <2>3
    <2>5. h[i].results \subseteq CallsIn(h)
      BY <1>4, <2>3, <2>4
    <2>6. QED
      BY <1>2, <2>3, <2>5
  <1>7. ASSUME e > 0
        PROVE  clean(1).results = {}
    <2>1. 1 \in 1..n
      BY <1>1, <1>7
    <2>2. QED
      BY <1>6, <2>1
  <1>8. ASSUME NEW i \in 2..e
        PROVE  clean(i).results = clean(i - 1).calls
    <2>1. i \in 1..n /\ i - 1 \in 1..n /\ (i - 1) + 1 = i /\ i - 1 # e /\ i \in Int
      BY <1>1
    <2>2. CASE clean(i).results # {}
      <3>1. h[i].results = h[i - 1].calls /\ clean(i).results = h[i].results
        BY <1>6, <2>1, <2>2
      <3>2. h[i - 1].calls \subseteq RecordedIn(h)
        BY <1>3, <2>1, <3>1
      <3>3. clean(i - 1).calls = h[i - 1].calls \intersect (RecordedIn(h) \union late)
        BY <1>2, <2>1
      <3>4. QED
        BY <3>1, <3>2, <3>3
    <2>3. CASE clean(i - 1).calls # {}
      <3>1. PICK c \in h[i - 1].calls : c \in RecordedIn(h) \union late
        BY <1>2, <2>1, <2>3
      <3>2. c \notin late
        <4>1. CASE late = {}
          BY <4>1
        <4>2. CASE e > 0 /\ h[e].calls = late
          <5>1. e \in 1..n
            BY <1>1, <4>2
          <5>2. QED
            BY <2>1, <3>1, <4>2, <5>1 DEF Paired, Once, n
        <4>3. QED
          BY <4>1, <4>2 DEF OpenAt
      <3>3. h[i].results = h[i - 1].calls
        <4>1. h[(i - 1) + 1].results = h[i - 1].calls
          BY <1>5, <2>1, <3>1, <3>2
        <4>2. QED
          BY <2>1, <4>1
      <3>4. h[i].results \subseteq CallsIn(h) /\ h[i - 1].calls \subseteq RecordedIn(h)
        BY <1>3, <1>4, <2>1, <3>3
      <3>5. /\ clean(i).results = h[i].results \intersect CallsIn(h)
            /\ clean(i - 1).calls = h[i - 1].calls \intersect (RecordedIn(h) \union late)
        BY <1>2, <2>1
      <3>6. clean(i).results = h[i].results /\ clean(i - 1).calls = h[i - 1].calls
        BY <3>4, <3>5
      <3>7. QED
        BY <3>3, <3>6
    <2>4. QED
      BY <2>2, <2>3
  <1>9. IF e = 0 THEN late = {} ELSE clean(e).calls = late
    <2>1. CASE e = 0
      BY <2>1 DEF OpenAt
    <2>2. CASE e # 0 /\ h[e].calls = late
      <3>1. e \in 1..n
        BY <1>1, <2>2
      <3>2. QED
        BY <1>2, <2>2, <3>1
    <2>3. CASE e # 0 /\ late = {} /\ e = n
      <3>1. e \in 1..n /\ e + 1 \notin 1..n
        BY <1>1, <2>3
      <3>2. clean(e).calls = h[e].calls \intersect RecordedIn(h)
        BY <1>2, <2>3, <3>1
      <3>3. \A c \in h[e].calls : c \notin RecordedIn(h)
        BY <1>5, <3>1
      <3>4. QED
        BY <2>3, <3>2, <3>3
    <2>4. QED
      BY <1>1, <2>1, <2>2, <2>3 DEF OpenAt, n
  <1>10. ASSUME NEW i \in 1..n
         PROVE  /\ clean(i) \in Item /\ Shaped(clean(i)) /\ clean(i).by = h[i].by
                /\ clean(i).calls \subseteq h[i].calls /\ clean(i).results \subseteq h[i].results
    <2>1. Shaped(h[i])
      BY DEF Paired, n
    <2>2. QED
      BY <1>2, <2>1 DEF Shaped
  <1>11. QED
    BY <1>7, <1>8, <1>9, <1>10 DEF clean, n

Upright(k) == k \in Seq(Item) /\ Straight(k) /\ \A i \in 1..Len(k) : Shaped(k[i])

LEMMA StraightAppend ==
  ASSUME NEW k, Upright(k), NEW it \in Item, Shaped(it), it.results = OpenCalls(k)
  PROVE  Upright(Append(k, it)) /\ OpenCalls(Append(k, it)) = it.calls
  <1> DEFINE g == Append(k, it)
             n == Len(k)
  <1>1. k \in Seq(Item)
    BY DEF Upright
  <1>2. /\ g \in Seq(Item) /\ Len(g) = n + 1 /\ n \in Nat /\ g[n + 1] = it /\ g # <<>>
        /\ \A i \in 1..n : g[i] = k[i]
    BY <1>1, AdditionIs, AppendProperties
  <1>3. k = <<>> <=> n = 0
    BY <1>1, EmptySeq
  <1> HIDE DEF g
  <1>4. g[1].results = {}
    <2>1. CASE n = 0
      BY <1>2, <1>3, <2>1 DEF OpenCalls
    <2>2. CASE n # 0
      <3>1. 1 \in 1..n
        BY <1>2, <2>2
      <3>2. QED
        BY <1>2, <1>3, <2>2, <3>1 DEF Upright, Straight
    <2>3. QED
      BY <2>1, <2>2
  <1>5. ASSUME NEW i \in 2..(n + 1)
        PROVE  g[i].results = g[i - 1].calls
    <2>1. i - 1 \in 1..n /\ n # 0
      BY <1>2
    <2>2. CASE i = n + 1
      <3>1. i - 1 = n /\ g[i] = it /\ g[i - 1] = k[n]
        BY <1>2, <2>1, <2>2
      <3>2. QED
        BY <1>3, <2>1, <3>1 DEF OpenCalls
    <2>3. CASE i # n + 1
      <3>1. i \in 2..n /\ i \in 1..n
        BY <1>2, <2>3
      <3>2. QED
        BY <1>2, <2>1, <3>1 DEF Upright, Straight
    <2>4. QED
      BY <2>2, <2>3
  <1>6. \A i \in 1..(n + 1) : Shaped(g[i])
    <2>1. \A i \in 1..(n + 1) : i = n + 1 \/ i \in 1..n
      BY <1>2
    <2>2. QED
      BY <1>2, <2>1 DEF Upright
  <1>7. OpenCalls(g) = it.calls
    BY <1>2 DEF OpenCalls
  <1>8. QED
    BY <1>2, <1>4, <1>5, <1>6, <1>7 DEF Upright, Straight, g

\* So does what is left of the history once empty contents are left out.
Quiet(it) == it \in Item /\ it.by # "model" /\ it.calls = {} /\ it.results = {}
LEMMA SanitizedIsStraight ==
  ASSUME NEW h \in Seq(Item), Paired(h), NEW late, NEW e, OpenAt(h, e, late),
         Len(h) <= e + 1
  PROVE  \E k : /\ Upright(k) /\ OpenCalls(k) = late
                /\ \/ Sanitized(h, late) = k
                   \/ \E it : Quiet(it) /\ Sanitized(h, late) = Append(k, it)
  <1> DEFINE n == Len(h)
             clean(i) == Clean(h, late, i)
  <1>1. n \in Nat /\ e \in Nat /\ e <= n /\ n <= e + 1
    <2>1. n \in Nat
      BY LenProperties
    <2>2. QED
      BY <2>1 DEF OpenAt
  <1>2. /\ e > 0 => clean(1).results = {}
        /\ \A i \in 2..e : clean(i).results = clean(i - 1).calls
        /\ IF e = 0 THEN late = {} ELSE clean(e).calls = late
        /\ \A i \in 1..n : /\ clean(i) \in Item /\ Shaped(clean(i)) /\ clean(i).by = h[i].by
                           /\ clean(i).calls \subseteq h[i].calls
                           /\ clean(i).results \subseteq h[i].results
    BY CleanIsStraight
  <1>3. PICK left : /\ left[0] = <<>>
                    /\ \A i \in 1..n : left[i] = Keep(left[i - 1], clean(i))
                    /\ Sanitized(h, late) = left[n]
    BY <1>2, SanitizedIs
  <1> HIDE DEF clean, n
  <1> DEFINE Up(i) == Upright(left[i]) /\ OpenCalls(left[i]) = IF i = 0 THEN {} ELSE clean(i).calls
             S == {i \in Nat : i <= e => Up(i)}
  <1>4. Up(0)
    BY <1>3, EmptySeq DEF Upright, Straight, OpenCalls
  <1>5. ASSUME NEW i \in Nat, Up(i), i + 1 <= e
        PROVE  Up(i + 1)
    <2>1. i + 1 \in 1..n /\ (i + 1) - 1 = i /\ i + 1 # 0
      <3>1. i + 1 <= n
        BY <1>1, <1>5
      <3>2. QED
        BY <1>1, <3>1, Successor
    <2>2. clean(i + 1) \in Item /\ Shaped(clean(i + 1))
      BY <1>2, <2>1
    <2>3. clean(i + 1).results = OpenCalls(left[i])
      <3>1. CASE i = 0
        <4>1. i + 1 = 1 /\ e > 0
          BY <1>1, <1>5, <3>1
        <4>2. clean(i + 1).results = {}
          BY <1>2, <4>1
        <4>3. QED
          BY <1>5, <3>1, <4>2
      <3>2. CASE i # 0
        <4>1. i + 1 \in 2..e
          BY <1>1, <1>5, <3>2
        <4>2. clean(i + 1).results = clean(i).calls
          BY <1>2, <2>1, <4>1
        <4>3. QED
          BY <1>5, <3>2, <4>2
      <3>3. QED
        BY <3>1, <3>2
    <2>4. left[i + 1] = Keep(left[i], clean(i + 1))
      BY <1>3, <2>1
    <2>5. CASE left[i + 1] = Append(left[i], clean(i + 1))
      BY <1>5, <2>1, <2>2, <2>3, <2>5, StraightAppend
    <2>6. CASE left[i + 1] = left[i] /\ clean(i + 1).calls = {} /\ clean(i + 1).results = {}
      BY <1>5, <2>1, <2>3, <2>6
    <2>7. QED
      BY <2>4, <2>5, <2>6 DEF Keep
  <1>6. Up(e)
    <2> HIDE DEF Up
    <2>1. 0 \in S
      BY <1>4
    <2>2. \A i \in Nat : i \in S => i + 1 \in S
      <3>1. SUFFICES ASSUME NEW i \in Nat, i \in S, i + 1 <= e
                     PROVE  Up(i + 1)
        OBVIOUS
      <3>2. i <= e
        BY <1>1, <3>1
      <3>3. Up(i)
        BY <3>1, <3>2
      <3>4. QED
        BY <1>5, <3>1, <3>3
    <2> HIDE DEF S
    <2>3. \A i \in Nat : i \in S
      BY <2>1, <2>2, Induction
    <2>4. e \in S
      BY <1>1, <2>3
    <2>5. QED
      BY <1>1, <2>4 DEF S
  <1>7. Upright(left[e]) /\ OpenCalls(left[e]) = late
    BY <1>2, <1>6
  <1>8. CASE e = n
    BY <1>3, <1>7, <1>8
  <1>9. CASE e # n
    <2>1. n = e + 1
      BY <1>1, <1>9
    <2>2. n \in 1..n /\ n > e /\ n - 1 = e
      BY <1>1, <2>1, Successor
    <2>3. Quiet(clean(n))
      BY <1>2, <2>2 DEF OpenAt, Quiet, n
    <2>4. Sanitized(h, late) = Keep(left[e], clean(n))
      BY <1>3, <2>2
    <2>5. QED
      BY <1>7, <2>3, <2>4 DEF Keep
  <1>10. QED
    BY <1>8, <1>9

\* The same of messages, whose roles alternate besides.
Settled(d) ==
    /\ d \in Seq(MessageType) /\ Straight(d)
    /\ \A i \in 1..Len(d) : Mannered(d[i])
    /\ \A i \in 2..Len(d) : d[i].role # d[i - 1].role

LEMMA JoinSettled ==
  ASSUME NEW d, Settled(d), NEW m \in MessageType, Mannered(m), m.results = OpenCalls(d)
  PROVE  /\ Settled(Joining(d, m)) /\ Joining(d, m) # <<>>
         /\ Joining(d, m)[Len(Joining(d, m))].role = m.role /\ OpenCalls(Joining(d, m)) = m.calls
  <1> DEFINE g == Joining(d, m)
             n == Len(d)
  <1>1. d \in Seq(MessageType) /\ n \in Nat /\ (d = <<>> <=> n = 0)
    BY EmptySeq, LenProperties DEF Settled
  <1>2. g \in Seq(MessageType) /\ g # <<>>
    BY <1>1, JoinIs
  <1>3. CASE d = <<>> \/ d[n].role # m.role
    <2>1. /\ Len(g) = n + 1 /\ g[n + 1] = m /\ \A i \in 1..n : g[i] = d[i]
      <3>1. d \in Seq(MessageType) /\ (d = <<>> \/ d[Len(d)].role # m.role)
        BY <1>1, <1>3
      <3>2. QED
        BY <3>1, JoinIs
    <2> HIDE DEF g
    <2>2. \A i \in 1..(n + 1) : i = n + 1 \/ i \in 1..n
      BY <1>1
    <2>3. \A i \in 1..(n + 1) : Mannered(g[i])
      BY <2>1, <2>2 DEF Settled
    <2>4. g[1].results = {}
      <3>1. CASE n = 0
        BY <1>1, <2>1, <3>1 DEF OpenCalls
      <3>2. CASE n # 0
        <4>1. 1 \in 1..n
          BY <1>1, <3>2
        <4>2. QED
          BY <1>1, <2>1, <3>2, <4>1 DEF Settled, Straight
      <3>3. QED
        BY <3>1, <3>2
    <2>5. ASSUME NEW i \in 2..(n + 1)
          PROVE  g[i].results = g[i - 1].calls /\ g[i].role # g[i - 1].role
      <3>1. i - 1 \in 1..n /\ n # 0
        BY <1>1
      <3>2. CASE i = n + 1
        <4>1. i - 1 = n /\ g[i] = m /\ g[i - 1] = d[n]
          BY <1>1, <2>1, <3>1, <3>2
        <4>2. QED
          BY <1>1, <1>3, <3>1, <4>1 DEF OpenCalls
      <3>3. CASE i # n + 1
        <4>1. i \in 2..n /\ i \in 1..n
          BY <1>1, <3>3
        <4>2. QED
          BY <2>1, <3>1, <4>1 DEF Settled, Straight
      <3>4. QED
        BY <3>2, <3>3
    <2>6. g[Len(g)].role = m.role /\ OpenCalls(g) = m.calls
      BY <1>2, <2>1 DEF OpenCalls
    <2>7. QED
      BY <1>2, <2>1, <2>3, <2>4, <2>5, <2>6 DEF Settled, Straight, g
  <1>4. CASE d # <<>> /\ d[n].role = m.role
    <2> DEFINE l == d[n]
    <2>1. n \in 1..n /\ l \in MessageType /\ Mannered(l)
      BY <1>1, <1>4, ElementOfSeq DEF Settled
    <2>2. /\ Len(g) = n /\ g[n] = Merged(l, m)
          /\ \A i \in 1..n : i # n => g[i] = d[i]
      BY <1>1, <1>4, JoinIs
    <2> HIDE DEF g
    <2>3. m.results = l.calls
      BY <1>4 DEF OpenCalls
    <2>4. Merged(l, m).role = l.role
          /\ Merged(l, m).calls = l.calls \union m.calls
          /\ Merged(l, m).results = l.results \union m.results
      BY <2>1, MergedIs
    \* Of the two, the calls are those of the second and the results those of the first.
    <2>5. /\ g[n].role = l.role /\ g[n].calls = m.calls /\ g[n].results = l.results
          /\ Mannered(g[n])
      <3>1. CASE m.role = "user"
        BY <1>4, <2>1, <2>2, <2>3, <2>4, <3>1 DEF Mannered
      <3>2. CASE m.role # "user"
        BY <1>4, <2>1, <2>2, <2>3, <2>4, <3>2 DEF Mannered
      <3>3. QED
        BY <3>1, <3>2
    <2>6. \A i \in 1..n : Mannered(g[i])
      BY <2>2, <2>5 DEF Settled
    <2>7. \A i \in 1..n : g[i].results = d[i].results /\ g[i].role = d[i].role
      BY <2>2, <2>5
    <2>8. g[1].results = {}
      <3>1. 1 \in 1..n
        BY <1>1, <2>1
      <3>2. QED
        BY <1>4, <2>7, <3>1 DEF Settled, Straight
    <2>9. ASSUME NEW i \in 2..n
          PROVE  g[i].results = g[i - 1].calls /\ g[i].role # g[i - 1].role
      <3>1. i \in 1..n /\ i - 1 \in 1..n /\ i - 1 # n
        BY <1>1
      <3>2. g[i - 1] = d[i - 1]
        BY <2>2, <3>1
      <3>3. QED
        BY <2>7, <3>1, <3>2 DEF Settled, Straight
    <2>10. g[Len(g)].role = m.role /\ OpenCalls(g) = m.calls
      BY <1>2, <1>4, <2>2, <2>5 DEF OpenCalls
    <2>11. QED
      BY <1>2, <2>2, <2>6, <2>8, <2>9, <2>10 DEF Settled, Straight, g
  <1>5. QED
    BY <1>3, <1>4

RequestOf(f, last) == [i \in 1..Len(f) + 1 |-> Message(IF i <= Len(f) THEN f[i] ELSE last)]

\* A straight history, with or without a hint at its end, and a message that
\* answers its open calls make a request that a provider accepts.
LEMMA RequestIs ==
  ASSUME NEW k, Upright(k), NEW f, f = k \/ \E it : Quiet(it) /\ f = Append(k, it),
         NEW last \in Item, last.by # "model", last.calls = {}, last.results = OpenCalls(k)
  PROVE  WellFormed(Joined(RequestOf(f, last)))
  <1> DEFINE n == Len(k)
             N == Len(f) + 1
             ms == [i \in 1..N |-> Message(IF i <= Len(f) THEN f[i] ELSE last)]
             end == Message(last)
  <1>1. k \in Seq(Item) /\ n \in Nat /\ \A i \in 1..n : k[i] \in Item /\ Shaped(k[i])
    BY LenProperties, ElementOfSeq DEF Upright
  <1>2. /\ end \in MessageType /\ Mannered(end) /\ end.role = "user"
        /\ end.calls = {} /\ end.results = OpenCalls(k)
    <2>1. Shaped(last)
      BY DEF Shaped
    <2>2. QED
      BY <2>1, MessageTyped
  <1>3. /\ f \in Seq(Item) /\ Len(f) \in Nat /\ (Len(f) = n \/ Len(f) = n + 1)
        /\ \A i \in 1..n : f[i] = k[i]
        /\ Len(f) = n + 1 => Quiet(f[n + 1])
    <2>1. CASE f = k
      BY <1>1, <2>1
    <2>2. CASE \E it : Quiet(it) /\ f = Append(k, it)
      <3>1. PICK it : Quiet(it) /\ f = Append(k, it)
        BY <2>2
      <3>2. it \in Item
        BY <3>1 DEF Quiet
      <3>3. QED
        BY <1>1, <3>1, <3>2, AdditionIs, AppendProperties
    <2>3. QED
      BY <2>1, <2>2
  <1>4. \A i \in 1..Len(f) : f[i] \in Item /\ Shaped(f[i])
    <2>1. \A i \in 1..Len(f) : i \in 1..n \/ (i = n + 1 /\ Len(f) = n + 1)
      BY <1>1, <1>3
    <2>2. QED
      BY <1>1, <1>3, <2>1 DEF Quiet, Shaped
  <1>5. /\ N \in Nat /\ N >= 1 /\ ms \in Seq(MessageType) /\ Len(ms) = N
        /\ \A i \in 1..Len(f) : ms[i] = Message(f[i])
        /\ ms[N] = end
    <2>1. N \in Nat /\ N >= 1
      BY <1>3
    <2>2. ASSUME NEW i \in 1..N
          PROVE  ms[i] \in MessageType
      <3>1. CASE i <= Len(f)
        <4>1. i \in 1..Len(f) /\ ms[i] = Message(f[i])
          BY <1>3, <3>1
        <4>2. QED
          BY <1>4, <4>1, MessageTyped
      <3>2. CASE ~(i <= Len(f))
        BY <1>2, <3>2
      <3>3. QED
        BY <3>1, <3>2
    <2>3. ms \in [1..N -> MessageType]
      BY <2>2
    <2>4. ms \in Seq(MessageType) /\ Len(ms) = N
      <3> HIDE DEF ms
      <3>1. QED
        BY <2>1, <2>3, ListOf
    <2>5. \A i \in 1..Len(f) : ms[i] = Message(f[i])
      BY <1>3
    <2>6. ms[N] = end
      BY <1>3
    <2>7. QED
      BY <2>1, <2>4, <2>5, <2>6
  <1> HIDE DEF ms, end
  <1>6. PICK done : /\ done[0] = <<>>
                    /\ \A i \in 1..Len(ms) : done[i] = Joining(done[i - 1], ms[i])
                    /\ Joined(ms) = done[Len(ms)]
    BY <1>5, JoinedIs
  <1> HIDE DEF N
  <1> DEFINE Up(i) == Settled(done[i]) /\ OpenCalls(done[i]) = IF i = 0 THEN {} ELSE k[i].calls
             S == {i \in Nat : i <= n => Up(i)}
  <1>7. Up(0)
    BY <1>6, EmptySeq DEF Settled, Straight, OpenCalls
  <1>8. ASSUME NEW i \in Nat, Up(i), i + 1 <= n
        PROVE  Up(i + 1)
    <2>1. /\ i + 1 \in 1..N /\ (i + 1) - 1 = i /\ i + 1 # 0
          /\ i + 1 \in 1..n /\ i + 1 \in 1..Len(f)
      <3>1. i + 1 \in 1..n /\ (i + 1) - 1 = i /\ i + 1 # 0
        BY <1>1, <1>8, Successor
      <3>2. Len(f) \in Nat /\ n <= Len(f)
        BY <1>1, <1>3
      <3>3. QED
        BY <1>1, <3>1, <3>2, Wider DEF N
    <2>2. ms[i + 1] = Message(k[i + 1])
      BY <1>3, <1>5, <2>1
    <2>3. /\ ms[i + 1] \in MessageType /\ Mannered(ms[i + 1])
          /\ ms[i + 1].calls = k[i + 1].calls /\ ms[i + 1].results = k[i + 1].results
      BY <1>1, <2>1, <2>2, MessageTyped
    <2>4. k[i + 1].results = OpenCalls(done[i])
      <3>1. CASE i = 0
        <4>1. i + 1 = 1 /\ k # <<>>
          BY <1>1, <2>1, <3>1, EmptySeq
        <4>2. k[i + 1].results = {}
          BY <4>1 DEF Upright, Straight
        <4>3. QED
          BY <1>8, <3>1, <4>2
      <3>2. CASE i # 0
        <4>1. i + 1 \in 2..n
          BY <1>1, <1>8, <3>2, Successor
        <4>2. k[i + 1].results = k[(i + 1) - 1].calls
          BY <4>1 DEF Upright, Straight
        <4>3. QED
          BY <1>8, <2>1, <3>2, <4>2
      <3>3. QED
        BY <3>1, <3>2
    <2>5. done[i + 1] = Joining(done[i], ms[i + 1])
      BY <1>5, <1>6, <2>1
    <2>6. Settled(done[i + 1]) /\ OpenCalls(done[i + 1]) = ms[i + 1].calls
      <3> DEFINE d == done[i]
                 m == ms[i + 1]
      <3>1. Settled(d) /\ m \in MessageType /\ Mannered(m) /\ m.results = OpenCalls(d)
        BY <1>8, <2>3, <2>4
      <3>2. done[i + 1] = Joining(d, m)
        BY <2>5
      <3> HIDE DEF d, m
      <3>3. Settled(Joining(d, m)) /\ OpenCalls(Joining(d, m)) = m.calls
        BY <3>1, JoinSettled
      <3>4. QED
        BY <3>2, <3>3 DEF m
    <2>7. QED
      BY <2>1, <2>3, <2>6
  <1>9. Up(n)
    <2> HIDE DEF Up
    <2>1. 0 \in S
      BY <1>7
    <2>2. \A i \in Nat : i \in S => i + 1 \in S
      <3>1. SUFFICES ASSUME NEW i \in Nat, i \in S, i + 1 <= n
                     PROVE  Up(i + 1)
        OBVIOUS
      <3>2. i <= n
        BY <1>1, <3>1
      <3>3. Up(i)
        BY <3>1, <3>2
      <3>4. QED
        BY <1>8, <3>1, <3>3
    <2> HIDE DEF S
    <2>3. \A i \in Nat : i \in S
      BY <2>1, <2>2, Induction
    <2>4. n \in S
      BY <1>1, <2>3
    <2>5. QED
      BY <1>1, <2>4 DEF S
  <1>10. Settled(done[n]) /\ OpenCalls(done[n]) = OpenCalls(k)
    BY <1>1, <1>9, EmptySeq DEF OpenCalls
  \* The hint is one message with what follows it.
  <1>11. \E m \in MessageType : /\ Mannered(m) /\ m.role = "user" /\ m.calls = {}
                                /\ m.results = OpenCalls(k) /\ Joined(ms) = Joining(done[n], m)
    <2>1. CASE Len(f) = n
      <3>1. N \in 1..N /\ N - 1 = n
        BY <1>1, <2>1 DEF N
      <3>2. Joined(ms) = Joining(done[n], end)
        BY <1>5, <1>6, <3>1
      <3>3. QED
        BY <1>2, <3>2
    <2>2. CASE Len(f) = n + 1
      <3> DEFINE q == ms[n + 1]
      <3>1. /\ N \in 1..N /\ N - 1 = n + 1 /\ n + 1 \in 1..N /\ (n + 1) - 1 = n
            /\ n + 1 \in 1..Len(f)
        BY <1>1, <2>2 DEF N
      <3>2. q = Message(f[n + 1]) /\ Quiet(f[n + 1])
        BY <1>3, <1>5, <2>2, <3>1
      <3>3. /\ q \in MessageType /\ q.role = "user" /\ q.calls = {} /\ q.results = {}
        BY <1>4, <3>1, <3>2, MessageTyped DEF Quiet
      <3>4. done[n + 1] = Joining(done[n], q)
        BY <1>5, <1>6, <3>1
      <3>5. Joined(ms) = Joining(done[n + 1], end)
        BY <1>5, <1>6, <3>1
      <3> HIDE DEF q
      <3>6. done[n] \in Seq(MessageType)
        BY <1>10 DEF Settled
      <3>7. Joined(ms) = Joining(done[n], Merged(q, end))
        BY <1>2, <3>3, <3>4, <3>5, <3>6, JoinTwice
      <3>8. /\ Merged(q, end) \in MessageType /\ Merged(q, end).role = "user"
            /\ Merged(q, end).calls = {} /\ Merged(q, end).results = OpenCalls(k)
        <4>1. /\ Merged(q, end) \in MessageType /\ Merged(q, end).role = q.role
              /\ Merged(q, end).calls = q.calls \union end.calls
              /\ Merged(q, end).results = q.results \union end.results
          BY <1>2, <3>3, MergedIs
        <4>2. QED
          BY <1>2, <3>3, <4>1
      <3>9. QED
        BY <3>7, <3>8 DEF Mannered
    <2>3. QED
      BY <1>3, <2>1, <2>2
  <1>12. PICK m \in MessageType : /\ Mannered(m) /\ m.role = "user" /\ m.calls = {}
                                  /\ m.results = OpenCalls(k) /\ Joined(ms) = Joining(done[n], m)
    BY <1>11
  <1>13. /\ Settled(Joined(ms)) /\ Joined(ms) # <<>>
         /\ Joined(ms)[Len(Joined(ms))].role = "user" /\ OpenCalls(Joined(ms)) = {}
    BY <1>10, <1>12, JoinSettled
  <1>14. WellFormed(Joined(ms))
    BY <1>13 DEF Settled, Straight, OpenCalls, WellFormed
  <1>15. QED
    BY <1>14 DEF ms, N, RequestOf

\* Whatever a turn leaves behind, the transcript stays paired: the IDs of calls
\* are fresh, and no results are on record before they are appended.
IdsOK ==
    /\ CallsIn(transcript) \subseteq 1..issued /\ RecordedIn(transcript) \subseteq 1..issued
    /\ todo \subseteq 1..issued /\ outcomes \subseteq 1..issued /\ answer.calls \subseteq 1..issued
    /\ stage \in {"heard", "resulted"} =>
          answer.calls \intersect (CallsIn(transcript) \union RecordedIn(transcript)) = {}
    /\ stage = "resulted" => answer.calls \intersect outcomes = {}
    /\ stage \in PendingStages => (todo \union outcomes) \intersect RecordedIn(transcript) = {}

\* The answer whose tools run is there, unless the turn is over; and a request
\* that brings results ends in their calls, or in these and a hint.
SentOK ==
    /\ Paired(sent)
    /\ life = "live" /\ stage \in ToolStages => transcript # <<>>
    /\ stage = "answering" /\ squeezed = "no" => EndsIn(sent, outcomes)
    /\ stage = "answering" /\ squeezed # "twice" =>
          EndsIn(sent, outcomes) \/ Hinted(sent, outcomes)

PairInv == Paired(transcript) /\ IdsOK /\ SentOK

LEMMA InitPairs == AgentInit => PairInv
  <1> SUFFICES ASSUME AgentInit
               PROVE  PairInv
    OBVIOUS
  <1>1. transcript = <<>> /\ sent = <<>> /\ stage = "idle"
    BY DEF AgentInit
  <1>2. Paired(transcript) /\ Paired(sent)
    BY <1>1, NothingPaired
  <1>3. CallsIn(transcript) = {} /\ RecordedIn(transcript) = {}
    BY <1>1, NothingPaired
  <1>4. todo = {} /\ outcomes = {} /\ answer.calls = {}
    BY DEF AgentInit, NoReply
  <1>5. IdsOK /\ SentOK
    BY <1>1, <1>2, <1>3, <1>4 DEF IdsOK, SentOK, PendingStages, ToolStages
  <1>6. QED
    BY <1>2, <1>5 DEF PairInv

\* A step that takes up no calls.
LEMMA IdsKept ==
  ASSUME IdsOK, CallsIn(transcript') \subseteq CallsIn(transcript),
         RecordedIn(transcript') \subseteq RecordedIn(transcript),
         issued' = issued, todo' \union outcomes' \subseteq todo \union outcomes,
         answer'.calls \subseteq answer.calls,
         stage' \in {"heard", "resulted"} => stage' = stage /\ outcomes' = outcomes,
         stage' \in PendingStages => stage \in PendingStages
  PROVE  IdsOK'
  BY DEF IdsOK, CallsIn, RecordedIn

\* Words of the user or the loop, or what a failed request has shown.
LEMMA WordsPaired ==
  ASSUME NEW h \in Seq(Item), Paired(h), NEW it \in Item, it.calls = {}, it.results = {}
  PROVE  /\ Paired(Append(h, it)) /\ CallsIn(Append(h, it)) = CallsIn(h)
         /\ RecordedIn(Append(h, it)) = RecordedIn(h)
  <1>1. Shaped(it)
    BY DEF Shaped
  <1>2. QED
    BY <1>1, AddPaired

AddsQuiet == \E it \in Item : /\ it.calls = {} /\ it.results = {}
                              /\ transcript' = Append(transcript, it)

LEMMA PairsKept ==
  ASSUME transcript \in Seq(Item), Paired(transcript),
         transcript' = transcript \/ AddsQuiet \/ Cuts \/ Empties
  PROVE  /\ Paired(transcript') /\ CallsIn(transcript') \subseteq CallsIn(transcript)
         /\ RecordedIn(transcript') \subseteq RecordedIn(transcript)
  <1>1. CASE transcript' = transcript
    BY <1>1
  <1>2. CASE AddsQuiet
    BY <1>2, WordsPaired DEF AddsQuiet
  <1>3. CASE Cuts
    <2>1. PICK i \in 1..Len(transcript) : transcript' = SubSeq(transcript, 1, i - 1)
      BY <1>3 DEF Cuts
    <2> DEFINE g == SubSeq(transcript, 1, i - 1)
    <2>2. /\ g \in Seq(Item) /\ Len(g) = i - 1
          /\ \A j \in 1..(i - 1) : g[j] = transcript[j]
      BY FromTyped, CutIs
    <2> HIDE DEF g
    <2>3. Len(transcript) \in Nat /\ Len(g) \in Nat /\ Len(g) + 0 <= Len(transcript) /\ 0 \in Nat
      <3>1. Len(transcript) \in Nat /\ i \in Int /\ i <= Len(transcript) /\ Len(g) \in Nat
        BY <2>2, LenProperties
      <3>2. QED
        BY <2>2, <3>1
    <2>4. \A k \in 1..Len(g) : g[k] = transcript[IF k <= Len(g) THEN k ELSE k + 0]
      BY <2>2, <2>3
    <2>5. /\ Paired(g) /\ CallsIn(g) \subseteq CallsIn(transcript)
          /\ RecordedIn(g) \subseteq RecordedIn(transcript)
      BY <2>2, <2>3, <2>4, CutPaired
    <2>6. QED
      BY <2>1, <2>5 DEF g
  <1>4. CASE Empties
    BY <1>4, NothingPaired DEF Empties
  <1>5. QED
    BY <1>1, <1>2, <1>3, <1>4

LEMMA PairsStep == LoopInv /\ PairInv /\ [AgentNext]_agentVars => Paired(transcript') /\ IdsOK'
  <1> SUFFICES ASSUME LoopInv, PairInv, [AgentNext]_agentVars
               PROVE  Paired(transcript') /\ IdsOK'
    OBVIOUS
  <1>1. AgentTypeOK /\ BusyOK /\ CallsOK /\ transcript \in Seq(Item)
    BY DEF LoopInv, AgentTypeOK
  <1>2. Paired(transcript) /\ IdsOK
    BY DEF PairInv
  <1>3. issued \in Nat
    BY <1>1 DEF AgentTypeOK
  <1>4. CASE Hear
    <2>1. PICK text, cut \in BOOLEAN, n \in 0..CallsAtOnce :
             /\ issued' = issued + n /\ issued' <= MaxCalls
             /\ answer' = [text |-> text, calls |-> issued + 1..issued', cut |-> cut]
      BY <1>4 DEF Hear
    <2>2. answer'.calls = (issued + 1)..issued' /\ issued' \in Nat /\ issued <= issued'
      BY <1>3, <2>1
    <2>3. /\ 1..issued \subseteq 1..issued' /\ answer'.calls \subseteq 1..issued'
          /\ answer'.calls \intersect 1..issued = {}
      BY <1>3, <2>2, NewIDs
    <2>4. transcript' = transcript /\ todo' = todo /\ outcomes' = outcomes
      BY <1>4 DEF Hear, calling
    <2>5. stage' \in PendingStages => stage \in PendingStages
      BY <1>4 DEF Hear, Proceed, InFlight, AfterAnswer, PendingStages, ToolStages
    <2>6. /\ CallsIn(transcript) \subseteq 1..issued /\ RecordedIn(transcript) \subseteq 1..issued
          /\ todo \subseteq 1..issued /\ outcomes \subseteq 1..issued
          /\ stage \in PendingStages => (todo \union outcomes) \intersect RecordedIn(transcript) = {}
      BY <1>2 DEF IdsOK
    <2>7. /\ CallsIn(transcript) \subseteq 1..issued' /\ RecordedIn(transcript) \subseteq 1..issued'
          /\ todo \subseteq 1..issued' /\ outcomes \subseteq 1..issued'
          /\ answer'.calls \intersect (CallsIn(transcript) \union RecordedIn(transcript)) = {}
          /\ answer'.calls \intersect outcomes = {}
      BY <2>3, <2>6
    <2>8. IdsOK'
      <3>1. CallsIn(transcript)' = CallsIn(transcript) /\ RecordedIn(transcript)' = RecordedIn(transcript)
        BY <2>4 DEF CallsIn, RecordedIn
      <3>2. QED
        BY <2>3, <2>4, <2>5, <2>6, <2>7, <3>1 DEF IdsOK
    <2>9. QED
      BY <1>2, <2>4, <2>8
  <1>5. CASE AppendResults
    <2>1. /\ stage = "resulted" /\ stage' = "heard" /\ transcript' = Append(transcript, Results)
          /\ issued' = issued /\ answer' = answer /\ todo' = todo /\ outcomes' = outcomes
      BY <1>5 DEF AppendResults, Proceed, replying, calling
    <2>2. Results \in Item /\ Results.results = outcomes
      BY <1>1, ResultsTyped
    <2>3. Results.calls = {} /\ Shaped(Results)
      BY DEF Results, Shaped
    <2>4. outcomes \intersect RecordedIn(transcript) = {}
      BY <1>2, <2>1 DEF IdsOK, PendingStages
    <2>5. \/ transcript # <<>> /\ outcomes = transcript[Len(transcript)].calls
          \/ outcomes \intersect CallsIn(transcript) = {}
      <3>1. CASE transcript = <<>>
        BY <3>1, NothingPaired
      <3>2. CASE transcript # <<>>
        BY <1>1, <2>1, <3>2 DEF CallsOK, BusyOK, PendingStages
      <3>3. QED
        BY <3>1, <3>2
    <2>6. /\ Paired(transcript') /\ CallsIn(transcript') = CallsIn(transcript)
          /\ RecordedIn(transcript') = RecordedIn(transcript) \union outcomes
      <3> DEFINE h == Append(transcript, Results)
      <3>1. Paired(h) /\ CallsIn(h) = CallsIn(transcript) \union Results.calls
            /\ RecordedIn(h) = RecordedIn(transcript) \union Results.results
        BY <1>1, <1>2, <2>2, <2>3, <2>4, <2>5, AddPaired
      <3>2. transcript' = h
        BY <2>1
      <3> HIDE DEF h
      <3>3. QED
        BY <2>2, <2>3, <3>1, <3>2
    <2>7. IdsOK'
      <3>1. /\ CallsIn(transcript') \subseteq 1..issued /\ RecordedIn(transcript') \subseteq 1..issued
            /\ answer.calls \intersect (CallsIn(transcript') \union RecordedIn(transcript')) = {}
        BY <1>2, <2>1, <2>6 DEF IdsOK
      <3>2. QED
        BY <1>2, <2>1, <3>1 DEF IdsOK, CallsIn, RecordedIn, PendingStages, ToolStages
    <2>8. QED
      BY <2>6, <2>7
  <1>6. CASE RecordReply
    <2> DEFINE it == Spoken(answer)
    <2>1. /\ stage = "heard" /\ transcript' = Append(transcript, it)
          /\ issued' = issued /\ answer' = answer /\ outcomes' = {}
          /\ (stage' = "tools" /\ todo' = answer.calls) \/ (stage' = "judge" /\ todo' = {})
      BY <1>6 DEF RecordReply, Proceed, replying
    <2>2. it \in Item /\ it.results = {} /\ it.calls = answer.calls
      BY <1>1, SpokenTyped DEF AgentTypeOK
    <2>3. Shaped(it)
      BY <2>2 DEF Spoken, Shaped
    <2>4. answer.calls \intersect (CallsIn(transcript) \union RecordedIn(transcript)) = {}
      BY <1>2, <2>1 DEF IdsOK
    <2> HIDE DEF it
    <2>5. /\ Paired(transcript') /\ CallsIn(transcript') = CallsIn(transcript) \union answer.calls
          /\ RecordedIn(transcript') = RecordedIn(transcript)
      <3> DEFINE h == Append(transcript, it)
      <3>1. Paired(h) /\ CallsIn(h) = CallsIn(transcript) \union it.calls
            /\ RecordedIn(h) = RecordedIn(transcript) \union it.results
        BY <1>1, <1>2, <2>2, <2>3, <2>4, AddPaired
      <3>2. transcript' = h
        BY <2>1
      <3> HIDE DEF h
      <3>3. QED
        BY <2>2, <3>1, <3>2
    <2>6. /\ CallsIn(transcript') \subseteq 1..issued /\ RecordedIn(transcript') \subseteq 1..issued
          /\ answer.calls \intersect RecordedIn(transcript') = {} /\ answer.calls \subseteq 1..issued
      BY <1>2, <2>4, <2>5 DEF IdsOK
    <2>7. IdsOK'
      BY <2>1, <2>6 DEF IdsOK, CallsIn, RecordedIn
    <2>8. QED
      BY <2>5, <2>7
  \* The other steps keep or drop calls.
  <1>7. ASSUME transcript' = transcript \/ AddsQuiet \/ Cuts \/ Empties,
               issued' = issued, todo' \union outcomes' \subseteq todo \union outcomes,
               answer'.calls \subseteq answer.calls,
               stage' \in {"heard", "resulted"} => stage' = stage /\ outcomes' = outcomes,
               stage' \in PendingStages => stage \in PendingStages
        PROVE  Paired(transcript') /\ IdsOK'
    <2>1. /\ Paired(transcript') /\ CallsIn(transcript') \subseteq CallsIn(transcript)
          /\ RecordedIn(transcript') \subseteq RecordedIn(transcript)
      BY <1>1, <1>2, <1>7, PairsKept
    <2>2. QED
      BY <1>2, <1>7, <2>1, IdsKept
  <1>8. CASE Ends /\ issued' = issued /\ (transcript' = transcript \/ AddsQuiet)
    <2>1. stage' = "idle" /\ todo' = {} /\ outcomes' = {} /\ answer'.calls = {}
      BY <1>8 DEF Ends, Proceed, NoReply
    <2>2. QED
      BY <1>7, <1>8, <2>1 DEF PendingStages, ToolStages
  <1>9. CASE GiveUp \/ EndLoop \/ ProviderFails
    <2>1. Partial \in Item /\ Partial.results = {} /\ Partial.calls = {}
      BY PartialTyped DEF Partial, Spoken
    <2>2. Ends /\ issued' = issued /\ (transcript' = transcript \/ AddsQuiet)
      BY <1>9, <2>1 DEF GiveUp, EndLoop, ProviderFails, AddsQuiet
    <2>3. QED
      BY <1>8, <2>2
  <1>10. CASE TakePrompt \/ Nudge
    <2>1. AddsQuiet
      <3>1. \A who \in {"prompt", "nudge"} : \A n \in Nat :
               Words(who, n) \in Item /\ Words(who, n).results = {} /\ Words(who, n).calls = {}
        BY WordsTyped DEF Words
      <3>2. prompt' \in Nat \/ Nudge
        <4>1. prompt \in Nat
          BY <1>1 DEF AgentTypeOK
        <4>2. Nudge \/ prompt' = prompt + 1
          BY <1>10 DEF TakePrompt
        <4>3. QED
          BY <4>1, <4>2
      <3>3. QED
        BY <1>10, <3>1, <3>2 DEF TakePrompt, Nudge, AddsQuiet
    <2>2. /\ stage' = "round" /\ issued' = issued /\ answer' = answer
          /\ todo' = todo /\ outcomes' = outcomes
      BY <1>10 DEF TakePrompt, Nudge, Proceed, replying, calling
    <2>3. QED
      BY <1>7, <2>1, <2>2 DEF PendingStages, ToolStages
  <1>11. CASE RefuseCall \/ ToolReturns \/ Declined \/ PersonConfirms \/ LoopGuard
    <2>1. CASE AnswerCall
      <3>1. /\ transcript' = transcript /\ issued' = issued /\ answer' = answer
            /\ todo # {} /\ stage \in PendingStages
        BY <1>1, <1>11, <2>1 DEF RefuseCall, ToolReturns, Declined, PersonConfirms, LoopGuard,
           NextCall, BusyOK, AnswerCall, Ends, Proceed, replying, PendingStages, ToolStages
      <3>2. todo' \union outcomes' = todo \union outcomes /\ stage' = "tools"
        BY <1>1, <2>1, <3>1, AnswerTyped
      <3>3. QED
        BY <1>7, <3>1, <3>2
    <2>2. CASE PersonConfirms /\ Proceed("allowed") /\ UNCHANGED <<todo, outcomes, using>>
      <3>1. /\ transcript' = transcript /\ issued' = issued /\ answer' = answer
            /\ todo' = todo /\ outcomes' = outcomes /\ stage' = "allowed"
            /\ stage \in PendingStages
        BY <2>2 DEF PersonConfirms, Proceed, replying, PendingStages, ToolStages
      <3>2. QED
        BY <1>7, <3>1
    <2>3. CASE LoopGuard /\ Ends
      BY <1>8, <2>3 DEF LoopGuard
    <2>4. QED
      BY <1>11, <2>1, <2>2, <2>3 DEF RefuseCall, ToolReturns, Declined, PersonConfirms, LoopGuard
  <1>12. CASE OpenRound \/ Overflow \/ Permit \/ AskPerson \/ PersonAllows \/ Execute
              \/ SendResults \/ StopOrExpire \/ ClearStops \/ ClearEmpties \/ CutTranscript
              \/ UNCHANGED agentVars
    <2>1. /\ issued' = issued /\ answer' = answer /\ todo' = todo /\ outcomes' = outcomes
          /\ transcript' = transcript \/ Cuts \/ Empties
      BY <1>12 DEF OpenRound, Overflow, Permit, AskPerson, PersonAllows, Execute, SendResults,
         StopOrExpire, ClearStops, ClearEmpties, CutTranscript, agentVars, replying, calling, Cuts,
         Empties
    <2>2. /\ stage' \in {"heard", "resulted"} => stage' = stage
          /\ stage' \in PendingStages => stage \in PendingStages
      BY <1>12 DEF OpenRound, Overflow, Permit, AskPerson, PersonAllows, Execute, SendResults,
         StopOrExpire, ClearStops, ClearEmpties, CutTranscript, agentVars, NextCall, Proceed,
         PendingStages, ToolStages
    <2>3. QED
      BY <1>7, <2>1, <2>2
  <1>13. QED
    BY <1>4, <1>5, <1>6, <1>9, <1>10, <1>11, <1>12 DEF AgentNext, Loop, QuestionEnds

\* A snapshot of the transcript, or what a compaction makes of it.
LEMMA SnapshotPaired ==
  ASSUME AgentTypeOK, Paired(transcript), Snapshot
  PROVE  /\ Paired(sent')
         /\ \A cs : EndsIn(transcript, cs) =>
               /\ squeezed' = "no" => EndsIn(sent', cs)
               /\ EndsIn(sent', cs) \/ Hinted(sent', cs)
  <1>1. transcript \in Seq(Item)
    BY DEF AgentTypeOK
  <1>2. CASE sent' = transcript /\ squeezed' = "no"
    BY <1>2 DEF EndsIn
  <1>3. CASE sent' \in Compactions(transcript) /\ squeezed' = "compacted"
    BY <1>1, <1>3, CompactionsPaired
  <1>4. QED
    BY <1>2, <1>3 DEF Snapshot

LEMMA SentStep == LoopInv /\ PairInv /\ [AgentNext]_agentVars => SentOK'
  <1> SUFFICES ASSUME LoopInv, PairInv, [AgentNext]_agentVars
               PROVE  SentOK'
    OBVIOUS
  <1>1. AgentTypeOK /\ BusyOK /\ CallsOK /\ transcript \in Seq(Item) /\ sent \in Seq(Item)
    BY DEF LoopInv, AgentTypeOK
  <1>2. Paired(transcript) /\ SentOK
    BY DEF PairInv
  <1>3. ASSUME sent' = <<>>, stage' \notin ToolStages, stage' # "answering"
        PROVE  SentOK'
    BY <1>3, NothingPaired DEF SentOK
  <1>4. CASE Ends
    BY <1>3, <1>4 DEF Ends, Proceed, ToolStages
  <1>5. CASE Hear
    BY <1>3, <1>5 DEF Hear, Proceed, AfterAnswer, ToolStages
  <1>6. CASE OpenRound
    <2>1. Paired(sent') /\ stage' = "asking"
      BY <1>1, <1>2, <1>6, SnapshotPaired DEF OpenRound, Proceed
    <2>2. QED
      BY <2>1 DEF SentOK, ToolStages
  <1>7. CASE SendResults
    <2>1. /\ stage = "tools" /\ life = "live" /\ todo = {} /\ stage' = "answering"
          /\ outcomes' = outcomes /\ Snapshot
      BY <1>7 DEF SendResults, Proceed, calling
    <2>2. EndsIn(transcript, outcomes)
      <3>1. transcript # <<>>
        BY <1>2, <2>1 DEF SentOK, ToolStages
      <3>2. transcript[Len(transcript)].calls = outcomes
        BY <1>1, <2>1, <3>1 DEF CallsOK, PendingStages, ToolStages
      <3>3. QED
        BY <3>1, <3>2 DEF EndsIn
    <2>3. /\ Paired(sent')
          /\ squeezed' = "no" => EndsIn(sent', outcomes)
          /\ EndsIn(sent', outcomes) \/ Hinted(sent', outcomes)
      BY <1>1, <1>2, <2>1, <2>2, SnapshotPaired
    <2>4. QED
      BY <2>1, <2>3 DEF SentOK, ToolStages, EndsIn, Hinted
  <1>8. CASE Overflow
    <2>1. /\ sent' \in Emergencies(sent) /\ stage' = stage /\ outcomes' = outcomes
          /\ squeezed' = "twice" \/ (squeezed = "no" /\ squeezed' = "emergency")
          /\ stage \in {"asking", "answering"}
      BY <1>8 DEF Overflow, InFlight, calling
    <2>2. /\ Paired(sent')
          /\ \A cs : EndsIn(sent, cs) => EndsIn(sent', cs) \/ Hinted(sent', cs)
      BY <1>1, <1>2, <2>1, CompactionsPaired DEF SentOK
    <2>3. stage = "answering" /\ squeezed = "no" => EndsIn(sent, outcomes)
      BY <1>2 DEF SentOK
    <2>4. stage' = "answering" /\ squeezed' # "twice" =>
             EndsIn(sent', outcomes) \/ Hinted(sent', outcomes)
      BY <2>1, <2>2, <2>3
    <2>5. QED
      BY <2>1, <2>2, <2>4 DEF SentOK, ToolStages, EndsIn, Hinted
  \* The other steps leave the request alone.
  <1>9. ASSUME sent' = sent, squeezed' = squeezed,
               stage' = "answering" => stage = "answering" /\ outcomes' = outcomes,
               life' = "live" /\ stage' \in ToolStages => transcript' # <<>>
        PROVE  SentOK'
    BY <1>2, <1>9 DEF SentOK, EndsIn, Hinted
  <1>10. CASE RecordReply
    <2>1. transcript' # <<>>
      <3>1. Spoken(answer) \in Item
        BY <1>1, SpokenTyped DEF AgentTypeOK
      <3>2. QED
        BY <1>1, <1>10, <3>1, AdditionIs DEF RecordReply
    <2>2. QED
      BY <1>9, <1>10, <2>1 DEF RecordReply, Proceed, asking
  <1>11. CASE TakePrompt \/ AppendResults \/ Nudge \/ StopOrExpire \/ ClearStops \/ ClearEmpties
              \/ CutTranscript \/ UNCHANGED agentVars
    <2>1. sent' = sent /\ squeezed' = squeezed /\ outcomes' = outcomes
      BY <1>11 DEF TakePrompt, AppendResults, Nudge, StopOrExpire, ClearStops, ClearEmpties,
         CutTranscript, agentVars, asking, calling
    <2>2. stage' = "answering" => stage = "answering"
      BY <1>11 DEF TakePrompt, AppendResults, Nudge, StopOrExpire, ClearStops, ClearEmpties,
         CutTranscript, agentVars, Proceed
    <2>3. ASSUME life' = "live", stage' \in ToolStages
          PROVE  transcript' # <<>>
      <3>1. life = "live" /\ stage \in ToolStages /\ transcript' = transcript
        BY <1>1, <1>11, <2>3 DEF TakePrompt, AppendResults, Nudge, StopOrExpire, ClearStops,
           ClearEmpties, CutTranscript, agentVars, Proceed, BusyOK, ToolStages
      <3>2. QED
        BY <1>2, <3>1 DEF SentOK
    <2>4. QED
      BY <1>9, <2>1, <2>2, <2>3
  <1>12. CASE RefuseCall \/ ToolReturns \/ Declined \/ PersonConfirms \/ (LoopGuard /\ AnswerCall)
              \/ Permit \/ AskPerson \/ PersonAllows \/ Execute
    <2>1. /\ sent' = sent /\ squeezed' = squeezed /\ stage \in ToolStages
          /\ stage' # "answering" /\ transcript' = transcript /\ life' = life
      BY <1>12 DEF RefuseCall, ToolReturns, Declined, PersonConfirms, LoopGuard, Permit, AskPerson,
         PersonAllows, Execute, NextCall, AnswerCall, Ends, Proceed, asking, ToolStages
    <2>2. QED
      BY <1>2, <1>9, <2>1 DEF SentOK
  <1>13. QED
    BY <1>4, <1>5, <1>6, <1>7, <1>8, <1>10, <1>11, <1>12 DEF AgentNext, Loop, QuestionEnds, GiveUp,
       ProviderFails, EndLoop, LoopGuard

\* The request of a turn: what it is sent is paired, and ends in the calls whose
\* results it brings.
LEMMA RequestsStand ==
  ASSUME ~Persona, LoopInv, PairInv, InFlight, squeezed # "twice"
  PROVE  WellFormed(Payload)
  <1> DEFINE late == IF stage = "answering" THEN outcomes ELSE {}
             last == IF stage = "answering" THEN Results ELSE Words("nudge", 0)
             n == Len(sent)
             f == Sanitized(sent, late)
  <1>1. AgentTypeOK /\ sent \in Seq(Item) /\ Paired(sent) /\ n \in Nat
    BY LenProperties DEF LoopInv, AgentTypeOK, PairInv, SentOK
  <1>2. /\ last \in Item /\ last.by # "model" /\ last.calls = {} /\ last.results = late
    <2>1. /\ Results \in Item /\ Results.by = "results" /\ Results.calls = {}
          /\ Results.results = outcomes
      BY <1>1, ResultsTyped DEF Results
    <2>2. /\ Words("nudge", 0) \in Item /\ Words("nudge", 0).by = "nudge"
          /\ Words("nudge", 0).calls = {} /\ Words("nudge", 0).results = {}
      BY WordsTyped DEF Words
    <2>3. QED
      BY <2>1, <2>2
  <1>3. \E e : OpenAt(sent, e, late) /\ n <= e + 1
    <2>1. CASE late = {}
      <3>1. OpenAt(sent, n, late) /\ n <= n + 1
        BY <1>1, <2>1 DEF OpenAt
      <3>2. QED
        BY <3>1
    <2>2. CASE EndsIn(sent, late)
      <3>1. n > 0
        BY <1>1, <2>2, EmptySeq DEF EndsIn
      <3>2. OpenAt(sent, n, late) /\ n <= n + 1
        BY <1>1, <2>2, <3>1 DEF OpenAt, EndsIn
      <3>3. QED
        BY <3>2
    <2>3. CASE Hinted(sent, late)
      <3> DEFINE hint == Words("nudge", 0)
      <3>1. PICK s \in Seq(Item) : EndsIn(s, late) /\ sent = Append(s, hint)
        BY <2>3 DEF Hinted
      <3> DEFINE e == Len(s)
      <3>2. /\ hint \in Item /\ hint.by # "model" /\ hint.calls = {} /\ hint.results = {}
        BY WordsTyped DEF Words
      <3> HIDE DEF hint
      <3>3. /\ n = e + 1 /\ e \in Nat /\ sent[e + 1] = hint
            /\ \A i \in 1..e : sent[i] = s[i]
        BY <3>1, <3>2, AdditionIs
      <3>4. e > 0
        BY <3>1, EmptySeq DEF EndsIn
      <3>5. sent[e].calls = late
        BY <3>1, <3>3, <3>4 DEF EndsIn
      <3>6. \A i \in 1..n : i > e => sent[i] = hint
        BY <3>3
      <3>7. OpenAt(sent, e, late) /\ n <= e + 1
        BY <3>2, <3>3, <3>4, <3>5, <3>6 DEF OpenAt
      <3>8. QED
        BY <3>7
    <2>4. stage = "answering" => EndsIn(sent, outcomes) \/ Hinted(sent, outcomes)
      BY DEF PairInv, SentOK
    <2>5. QED
      BY <2>1, <2>2, <2>3, <2>4
  <1> HIDE DEF late, last, n
  <1>4. PICK k : /\ Upright(k) /\ OpenCalls(k) = late
                 /\ f = k \/ \E it : Quiet(it) /\ f = Append(k, it)
    BY <1>1, <1>3, SanitizedIsStraight DEF n
  <1>5. SkipFirst(f) = f
    <2> HIDE DEF f
    <2>1. f \in Seq(Item)
      <3>1. k \in Seq(Item)
        BY <1>4 DEF Upright
      <3>2. CASE \E it : Quiet(it) /\ f = Append(k, it)
        <4>1. PICK it : Quiet(it) /\ f = Append(k, it)
          BY <3>2
        <4>2. it \in Item
          BY <4>1 DEF Quiet
        <4>3. QED
          BY <3>1, <4>1, <4>2, AppendProperties
      <3>3. QED
        BY <1>4, <3>1, <3>2
    <2>2. SkipFirst(f) = SubSeq(f, 1, Len(f))
      BY DEF SkipFirst, From
    <2>3. QED
      BY <2>1, <2>2, SubSeqFull
  <1> HIDE DEF f
  <1>6. WellFormed(Joined(RequestOf(f, last)))
    <2>1. f = k \/ \E it : Quiet(it) /\ f = Append(k, it)
      BY <1>4
    <2>2. last.results = OpenCalls(k)
      BY <1>2, <1>4
    <2>3. QED
      BY <1>2, <1>4, <2>1, <2>2, RequestIs
  <1>7. Payload = Joined(RequestOf(f, last))
    BY <1>5 DEF Payload, RequestOf, f, late, last
  <1>8. QED
    BY <1>6, <1>7

\* sendMessage keeps the transcript paired through Stops, clears, edits, failed
\* requests and rounds, and the snapshots it compacts and sends with it.
THEOREM PairInvariant == AgentSpec => [](LoopInv /\ PairInv)
  <1>1. LoopInv /\ PairInv /\ [AgentNext]_agentVars => LoopInv' /\ PairInv'
    <2>1. LoopInv /\ [AgentNext]_agentVars => LoopInv'
      BY LoopTypes, BusyStep, CallsStep, CausalStep, RanStep, ConsentStep DEF LoopInv
    <2>2. ASSUME LoopInv, PairInv, [AgentNext]_agentVars
          PROVE  PairInv'
      <3>1. Paired(transcript)'
        BY <2>2, PairsStep DEF Paired, Once, Matched
      <3>2. QED
        BY <2>2, <3>1, PairsStep, SentStep DEF PairInv
    <2>3. QED
      BY <2>1, <2>2
  <1>2. QED
    BY InitLoop, InitPairs, <1>1, PTL DEF AgentSpec

\* sanitizeToolPairsWithPendingResults and mergeConsecutiveMessages make of any
\* transcript, interrupted, edited, cleared or compacted, a request whose calls
\* and results pair up, unless a first message is taken for a system prompt.
THEOREM RequestsAlwaysWellFormed ==
  ASSUME ~Persona
  PROVE  AgentSpec => []RequestsAreWellFormed
  <1>1. LoopInv /\ PairInv => RequestsAreWellFormed
    BY RequestsStand DEF RequestsAreWellFormed
  <1>2. QED
    BY PairInvariant, <1>1, PTL
=============================================================================
