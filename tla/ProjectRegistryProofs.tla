------------------------ MODULE ProjectRegistryProofs ------------------------
(***************************************************************************)
(* For any number of projects and of failed writes: a start of the program *)
(* finds the registered projects as they were before or after the          *)
(* operation that was interrupted, and forgets none of them.               *)
(***************************************************************************)
EXTENDS ProjectRegistry, TLAPS

(***************************************************************************)
(* The inductive invariant.                                                *)
(***************************************************************************)

OpKinds == {"single", "archive", "restore", "start"}

\* An operation is at a step that its kind has.
OpSteps ==
    /\ regOp.kind \in IF regOp.pc = "idle" THEN {"none"} ELSE OpKinds
    /\ regOp.pc \in {"second", "back"} => regOp.kind # "single"
    /\ regOp.pc = "back" => regOp.kind # "start"

\* No project is active and archived, and the new IDs are neither.
Disjoint(active, archived) ==
    /\ \A p \in ProjectIDs : active[p] = Absent \/ archived[p] = Absent
    /\ \A p \in freshIDs : active[p] = Absent /\ archived[p] = Absent

\* What an operation is going to publish differs from memory as its kind says.
OpBooks ==
    regOp.pc # "idle" =>
        /\ Disjoint(regOp.live, regOp.shelf)
        /\ regOp.kind = "single" => regOp.shelf = shelf
        /\ regOp.kind = "start" => regOp.live = live /\ regOp.shelf = shelf
        /\ regOp.kind = "archive" =>
            \A p \in ProjectIDs : regOp.shelf[p] = shelf[p]
                \/ (live[p] # Absent /\ regOp.shelf[p] # Absent)
        /\ regOp.kind = "restore" =>
            \A p \in ProjectIDs :
                /\ live[p] # Absent => regOp.live[p] # Absent
                /\ regOp.shelf[p] = shelf[p] \/ regOp.live[p] # Absent

\* A save of a turn is written before the operation that waits for the files.
SaverOK == saver.on => regOp.pc \in {"idle", "first"} /\ regOp.kind # "start"

\* One book has the same projects as another, each with the same settings or older ones.
NoNewer(book, other) ==
    \A p \in ProjectIDs : book[p] <= other[p] /\ (book[p] = Absent <=> other[p] = Absent)

\* Memory is ahead of the last save, and of the save of a turn, by new defaults only;
\* where it is not ahead of the one, it is not of the other.
Lag ==
    /\ NoNewer(saved, live)
    /\ saver.on => NoNewer(saver.live, live) /\ (saved = live => saver.live = live)

NewIDs == \A p \in freshIDs : confFile[p] = Absent /\ archFile[p] = Absent

Booked == OpSteps /\ Disjoint(live, shelf) /\ OpBooks /\ SaverOK /\ Lag /\ NewIDs

\* The books that the files stand for at every step of the operation.
AtFirst == regOp.pc \in {"idle", "first"} \/ (regOp.kind = "start" /\ regOp.pc = "second")
Halfway(kind) == regOp.kind = kind /\ regOp.pc \in {"second", "back"}

Covers(active, archived) ==
    /\ Recorded(active) \subseteq Recorded(confFile)
    /\ Recorded(archived) \subseteq Recorded(archFile)
FilesCover ==
    /\ AtFirst => Covers(live, shelf)
    /\ Halfway("archive") => Covers(live, regOp.shelf)
    /\ Halfway("restore") => Covers(regOp.live, shelf)
    /\ regOp.pc = "publish" => Covers(regOp.live, regOp.shelf)

\* As long as no error was dropped the files are these books, but config.yaml is
\* what the last save has left; after a start the archive may still have what the
\* active configuration overrides.
Starting == regOp.kind = "start" /\ regOp.pc = "first"
Match(active, archived) == confFile = active /\ archFile = archived
FilesMatch ==
    ~dropped =>
        /\ Starting => confFile = saved /\ Unshelved(saved, archFile) = shelf
        /\ AtFirst /\ ~Starting => Match(saved, shelf)
        /\ Halfway("archive") => Match(saved, regOp.shelf)
        /\ Halfway("restore") => Match(regOp.live, shelf)
        /\ regOp.pc = "publish" => Match(regOp.live, regOp.shelf)

GInv == RegTypeOK /\ Booked /\ FilesCover /\ FilesMatch

USE RegistryAssumption DEF Absent

-----------------------------------------------------------------------------

\* The type of regOp.
Ops == [kind : {"none", "single", "archive", "restore", "start"},
        pc : {"idle", "first", "second", "back", "publish"},
        live : Books, shelf : Books]

LEMMA InitHolds == RegInit => GInv
  <1> SUFFICES ASSUME RegInit PROVE GInv
    OBVIOUS
  <1>1. RegTypeOK
    <2>1. Nobody \in Books
      BY DEF Nobody, Books
    <2>2. Resting \in Ops /\ NoSave \in [on : BOOLEAN, live : Books]
      BY <2>1 DEF Resting, NoSave, Ops
    <2> QED BY <2>1, <2>2 DEF RegInit, RegTypeOK, Ops
  <1>2. Booked
    <2>1. OpSteps /\ OpBooks /\ SaverOK
      BY DEF RegInit, OpSteps, OpBooks, SaverOK, Resting, NoSave
    <2>2. Disjoint(live, shelf) /\ NewIDs
      BY DEF RegInit, Disjoint, NewIDs, Nobody
    <2>3. Lag
      BY DEF RegInit, Lag, NoNewer, Nobody, NoSave
    <2> QED BY <2>1, <2>2, <2>3 DEF Booked
  <1>3. FilesCover /\ FilesMatch
    <2>1. regOp.pc = "idle" /\ regOp.kind = "none" /\ confFile = live /\ archFile = shelf
          /\ saved = live
      BY DEF RegInit, Resting
    <2> QED BY <2>1 DEF FilesCover, FilesMatch, AtFirst, Starting, Halfway, Covers, Match
  <1> QED BY <1>1, <1>2, <1>3 DEF GInv

LEMMA TypeStep == RegTypeOK /\ [RegNext]_regVars => RegTypeOK'
  <1> SUFFICES ASSUME RegTypeOK, [RegNext]_regVars PROVE RegTypeOK'
    OBVIOUS
  <1> USE DEF RegTypeOK, Books
  <1>1. ASSUME NEW p \in ProjectIDs, AddProject(p) PROVE RegTypeOK'
    BY <1>1 DEF AddProject, Begin, Take
  <1>2. ASSUME NEW p \in ProjectIDs, EditProject(p) PROVE RegTypeOK'
    BY <1>2 DEF EditProject, Begin, Take
  <1>3. ASSUME NEW p \in ProjectIDs, RemoveProject(p) \/ ArchiveProject(p) \/ RestoreProject(p)
        PROVE RegTypeOK'
    BY <1>3 DEF RemoveProject, ArchiveProject, RestoreProject, Begin, Take
  <1>4. CASE SaveConfig
    BY <1>4 DEF SaveConfig, Begin, Take
  <1>18. CASE ApplyDefaults
    <2>1. live' \in Books
      BY <1>18 DEF ApplyDefaults
    <2> QED BY <1>18, <2>1 DEF ApplyDefaults, Take
  <1>a. Nobody \in Books
    BY DEF Nobody
  <1>b. Resting \in Ops
    BY <1>a DEF Resting, Ops
  <1>c. NoSave \in [on : BOOLEAN, live : Books]
    BY <1>a DEF NoSave
  <1>d. \A a, r \in Books : Unshelved(a, r) \in Books
    BY DEF Unshelved
  <1>5. CASE FirstWrite
    BY <1>5 DEF FirstWrite, WriteConfig, WriteArchive
  <1>6. CASE FirstFails
    <2>1. regOp' \in Ops
      BY <1>6, <1>b DEF FirstFails, Ops
    <2>2. mishaps' \in Nat
      BY <1>6 DEF FirstFails, Mishap
    <2>3. dropped' \in BOOLEAN
      <3>1. CASE regOp.kind = "start"
        BY <1>6, <3>1, Zenon DEF FirstFails
      <3>2. CASE regOp.kind # "start"
        BY <1>6, <3>2, Zenon DEF FirstFails
      <3> QED BY <3>1, <3>2
    <2>4. UNCHANGED <<live, shelf, confFile, archFile, aside, saver, freshIDs, saved>>
      BY <1>6 DEF FirstFails
    <2> QED BY <2>1, <2>2, <2>3, <2>4 DEF Ops
  <1>7. CASE SecondWrite
    BY <1>7 DEF SecondWrite, WriteConfig, WriteArchive
  <1>8. CASE SecondFails
    <2>1. regOp' \in Ops
      BY <1>8, <1>b DEF SecondFails, Ops
    <2> QED BY <1>8, <2>1 DEF SecondFails, Mishap, Ops
  <1>12. CASE TakeBack
    BY <1>12, <1>b DEF TakeBack, WriteConfig, WriteArchive, Ops
  <1>13. CASE TakeBackFails
    BY <1>13, <1>b DEF TakeBackFails, Mishap, Ops
  <1>14. CASE PublishBooks
    BY <1>14, <1>b DEF PublishBooks, Ops
  <1>15. CASE AsyncSnapshot
    BY <1>15 DEF AsyncSnapshot
  <1>16. CASE AsyncWrite \/ AsyncFails
    <2>1. confFile' \in Books /\ saved' \in Books /\ mishaps' \in Nat
      BY <1>16 DEF AsyncWrite, AsyncFails, WriteConfig, Mishap
    <2>2. saver' \in [on : BOOLEAN, live : Books]
      BY <1>16, <1>c DEF AsyncWrite, AsyncFails
    <2>3. UNCHANGED <<live, shelf, archFile, aside, regOp, freshIDs, dropped>>
      BY <1>16 DEF AsyncWrite, AsyncFails, WriteConfig
    <2> QED BY <2>1, <2>2, <2>3
  <1>17. ASSUME NEW active \in Books, StartWith(active)
         PROVE /\ live' \in Books /\ shelf' \in Books /\ regOp' \in Ops
               /\ saver' \in [on : BOOLEAN, live : Books] /\ saved' \in Books
               /\ mishaps' \in Nat
               /\ UNCHANGED <<archFile, freshIDs>>
    <2>1. live' \in Books /\ shelf' \in Books
      BY <1>17, <1>d DEF StartWith
    <2>2. regOp' \in Ops
      BY <1>17, <2>1 DEF StartWith, Ops
    <2> QED BY <1>17, <2>1, <2>2, <1>c DEF StartWith, Mishap
  <1>9. CASE StartReadable
    <2>1. StartWith(confFile)
      BY <1>9 DEF StartReadable
    <2> QED BY <1>9, <1>17, <2>1 DEF StartReadable, Ops
  <1>10. CASE StartUnreadable
    <2>1. StartWith(Nobody)
      BY <1>10 DEF StartUnreadable
    <2>2. confFile' \in Books /\ aside' \subseteq ProjectIDs /\ dropped' \in BOOLEAN
      BY <1>10, <1>a DEF StartUnreadable, Recorded
    <2> QED BY <1>17, <1>a, <2>1, <2>2 DEF Ops
  <1>11. CASE UNCHANGED regVars
    BY <1>11 DEF regVars
  <1> QED
    BY <1>1, <1>2, <1>3, <1>4, <1>5, <1>6, <1>7, <1>8, <1>9, <1>10, <1>11, <1>12,
       <1>13, <1>14, <1>15, <1>16, <1>18 DEF RegNext

-----------------------------------------------------------------------------

Rest == Booked /\ FilesCover /\ FilesMatch

\* An operation that begins plans books that fit its kind, and touches no file.
LEMMA BeginKeeps ==
    ASSUME RegTypeOK, Rest,
           NEW kind \in {"single", "archive", "restore"}, NEW l \in Books, NEW s \in Books,
           Begin(kind, l, s), freshIDs' \subseteq freshIDs,
           \A p \in ProjectIDs : l[p] = Absent \/ s[p] = Absent,
           \A p \in freshIDs' : l[p] = Absent /\ s[p] = Absent,
           kind = "single" => s = shelf,
           kind = "archive" =>
               \A p \in ProjectIDs : s[p] = shelf[p] \/ (live[p] # Absent /\ s[p] # Absent),
           kind = "restore" =>
               \A p \in ProjectIDs : /\ live[p] # Absent => l[p] # Absent
                                     /\ s[p] = shelf[p] \/ l[p] # Absent
    PROVE  Rest'
  <1>1. regOp.pc = "idle" /\ regOp'.pc = "first" /\ regOp'.kind = kind
        /\ regOp'.live = l /\ regOp'.shelf = s
    BY DEF Begin, Take
  <1>2. UNCHANGED <<live, shelf, confFile, archFile, aside, saver, saved, dropped>>
    BY DEF Begin, Take
  <1>3. freshIDs' \subseteq ProjectIDs
    BY DEF RegTypeOK
  <1>4. Booked'
    <2>1. OpSteps' /\ SaverOK' /\ NewIDs'
      BY <1>1, <1>2 DEF OpSteps, SaverOK, NewIDs, Rest, Booked, OpKinds
    <2>5. Lag'
      BY <1>2 DEF Lag, NoNewer, Rest, Booked
    <2>2. Disjoint(live, shelf)'
      BY <1>2 DEF Disjoint, Rest, Booked
    <2>3. Disjoint(regOp.live, regOp.shelf)'
      BY <1>1 DEF Disjoint
    <2>4. OpBooks'
      BY <1>1, <1>2, <2>3 DEF OpBooks
    <2> QED BY <2>1, <2>2, <2>4, <2>5 DEF Booked
  <1>5. FilesCover'
    BY <1>1, <1>2 DEF FilesCover, Rest, AtFirst, Halfway, Covers
  <1>6. FilesMatch'
    BY <1>1, <1>2 DEF FilesMatch, Rest, AtFirst, Starting, Halfway, Match
  <1> QED BY <1>4, <1>5, <1>6 DEF Rest

LEMMA OperationsKeep ==
    ASSUME RegTypeOK, Rest,
           SaveConfig \/ \E p \in ProjectIDs :
               AddProject(p) \/ EditProject(p) \/ RemoveProject(p) \/ ArchiveProject(p)
                   \/ RestoreProject(p)
    PROVE  Rest'
  <1> USE DEF Books, RegTypeOK
  <1>1. /\ \A p \in ProjectIDs : live[p] = Absent \/ shelf[p] = Absent
        /\ \A p \in freshIDs : live[p] = Absent /\ shelf[p] = Absent
    BY DEF Rest, Booked, Disjoint
  <1>2. CASE SaveConfig
    <2>1. Begin("single", live, shelf) /\ freshIDs' = freshIDs
      BY <1>2 DEF SaveConfig
    <2> QED BY <1>1, <2>1, BeginKeeps
  <1>3. ASSUME NEW p \in ProjectIDs, AddProject(p) PROVE Rest'
    <2> DEFINE l == [live EXCEPT ![p] = 1]
    <2>1. Begin("single", l, shelf) /\ freshIDs' = freshIDs \ {p} /\ p \in freshIDs
      BY <1>3 DEF AddProject
    <2>2. l \in Books /\ \A q \in ProjectIDs : l[q] = IF q = p THEN 1 ELSE live[q]
      OBVIOUS
    <2> HIDE DEF l
    <2> QED BY <1>1, <2>1, <2>2, BeginKeeps
  <1>4. ASSUME NEW p \in ProjectIDs, EditProject(p) PROVE Rest'
    <2> DEFINE l == [live EXCEPT ![p] = @ + 1]
    <2>1. Begin("single", l, shelf) /\ freshIDs' = freshIDs /\ live[p] \in 1..MaxSettings - 1
      BY <1>4 DEF EditProject
    <2>2. l \in Books /\ \A q \in ProjectIDs : l[q] = IF q = p THEN live[p] + 1 ELSE live[q]
      BY <2>1
    <2>3. \A q \in ProjectIDs : l[q] = Absent <=> live[q] = Absent
      BY <2>1, <2>2
    <2> HIDE DEF l
    <2> QED BY <1>1, <2>1, <2>2, <2>3, BeginKeeps
  <1>5. ASSUME NEW p \in ProjectIDs, RemoveProject(p) PROVE Rest'
    <2> DEFINE l == [live EXCEPT ![p] = Absent]
    <2>1. Begin("single", l, shelf) /\ freshIDs' = freshIDs
      BY <1>5 DEF RemoveProject
    <2>2. l \in Books /\ \A q \in ProjectIDs : l[q] = IF q = p THEN Absent ELSE live[q]
      OBVIOUS
    <2> HIDE DEF l
    <2> QED BY <1>1, <2>1, <2>2, BeginKeeps
  <1>6. ASSUME NEW p \in ProjectIDs, ArchiveProject(p) PROVE Rest'
    <2> DEFINE l == [live EXCEPT ![p] = Absent]
               s == [shelf EXCEPT ![p] = live[p]]
    <2>1. Begin("archive", l, s) /\ freshIDs' = freshIDs /\ live[p] # Absent
      BY <1>6 DEF ArchiveProject
    <2>2. /\ l \in Books /\ \A q \in ProjectIDs : l[q] = IF q = p THEN Absent ELSE live[q]
          /\ s \in Books /\ \A q \in ProjectIDs : s[q] = IF q = p THEN live[p] ELSE shelf[q]
      OBVIOUS
    <2>3. p \notin freshIDs
      BY <1>1, <2>1
    <2> HIDE DEF l, s
    <2> QED BY <1>1, <2>1, <2>2, <2>3, BeginKeeps
  <1>7. ASSUME NEW p \in ProjectIDs, RestoreProject(p) PROVE Rest'
    <2> DEFINE l == [live EXCEPT ![p] = shelf[p]]
               s == [shelf EXCEPT ![p] = Absent]
    <2>1. Begin("restore", l, s) /\ freshIDs' = freshIDs /\ shelf[p] # Absent
      BY <1>7 DEF RestoreProject
    <2>2. /\ l \in Books /\ \A q \in ProjectIDs : l[q] = IF q = p THEN shelf[p] ELSE live[q]
          /\ s \in Books /\ \A q \in ProjectIDs : s[q] = IF q = p THEN Absent ELSE shelf[q]
      OBVIOUS
    <2>3. p \notin freshIDs
      BY <1>1, <2>1
    <2> HIDE DEF l, s
    <2> QED BY <1>1, <2>1, <2>2, <2>3, BeginKeeps
  <1> QED BY <1>2, <1>3, <1>4, <1>5, <1>6, <1>7

\* New defaults reach memory before anything is saved.
LEMMA DefaultsKeep ==
    ASSUME RegTypeOK, Rest, ApplyDefaults
    PROVE  Rest'
  <1> USE DEF Books, RegTypeOK
  <1>b. Booked /\ FilesCover /\ FilesMatch
    BY DEF Rest
  <1>1. /\ regOp.pc = "idle" /\ regOp'.pc = "first" /\ regOp'.kind = "single"
        /\ regOp'.live = live' /\ regOp'.shelf = shelf
        /\ UNCHANGED <<shelf, confFile, archFile, saver, saved, dropped, freshIDs>>
    BY DEF ApplyDefaults, Take
  <1>2. live' \in Books /\ NoNewer(live, live')
    BY DEF ApplyDefaults, NoNewer
  <1>3. Disjoint(live, shelf)'
    BY <1>1, <1>2, <1>b DEF Booked, Disjoint, NoNewer
  <1>4. OpBooks'
    BY <1>1, <1>3 DEF OpBooks, Disjoint
  <1>5. Lag'
    <2>1. NoNewer(saved, live) /\ (saver.on => NoNewer(saver.live, live))
      BY <1>b DEF Booked, Lag
    <2>2. NoNewer(saved, live')
      BY <1>2, <2>1 DEF NoNewer
    <2>3. saver.on => NoNewer(saver.live, live')
      BY <1>2, <2>1 DEF NoNewer
    <2>4. ASSUME saved = live' PROVE live' = live
      <3>1. \A p \in ProjectIDs : live'[p] = live[p]
        BY <1>2, <2>1, <2>4 DEF NoNewer
      <3> QED BY <1>2, <3>1
    <2>5. saver.on /\ saved = live' => saver.live = live'
      BY <2>4, <1>b DEF Booked, Lag
    <2> QED BY <1>1, <2>2, <2>3, <2>5 DEF Lag, NoNewer
  <1>6. Booked'
    BY <1>1, <1>3, <1>4, <1>5, <1>b DEF Booked, OpSteps, SaverOK, NewIDs, OpKinds
  <1>7. Recorded(live') = Recorded(live)
    BY <1>2 DEF Recorded, NoNewer
  <1>8. FilesCover'
    BY <1>1, <1>7, <1>b DEF FilesCover, AtFirst, Halfway, Covers, Recorded
  <1>9. FilesMatch'
    BY <1>1, <1>b DEF FilesMatch, AtFirst, Halfway, Match, Starting
  <1> QED BY <1>6, <1>8, <1>9 DEF Rest

\* Every step of an operation that is under way, of a save or of a start.
LEMMA WritesKeep ==
    ASSUME RegTypeOK, Rest,
           FirstWrite \/ FirstFails \/ SecondWrite \/ SecondFails \/ TakeBack
               \/ TakeBackFails \/ PublishBooks
    PROVE  Rest'
  <1> USE DEF Books, RegTypeOK, Resting, WriteConfig, WriteArchive, ArchiveFirst, MayWrite
  <1>b. Booked /\ FilesCover /\ FilesMatch
    BY DEF Rest
  <1>k. regOp.pc # "idle" => regOp.kind \in OpKinds
    BY <1>b DEF Booked, OpSteps
  <1>n. /\ \A p \in freshIDs : confFile[p] = Absent /\ archFile[p] = Absent
        /\ \A p \in freshIDs : live[p] = Absent /\ shelf[p] = Absent
        /\ regOp.pc # "idle" =>
               \A p \in freshIDs : regOp.live[p] = Absent /\ regOp.shelf[p] = Absent
    BY <1>b DEF Booked, NewIDs, Disjoint, OpBooks
  <1>1. CASE FirstWrite
    <2>1. Booked'
      <3>1. OpSteps' /\ SaverOK'
        BY <1>1, <1>b, <1>k DEF FirstWrite, OpSteps, SaverOK, Booked, OpKinds
      <3>2. NewIDs'
        BY <1>1, <1>n DEF FirstWrite, NewIDs
      <3>3. Disjoint(live, shelf)'
        BY <1>1, <1>b DEF FirstWrite, Disjoint, Booked
      <3>4. OpBooks'
        BY <1>1, <1>b DEF FirstWrite, OpBooks, Disjoint, Booked
      <3>5. Lag'
        BY <1>1, <1>b DEF FirstWrite, Lag, NoNewer, Booked
      <3> QED BY <3>1, <3>2, <3>3, <3>4, <3>5 DEF Booked
    <2>2. FilesCover'
      BY <1>1, <1>b, <1>k DEF FirstWrite, Booked, OpBooks, FilesCover, AtFirst, Halfway, Covers,
         OpKinds
    <2>3. FilesMatch'
      BY <1>1, <1>b, <1>k DEF FirstWrite, Booked, OpBooks, FilesMatch, AtFirst, Halfway, Match,
         Starting, OpKinds
    <2> QED BY <2>1, <2>2, <2>3 DEF Rest
  <1>2. CASE FirstFails
    <2>1. Booked'
      <3>1. OpSteps' /\ SaverOK'
        BY <1>2, <1>b, <1>k DEF FirstFails, OpSteps, SaverOK, Booked, OpKinds
      <3>2. NewIDs'
        BY <1>2, <1>n DEF FirstFails, NewIDs
      <3>3. Disjoint(live, shelf)'
        BY <1>2, <1>b DEF FirstFails, Disjoint, Booked
      <3>4. OpBooks'
        BY <1>2, <1>b DEF FirstFails, OpBooks, Disjoint, Booked
      <3>5. Lag'
        BY <1>2, <1>b DEF FirstFails, Lag, NoNewer, Booked
      <3> QED BY <3>1, <3>2, <3>3, <3>4, <3>5 DEF Booked
    <2>2. FilesCover'
      BY <1>2, <1>b DEF FirstFails, FilesCover, AtFirst, Halfway, Covers
    <2>3. FilesMatch'
      BY <1>2, <1>b DEF FirstFails, FilesMatch, AtFirst, Halfway, Match, Starting
    <2> QED BY <2>1, <2>2, <2>3 DEF Rest
  <1>3. CASE SecondWrite
    <2>1. Booked'
      <3>1. OpSteps' /\ SaverOK'
        BY <1>3, <1>b, <1>k DEF SecondWrite, OpSteps, SaverOK, Booked, OpKinds
      <3>2. NewIDs'
        BY <1>3, <1>n DEF SecondWrite, NewIDs
      <3>3. Disjoint(live, shelf)'
        BY <1>3, <1>b DEF SecondWrite, Disjoint, Booked
      <3>4. OpBooks'
        BY <1>3, <1>b DEF SecondWrite, OpBooks, Disjoint, Booked
      <3>5. Lag'
        BY <1>3, <1>b DEF SecondWrite, Lag, NoNewer, Booked
      <3> QED BY <3>1, <3>2, <3>3, <3>4, <3>5 DEF Booked
    <2>2. FilesCover'
      BY <1>3, <1>b, <1>k DEF SecondWrite, Booked, OpSteps, OpBooks, FilesCover, AtFirst, Halfway,
         Covers, OpKinds
    <2>3. FilesMatch'
      BY <1>3, <1>b, <1>k DEF SecondWrite, Booked, OpSteps, OpBooks, FilesMatch, AtFirst, Halfway,
         Match, Starting, OpKinds
    <2> QED BY <2>1, <2>2, <2>3 DEF Rest
  <1>4. CASE SecondFails
    <2>1. Booked'
      <3>1. OpSteps' /\ SaverOK'
        BY <1>4, <1>b, <1>k DEF SecondFails, OpSteps, SaverOK, Booked, OpKinds
      <3>2. NewIDs'
        BY <1>4, <1>n DEF SecondFails, NewIDs
      <3>3. Disjoint(live, shelf)'
        BY <1>4, <1>b DEF SecondFails, Disjoint, Booked
      <3>4. OpBooks'
        BY <1>4, <1>b DEF SecondFails, OpBooks, Disjoint, Booked
      <3>5. Lag'
        BY <1>4, <1>b DEF SecondFails, Lag, NoNewer, Booked
      <3> QED BY <3>1, <3>2, <3>3, <3>4, <3>5 DEF Booked
    <2>2. FilesCover'
      BY <1>4, <1>b DEF SecondFails, FilesCover, AtFirst, Halfway, Covers
    <2>3. FilesMatch'
      BY <1>4, <1>b DEF SecondFails, FilesMatch, AtFirst, Halfway, Match, Starting
    <2> QED BY <2>1, <2>2, <2>3 DEF Rest
  <1>5. CASE TakeBack \/ TakeBackFails
    <2>1. Booked'
      <3>1. OpSteps' /\ SaverOK' /\ OpBooks'
        BY <1>5, <1>b DEF TakeBack, TakeBackFails, OpSteps, SaverOK, OpBooks, Booked
      <3>2. NewIDs'
        BY <1>5, <1>n DEF TakeBack, TakeBackFails, NewIDs
      <3>3. Disjoint(live, shelf)'
        BY <1>5, <1>b DEF TakeBack, TakeBackFails, Disjoint, Booked
      <3>4. Lag'
        <4>1. UNCHANGED <<live, saver>> /\ ~saver.on /\ saved' \in {saved, live}
          BY <1>5, <1>b DEF TakeBack, TakeBackFails, Booked, SaverOK
        <4>2. NoNewer(saved, live) /\ NoNewer(live, live)
          BY <1>b DEF Booked, Lag, NoNewer
        <4> QED BY <4>1, <4>2 DEF Lag, NoNewer
      <3> QED BY <3>1, <3>2, <3>3, <3>4 DEF Booked
    <2>0. regOp.pc = "back" /\ regOp.kind \in {"archive", "restore"}
      BY <1>5, <1>b, <1>k DEF TakeBack, TakeBackFails, Booked, OpSteps, OpKinds
    <2>2. Recorded(live) \subseteq Recorded(confFile)
          /\ Recorded(shelf) \subseteq Recorded(archFile)
      BY <2>0, <1>b DEF Booked, OpBooks, FilesCover, Halfway, Covers, Recorded
    <2>3. Covers(live, shelf)'
      BY <1>5, <2>2 DEF TakeBack, TakeBackFails, Covers, Recorded
    <2>4. FilesCover'
      BY <1>5, <2>3 DEF TakeBack, TakeBackFails, FilesCover, AtFirst, Halfway
    <2>5. FilesMatch'
      BY <1>5, <1>b, <2>0 DEF TakeBack, TakeBackFails, FilesMatch, AtFirst, Halfway, Match, Starting
    <2> QED BY <2>1, <2>4, <2>5 DEF Rest
  <1>6. CASE PublishBooks
    <2>1. Booked'
      <3>1. OpSteps' /\ SaverOK' /\ OpBooks'
        BY <1>6, <1>b DEF PublishBooks, OpSteps, SaverOK, OpBooks, Booked
      <3>2. NewIDs'
        BY <1>6, <1>n DEF PublishBooks, NewIDs
      <3>3. Disjoint(live, shelf)'
        BY <1>6, <1>b DEF PublishBooks, Disjoint, Booked, OpBooks
      <3>4. Lag'
        <4>1. ~saver'.on /\ saved' = live' /\ live' \in Books
          BY <1>6, <1>b DEF PublishBooks, Booked, SaverOK
        <4> QED BY <4>1 DEF Lag, NoNewer
      <3> QED BY <3>1, <3>2, <3>3, <3>4 DEF Booked
    <2>2. FilesCover'
      BY <1>6, <1>b DEF PublishBooks, FilesCover, AtFirst, Halfway, Covers, Recorded
    <2>3. FilesMatch'
      BY <1>6, <1>b DEF PublishBooks, FilesMatch, AtFirst, Halfway, Match, Starting
    <2> QED BY <2>1, <2>2, <2>3 DEF Rest
  <1> QED BY <1>1, <1>2, <1>3, <1>4, <1>5, <1>6

LEMMA SavesAndStartsKeep ==
    ASSUME RegTypeOK, Rest,
           AsyncSnapshot \/ AsyncWrite \/ AsyncFails \/ StartReadable \/ StartUnreadable
    PROVE  Rest'
  <1> USE DEF Books, RegTypeOK, WriteConfig, NoSave
  <1>b. Booked /\ FilesCover /\ FilesMatch
    BY DEF Rest
  <1>1. CASE AsyncSnapshot \/ AsyncFails
    <2>1. UNCHANGED <<live, shelf, confFile, archFile, regOp, freshIDs, saved, dropped>>
      BY <1>1 DEF AsyncSnapshot, AsyncFails
    <2>2. SaverOK' /\ Lag'
      <3>1. SaverOK'
        BY <1>1, <1>b DEF AsyncSnapshot, AsyncFails, SaverOK, Booked, OpSteps, OpKinds
      <3>2. saver'.on => saver'.live = live
        BY <1>1 DEF AsyncSnapshot, AsyncFails
      <3>3. NoNewer(saved, live) /\ NoNewer(live, live)
        BY <1>b DEF Booked, Lag, NoNewer
      <3> QED BY <2>1, <3>1, <3>2, <3>3 DEF Lag, NoNewer
    <2>3. Booked'
      BY <2>1, <2>2, <1>b DEF Booked, OpSteps, Disjoint, OpBooks, NewIDs
    <2>4. FilesCover' /\ FilesMatch'
      BY <2>1, <1>b DEF FilesCover, FilesMatch, AtFirst, Halfway, Covers, Match, Starting
    <2> QED BY <2>3, <2>4 DEF Rest
  <1>2. CASE AsyncWrite
    <2>1. /\ confFile' = saved' /\ regOp.pc \in {"idle", "first"} /\ regOp.kind # "start"
          /\ UNCHANGED <<live, shelf, archFile, regOp, freshIDs, dropped>> /\ ~saver'.on
      BY <1>2, <1>b DEF AsyncWrite, SaverOK, Booked
    <2>6. NoNewer(saved', live)
      BY <1>2, <1>b DEF AsyncWrite, Booked, Lag
    <2>2. NewIDs'
      BY <2>1, <2>6, <1>b DEF NewIDs, Booked, Disjoint, NoNewer
    <2>7. Lag'
      BY <2>1, <2>6 DEF Lag, NoNewer
    <2>3. Booked'
      BY <2>1, <2>2, <2>7, <1>b DEF Booked, OpSteps, Disjoint, OpBooks, SaverOK
    <2>8. Recorded(saved') = Recorded(live)
      BY <2>6 DEF Recorded, NoNewer
    <2>4. FilesCover'
      BY <2>1, <2>8, <1>b DEF FilesCover, AtFirst, Halfway, Covers, Recorded
    <2>5. FilesMatch'
      BY <2>1, <1>b DEF FilesMatch, AtFirst, Halfway, Match, Starting
    <2> QED BY <2>3, <2>4, <2>5 DEF Rest
  <1>3. ASSUME NEW active \in Books, StartWith(active),
               \A p \in freshIDs : active[p] = Absent,
               confFile' \in Books,
               \A p \in ProjectIDs : confFile'[p] = Absent => active[p] = Absent,
               \A p \in freshIDs : confFile'[p] = Absent,
               ~dropped' => confFile' = active
        PROVE  Rest'
    <2>1. /\ live' = active /\ shelf' = Unshelved(active, archFile)
          /\ regOp' = [kind |-> "start", pc |-> "first", live |-> live', shelf |-> shelf']
          /\ ~saver'.on /\ saved' = active /\ archFile' = archFile /\ freshIDs' = freshIDs
      BY <1>3 DEF StartWith
    <2>2. /\ regOp'.kind = "start" /\ regOp'.pc = "first"
          /\ regOp'.live = live' /\ regOp'.shelf = shelf'
      BY <2>1
    <2>3. \A p \in ProjectIDs : shelf'[p] = IF active[p] # Absent THEN Absent ELSE archFile[p]
      BY <2>1 DEF Unshelved
    <2>4. \A p \in freshIDs : archFile[p] = Absent
      BY <1>b DEF Booked, NewIDs
    <2>5. Disjoint(live, shelf)'
      BY <1>3, <2>1, <2>3, <2>4 DEF Disjoint
    <2>6. Disjoint(regOp.live, regOp.shelf)'
      BY <2>2, <2>5 DEF Disjoint
    <2>7. OpSteps' /\ SaverOK' /\ OpBooks'
      BY <2>1, <2>2, <2>6 DEF OpSteps, SaverOK, OpBooks, OpKinds
    <2>12. Lag'
      BY <2>1 DEF Lag, NoNewer
    <2>8. NewIDs'
      BY <1>3, <2>1, <2>4 DEF NewIDs
    <2>9. Covers(live, shelf)'
      BY <1>3, <2>1, <2>3 DEF Covers, Recorded
    <2>10. FilesCover'
      BY <2>2, <2>9 DEF FilesCover, Halfway
    <2>11. FilesMatch'
      BY <1>3, <2>1, <2>2 DEF FilesMatch, AtFirst, Starting, Halfway
    <2> QED BY <2>5, <2>7, <2>8, <2>10, <2>11, <2>12 DEF Rest, Booked
  <1>4. CASE StartReadable
    <2>1. StartWith(confFile) /\ confFile' = confFile
      BY <1>4 DEF StartReadable
    <2>2. \A p \in freshIDs : confFile[p] = Absent
      BY <1>b DEF Booked, NewIDs
    <2> QED BY <1>3, <2>1, <2>2
  <1>5. CASE StartUnreadable
    <2>1. Nobody \in Books /\ \A p \in ProjectIDs : Nobody[p] = Absent
      BY DEF Nobody
    <2>2. \A p \in freshIDs : confFile[p] = Absent
      BY <1>b DEF Booked, NewIDs
    <2>3. StartWith(Nobody)
      BY <1>5 DEF StartUnreadable
    <2>4. CASE confFile' = Nobody
      BY <1>3, <2>1, <2>3, <2>4
    <2>5. CASE dropped' = TRUE /\ confFile' = confFile
      BY <1>3, <2>1, <2>2, <2>3, <2>5
    <2> QED BY <1>5, <2>4, <2>5 DEF StartUnreadable
  <1> QED BY <1>1, <1>2, <1>4, <1>5

\* Every step of the registry keeps the invariant.
LEMMA StepHolds == GInv /\ [RegNext]_regVars => GInv'
  <1> SUFFICES ASSUME GInv, [RegNext]_regVars PROVE GInv'
    OBVIOUS
  <1>0. RegTypeOK /\ Rest
    BY DEF GInv, Rest
  <1>1. RegTypeOK'
    BY <1>0, TypeStep
  <1>2. Rest'
    <2>1. CASE UNCHANGED regVars
      <3>1. Booked'
        BY <1>0, <2>1 DEF regVars, Rest, Booked, OpSteps, Disjoint, OpBooks, SaverOK, Lag,
           NoNewer, NewIDs
      <3>2. FilesCover' /\ FilesMatch'
        BY <1>0, <2>1 DEF regVars, Rest, FilesCover, FilesMatch, AtFirst, Halfway, Covers, Match,
           Starting
      <3> QED BY <3>1, <3>2 DEF Rest
    <2>2. CASE RegNext
      BY <1>0, <2>2, OperationsKeep, DefaultsKeep, WritesKeep, SavesAndStartsKeep, Zenon DEF RegNext
    <2> QED BY <2>1, <2>2
  <1> QED BY <1>1, <1>2 DEF GInv, Rest

\* The registry, its files and its operation keep their types, and the
\* invariant above holds of them, whatever fails and whenever it starts again.
THEOREM RegistryInvariant == RegSpec => []GInv
  <1>1. RegInit => GInv
    BY InitHolds
  <1>2. GInv /\ [RegNext]_regVars => GInv'
    BY StepHolds
  <1> QED BY <1>1, <1>2, PTL DEF RegSpec

-----------------------------------------------------------------------------

\* The files together have every project that the operation does not add or
\* remove.
LEMMA FilesHaveAll ==
    GInv => Held(Before) \intersect Held(After) \subseteq Recorded(confFile) \union Recorded(archFile)
  <1> SUFFICES ASSUME GInv PROVE Held(Before) \intersect Held(After)
                                   \subseteq Recorded(confFile) \union Recorded(archFile)
    OBVIOUS
  <1>b. Booked /\ FilesCover /\ RegTypeOK
    BY DEF GInv
  <1>1. Held(Before) = Recorded(live) \union Recorded(shelf)
    BY DEF Held, Before
  <1>2. regOp.pc # "idle" => Held(After) = Recorded(regOp.live) \union Recorded(regOp.shelf)
    BY DEF Held, After
  <1>3. CASE AtFirst
    BY <1>1, <1>3, <1>b DEF FilesCover, Covers
  <1>4. CASE Halfway("archive")
    <2>1. Recorded(shelf) \subseteq Recorded(regOp.shelf)
      BY <1>4, <1>b DEF Halfway, Booked, OpBooks, Recorded
    <2> QED BY <1>1, <1>4, <2>1, <1>b DEF FilesCover, Covers
  <1>5. CASE Halfway("restore")
    <2>1. Recorded(live) \subseteq Recorded(regOp.live)
      BY <1>5, <1>b DEF Halfway, Booked, OpBooks, Recorded
    <2> QED BY <1>1, <1>5, <2>1, <1>b DEF FilesCover, Covers
  <1>6. CASE regOp.pc = "publish"
    BY <1>2, <1>6, <1>b DEF FilesCover, Covers
  <1> QED
    BY <1>3, <1>4, <1>5, <1>6, <1>b DEF AtFirst, Halfway, Booked, OpSteps, OpKinds, RegTypeOK

\* What a start that can read the files makes of them.
LEMMA FilesStandForBooks ==
    GInv /\ ~dropped =>
        <<confFile, Unshelved(confFile, archFile)>> \in {Before, After, <<saved, shelf>>}
  <1> SUFFICES ASSUME GInv, ~dropped
               PROVE  <<confFile, Unshelved(confFile, archFile)>>
                        \in {Before, After, <<saved, shelf>>}
    OBVIOUS
  <1>b. Booked /\ FilesMatch /\ RegTypeOK
    BY DEF GInv
  <1>t. regOp.live \in Books /\ regOp.shelf \in Books /\ saved \in Books /\ shelf \in Books
    BY <1>b DEF RegTypeOK
  <1>e. ASSUME NEW a \in Books, NEW r \in Books, NEW s \in Books,
               \A p \in ProjectIDs : s[p] = IF a[p] # Absent THEN Absent ELSE r[p]
        PROVE  Unshelved(a, r) = s
    BY <1>e DEF Unshelved, Books
  <1>d. \A p \in ProjectIDs : (saved[p] = Absent <=> live[p] = Absent)
                               /\ (saved[p] = Absent \/ shelf[p] = Absent)
    BY <1>b DEF Booked, Disjoint, Lag, NoNewer
  <1>1. CASE Starting
    BY <1>1, <1>b DEF FilesMatch
  <1>2. CASE AtFirst /\ ~Starting
    <2>1. confFile = saved /\ archFile = shelf
      BY <1>2, <1>b DEF FilesMatch, Match
    <2>2. \A p \in ProjectIDs : shelf[p] = IF saved[p] # Absent THEN Absent ELSE shelf[p]
      BY <1>d
    <2>3. Unshelved(saved, shelf) = shelf
      BY <1>e, <1>t, <2>2
    <2> QED BY <2>1, <2>3
  <1>3. CASE Halfway("archive")
    <2>1. confFile = saved /\ archFile = regOp.shelf
      BY <1>3, <1>b DEF FilesMatch, Match
    <2>2. \A p \in ProjectIDs : shelf[p] = IF saved[p] # Absent THEN Absent ELSE regOp.shelf[p]
      BY <1>3, <1>b, <1>d DEF Booked, OpBooks, Halfway
    <2>3. Unshelved(saved, regOp.shelf) = shelf
      BY <1>e, <1>t, <2>2
    <2> QED BY <2>1, <2>3
  <1>4. CASE Halfway("restore")
    <2>1. confFile = regOp.live /\ archFile = shelf
      BY <1>4, <1>b DEF FilesMatch, Match
    <2>2. \A p \in ProjectIDs :
            regOp.shelf[p] = IF regOp.live[p] # Absent THEN Absent ELSE shelf[p]
      BY <1>4, <1>b DEF Booked, OpBooks, Halfway, Disjoint
    <2>3. Unshelved(regOp.live, shelf) = regOp.shelf
      BY <1>e, <1>t, <2>2
    <2> QED BY <1>4, <2>1, <2>3 DEF After, Halfway
  <1>5. CASE regOp.pc = "publish"
    <2>1. confFile = regOp.live /\ archFile = regOp.shelf
      BY <1>5, <1>b DEF FilesMatch, Match
    <2>2. \A p \in ProjectIDs :
            regOp.shelf[p] = IF regOp.live[p] # Absent THEN Absent ELSE regOp.shelf[p]
      BY <1>5, <1>b DEF Booked, OpBooks, Disjoint
    <2>3. Unshelved(regOp.live, regOp.shelf) = regOp.shelf
      BY <1>e, <1>t, <2>2
    <2> QED BY <1>5, <2>1, <2>3 DEF After
  <1> QED
    BY <1>1, <1>2, <1>3, <1>4, <1>5, <1>b DEF AtFirst, Halfway, Booked, OpSteps, OpKinds, RegTypeOK

\* However often the program dies, between whichever two writes, and whichever
\* writes fail: the next start finds the projects as they were before or after the
\* interrupted operation, or as the last save has left them; only new defaults are
\* ever ahead of that save; an unreadable config.yaml loses no project, and none is
\* forgotten even when a rollback failed.
THEOREM RegistryAlwaysDurable == RegSpec => RegistryIsDurable
  <1>1. ASSUME GInv, StartReadable, ~dropped
        PROVE  <<live', shelf'>> \in {Before, After, <<saved, shelf>>}
    <2>1. live' = confFile /\ shelf' = Unshelved(confFile, archFile)
      BY <1>1 DEF StartReadable, StartWith
    <2> QED BY <1>1, <2>1, FilesStandForBooks
  <1>2. ASSUME GInv, StartUnreadable, ~dropped'
        PROVE  Held(Before) \intersect Held(After) \subseteq Recorded(shelf') \union aside'
    <2>1. shelf' = Unshelved(Nobody, archFile) /\ aside' = aside \union Recorded(confFile)
      BY <1>2 DEF StartUnreadable, StartWith
    <2>2. Recorded(archFile) \subseteq Recorded(shelf')
      BY <2>1 DEF Recorded, Unshelved, Nobody
    <2> QED BY <1>2, <2>1, <2>2, FilesHaveAll
  <1>3. ASSUME GInv, StartReadable
        PROVE  Held(Before) \intersect Held(After) \subseteq Held(<<live', shelf'>>)
    <2>1. live' = confFile /\ shelf' = Unshelved(confFile, archFile)
      BY <1>3 DEF StartReadable, StartWith
    <2>2. Held(<<live', shelf'>>) = Recorded(live') \union Recorded(shelf')
      BY DEF Held
    <2>3. Recorded(confFile) \union Recorded(archFile) \subseteq Recorded(live') \union Recorded(shelf')
      BY <2>1 DEF Recorded, Unshelved
    <2> QED BY <1>3, <2>2, <2>3, FilesHaveAll
  <1>4. ASSUME GInv, [RegNext]_regVars, saved = live, saved' # live'
        PROVE  ApplyDefaults
    <2>1. Booked /\ RegTypeOK
      BY <1>4 DEF GInv
    <2>2. CASE AsyncWrite
      BY <1>4, <2>1, <2>2 DEF AsyncWrite, Booked, Lag
    <2>3. CASE TakeBack \/ PublishBooks \/ StartReadable \/ StartUnreadable
      BY <1>4, <2>3 DEF TakeBack, PublishBooks, StartReadable, StartUnreadable, StartWith
    <2>4. ASSUME UNCHANGED <<saved, live>> PROVE FALSE
      BY <1>4, <2>4
    <2>5. CASE \/ SaveConfig
               \/ \E p \in ProjectIDs :
                    AddProject(p) \/ EditProject(p) \/ RemoveProject(p) \/ ArchiveProject(p)
                        \/ RestoreProject(p)
      BY <2>4, <2>5 DEF SaveConfig, AddProject, EditProject, RemoveProject, ArchiveProject,
         RestoreProject, Begin, Take
    <2>6. CASE FirstWrite \/ FirstFails \/ SecondWrite \/ SecondFails \/ TakeBackFails
               \/ AsyncSnapshot \/ AsyncFails \/ UNCHANGED regVars
      BY <2>4, <2>6 DEF FirstWrite, FirstFails, SecondWrite, SecondFails, TakeBackFails,
         AsyncSnapshot, AsyncFails, regVars
    <2> QED BY <1>4, <2>2, <2>3, <2>5, <2>6, Zenon DEF RegNext
  <1> QED
    BY <1>1, <1>2, <1>3, <1>4, RegistryInvariant, PTL
       DEF RegistryIsDurable, StartsBeforeOrAfter, OnlyDefaultsLag, UnreadableLosesNothing,
           NothingForgotten, RegSpec
=============================================================================
