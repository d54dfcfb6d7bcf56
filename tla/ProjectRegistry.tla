--------------------------- MODULE ProjectRegistry ---------------------------
(***************************************************************************)
(* The registered projects of the studio and the two files that keep them: *)
(* config.yaml has the active ones with their settings, and               *)
(* archived-projects.json has the archived ones.  Each file is replaced as *)
(* a whole, but an archive or a restore needs both, so a failed write or a *)
(* crash can come between them.  Operations hold the studio lock; saves of *)
(* running turns only hold the lock of the files when they write.  Every   *)
(* operation writes before it changes memory, but for one: new defaults    *)
(* are applied to the projects in memory first.                            *)
(***************************************************************************)
EXTENDS Naturals, FiniteSets

CONSTANTS
    ProjectIDs,     \* the IDs that GenerateID gives
    MaxSettings,    \* bound: versions of the settings of one project
    MaxProjects,    \* StudioConfigMaxProjects
    MaxMishaps      \* bound: writes that fail, starts and files that cannot be read

ASSUME RegistryAssumption == MaxSettings \in Nat \ {0}

VARIABLES
    live,       \* Studio.projects: the version of the settings, or Absent
    shelf,      \* Studio.archived, likewise
    confFile,   \* the projects in config.yaml, likewise
    archFile,   \* the records in archived-projects.json, likewise
    aside,      \* the projects in a config.yaml that was quarantined
    regOp,      \* the operation that holds Studio.mu and what it will publish
    saver,      \* saveConfigAsync between its snapshot and its write
    freshIDs,   \* the IDs that nobody has yet
    saved,      \* auxiliary: the active projects as the last save that was not cut
                \* short has left them
    dropped,    \* a write has failed in a start, a rollback or a quarantine, whose
                \* error the code drops
    mishaps

regVars == <<live, shelf, confFile, archFile, aside, regOp, saver, freshIDs, saved,
             dropped, mishaps>>

Absent == 0
Books == [ProjectIDs -> 0..MaxSettings]
Nobody == [p \in ProjectIDs |-> Absent]
Recorded(book) == {p \in ProjectIDs : book[p] # Absent}

Resting == [kind |-> "none", pc |-> "idle", live |-> Nobody, shelf |-> Nobody]
NoSave == [on |-> FALSE, live |-> Nobody]

Mishap == mishaps < MaxMishaps /\ mishaps' = mishaps + 1

RegInit ==
    /\ live = Nobody /\ shelf = Nobody /\ confFile = Nobody /\ archFile = Nobody
    /\ aside = {} /\ regOp = Resting /\ saver = NoSave
    /\ freshIDs = ProjectIDs /\ saved = Nobody /\ dropped = FALSE /\ mishaps = 0

-----------------------------------------------------------------------------
(* The operations, from the studio lock to the first write. *)

Take(kind, nextLive, nextShelf) ==
    /\ regOp.pc = "idle"
    /\ regOp' = [kind |-> kind, pc |-> "first", live |-> nextLive, shelf |-> nextShelf]
    /\ UNCHANGED <<shelf, confFile, archFile, aside, saver, saved, dropped, mishaps>>

Begin(kind, nextLive, nextShelf) == Take(kind, nextLive, nextShelf) /\ UNCHANGED live

AddProject(p) ==
    /\ p \in freshIDs
    /\ Cardinality(Recorded(live)) + Cardinality(Recorded(shelf)) < MaxProjects
    /\ Begin("single", [live EXCEPT ![p] = 1], shelf)
    /\ freshIDs' = freshIDs \ {p}

\* persistProjectMutationLocked and RelinkProjectDirectory.
EditProject(p) ==
    /\ live[p] \in 1..MaxSettings - 1
    /\ Begin("single", [live EXCEPT ![p] = @ + 1], shelf)
    /\ UNCHANGED freshIDs

RemoveProject(p) ==
    /\ live[p] # Absent
    /\ Begin("single", [live EXCEPT ![p] = Absent], shelf)
    /\ UNCHANGED freshIDs

ArchiveProject(p) ==
    /\ live[p] # Absent
    /\ Begin("archive", [live EXCEPT ![p] = Absent], [shelf EXCEPT ![p] = live[p]])
    /\ UNCHANGED freshIDs

RestoreProject(p) ==
    /\ shelf[p] # Absent
    /\ Begin("restore", [live EXCEPT ![p] = shelf[p]], [shelf EXCEPT ![p] = Absent])
    /\ UNCHANGED freshIDs

\* saveConfig, for groups and at the end of the program.
SaveConfig ==
    /\ Begin("single", live, shelf)
    /\ UNCHANGED freshIDs

\* Every project gets the default provider and model in memory, then saveConfig; for
\* some of them that is no change.
ApplyDefaults ==
    /\ \E changed \in SUBSET {p \in ProjectIDs : live[p] \in 1..MaxSettings - 1} :
        live' = [p \in ProjectIDs |-> IF p \in changed THEN live[p] + 1 ELSE live[p]]
    /\ Take("single", live', shelf)
    /\ UNCHANGED freshIDs

-----------------------------------------------------------------------------
(* The writes, under the lock of the files. *)

\* Mutant: the project leaves the active ones before it is in the archive.
ArchiveFirst_Never(kind) == kind = "start"
\* The order of the two writes: a project is in a new place before it leaves
\* the old one.
ArchiveFirst(kind) == kind \in {"archive", "start"}

WriteConfig(book) == confFile' = book /\ UNCHANGED archFile
WriteArchive(book) == archFile' = book /\ UNCHANGED confFile

\* saveConfigAsync takes the lock of the files under Studio.mu and writes later.
MayWrite == ~saver.on

FirstWrite ==
    /\ regOp.pc = "first" /\ MayWrite
    /\ IF ArchiveFirst(regOp.kind) THEN WriteArchive(regOp.shelf) ELSE WriteConfig(regOp.live)
    /\ regOp' = [regOp EXCEPT !.pc = IF regOp.kind = "single" THEN "publish" ELSE "second"]
    /\ UNCHANGED <<live, shelf, aside, saver, freshIDs, saved, dropped, mishaps>>

\* The operation is refused; new defaults stay in memory, although nothing is said of
\* it; a start goes on without the write.
FirstFails ==
    /\ regOp.pc = "first" /\ MayWrite /\ Mishap
    /\ IF regOp.kind = "start"
       THEN regOp' = [regOp EXCEPT !.pc = "second"] /\ dropped' = TRUE
       ELSE regOp' = Resting /\ UNCHANGED dropped
    /\ UNCHANGED <<live, shelf, confFile, archFile, aside, saver, freshIDs, saved>>

SecondWrite ==
    /\ regOp.pc = "second"
    /\ IF ArchiveFirst(regOp.kind) THEN WriteConfig(regOp.live) ELSE WriteArchive(regOp.shelf)
    /\ regOp' = [regOp EXCEPT !.pc = "publish"]
    /\ UNCHANGED <<live, shelf, aside, saver, freshIDs, saved, dropped, mishaps>>

SecondFails ==
    /\ regOp.pc = "second" /\ Mishap
    /\ regOp' = IF regOp.kind = "start" THEN Resting ELSE [regOp EXCEPT !.pc = "back"]
    /\ UNCHANGED <<live, shelf, confFile, archFile, aside, saver, freshIDs, saved, dropped>>

\* The file that was written first gets its old content back.
TakeBack ==
    /\ regOp.pc = "back"
    /\ \/ ArchiveFirst(regOp.kind) /\ WriteArchive(shelf) /\ UNCHANGED saved
       \/ ~ArchiveFirst(regOp.kind) /\ WriteConfig(live) /\ saved' = live
    /\ regOp' = Resting
    /\ UNCHANGED <<live, shelf, aside, saver, freshIDs, dropped, mishaps>>

TakeBackFails ==
    /\ regOp.pc = "back" /\ Mishap
    /\ regOp' = Resting /\ dropped' = TRUE
    /\ UNCHANGED <<live, shelf, confFile, archFile, aside, saver, freshIDs, saved>>

PublishBooks ==
    /\ regOp.pc = "publish"
    /\ live' = regOp.live /\ shelf' = regOp.shelf /\ saved' = regOp.live
    /\ regOp' = Resting
    /\ UNCHANGED <<confFile, archFile, aside, saver, freshIDs, dropped, mishaps>>

\* A turn bumps lastUsedAt: a snapshot under Studio.mu, the write without it.
AsyncSnapshot ==
    /\ regOp.pc = "idle" /\ ~saver.on
    /\ saver' = [on |-> TRUE, live |-> live]
    /\ UNCHANGED <<live, shelf, confFile, archFile, aside, regOp, freshIDs, saved,
                   dropped, mishaps>>

AsyncWrite ==
    /\ saver.on /\ saver' = NoSave
    /\ WriteConfig(saver.live) /\ saved' = saver.live
    /\ UNCHANGED <<live, shelf, aside, regOp, freshIDs, dropped, mishaps>>

AsyncFails ==
    /\ saver.on /\ saver' = NoSave /\ Mishap
    /\ UNCHANGED <<live, shelf, confFile, archFile, aside, regOp, freshIDs, saved, dropped>>

-----------------------------------------------------------------------------
(* The program ends, whatever was in progress, and starts again. *)

\* The active configuration wins.
Unshelved(active, records) ==
    [p \in ProjectIDs |-> IF active[p] # Absent THEN Absent ELSE records[p]]

StartWith(active) ==
    /\ Mishap
    /\ live' = active /\ shelf' = Unshelved(active, archFile)
    /\ regOp' = [kind |-> "start", pc |-> "first", live |-> live', shelf |-> shelf']
    /\ saver' = NoSave /\ saved' = active
    /\ UNCHANGED <<archFile, freshIDs>>

StartReadable ==
    /\ StartWith(confFile)
    /\ UNCHANGED <<confFile, aside, dropped>>

\* quarantineInvalidConfig; when it cannot move the file, the file stays and is
\* overwritten at the end of the start.
StartUnreadable ==
    /\ StartWith(Nobody)
    /\ \/ /\ aside' = aside \union Recorded(confFile) /\ confFile' = Nobody
          /\ UNCHANGED dropped
       \/ /\ dropped' = TRUE /\ UNCHANGED <<aside, confFile>>

RegNext ==
    \/ \E p \in ProjectIDs :
        \/ AddProject(p) \/ EditProject(p) \/ RemoveProject(p)
        \/ ArchiveProject(p) \/ RestoreProject(p)
    \/ SaveConfig \/ ApplyDefaults
    \/ FirstWrite \/ FirstFails \/ SecondWrite \/ SecondFails
    \/ TakeBack \/ TakeBackFails \/ PublishBooks
    \/ AsyncSnapshot \/ AsyncWrite \/ AsyncFails
    \/ StartReadable \/ StartUnreadable

RegSpec == RegInit /\ [][RegNext]_regVars

-----------------------------------------------------------------------------
(* Properties. *)

\* The books, the files and the operation keep their types.
RegTypeOK ==
    /\ live \in Books /\ shelf \in Books /\ confFile \in Books /\ archFile \in Books
    /\ aside \subseteq ProjectIDs /\ freshIDs \subseteq ProjectIDs
    /\ regOp \in [kind : {"none", "single", "archive", "restore", "start"},
                  pc : {"idle", "first", "second", "back", "publish"},
                  live : Books, shelf : Books]
    /\ saver \in [on : BOOLEAN, live : Books] /\ saved \in Books
    /\ dropped \in BOOLEAN /\ mishaps \in Nat

\* The projects of memory, before and after what is being done.
Before == <<live, shelf>>
After == IF regOp.pc = "idle" THEN Before ELSE <<regOp.live, regOp.shelf>>
Held(books) == Recorded(books[1]) \union Recorded(books[2])

\* Whenever the program dies, its next start finds the projects and their
\* settings as they were before the interrupted operation or as that operation
\* would have left them, in particular every change that was reported as done
\* and no change that was reported as failed.  Only new defaults may be missing:
\* while or after their save failed, the start may find the active projects as
\* the last save has left them, the same projects with every other change.
StartsBeforeOrAfter ==
    [][StartReadable /\ ~dropped =>
        <<live', shelf'>> \in {Before, After, <<saved, shelf>>}]_regVars

\* Only by new defaults is the studio ahead of its last save: every other operation
\* saves before it publishes, and no late save of a turn undoes that.
OnlyDefaultsLag ==
    [][saved = live /\ saved' # live' => ApplyDefaults]_regVars

\* A start that cannot read config.yaml loses no project: each is archived or in
\* the file that was set aside.
UnreadableLosesNothing ==
    [][StartUnreadable /\ ~dropped' =>
        Held(Before) \intersect Held(After) \subseteq Recorded(shelf') \union aside']_regVars

\* Even when the error of a failed rollback is dropped, a project may come back
\* in the wrong place but is never forgotten.
NothingForgotten ==
    [][StartReadable =>
        Held(Before) \intersect Held(After) \subseteq Held(<<live', shelf'>>)]_regVars

\* What the user can rely on between two starts of the program.
RegistryIsDurable ==
    StartsBeforeOrAfter /\ OnlyDefaultsLag /\ UnreadableLosesNothing /\ NothingForgotten
=============================================================================
