---------------------------- MODULE ConfigRestore ----------------------------
(***************************************************************************)
(* The exchange of the configuration directory (backup_management.go,      *)
(* data_archive.go).  A restore claims a listed snapshot, checks it, moves *)
(* the live directory aside as a snapshot of its own and renames the claim *)
(* into its place; an import does the same with a tree it has extracted.   *)
(* Each step is one rename and may fail, saves of the running program go   *)
(* on in between (they make the directory when it is missing), and the     *)
(* program may crash at any point.                                         *)
(*                                                                         *)
(* The model follows directory trees from place to place.  A tree is named *)
(* by what it held at the beginning.                                       *)
(***************************************************************************)
EXTENDS Integers, FiniteSets

CONSTANTS
    Current,      \* the tree that is live at the beginning
    Backups,      \* snapshots at the beginning
    Archives,     \* archives that may be imported, each at most once
    NewTrees,     \* bound of the model: trees that a save or a start makes anew
    NoTree

ASSUME RestoreAssumption ==
    /\ Current \notin Backups \union Archives \union NewTrees
    /\ Backups \intersect (Archives \union NewTrees) = {}
    /\ Archives \intersect NewTrees = {}
    /\ NoTree \notin {Current} \union Backups \union Archives \union NewTrees

Trees == {Current} \union Backups \union Archives \union NewTrees

VARIABLES
    place,        \* where each tree is
    old,          \* trees whose modification time is past the retention
    renamed,      \* snapshots that are not under the name the user knows
    op,           \* the bulk operation that holds configDataMu
    before,       \* auxiliary: what was live, renamed, old and released when the
                  \* operation began
    disturbed,    \* auxiliary: a second failure, or a save that found no directory
    released      \* auxiliary: trees the user has deleted, or that cleanup may
                  \* take: untouched for the retention, or their time was not set

restoreVars == <<place, old, renamed, op, before, disturbed, released>>

\* "listed": under a snapshot prefix, so that it can be restored or deleted.
Places == {"none", "live", "listed", "staging", "deleted"}

Live == {t \in Trees : place[t] = "live"}
Listed == {t \in Trees : place[t] = "listed"}

NoOp == [pc |-> "idle", tree |-> NoTree, aside |-> NoTree]
Nothing == [live |-> {}, old |-> {}, renamed |-> {}, released |-> {}]

RestoreInit ==
    /\ place = [t \in Trees |-> IF t = Current THEN "live"
                                ELSE IF t \in Backups THEN "listed" ELSE "none"]
    /\ old \in SUBSET ({Current} \union Backups) /\ renamed = {}
    /\ op = NoOp
    /\ before = Nothing
    /\ disturbed = FALSE /\ released = old \ {Current}

Begins(t, pc) ==
    /\ op = NoOp
    /\ op' = [pc |-> pc, tree |-> t, aside |-> NoTree]
    /\ before' = [live |-> Live, old |-> old, renamed |-> renamed,
                  released |-> released]
    /\ disturbed' = FALSE

Ends == op' = NoOp /\ before' = Nothing

OpGoes(from, to) ==
    /\ op.pc = from
    /\ op' = [op EXCEPT !.pc = to]
    /\ UNCHANGED before

-----------------------------------------------------------------------------
(* Restore and import. *)

\* claimSnapshotDir: the name of the claim says when it was made, so that no
\* cleanup takes it.  When its time cannot be set as well it is returned.
ClaimBackup(t) ==
    /\ place[t] = "listed"
    /\ renamed' = renamed \union {t}
    /\ old' = old \ {t} /\ released' = released \ {t}
    /\ Begins(t, "claimed") \/ Begins(t, "returning")
    /\ UNCHANGED place

\* extractArchiveToConfigDir, up to the end of the archive.
Extract(t) ==
    /\ t \in Archives /\ place[t] = "none"
    /\ place' = [place EXCEPT ![t] = "staging"]
    /\ \/ Begins(t, "claimed")
       \/ Begins(t, "returning")
    /\ UNCHANGED <<old, renamed, released>>

\* The tree must be a directory with a config.yaml that can be parsed.
CheckTree ==
    /\ \/ OpGoes("claimed", "checked")
       \/ OpGoes("claimed", "returning")
    /\ UNCHANGED <<place, old, renamed, disturbed, released>>

\* moveDirToUniqueSnapshot.  Setting the time of the snapshot is best effort.
SetAside(t) ==
    /\ place' = [place EXCEPT ![t] = "listed"]
    /\ \/ old' = old \ {t} /\ released' = released \ {t}
       \/ released' = released \union {t} /\ UNCHANGED old

\* The live directory, if there is one, is moved aside; or the move fails.
MoveAside ==
    \/ /\ OpGoes("checked", IF Live = {} THEN "promoting" ELSE "returning")
       /\ UNCHANGED <<place, old, renamed, disturbed, released>>
    \/ /\ op.pc = "checked"
       /\ \E t \in Live :
            /\ SetAside(t)
            /\ op' = [op EXCEPT !.pc = "promoting", !.aside = t]
       /\ UNCHANGED <<renamed, before, disturbed>>

\* Mutant: the tree that was moved aside is not moved back.
AfterFailure_NoRollback == "returning"
\* A promotion that fails restores what was moved aside.
AfterFailure == IF op.aside = NoTree THEN "returning" ELSE "rollback"

\* A directory that a save has made meanwhile is in the way of a rename.
Vacant == Live = {}

\* promoteConfigDir.
Promote ==
    \/ /\ op.pc = "promoting" /\ Vacant
       /\ place' = [place EXCEPT ![op.tree] = "live"]
       /\ renamed' = renamed \ {op.tree}
       /\ Ends
       /\ UNCHANGED <<old, disturbed, released>>
    \/ /\ OpGoes("promoting", AfterFailure)
       /\ UNCHANGED <<place, old, renamed, disturbed, released>>

\* The rollback of promoteConfigDir.
Rollback ==
    /\ OpGoes("rollback", "returning")
    /\ \/ /\ Vacant
          /\ place' = [place EXCEPT ![op.aside] = "live"]
          /\ UNCHANGED disturbed
       \/ disturbed' = TRUE /\ UNCHANGED place
    /\ UNCHANGED <<old, renamed, released>>

\* returnClaimedSnapshot gives the claim its name and its age back, if it can;
\* an import removes what it has extracted.
GivenBack(t) ==
    \/ /\ place[t] = "staging"
       /\ place' = [place EXCEPT ![t] = "none"]
       /\ UNCHANGED <<old, renamed, disturbed, released>>
    \/ /\ place[t] = "listed"
       /\ renamed' = renamed \ ({t} \ before.renamed)
       /\ old' = old \union ({t} \intersect before.old)
       /\ released' = released \union ({t} \intersect before.released)
       /\ UNCHANGED <<place, disturbed>>
    \/ /\ disturbed' = TRUE
       /\ UNCHANGED <<place, old, renamed, released>>

Return ==
    /\ op.pc = "returning"
    /\ GivenBack(op.tree)
    /\ Ends

-----------------------------------------------------------------------------
(* What happens beside them. *)

\* An ordinary save: MkdirAll(configDir()) and one file.  It takes no lock.
SaveMakesDir ==
    /\ Live = {}
    /\ \E t \in NewTrees :
        /\ place[t] = "none"
        /\ place' = [place EXCEPT ![t] = "live"]
    /\ disturbed' = TRUE
    /\ UNCHANGED <<old, renamed, op, before, released>>

\* DeletePreImportBackup.
DeleteBackup(t) ==
    /\ op = NoOp /\ place[t] = "listed"
    /\ place' = [place EXCEPT ![t] = "deleted"]
    /\ released' = released \union {t}
    /\ old' = old \ {t} /\ renamed' = renamed \ {t}
    /\ UNCHANGED <<op, before, disturbed>>

\* CleanupOldData: snapshots past the retention, and staging trees that no
\* import owns and that are past their grace.
CleanupSnapshots ==
    /\ op = NoOp /\ Live # {}
    /\ LET expired == Listed \intersect old
       IN  /\ \E orphans \in SUBSET {t \in Trees : place[t] = "staging"} :
                place' = [t \in Trees |->
                            IF t \in expired THEN "deleted"
                            ELSE IF t \in orphans THEN "none" ELSE place[t]]
           /\ old' = old \ expired /\ renamed' = renamed \ expired
    /\ UNCHANGED <<op, before, disturbed, released>>

\* A month goes by.
Expire ==
    /\ op = NoOp
    /\ old' = old \union Listed /\ released' = released \union Listed
    /\ UNCHANGED <<place, renamed, op, before, disturbed>>

\* The program dies and starts again: a missing directory is made anew.
CrashAndStart ==
    /\ Ends /\ disturbed' = TRUE
    /\ \/ Live # {} /\ UNCHANGED place
       \/ /\ Live = {}
          /\ \E t \in NewTrees :
                place[t] = "none" /\ place' = [place EXCEPT ![t] = "live"]
    /\ UNCHANGED <<old, renamed, released>>

RestoreNext ==
    \/ \E t \in Trees : ClaimBackup(t) \/ Extract(t) \/ DeleteBackup(t)
    \/ CheckTree \/ MoveAside \/ Promote \/ Rollback \/ Return
    \/ SaveMakesDir \/ CleanupSnapshots \/ Expire \/ CrashAndStart

RestoreSpec == RestoreInit /\ [][RestoreNext]_restoreVars

-----------------------------------------------------------------------------
(* Properties. *)

\* The trees are somewhere, and the operation is at one of its steps.
RestoreTypeOK ==
    /\ place \in [Trees -> Places]
    /\ old \subseteq Trees /\ renamed \subseteq Trees /\ released \subseteq Trees
    /\ op.pc \in {"idle", "claimed", "checked", "promoting", "rollback",
                  "returning"}
    /\ {op.tree, op.aside} \subseteq Trees \union {NoTree}
    /\ Cardinality(Live) <= 1

\* Whatever fails and wherever the program dies, a tree that held the user's
\* data is live or listed until the user deletes it or it has been left alone
\* for the retention: a tree that a restore has just claimed or moved aside is
\* not taken for an old one.
NothingLost ==
    \A t \in Trees \ released : place[t] # "deleted"
        /\ (t \in {Current} \union Backups => place[t] \in {"live", "listed"})

\* A restore or an import that fails once leaves everything as it found it: the
\* live tree, and the backup under its own name and of its own age.
FailureUndoes ==
    [][op.pc = "returning" /\ op' = NoOp /\ ~disturbed'
        => /\ Live' = before.live /\ renamed' = before.renamed
           /\ op.tree \in old' <=> op.tree \in before.old]_restoreVars

\* One that succeeds is itself reversible: what was live is listed, and not
\* due for cleanup unless its time could not be set.
SuccessIsReversible ==
    [][op.pc = "promoting" /\ op' = NoOp /\ ~disturbed'
        => /\ Live' = {op.tree}
           /\ \A t \in before.live :
                t \in Listed' /\ (t \in old' => t \in released')]_restoreVars

\* A restore happens as a whole or not at all, and either way no tree is lost.
RestoreIsAtomic == []NothingLost /\ FailureUndoes /\ SuccessIsReversible
=============================================================================
