------------------------- MODULE ConfigRestoreProofs -------------------------
(* The exchange of the configuration directory for any sets of backups,       *)
(* archives and new trees.                                                    *)
EXTENDS ConfigRestore, FiniteSetTheorems, TLAPS

OpPhases == {"idle", "claimed", "checked", "promoting", "rollback", "returning"}

OpRecords ==
    [pc : OpPhases, tree : Trees \union {NoTree}, aside : Trees \union {NoTree}]
BeforeRecords ==
    [live : SUBSET Trees, old : SUBSET Trees, renamed : SUBSET Trees,
     released : SUBSET Trees]

Typed ==
    /\ place \in [Trees -> Places]
    /\ old \subseteq Trees /\ renamed \subseteq Trees /\ released \subseteq Trees
    /\ op \in OpRecords
        /\ before \in BeforeRecords
    /\ disturbed \in BOOLEAN

OneLive == \A t, u \in Live : t = u

\* The tree in hand is where the operation left it.
OpOK ==
    /\ op.pc = "idle" => op = NoOp
    /\ op.pc # "idle" =>
        /\ op.tree \in Trees /\ place[op.tree] \in {"listed", "staging"}
        /\ op.aside # op.tree
    /\ op.pc \in {"claimed", "checked"} => op.aside = NoTree
    /\ op.pc \in {"promoting", "rollback"} /\ op.aside # NoTree =>
        op.aside \in Trees /\ place[op.aside] = "listed"
    /\ op.pc = "rollback" => op.aside # NoTree

\* Only an archive is ever staged, and no tree the user had vanishes.
OriginOK ==
    \A t \in Trees :
        /\ place[t] = "staging" => t \in Archives
        /\ place[t] = "none" => t \notin {Current} \union Backups

\* What the cleanup would take has been released before, and so has the
\* snapshot in hand when its age is given back to it.
AgeOK ==
    /\ \A t \in Trees : place[t] = "listed" /\ t \in old => t \in released
    /\ \A t \in Trees : place[t] = "deleted" => t \in released
    /\ op.pc # "idle" /\ place[op.tree] = "listed" =>
        (op.tree \in before.old => op.tree \in before.released)

\* As long as nothing disturbs the operation: what was live is live until it
\* is set aside, and the claim can be undone.
UndoOK ==
    op.pc # "idle" /\ ~disturbed =>
        /\ op.pc \in {"claimed", "checked", "returning"} => Live = before.live
        /\ op.pc \in {"promoting", "rollback"} =>
            /\ Live = {}
            /\ before.live = IF op.aside = NoTree THEN {} ELSE {op.aside}
        /\ place[op.tree] = "staging" =>
            /\ renamed = before.renamed
            /\ op.tree \in old <=> op.tree \in before.old
        /\ place[op.tree] = "listed" =>
            /\ renamed = before.renamed \union {op.tree}
            /\ op.tree \notin old

RInv == Typed /\ OneLive /\ OpOK /\ OriginOK /\ AgeOK /\ UndoOK

USE RestoreAssumption DEF Trees

LEMMA InitRInv == RestoreInit => RInv
  <1> SUFFICES ASSUME RestoreInit PROVE RInv
    OBVIOUS
  <1>1. /\ place = [t \in Trees |-> IF t = Current THEN "live"
                                    ELSE IF t \in Backups THEN "listed" ELSE "none"]
        /\ old \subseteq {Current} \union Backups /\ renamed = {}
        /\ op = NoOp /\ before = Nothing /\ disturbed = FALSE
        /\ released = old \ {Current}
    BY DEF RestoreInit
  <1>2. op.pc = "idle"
    BY <1>1 DEF NoOp
  <1>3. Typed
    BY <1>1 DEF Typed, Places, OpPhases, OpRecords, BeforeRecords, NoOp, Nothing
  <1>4. OneLive
    BY <1>1 DEF OneLive, Live
  <1>5. OpOK /\ UndoOK
    BY <1>1, <1>2 DEF OpOK, UndoOK
  <1>6. OriginOK
    BY <1>1 DEF OriginOK
  <1>7. AgeOK
    BY <1>1, <1>2 DEF AgeOK
  <1>8. QED
    BY <1>3, <1>4, <1>5, <1>6, <1>7 DEF RInv

-----------------------------------------------------------------------------
(* One lemma per kind of step. *)

\* A step that only moves the operation on, or changes nothing at all.
LEMMA CheckStep ==
  ASSUME RInv, CheckTree
  PROVE  RInv'
  <1>1. /\ op.pc = "claimed"
        /\ \E to \in {"checked", "returning"} : op' = [op EXCEPT !.pc = to]
        /\ UNCHANGED <<place, old, renamed, disturbed, released, before>>
    BY DEF CheckTree, OpGoes
  <1>2. /\ op'.pc \in {"checked", "returning"} /\ op'.tree = op.tree
        /\ op'.aside = op.aside /\ op' \in OpRecords
    BY <1>1 DEF RInv, Typed, OpPhases, OpRecords, BeforeRecords
  <1>3. Typed' /\ OneLive' /\ OriginOK'
    <2>1. Typed'
      BY <1>1, <1>2 DEF RInv, Typed, Live
    <2>2. OneLive'
      BY <1>1, <1>2 DEF RInv, Typed, OneLive, Live
    <2>3. OriginOK'
      BY <1>1, <1>2 DEF RInv, Typed, Live, OriginOK
    <2>4. QED
      BY <2>1, <2>2, <2>3
  <1>4. OpOK' /\ AgeOK'
    <2>1. OpOK'
      BY <1>1, <1>2 DEF RInv, OpOK
    <2>2. AgeOK'
      BY <1>1, <1>2 DEF RInv, AgeOK
    <2>3. QED
      BY <2>1, <2>2
  <1>5. UndoOK'
    BY <1>1, <1>2 DEF RInv, UndoOK, Live
  <1>6. QED
    BY <1>3, <1>4, <1>5 DEF RInv

LEMMA BeginsType ==
  ASSUME Typed, NEW t \in Trees, NEW pc \in {"claimed", "returning"}, Begins(t, pc)
  PROVE  /\ op = NoOp /\ op.pc = "idle"
         /\ op' \in OpRecords
         /\ op'.pc = pc /\ op'.tree = t /\ op'.aside = NoTree
         /\ before' \in BeforeRecords
         /\ before'.live = Live /\ before'.old = old
         /\ before'.renamed = renamed /\ before'.released = released
         /\ disturbed' = FALSE
  BY DEF Begins, Typed, OpPhases, OpRecords, BeforeRecords, Live, NoOp

LEMMA ClaimStep ==
  ASSUME RInv, NEW t \in Trees, ClaimBackup(t)
  PROVE  RInv'
  <1> USE DEF RInv
  <1>1. PICK pc \in {"claimed", "returning"} : Begins(t, pc)
    BY DEF ClaimBackup
  <1>2. /\ op.pc = "idle"
        /\ op' \in OpRecords
        /\ op'.pc = pc /\ op'.tree = t /\ op'.aside = NoTree
        /\ before' \in BeforeRecords
        /\ before'.live = Live /\ before'.old = old
        /\ before'.renamed = renamed /\ before'.released = released
        /\ disturbed' = FALSE
    BY <1>1, BeginsType
  <1>3. /\ place[t] = "listed" /\ place' = place
        /\ renamed' = renamed \union {t}
        /\ old' = old \ {t} /\ released' = released \ {t}
    BY DEF ClaimBackup
  <1>4. Typed' /\ OneLive' /\ OriginOK'
    <2>1. Typed'
      BY <1>2, <1>3 DEF Typed, Live
    <2>2. OneLive'
      BY <1>2, <1>3 DEF Typed, OneLive, Live
    <2>3. OriginOK'
      BY <1>2, <1>3 DEF Typed, Live, OriginOK
    <2>4. QED
      BY <2>1, <2>2, <2>3
  <1>5. OpOK'
    BY <1>2, <1>3 DEF OpOK
  <1>6. AgeOK'
    BY <1>2, <1>3 DEF AgeOK
  <1>7. UndoOK'
    BY <1>2, <1>3 DEF UndoOK, Live
  <1>8. QED
    BY <1>4, <1>5, <1>6, <1>7

LEMMA ExtractStep ==
  ASSUME RInv, NEW t \in Trees, Extract(t)
  PROVE  RInv'
  <1> USE DEF RInv
  <1>1. PICK pc \in {"claimed", "returning"} : Begins(t, pc)
    BY DEF Extract
  <1>2. /\ op.pc = "idle"
        /\ op' \in OpRecords
        /\ op'.pc = pc /\ op'.tree = t /\ op'.aside = NoTree
        /\ before' \in BeforeRecords
        /\ before'.live = Live /\ before'.old = old
        /\ before'.renamed = renamed /\ before'.released = released
        /\ disturbed' = FALSE
    BY <1>1, BeginsType
  <1>3. /\ t \in Archives /\ place[t] = "none" /\ place' = [place EXCEPT ![t] = "staging"]
        /\ UNCHANGED <<old, renamed, released>>
    BY DEF Extract
  <1>4. /\ place' \in [Trees -> Places] /\ place'[t] = "staging"
        /\ \A u \in Trees \ {t} : place'[u] = place[u]
    BY <1>3 DEF Typed, Places
  <1>5. Live' = Live
    BY <1>3, <1>4 DEF Live
  <1>6. Typed' /\ OneLive' /\ OriginOK'
    <2>1. Typed'
      BY <1>2, <1>3, <1>4, <1>5 DEF Typed
    <2>2. OneLive'
      BY <1>2, <1>3, <1>4, <1>5 DEF Typed, OneLive
    <2>3. OriginOK'
      BY <1>2, <1>3, <1>4, <1>5 DEF Typed, OriginOK
    <2>4. QED
      BY <2>1, <2>2, <2>3
  <1>7. OpOK'
    BY <1>2, <1>4 DEF OpOK
  <1>8. AgeOK'
    BY <1>2, <1>3, <1>4 DEF AgeOK
  <1>9. UndoOK'
    BY <1>2, <1>3, <1>4, <1>5 DEF UndoOK
  <1>10. QED
    BY <1>6, <1>7, <1>8, <1>9

LEMMA MoveStep ==
  ASSUME RInv, MoveAside
  PROVE  RInv'
  <1> USE DEF RInv
  <1>1. CASE /\ OpGoes("checked", IF Live = {} THEN "promoting" ELSE "returning")
             /\ UNCHANGED <<place, old, renamed, disturbed, released>>
    <2>1. /\ op.pc = "checked" /\ before' = before /\ op.aside = NoTree
          /\ op'.pc = IF Live = {} THEN "promoting" ELSE "returning"
          /\ op'.tree = op.tree /\ op'.aside = NoTree
          /\ op' \in OpRecords
      BY <1>1 DEF OpGoes, Typed, OpPhases, OpRecords, BeforeRecords, OpOK
    <2>2. Live' = Live
      BY <1>1 DEF Live
    <2>3. Typed' /\ OneLive' /\ OriginOK' /\ OpOK' /\ AgeOK'
      <3>1. Typed'
        BY <1>1, <2>1, <2>2 DEF Typed
      <3>2. OneLive'
        BY <1>1, <2>1, <2>2 DEF Typed, OneLive
      <3>3. OriginOK'
        BY <1>1, <2>1, <2>2 DEF Typed, OriginOK
      <3>4. OpOK'
        BY <1>1, <2>1, <2>2 DEF Typed, OpOK
      <3>5. AgeOK'
        BY <1>1, <2>1, <2>2 DEF Typed, AgeOK
      <3>6. QED
        BY <3>1, <3>2, <3>3, <3>4, <3>5
    <2>4. UndoOK'
      BY <1>1, <2>1, <2>2 DEF UndoOK
    <2>5. QED
      BY <2>3, <2>4
  <1>2. ASSUME op.pc = "checked", NEW t \in Live, SetAside(t),
               op' = [op EXCEPT !.pc = "promoting", !.aside = t],
               UNCHANGED <<renamed, before, disturbed>>
        PROVE  RInv'
    <2>1. /\ op'.pc = "promoting" /\ op'.tree = op.tree /\ op'.aside = t
          /\ op' \in OpRecords
          /\ t \in Trees /\ place[t] = "live" /\ op.tree # t /\ op.tree \in Trees
      BY <1>2 DEF Typed, OpPhases, OpRecords, BeforeRecords, OpOK, Live
    <2>2. /\ place' \in [Trees -> Places] /\ place'[t] = "listed"
          /\ \A u \in Trees \ {t} : place'[u] = place[u]
      BY <1>2, <2>1 DEF SetAside, Typed, Places
    <2>3. /\ old' \subseteq Trees /\ released' \subseteq Trees
          /\ t \in old' => t \in released'
          /\ \A u \in Trees \ {t} : (u \in old' <=> u \in old)
                                    /\ (u \in released' <=> u \in released)
      BY <1>2, <2>1 DEF SetAside, Typed
    <2>4. Live = {t} /\ Live' = {}
      BY <1>2, <2>1, <2>2 DEF OneLive, Live
    <2>5. Typed' /\ OneLive' /\ OriginOK'
      <3>1. Typed'
        BY <1>2, <2>1, <2>2, <2>3, <2>4 DEF Typed
      <3>2. OneLive'
        BY <1>2, <2>1, <2>2, <2>3, <2>4 DEF Typed, OneLive
      <3>3. OriginOK'
        BY <1>2, <2>1, <2>2, <2>3, <2>4 DEF Typed, OriginOK
      <3>4. QED
        BY <3>1, <3>2, <3>3
    <2>6. OpOK'
      BY <1>2, <2>1, <2>2 DEF OpOK
    <2>7. AgeOK'
      BY <1>2, <2>1, <2>2, <2>3 DEF AgeOK
    <2>8. UndoOK'
      <3>1. t # NoTree
        BY <2>1
      <3>2. place'[op'.tree] = place[op.tree]
        BY <2>1, <2>2
      <3>3. QED
        BY <1>2, <2>1, <2>3, <2>4, <3>1, <3>2 DEF UndoOK
    <2>9. QED
      BY <2>5, <2>6, <2>7, <2>8
  <1>3. QED
    BY <1>1, <1>2 DEF MoveAside

\* The end of an operation.
LEMMA EndsType ==
  ASSUME Ends
  PROVE  /\ op' = NoOp /\ op'.pc = "idle"
         /\ op' \in OpRecords
        /\ before' \in BeforeRecords
  BY DEF Ends, NoOp, Nothing, OpPhases, OpRecords, BeforeRecords

LEMMA PromoteStep ==
  ASSUME RInv, Promote
  PROVE  RInv'
  <1> USE DEF RInv
  <1>1. CASE /\ op.pc = "promoting" /\ Vacant
             /\ place' = [place EXCEPT ![op.tree] = "live"]
             /\ renamed' = renamed \ {op.tree}
             /\ Ends
             /\ UNCHANGED <<old, disturbed, released>>
    <2>1. op.tree \in Trees /\ place[op.tree] \in {"listed", "staging"} /\ Live = {}
      BY <1>1 DEF OpOK, Vacant
    <2>2. /\ place' \in [Trees -> Places] /\ place'[op.tree] = "live"
          /\ \A u \in Trees \ {op.tree} : place'[u] = place[u]
      BY <1>1, <2>1 DEF Typed, Places
    <2>3. Live' = {op.tree}
      BY <2>1, <2>2 DEF Live
    <2>4. /\ op' = NoOp /\ op'.pc = "idle"
          /\ op' \in OpRecords
        /\ before' \in BeforeRecords
      BY <1>1, EndsType
    <2>5. Typed'
      BY <1>1, <2>2, <2>4 DEF Typed
    <2>6. OneLive' /\ OriginOK'
      <3>1. OneLive'
        BY <2>1, <2>2, <2>3 DEF OneLive
      <3>2. OriginOK'
        BY <2>1, <2>2, <2>3 DEF OriginOK
      <3>3. QED
        BY <3>1, <3>2
    <2>7. OpOK' /\ UndoOK'
      <3>1. OpOK'
        BY <2>4 DEF OpOK
      <3>2. UndoOK'
        BY <2>4 DEF UndoOK
      <3>3. QED
        BY <3>1, <3>2
    <2>8. AgeOK'
      BY <1>1, <2>2, <2>4 DEF AgeOK
    <2>9. QED
      BY <2>5, <2>6, <2>7, <2>8
  <1>2. CASE /\ OpGoes("promoting", AfterFailure)
             /\ UNCHANGED <<place, old, renamed, disturbed, released>>
    <2>1. /\ op.pc = "promoting" /\ before' = before
          /\ op'.pc = IF op.aside = NoTree THEN "returning" ELSE "rollback"
          /\ op'.tree = op.tree /\ op'.aside = op.aside
          /\ op' \in OpRecords
      BY <1>2 DEF OpGoes, AfterFailure, Typed, OpPhases, OpRecords, BeforeRecords
    <2>2. Live' = Live
      BY <1>2 DEF Live
    <2>3. Typed' /\ OneLive' /\ OriginOK' /\ OpOK' /\ AgeOK'
      <3>1. Typed'
        BY <1>2, <2>1, <2>2 DEF Typed
      <3>2. OneLive'
        BY <1>2, <2>1, <2>2 DEF Typed, OneLive
      <3>3. OriginOK'
        BY <1>2, <2>1, <2>2 DEF Typed, OriginOK
      <3>4. OpOK'
        BY <1>2, <2>1, <2>2 DEF Typed, OpOK
      <3>5. AgeOK'
        BY <1>2, <2>1, <2>2 DEF Typed, AgeOK
      <3>6. QED
        BY <3>1, <3>2, <3>3, <3>4, <3>5
    <2>4. UndoOK'
      BY <1>2, <2>1, <2>2 DEF UndoOK
    <2>5. QED
      BY <2>3, <2>4
  <1>3. QED
    BY <1>1, <1>2 DEF Promote

LEMMA RollbackStep ==
  ASSUME RInv, Rollback
  PROVE  RInv'
  <1> USE DEF RInv
  <1>1. /\ op.pc = "rollback" /\ before' = before
        /\ op'.pc = "returning" /\ op'.tree = op.tree /\ op'.aside = op.aside
        /\ op' \in OpRecords
        /\ UNCHANGED <<old, renamed, released>>
    BY DEF Rollback, OpGoes, Typed, OpPhases, OpRecords, BeforeRecords
  <1>2. /\ op.aside \in Trees /\ place[op.aside] = "listed" /\ op.aside # op.tree
        /\ op.tree \in Trees /\ op.aside # NoTree
    BY <1>1 DEF OpOK
  <1>3. CASE Vacant /\ place' = [place EXCEPT ![op.aside] = "live"] /\ disturbed' = disturbed
    <2>1. /\ place' \in [Trees -> Places] /\ place'[op.aside] = "live"
          /\ \A u \in Trees \ {op.aside} : place'[u] = place[u]
      BY <1>2, <1>3 DEF Typed, Places
    <2>2. Live' = {op.aside}
      BY <1>2, <1>3, <2>1 DEF Live, Vacant
    <2>3. Typed' /\ OneLive' /\ OriginOK'
      <3>1. Typed'
        BY <1>1, <1>2, <1>3, <2>1, <2>2 DEF Typed
      <3>2. OneLive'
        BY <1>1, <1>2, <1>3, <2>1, <2>2 DEF Typed, OneLive
      <3>3. OriginOK'
        BY <1>1, <1>2, <1>3, <2>1, <2>2 DEF Typed, OriginOK
      <3>4. QED
        BY <3>1, <3>2, <3>3
    <2>4. OpOK' /\ AgeOK'
      <3>1. OpOK'
        BY <1>1, <1>2, <2>1 DEF OpOK
      <3>2. AgeOK'
        BY <1>1, <1>2, <2>1 DEF AgeOK
      <3>3. QED
        BY <3>1, <3>2
    <2>5. UndoOK'
      BY <1>1, <1>2, <1>3, <2>1, <2>2 DEF UndoOK
    <2>6. QED
      BY <2>3, <2>4, <2>5
  <1>4. CASE disturbed' = TRUE /\ place' = place
    <2>1. Live' = Live
      BY <1>4 DEF Live
    <2>2. Typed' /\ OneLive' /\ OriginOK'
      <3>1. Typed'
        BY <1>1, <1>4, <2>1 DEF Typed
      <3>2. OneLive'
        BY <1>1, <1>4, <2>1 DEF Typed, OneLive
      <3>3. OriginOK'
        BY <1>1, <1>4, <2>1 DEF Typed, OriginOK
      <3>4. QED
        BY <3>1, <3>2, <3>3
    <2>3. OpOK' /\ AgeOK'
      <3>1. OpOK'
        BY <1>1, <1>2, <1>4 DEF OpOK
      <3>2. AgeOK'
        BY <1>1, <1>2, <1>4 DEF AgeOK
      <3>3. QED
        BY <3>1, <3>2
    <2>4. UndoOK'
      BY <1>4 DEF UndoOK
    <2>5. QED
      BY <2>2, <2>3, <2>4
  <1>5. QED
    BY <1>3, <1>4 DEF Rollback

LEMMA ReturnStep ==
  ASSUME RInv, Return
  PROVE  RInv'
  <1> USE DEF RInv
  <1> DEFINE t == op.tree
  <1>1. /\ op.pc = "returning" /\ t \in Trees /\ GivenBack(t) /\ Ends
        /\ place[t] \in {"listed", "staging"}
    BY DEF Return, OpOK
  <1>2. /\ op' = NoOp /\ op'.pc = "idle"
        /\ op' \in OpRecords
        /\ before' \in BeforeRecords
    BY <1>1, EndsType
  <1>3. OpOK' /\ UndoOK'
    <2>1. OpOK'
      BY <1>2 DEF OpOK
    <2>2. UndoOK'
      BY <1>2 DEF UndoOK
    <2>3. QED
      BY <2>1, <2>2
  <1> HIDE DEF t
  <1>4. CASE /\ place[t] = "staging" /\ place' = [place EXCEPT ![t] = "none"]
             /\ UNCHANGED <<old, renamed, disturbed, released>>
    <2>1. /\ place' \in [Trees -> Places] /\ place'[t] = "none"
          /\ \A u \in Trees \ {t} : place'[u] = place[u]
      BY <1>1, <1>4 DEF Typed, Places
    <2>2. Live' = Live
      BY <1>4, <2>1 DEF Live
    <2>3. Typed' /\ OneLive' /\ OriginOK'
      <3>1. Typed'
        BY <1>2, <1>4, <2>1, <2>2 DEF Typed
      <3>2. OneLive'
        BY <1>2, <1>4, <2>1, <2>2 DEF Typed, OneLive
      <3>3. OriginOK'
        BY <1>2, <1>4, <2>1, <2>2 DEF Typed, OriginOK
      <3>4. QED
        BY <3>1, <3>2, <3>3
    <2>4. AgeOK'
      BY <1>2, <1>4, <2>1 DEF AgeOK
    <2>5. QED
      BY <1>3, <2>3, <2>4
  <1>5. CASE /\ place[t] = "listed" /\ place' = place /\ disturbed' = disturbed
             /\ renamed' = renamed \ ({t} \ before.renamed)
             /\ old' = old \union ({t} \intersect before.old)
             /\ released' = released \union ({t} \intersect before.released)
    <2>1. Live' = Live
      BY <1>5 DEF Live
    <2>2. Typed' /\ OneLive' /\ OriginOK'
      <3>1. Typed'
        BY <1>1, <1>2, <1>5, <2>1 DEF Typed
      <3>2. OneLive'
        BY <1>1, <1>2, <1>5, <2>1 DEF Typed, OneLive
      <3>3. OriginOK'
        BY <1>1, <1>2, <1>5, <2>1 DEF Typed, OriginOK
      <3>4. QED
        BY <3>1, <3>2, <3>3
    <2>3. t \in before.old => t \in before.released
      BY <1>1, <1>5 DEF AgeOK, t
    <2>4. AgeOK'
      BY <1>2, <1>5, <2>3 DEF AgeOK
    <2>5. QED
      BY <1>3, <2>2, <2>4
  <1>6. CASE disturbed' = TRUE /\ UNCHANGED <<place, old, renamed, released>>
    <2>1. Live' = Live
      BY <1>6 DEF Live
    <2>2. Typed' /\ OneLive' /\ OriginOK' /\ AgeOK'
      <3>1. Typed'
        BY <1>2, <1>6, <2>1 DEF Typed
      <3>2. OneLive'
        BY <1>2, <1>6, <2>1 DEF Typed, OneLive
      <3>3. OriginOK'
        BY <1>2, <1>6, <2>1 DEF Typed, OriginOK
      <3>4. AgeOK'
        BY <1>2, <1>6, <2>1 DEF Typed, AgeOK
      <3>5. QED
        BY <3>1, <3>2, <3>3, <3>4
    <2>3. QED
      BY <1>3, <2>2
  <1>7. QED
    BY <1>1, <1>4, <1>5, <1>6 DEF GivenBack

LEMMA SaveStep ==
  ASSUME RInv, SaveMakesDir
  PROVE  RInv'
  <1> USE DEF RInv
  <1>1. PICK t \in NewTrees : place[t] = "none" /\ place' = [place EXCEPT ![t] = "live"]
    BY DEF SaveMakesDir
  <1>2. Live = {} /\ disturbed' = TRUE /\ UNCHANGED <<old, renamed, op, before, released>>
    BY DEF SaveMakesDir
  <1>3. /\ place' \in [Trees -> Places] /\ place'[t] = "live"
        /\ \A u \in Trees \ {t} : place'[u] = place[u]
    BY <1>1 DEF Typed, Places
  <1>4. Live' = {t}
    BY <1>1, <1>2, <1>3 DEF Live
  <1>5. Typed' /\ OneLive' /\ OriginOK'
    <2>1. Typed'
      BY <1>1, <1>2, <1>3, <1>4 DEF Typed
    <2>2. OneLive'
      BY <1>1, <1>2, <1>3, <1>4 DEF Typed, OneLive
    <2>3. OriginOK'
      BY <1>1, <1>2, <1>3, <1>4 DEF Typed, OriginOK
    <2>4. QED
      BY <2>1, <2>2, <2>3
  <1>6. OpOK' /\ AgeOK'
    <2>1. OpOK'
      BY <1>1, <1>2, <1>3 DEF OpOK
    <2>2. AgeOK'
      BY <1>1, <1>2, <1>3 DEF AgeOK
    <2>3. QED
      BY <2>1, <2>2
  <1>7. UndoOK'
    BY <1>2 DEF UndoOK
  <1>8. QED
    BY <1>5, <1>6, <1>7

\* Steps between operations: trees leave the list, or grow old.
LEMMA BetweenSteps ==
  ASSUME RInv, op = NoOp, UNCHANGED <<op, before, disturbed>>,
         old' \subseteq Trees, renamed' \subseteq Trees, released' \subseteq Trees,
         place' \in [Trees -> Places],
         \A t \in Trees : place'[t] # place[t] =>
            \/ place[t] = "listed" /\ place'[t] = "deleted" /\ t \in released'
            \/ place[t] = "staging" /\ place'[t] = "none",
         \A t \in Trees : place'[t] = "listed" /\ t \in old' => t \in released',
         released \subseteq released'
  PROVE  RInv'
  <1> USE DEF RInv
  <1>1. Live' = Live
    BY DEF Live
  <1>2. Typed' /\ OneLive'
    <2>1. Typed'
      BY <1>1 DEF Typed
    <2>2. OneLive'
      BY <1>1 DEF Typed, OneLive
    <2>3. QED
      BY <2>1, <2>2
  <1>3. OriginOK'
    BY DEF OriginOK
  <1>4. op'.pc = "idle"
    BY DEF NoOp
  <1>5. OpOK' /\ UndoOK'
    <2>1. OpOK'
      BY <1>4 DEF OpOK
    <2>2. UndoOK'
      BY <1>4 DEF UndoOK
    <2>3. QED
      BY <2>1, <2>2
  <1>6. AgeOK'
    BY <1>4 DEF AgeOK
  <1>7. QED
    BY <1>2, <1>3, <1>5, <1>6

LEMMA DeleteStep ==
  ASSUME RInv, NEW t \in Trees, DeleteBackup(t)
  PROVE  RInv'
  <1>1. /\ op = NoOp /\ place[t] = "listed" /\ UNCHANGED <<op, before, disturbed>>
        /\ place' = [place EXCEPT ![t] = "deleted"]
        /\ released' = released \union {t} /\ old' = old \ {t} /\ renamed' = renamed \ {t}
    BY DEF DeleteBackup
  <1>2. /\ place' \in [Trees -> Places] /\ place'[t] = "deleted"
        /\ \A u \in Trees \ {t} : place'[u] = place[u]
    BY <1>1 DEF RInv, Typed, Places
  <1>3. QED
    BY <1>1, <1>2, BetweenSteps DEF RInv, Typed, AgeOK

LEMMA CleanupStep ==
  ASSUME RInv, CleanupSnapshots
  PROVE  RInv'
  <1> DEFINE expired == Listed \intersect old
  <1>1. PICK orphans \in SUBSET {t \in Trees : place[t] = "staging"} :
            place' = [t \in Trees |-> IF t \in expired THEN "deleted"
                                      ELSE IF t \in orphans THEN "none" ELSE place[t]]
    BY DEF CleanupSnapshots
  <1>2. /\ op = NoOp /\ UNCHANGED <<op, before, disturbed, released>>
        /\ old' = old \ expired /\ renamed' = renamed \ expired
    BY DEF CleanupSnapshots
  <1>3. \A t \in Trees : t \in expired <=> place[t] = "listed" /\ t \in old
    BY DEF Listed
  <1> HIDE DEF expired
  <1>4. place' \in [Trees -> Places]
    BY <1>1 DEF RInv, Typed, Places
  <1>5. \A t \in Trees : place'[t] # place[t] =>
            \/ place[t] = "listed" /\ place'[t] = "deleted" /\ t \in released'
            \/ place[t] = "staging" /\ place'[t] = "none"
    BY <1>1, <1>2, <1>3 DEF RInv, AgeOK
  <1>6. \A t \in Trees : place'[t] = "listed" /\ t \in old' => t \in released'
    BY <1>1, <1>2, <1>5 DEF RInv, AgeOK
  <1>7. QED
    BY <1>2, <1>4, <1>5, <1>6, BetweenSteps DEF RInv, Typed

LEMMA ExpireStep ==
  ASSUME RInv, Expire
  PROVE  RInv'
  <1>1. /\ op = NoOp /\ UNCHANGED <<place, renamed, op, before, disturbed>>
        /\ old' = old \union Listed /\ released' = released \union Listed
    BY DEF Expire
  <1>2. Listed \subseteq Trees /\ \A t \in Trees : place[t] = "listed" => t \in Listed
    BY DEF Listed
  <1>3. QED
    BY <1>1, <1>2, BetweenSteps DEF RInv, Typed

LEMMA CrashStep ==
  ASSUME RInv, CrashAndStart
  PROVE  RInv'
  <1> USE DEF RInv
  <1>1. /\ op'.pc = "idle" /\ op' = NoOp /\ disturbed' = TRUE
        /\ op' \in OpRecords
        /\ before' \in BeforeRecords
        /\ UNCHANGED <<old, renamed, released>>
    BY EndsType DEF CrashAndStart
  <1>2. OpOK' /\ UndoOK'
    <2>1. OpOK'
      BY <1>1 DEF OpOK
    <2>2. UndoOK'
      BY <1>1 DEF UndoOK
    <2>3. QED
      BY <2>1, <2>2
  <1>3. CASE place' = place
    <2>1. Live' = Live
      BY <1>3 DEF Live
    <2>2. Typed' /\ OneLive' /\ OriginOK' /\ AgeOK'
      <3>1. Typed'
        BY <1>1, <1>3, <2>1 DEF Typed
      <3>2. OneLive'
        BY <1>1, <1>3, <2>1 DEF Typed, OneLive
      <3>3. OriginOK'
        BY <1>1, <1>3, <2>1 DEF Typed, OriginOK
      <3>4. AgeOK'
        BY <1>1, <1>3, <2>1 DEF Typed, AgeOK
      <3>5. QED
        BY <3>1, <3>2, <3>3, <3>4
    <2>3. QED
      BY <1>2, <2>2
  <1>4. ASSUME Live = {}, NEW t \in NewTrees, place[t] = "none",
               place' = [place EXCEPT ![t] = "live"]
        PROVE  RInv'
    <2>1. /\ place' \in [Trees -> Places] /\ place'[t] = "live"
          /\ \A u \in Trees \ {t} : place'[u] = place[u]
      BY <1>4 DEF Typed, Places
    <2>2. Live' = {t}
      BY <1>4, <2>1 DEF Live
    <2>3. Typed' /\ OneLive' /\ OriginOK' /\ AgeOK'
      <3>1. Typed'
        BY <1>1, <1>4, <2>1, <2>2 DEF Typed
      <3>2. OneLive'
        BY <1>1, <1>4, <2>1, <2>2 DEF Typed, OneLive
      <3>3. OriginOK'
        BY <1>1, <1>4, <2>1, <2>2 DEF Typed, OriginOK
      <3>4. AgeOK'
        BY <1>1, <1>4, <2>1, <2>2 DEF Typed, AgeOK
      <3>5. QED
        BY <3>1, <3>2, <3>3, <3>4
    <2>4. QED
      BY <1>2, <2>3
  <1>5. QED
    BY <1>3, <1>4 DEF CrashAndStart

LEMMA StutterStep ==
  ASSUME RInv, UNCHANGED restoreVars
  PROVE  RInv'
  <1>1. Live' = Live
    BY DEF restoreVars, Live
  <1>2. Typed' /\ OneLive' /\ OpOK' /\ OriginOK'
    <2>1. Typed'
      BY <1>1 DEF RInv, restoreVars, Typed
    <2>2. OneLive'
      BY <1>1 DEF RInv, restoreVars, Typed, OneLive
    <2>3. OpOK'
      BY <1>1 DEF RInv, restoreVars, Typed, OpOK
    <2>4. OriginOK'
      BY <1>1 DEF RInv, restoreVars, Typed, OriginOK
    <2>5. QED
      BY <2>1, <2>2, <2>3, <2>4
  <1>3. AgeOK' /\ UndoOK'
    <2>1. AgeOK'
      BY <1>1 DEF RInv, restoreVars, AgeOK
    <2>2. UndoOK'
      BY <1>1 DEF RInv, restoreVars, UndoOK
    <2>3. QED
      BY <2>1, <2>2
  <1>4. QED
    BY <1>2, <1>3 DEF RInv

LEMMA Invariance == RestoreSpec => []RInv
  <1>1. RInv /\ [RestoreNext]_restoreVars => RInv'
    BY CheckStep, ClaimStep, ExtractStep, MoveStep, PromoteStep, RollbackStep, ReturnStep,
       SaveStep, DeleteStep, CleanupStep, ExpireStep, CrashStep, StutterStep
       DEF RestoreNext
  <1>2. QED
    BY InitRInv, <1>1, PTL DEF RestoreSpec

-----------------------------------------------------------------------------
\* The trees are somewhere, at most one is live, and the operation is at one of
\* the steps of RestorePreImportBackup or extractArchiveToConfigDir.
THEOREM TypeCorrect == RestoreSpec => []RestoreTypeOK
  <1>1. RInv => RestoreTypeOK
    <2> SUFFICES ASSUME RInv PROVE RestoreTypeOK
      OBVIOUS
    <2>1. Cardinality(Live) <= 1
      <3>1. CASE Live = {}
        BY <3>1, FS_EmptySet
      <3>2. CASE Live # {}
        <4>1. PICK t \in Live : TRUE
          BY <3>2
        <4>2. Live = {t}
          BY <4>1 DEF RInv, OneLive
        <4>3. Cardinality({t}) = 1
          BY FS_Singleton, Zenon
        <4>4. QED
          BY <4>2, <4>3
      <3>3. QED
        BY <3>1, <3>2
    <2>2. QED
      BY <2>1 DEF RInv, Typed, OpPhases, OpRecords, BeforeRecords, RestoreTypeOK
  <1>2. QED
    BY Invariance, <1>1, PTL

\* Whatever fails, crashes or is cleaned up (claimSnapshotDir,
\* moveDirToUniqueSnapshot, promoteConfigDir, CleanupOldData), no tree of the
\* user is lost.
THEOREM NoTreeLost == RestoreSpec => []NothingLost
  <1>1. RInv => NothingLost
    <2> SUFFICES ASSUME RInv, NEW t \in Trees \ released
                 PROVE  /\ place[t] # "deleted"
                        /\ t \in {Current} \union Backups => place[t] \in {"live", "listed"}
      BY DEF NothingLost
    <2>1. place[t] # "deleted" /\ place[t] \in Places
      BY DEF RInv, AgeOK, Typed
    <2>2. t \in {Current} \union Backups => place[t] \notin {"none", "staging"}
      BY DEF RInv, OriginOK
    <2>3. QED
      BY <2>1, <2>2 DEF Places
  <1>2. QED
    BY Invariance, <1>1, PTL

\* A restore or import that fails once is undone (promoteConfigDir,
\* returnClaimedSnapshot).
THEOREM FailuresAreUndone == RestoreSpec => FailureUndoes
  <1> DEFINE A == op.pc = "returning" /\ op' = NoOp /\ ~disturbed'
                    => /\ Live' = before.live /\ renamed' = before.renamed
                       /\ op.tree \in old' <=> op.tree \in before.old
  <1>1. RInv /\ [RestoreNext]_restoreVars => [A]_restoreVars
    <2> SUFFICES ASSUME RInv, RestoreNext, op.pc = "returning", op' = NoOp, ~disturbed'
                 PROVE  /\ Live' = before.live /\ renamed' = before.renamed
                        /\ op.tree \in old' <=> op.tree \in before.old
      OBVIOUS
    <2>1. op # NoOp /\ op'.pc = "idle"
      BY DEF NoOp
    <2>2. Return
      <3>1. \A t : ~ClaimBackup(t) /\ ~Extract(t) /\ ~DeleteBackup(t)
        BY <2>1 DEF ClaimBackup, Extract, DeleteBackup, Begins
      <3>2. ~CheckTree /\ ~MoveAside /\ ~Promote /\ ~Rollback
        BY DEF CheckTree, MoveAside, Promote, Rollback, OpGoes
      <3>3. ~SaveMakesDir /\ ~CleanupSnapshots /\ ~Expire /\ ~CrashAndStart
        BY <2>1 DEF SaveMakesDir, CleanupSnapshots, Expire, CrashAndStart
      <3>4. QED
        BY <3>1, <3>2, <3>3 DEF RestoreNext
    <2>3. op.tree \in Trees /\ place[op.tree] \in {"listed", "staging"}
      BY DEF RInv, OpOK
    <2>4. CASE /\ place[op.tree] = "staging" /\ place' = [place EXCEPT ![op.tree] = "none"]
               /\ UNCHANGED <<old, renamed, disturbed, released>>
      <3>1. Live' = Live
        BY <2>3, <2>4 DEF Live, RInv, Typed
      <3>2. QED
        BY <2>1, <2>4, <3>1 DEF RInv, UndoOK, NoOp
    <2>5. CASE /\ place[op.tree] = "listed" /\ place' = place /\ disturbed' = disturbed
               /\ renamed' = renamed \ ({op.tree} \ before.renamed)
               /\ old' = old \union ({op.tree} \intersect before.old)
      <3>1. Live' = Live
        BY <2>5 DEF Live
      <3>2. /\ renamed = before.renamed \union {op.tree} /\ op.tree \notin old
            /\ Live = before.live
        BY <2>5 DEF RInv, UndoOK
      <3>3. QED
        BY <2>5, <3>1, <3>2
    <2>6. QED
      BY <2>2, <2>4, <2>5 DEF Return, GivenBack
  <1>2. QED
    BY Invariance, <1>1, PTL DEF RestoreSpec, FailureUndoes

\* A restore or import that succeeds leaves what was live as a listed snapshot
\* that is not due for cleanup (moveDirToUniqueSnapshot).
THEOREM SuccessesAreReversible == RestoreSpec => SuccessIsReversible
  <1> DEFINE A == op.pc = "promoting" /\ op' = NoOp /\ ~disturbed'
                    => /\ Live' = {op.tree}
                       /\ \A t \in before.live :
                            t \in Listed' /\ (t \in old' => t \in released')
  <1>1. RInv /\ [RestoreNext]_restoreVars => [A]_restoreVars
    <2> SUFFICES ASSUME RInv, RestoreNext, op.pc = "promoting", op' = NoOp, ~disturbed'
                 PROVE  /\ Live' = {op.tree}
                        /\ \A t \in before.live :
                            t \in Listed' /\ (t \in old' => t \in released')
      OBVIOUS
    <2>1. op # NoOp /\ op'.pc = "idle"
      BY DEF NoOp
    <2>2. Promote
      <3>1. \A t : ~ClaimBackup(t) /\ ~Extract(t) /\ ~DeleteBackup(t)
        BY <2>1 DEF ClaimBackup, Extract, DeleteBackup, Begins
      <3>2. ~CheckTree /\ ~MoveAside /\ ~Rollback /\ ~Return
        BY DEF CheckTree, MoveAside, Return, Rollback, OpGoes
      <3>3. ~SaveMakesDir /\ ~CleanupSnapshots /\ ~Expire /\ ~CrashAndStart
        BY <2>1 DEF SaveMakesDir, CleanupSnapshots, Expire, CrashAndStart
      <3>4. QED
        BY <3>1, <3>2, <3>3 DEF RestoreNext
    <2>3. ~OpGoes("promoting", AfterFailure)
      <3>1. ASSUME OpGoes("promoting", AfterFailure)
            PROVE  FALSE
        <4>1. op'.pc = AfterFailure
          BY <3>1 DEF OpGoes, RInv, Typed
        <4>2. QED
          BY <2>1, <4>1 DEF AfterFailure
      <3>2. QED
        BY <3>1
    <2>4. /\ Live = {} /\ place' = [place EXCEPT ![op.tree] = "live"]
          /\ UNCHANGED <<old, disturbed, released>>
      BY <2>2, <2>3 DEF Promote, Vacant
    <2>5. op.tree \in Trees /\ op.aside # op.tree
      BY DEF RInv, OpOK
    <2>6. Live' = {op.tree}
      BY <2>4, <2>5 DEF Live, RInv, Typed
    <2>7. before.live = IF op.aside = NoTree THEN {} ELSE {op.aside}
      BY <2>4 DEF RInv, UndoOK
    <2>8. ASSUME NEW t \in before.live
          PROVE  t \in Listed' /\ (t \in old' => t \in released')
      <3>1. t = op.aside /\ t \in Trees /\ place[t] = "listed" /\ t # op.tree
        BY <2>5, <2>7 DEF RInv, OpOK
      <3>2. place'[t] = "listed"
        BY <2>4, <3>1 DEF RInv, Typed
      <3>3. QED
        BY <2>4, <3>1, <3>2 DEF Listed, RInv, AgeOK
    <2>9. QED
      BY <2>6, <2>8
  <1>2. QED
    BY Invariance, <1>1, PTL DEF RestoreSpec, SuccessIsReversible

\* A restore or an import happens as a whole or not at all, and either way no
\* tree is lost.
THEOREM RestoresAreAtomic == RestoreSpec => RestoreIsAtomic
  BY NoTreeLost, FailuresAreUndone, SuccessesAreReversible DEF RestoreIsAtomic
=============================================================================
