---------------------------- MODULE RoutinesProofs ----------------------------
(***************************************************************************)
(* What runs on its own: the inhibitor of the machine's sleep, for any     *)
(* number of callers and turns, and one scheduled task, for any number of  *)
(* runs, edits, kept rows, restarts and failed writes.                     *)
(***************************************************************************)
EXTENDS ScheduledTasks, WakeManager, FiniteSetTheorems, TLAPS

-----------------------------------------------------------------------------
(* The inhibitor. *)

\* At most one refresh runs since a read that found no other one.
OneRefresh ==
    ~stale => \A b, c \in WakeCallers : Refreshing(b) /\ Refreshing(c) => b = c

NoneChanged == \A c \in WakeCallers : caller[c].pc # "changed"
NoneRefreshing == \A c \in WakeCallers : ~Refreshing(c)

\* When every change has been read, the truth is on its way or stored.
NeedOnItsWay ==
    ~stale /\ NoneChanged =>
        /\ \A c \in WakeCallers :
            /\ caller[c].pc = "read" => caller[c].need = timed
            /\ caller[c].pc = "decided" => caller[c].need = Need
        /\ NoneRefreshing => wakeScheduled = Need

WInv == WakeTypeOK /\ LeaseFollowsFlags /\ OneRefresh /\ NeedOnItsWay

USE WakeAssumption

LEMMA InitWInv == WakeInit => WInv
  <1> SUFFICES ASSUME WakeInit PROVE WInv
    OBVIOUS
  <1>1. WakeTypeOK
    <2>1. /\ timed \in BOOLEAN /\ shelved \in BOOLEAN /\ wakeEnabled \in BOOLEAN
          /\ wakeScheduled \in BOOLEAN /\ wakeLease \in BOOLEAN
          /\ wakeError \in BOOLEAN /\ stale \in BOOLEAN
      BY Zenon DEF WakeInit, Need
    <2>2. wakeRuns \in 0..MaxWakeRuns
      BY DEF WakeInit
    <2>3. caller \in [WakeCallers -> [pc : CallerStates, need : BOOLEAN]]
      BY DEF WakeInit, CallerStates, Idle
    <2>4. QED
      BY <2>1, <2>2, <2>3 DEF WakeTypeOK
  <1>2. LeaseFollowsFlags
    <2>1. wakeRuns = 0 /\ wakeScheduled = FALSE /\ wakeLease = FALSE
      BY DEF WakeInit
    <2>2. ~(wakeRuns > 0)
      BY <2>1
    <2>3. ~Wanted
      BY <2>1, <2>2, Zenon DEF Wanted
    <2>4. QED
      BY <2>1, <2>3, Zenon DEF LeaseFollowsFlags
  <1>3. OneRefresh /\ NeedOnItsWay
    <2>1. \A c \in WakeCallers : caller[c].pc = "idle"
      BY DEF WakeInit, Idle
    <2>2. \A c \in WakeCallers : ~Refreshing(c)
      BY <2>1 DEF Refreshing
    <2>3. ~stale => wakeScheduled = Need
      BY Zenon DEF WakeInit, Need
    <2>4. QED
      BY <2>1, <2>2, <2>3 DEF OneRefresh, NeedOnItsWay
  <1>4. QED
    BY <1>1, <1>2, <1>3 DEF WInv

\* Whatever the lease was, its reconciliation leaves it as it is wanted.
LEMMA ReconciledFollows ==
  ASSUME WakeTypeOK, NEW enabled \in BOOLEAN, NEW turns \in Nat,
         NEW scheduled \in BOOLEAN, Reconciled(enabled, turns, scheduled)
  PROVE  LET wanted == enabled /\ (turns > 0 \/ scheduled)
         IN  /\ wakeLease' \in BOOLEAN /\ wakeError' \in BOOLEAN
             /\ wakeLease' => wanted
             /\ wanted => wakeLease' \/ wakeError'
  <1> DEFINE wanted == enabled /\ (turns > 0 \/ scheduled)
  <1>1. wanted \in BOOLEAN /\ wakeLease \in BOOLEAN /\ wakeError \in BOOLEAN
    BY DEF WakeTypeOK
  <1>2. \/ /\ ~wanted
           /\ wakeLease' = FALSE
           /\ wakeError' \in IF wakeLease THEN BOOLEAN ELSE {wakeError}
        \/ /\ wanted /\ wakeLease
           /\ wakeLease' = wakeLease /\ wakeError' = wakeError
        \/ /\ wanted /\ ~wakeLease
           /\ wakeLease' \in BOOLEAN
           /\ wakeError' = ~wakeLease'
    BY DEF Reconciled
  <1> HIDE DEF wanted
  <1>3. QED
    <2> SUFFICES /\ wakeLease' \in BOOLEAN /\ wakeError' \in BOOLEAN
                 /\ wakeLease' => wanted
                 /\ wanted => wakeLease' \/ wakeError'
      BY DEF wanted
    <2> QED
      BY <1>1, <1>2

LEMMA NextType ==
  ASSUME WakeTypeOK, [WakeNext]_wakeVars
  PROVE  WakeTypeOK'
  <1> USE DEF WakeTypeOK, CallerStates, Idle
  <1>1. CASE BeginWakeRun
    BY <1>1, ReconciledFollows DEF BeginWakeRun
  <1>2. CASE EndWakeRun
    BY <1>2, ReconciledFollows DEF EndWakeRun
  <1>3. ASSUME NEW c \in WakeCallers, NEW enabled \in BOOLEAN, StoreEnabled(c, enabled)
        PROVE  WakeTypeOK'
    BY <1>3 DEF StoreEnabled
  <1>4. ASSUME NEW c \in WakeCallers, ChangeTasks(c)
        PROVE  WakeTypeOK'
    BY <1>4 DEF ChangeTasks
  <1>5. ASSUME NEW c \in WakeCallers, ChangeArchive(c)
        PROVE  WakeTypeOK'
    BY <1>5 DEF ChangeArchive
  <1>6. ASSUME NEW c \in WakeCallers, ReadTasks(c)
        PROVE  WakeTypeOK'
    <2> DEFINE found == [pc |-> "read", need |-> timed]
    <2>1. timed \in BOOLEAN
      OBVIOUS
    <2>2. found \in [pc : CallerStates, need : BOOLEAN]
      BY <2>1
    <2>3. Idle \in [pc : CallerStates, need : BOOLEAN]
      OBVIOUS
    <2>4. \/ caller' = [caller EXCEPT ![c] = found]
          \/ caller' = [caller EXCEPT ![c] = Idle]
      BY <1>6, Zenon DEF ReadTasks
    <2> HIDE DEF found
    <2>5. caller' \in [WakeCallers -> [pc : CallerStates, need : BOOLEAN]]
      BY <2>2, <2>3, <2>4
    <2>6. stale' \in BOOLEAN
      BY <1>6, Zenon DEF ReadTasks
    <2>7. UNCHANGED <<timed, shelved, wakeEnabled, wakeRuns, wakeScheduled,
                      wakeLease, wakeError>>
      BY <1>6 DEF ReadTasks
    <2>8. QED
      BY <2>5, <2>6, <2>7
  <1>7. ASSUME NEW c \in WakeCallers, LookUpArchive(c)
        PROVE  WakeTypeOK'
    <2>1. Decided(c) \in BOOLEAN
      BY DEF Decided
    <2> DEFINE new == [pc |-> "decided", need |-> Decided(c)]
    <2>2. new \in [pc : CallerStates, need : BOOLEAN]
      BY <2>1
    <2>3. /\ caller' = [caller EXCEPT ![c] = new]
          /\ UNCHANGED <<timed, shelved, wakeEnabled, wakeRuns, wakeScheduled,
                         wakeLease, wakeError, stale>>
      BY <1>7 DEF LookUpArchive
    <2> HIDE DEF new
    <2>4. QED
      BY <2>2, <2>3
  <1>8. ASSUME NEW c \in WakeCallers, StoreNeed(c)
        PROVE  WakeTypeOK'
    BY <1>8 DEF StoreNeed
  <1>9. ASSUME NEW c \in WakeCallers, Reconcile(c)
        PROVE  WakeTypeOK'
    BY <1>9, ReconciledFollows DEF Reconcile
  <1>10. CASE UNCHANGED wakeVars
    BY <1>10 DEF wakeVars
  <1>11. QED
    BY <1>1, <1>2, <1>3, <1>4, <1>5, <1>6, <1>7, <1>8, <1>9, <1>10
       DEF WakeNext, WakeStep

\* A step that reconciles leaves the lease as it is wanted; a step that stores
\* a flag owes a reconciliation; the others leave flags and lease alone.
LEMMA NextLease ==
  ASSUME WakeTypeOK, WakeTypeOK', LeaseFollowsFlags, [WakeNext]_wakeVars
  PROVE  LeaseFollowsFlags'
  <1>1. ASSUME Reconciled(wakeEnabled, wakeRuns', wakeScheduled),
               wakeEnabled' = wakeEnabled, wakeScheduled' = wakeScheduled
        PROVE  LeaseFollowsFlags'
    <2>1. /\ wakeEnabled \in BOOLEAN /\ wakeScheduled \in BOOLEAN /\ wakeRuns' \in Nat
      BY DEF WakeTypeOK
    <2>2. /\ wakeLease' => wakeEnabled /\ (wakeRuns' > 0 \/ wakeScheduled)
          /\ wakeEnabled /\ (wakeRuns' > 0 \/ wakeScheduled) => wakeLease' \/ wakeError'
      BY <1>1, <2>1, ReconciledFollows
    <2>3. Wanted' <=> wakeEnabled /\ (wakeRuns' > 0 \/ wakeScheduled)
      BY <1>1 DEF Wanted
    <2>4. QED
      BY <2>2, <2>3 DEF LeaseFollowsFlags
  <1>2. ASSUME NEW c \in WakeCallers, caller'[c].pc = "stored"
        PROVE  LeaseFollowsFlags'
    BY <1>2 DEF LeaseFollowsFlags
  <1>3. ASSUME UNCHANGED <<wakeEnabled, wakeRuns, wakeScheduled, wakeLease, wakeError>>,
               \A c \in WakeCallers : caller[c].pc = "stored" => caller'[c].pc = "stored"
        PROVE  LeaseFollowsFlags'
    <2>1. Wanted' = Wanted
      BY <1>3 DEF Wanted
    <2>2. QED
      BY <1>3, <2>1 DEF LeaseFollowsFlags
  <1>4. CASE BeginWakeRun
    BY <1>1, <1>4 DEF BeginWakeRun
  <1>5. CASE EndWakeRun
    BY <1>1, <1>5 DEF EndWakeRun
  <1>6. ASSUME NEW c \in WakeCallers, NEW enabled \in BOOLEAN, StoreEnabled(c, enabled)
        PROVE  LeaseFollowsFlags'
    BY <1>2, <1>6 DEF StoreEnabled, WakeTypeOK
  <1>7. ASSUME NEW c \in WakeCallers,
               ChangeTasks(c) \/ ChangeArchive(c) \/ ReadTasks(c) \/ LookUpArchive(c)
        PROVE  LeaseFollowsFlags'
    <2>1. /\ UNCHANGED <<wakeEnabled, wakeRuns, wakeScheduled, wakeLease, wakeError>>
          /\ caller[c].pc # "stored"
          /\ \A b \in WakeCallers \ {c} : caller'[b] = caller[b]
      BY <1>7 DEF ChangeTasks, ChangeArchive, ReadTasks, LookUpArchive, WakeTypeOK
    <2>2. QED
      BY <1>3, <2>1
  <1>8. ASSUME NEW c \in WakeCallers, StoreNeed(c)
        PROVE  LeaseFollowsFlags'
    BY <1>2, <1>8 DEF StoreNeed, WakeTypeOK
  <1>9. ASSUME NEW c \in WakeCallers, Reconcile(c)
        PROVE  LeaseFollowsFlags'
    BY <1>1, <1>9 DEF Reconcile
  <1>10. CASE UNCHANGED wakeVars
    BY <1>3, <1>10 DEF wakeVars
  <1>11. QED
    BY <1>4, <1>5, <1>6, <1>7, <1>8, <1>9, <1>10 DEF WakeNext, WakeStep

\* A refresh is alone, or a later read has marked the flag as stale.
LEMMA NextAlone ==
  ASSUME WakeTypeOK, OneRefresh, [WakeNext]_wakeVars
  PROVE  OneRefresh'
  <1>1. ASSUME NEW c \in WakeCallers, ~Refreshing(c)',
               \A b \in WakeCallers \ {c} : caller'[b] = caller[b],
               stale' = stale
        PROVE  OneRefresh'
    BY <1>1 DEF OneRefresh, Refreshing
  <1>2. ASSUME UNCHANGED <<caller, stale>>
        PROVE  OneRefresh'
    BY <1>2 DEF OneRefresh, Refreshing
  <1>3. CASE BeginWakeRun \/ EndWakeRun
    BY <1>2, <1>3 DEF BeginWakeRun, EndWakeRun
  <1>4. ASSUME NEW c \in WakeCallers, NEW enabled \in BOOLEAN,
               \/ StoreEnabled(c, enabled) \/ ChangeTasks(c) \/ ChangeArchive(c)
               \/ StoreNeed(c) \/ Reconcile(c)
        PROVE  OneRefresh'
    <2>1. /\ caller'[c].pc \in {"stored", "changed", "idle"}
          /\ \A b \in WakeCallers \ {c} : caller'[b] = caller[b]
          /\ stale' = stale
      BY <1>4 DEF StoreEnabled, ChangeTasks, ChangeArchive, StoreNeed, Reconcile,
                  WakeTypeOK, Idle
    <2>2. ~Refreshing(c)'
      BY <2>1 DEF Refreshing
    <2>3. QED
      BY <1>1, <2>1, <2>2
  <1>5. ASSUME NEW c \in WakeCallers, ReadTasks(c)
        PROVE  OneRefresh'
    <2>1. \A b \in WakeCallers \ {c} : caller'[b] = caller[b]
      BY <1>5 DEF ReadTasks, WakeTypeOK
    <2>2. stale' \/ \A b \in WakeCallers \ {c} : ~Refreshing(b)
      BY <1>5, Zenon DEF ReadTasks
    <2>3. QED
      BY <2>1, <2>2 DEF OneRefresh, Refreshing
  <1>6. ASSUME NEW c \in WakeCallers, LookUpArchive(c)
        PROVE  OneRefresh'
    <2>1. /\ Refreshing(c)
          /\ \A b \in WakeCallers \ {c} : caller'[b] = caller[b]
          /\ stale' = stale
      BY <1>6 DEF LookUpArchive, WakeTypeOK, Refreshing
    <2>2. QED
      BY <2>1 DEF OneRefresh, Refreshing
  <1>7. CASE UNCHANGED wakeVars
    BY <1>2, <1>7 DEF wakeVars
  <1>8. QED
    BY <1>3, <1>4, <1>5, <1>6, <1>7 DEF WakeNext, WakeStep

LEMMA NextOnItsWay ==
  ASSUME WakeTypeOK, OneRefresh, OneRefresh', NeedOnItsWay, [WakeNext]_wakeVars
  PROVE  NeedOnItsWay'
  <1>1. ASSUME UNCHANGED <<timed, shelved, wakeScheduled, stale>>,
               \A c \in WakeCallers :
                    \/ caller'[c] = caller[c]
                    \/ ~Refreshing(c) /\ ~Refreshing(c)' /\ caller[c].pc # "changed"
        PROVE  NeedOnItsWay'
    <2>1. NoneChanged' => NoneChanged
      BY <1>1 DEF NoneChanged
    <2>2. NoneRefreshing' => NoneRefreshing
      BY <1>1 DEF NoneRefreshing, Refreshing
    <2>3. Need' = Need
      BY <1>1 DEF Need
    <2>4. \A c \in WakeCallers : Refreshing(c)' => caller'[c] = caller[c]
      BY <1>1
    <2>5. QED
      BY <1>1, <2>1, <2>2, <2>3, <2>4 DEF NeedOnItsWay, Refreshing
  <1>2. CASE BeginWakeRun \/ EndWakeRun
    BY <1>1, <1>2 DEF BeginWakeRun, EndWakeRun
  <1>3. ASSUME NEW c \in WakeCallers, NEW enabled \in BOOLEAN,
               StoreEnabled(c, enabled) \/ Reconcile(c)
        PROVE  NeedOnItsWay'
    <2>1. /\ UNCHANGED <<timed, shelved, wakeScheduled, stale>>
          /\ \A b \in WakeCallers \ {c} : caller'[b] = caller[b]
          /\ caller[c].pc \in {"idle", "stored"} /\ caller'[c].pc \in {"idle", "stored"}
      BY <1>3 DEF StoreEnabled, Reconcile, WakeTypeOK, Idle
    <2>2. ~Refreshing(c) /\ ~Refreshing(c)' /\ caller[c].pc # "changed"
      BY <2>1 DEF Refreshing
    <2>3. QED
      BY <1>1, <2>1, <2>2
  <1>4. ASSUME NEW c \in WakeCallers, ChangeTasks(c) \/ ChangeArchive(c)
        PROVE  NeedOnItsWay'
    <2>1. caller'[c].pc = "changed"
      BY <1>4 DEF ChangeTasks, ChangeArchive, WakeTypeOK
    <2>2. QED
      BY <2>1 DEF NeedOnItsWay, NoneChanged
  <1>5. ASSUME NEW c \in WakeCallers, ReadTasks(c)
        PROVE  NeedOnItsWay'
    <2>1. CASE stale'
      BY <2>1 DEF NeedOnItsWay
    <2>2. CASE ~stale'
      <3>1. /\ caller' = [caller EXCEPT ![c] = [pc |-> "read", need |-> timed]]
            /\ \A b \in WakeCallers \ {c} : ~Refreshing(b)
        BY <1>5, <2>2, Zenon DEF ReadTasks
      <3>2. /\ caller'[c].pc = "read" /\ caller'[c].need = timed
            /\ \A b \in WakeCallers \ {c} : caller'[b] = caller[b]
            /\ timed' = timed
        BY <1>5, <3>1 DEF WakeTypeOK, ReadTasks
      <3>3. Refreshing(c)' /\ \A b \in WakeCallers \ {c} : ~Refreshing(b)'
        BY <3>1, <3>2 DEF Refreshing
      <3>4. QED
        BY <3>2, <3>3 DEF NeedOnItsWay, NoneRefreshing, Refreshing
    <2>3. QED
      BY <2>1, <2>2
  <1>6. ASSUME NEW c \in WakeCallers, LookUpArchive(c)
        PROVE  NeedOnItsWay'
    <2>1. /\ caller[c].pc = "read"
          /\ caller'[c].pc = "decided" /\ caller'[c].need = Decided(c)
          /\ \A b \in WakeCallers \ {c} : caller'[b] = caller[b]
          /\ UNCHANGED <<timed, shelved, wakeScheduled, stale>>
      BY <1>6 DEF LookUpArchive, WakeTypeOK
    <2>2. Refreshing(c) /\ Refreshing(c)'
      BY <2>1 DEF Refreshing
    <2>3. Need' = Need
      BY <2>1 DEF Need
    <2>4. SUFFICES ASSUME ~stale', NoneChanged'
                   PROVE  /\ \A b \in WakeCallers :
                              /\ caller'[b].pc = "read" => caller'[b].need = timed'
                              /\ caller'[b].pc = "decided" => caller'[b].need = Need'
                          /\ NoneRefreshing' => wakeScheduled' = Need'
      BY DEF NeedOnItsWay
    <2>5. ~stale /\ NoneChanged
      BY <2>1, <2>4 DEF NoneChanged
    <2>6. \A b \in WakeCallers :
            /\ caller[b].pc = "read" => caller[b].need = timed
            /\ caller[b].pc = "decided" => caller[b].need = Need
      BY <2>5 DEF NeedOnItsWay
    <2>7. caller[c].need = timed
      BY <2>1, <2>6
    <2>8. Decided(c) = Need
      BY <2>7 DEF Decided, Need
    <2>9. QED
      BY <2>1, <2>2, <2>3, <2>6, <2>8 DEF NoneRefreshing
  <1>7. ASSUME NEW c \in WakeCallers, StoreNeed(c)
        PROVE  NeedOnItsWay'
    <2>1. /\ caller[c].pc = "decided" /\ caller'[c].pc = "stored"
          /\ \A b \in WakeCallers \ {c} : caller'[b] = caller[b]
          /\ UNCHANGED <<timed, shelved, stale>>
          /\ wakeScheduled' = caller[c].need
      BY <1>7 DEF StoreNeed, WakeTypeOK
    <2>2. Need' = Need
      BY <2>1 DEF Need
    <2>3. SUFFICES ASSUME ~stale', NoneChanged'
                   PROVE  /\ \A b \in WakeCallers :
                              /\ caller'[b].pc = "read" => caller'[b].need = timed'
                              /\ caller'[b].pc = "decided" => caller'[b].need = Need'
                          /\ wakeScheduled' = Need'
      BY DEF NeedOnItsWay
    <2>4. ~stale /\ NoneChanged
      BY <2>1, <2>3 DEF NoneChanged
    <2>5. \A b \in WakeCallers :
            /\ caller[b].pc = "read" => caller[b].need = timed
            /\ caller[b].pc = "decided" => caller[b].need = Need
      BY <2>4 DEF NeedOnItsWay
    <2>6. wakeScheduled' = Need
      BY <2>1, <2>5
    <2>7. QED
      BY <2>1, <2>2, <2>5, <2>6
  <1>8. CASE UNCHANGED wakeVars
    BY <1>1, <1>8 DEF wakeVars
  <1>9. QED
    BY <1>2, <1>3, <1>4, <1>5, <1>6, <1>7, <1>8 DEF WakeNext, WakeStep

LEMMA Invariance == WakeSpec => []WInv
  <1>1. WInv /\ [WakeNext]_wakeVars => WInv'
    BY NextType, NextLease, NextAlone, NextOnItsWay DEF WInv
  <1>2. QED
    BY InitWInv, <1>1, PTL DEF WakeSpec

-----------------------------------------------------------------------------
\* The count of turns, the flags and the callers keep their types.
THEOREM TypeCorrect == WakeSpec => []WakeTypeOK
  <1>1. WInv => WakeTypeOK
    BY DEF WInv
  <1>2. QED
    BY Invariance, <1>1, PTL

\* The lease of the machine's sleep (reconcileWakeLocked) is held exactly when
\* it is wanted, up to an acquisition that failed.
THEOREM LeaseIsRight == WakeSpec => []LeaseFollowsFlags
  <1>1. WInv => LeaseFollowsFlags
    BY DEF WInv
  <1>2. QED
    BY Invariance, <1>1, PTL

\* refreshScheduledWakeNeed, when it does not overlap with another call of
\* itself, leaves the truth about the tasks and the archive in the cache.
THEOREM CacheIsCurrent == WakeSpec => []NeedIsCurrent
  <1>1. WInv => NeedIsCurrent
    <2>1. ASSUME \A c \in WakeCallers : caller[c].pc \in {"idle", "stored"}
          PROVE  NoneChanged /\ NoneRefreshing
      BY <2>1 DEF NoneChanged, NoneRefreshing, Refreshing
    <2>2. QED
      BY <2>1 DEF WInv, NeedOnItsWay, NeedIsCurrent
  <1>2. QED
    BY Invariance, <1>1, PTL

\* The cached need and the lease follow the tasks, the turns and the setting.
THEOREM WakeIsRight == WakeSpec => []WakeFollowsTasks
  BY LeaseIsRight, CacheIsCurrent, PTL DEF WakeFollowsTasks

-----------------------------------------------------------------------------
(* One scheduled task, its runs and their chats. *)

TaskSet == [version : 0..MaxVersions, lastAt : 0..MaxClock, lastID : Runs \union {None},
            lastStatus : Terminal \union LiveSummary \union {""}]
RowSet == [at : 0..MaxClock, end : 0..MaxClock, born : Nat,
           status : Terminal \union {"running", "none"}]
JobSet == [pc : JobPhases, version : 0..MaxVersions, at : 0..MaxClock,
           verdict : Terminal \union {""}]

\* There is one live row at most, a dispatcher has no row before it publishes
\* one, and the rows of a task go with it.
RowShape == \A d \in Runs : runs[d].status = "none" => runs[d] = NoRow
Unpublished == {"unused", "taken", "created", "discarding", "refused"}
OneLive == \A d, e \in LiveRows : d = e
FreshRow == \A d \in Runs : job[d].pc \in Unpublished => d \notin RowIDs
RowsOK ==
    /\ OneLive
    /\ FreshRow
    /\ task = NoTask => RowIDs = {}
    /\ scheduler = "repairing" => LiveRows = {}

\* A turn works for the run that owns the live row, unless the row was taken,
\* and a monitor that settles has a verdict.
WorkOK ==
    /\ \A d \in Runs : chat[d] = "working" =>
        /\ ~quitting
        /\ job[d].pc \in {"claimed", "watching"}
        /\ d \in LiveRows \union disowned
    /\ quitting => "restart" \in spent
VerdictOK ==
    \A d \in Runs :
        job[d].pc \in {"refused", "finishing", "settling"} => job[d].verdict \in Terminal

\* Who will replace a card that says "running" or "dispatching".
Quiet == scheduler = "loop" /\ "fault" \notin spent
RunningCard ==
    Quiet /\ task.lastStatus = "running" =>
        /\ task.lastID \in Runs
        /\ \/ /\ job[task.lastID].pc \in {"claimed", "watching", "finishing"}
              /\ task.lastID \notin OverRows
           \/ job[task.lastID].pc = "settling"
DueOK ==
    due # None =>
        /\ scheduler = "loop"
        /\ job[due].pc \notin {"unused", "watching", "done"}
        /\ job[due].pc \in {"appended", "claimed", "finishing"} => due \notin OverRows
        /\ job[due].pc = "claimed" => task.lastStatus # "dispatching"
DueCard ==
    Quiet /\ task.lastStatus = "dispatching" =>
        /\ due # None /\ task.lastID = None /\ task.lastAt <= clock
        /\ job[due].pc \in {"created", "appended", "finishing", "settling"}
            => task.lastAt <= job[due].at

TInv ==
    /\ TaskTypeOK /\ RowShape /\ RowsOK /\ WorkOK /\ VerdictOK
    /\ CardShowsRun /\ RunningCard /\ DueOK /\ DueCard /\ NoStrayChild

HIDE WakeAssumption
USE ScheduledAssumption

LEMMA TaskTypes ==
  TaskTypeOK <=> /\ task \in TaskSet /\ runs \in [Runs -> RowSet] /\ recorded \in Nat
                 /\ chat \in [Runs -> ChatStates] /\ job \in [Runs -> JobSet]
                 /\ scheduler \in {"starting", "repairing", "loop"}
                 /\ due \in Runs \union {None}
                 /\ source \in BOOLEAN /\ quitting \in BOOLEAN
                 /\ deleter \in [pc : {"none", "previewed", "finishing"}, data : BOOLEAN,
                                 expected : SUBSET Runs, todo : SUBSET Runs]
                 /\ reaping \subseteq Runs /\ disowned \subseteq Runs
                 /\ clock \in 1..MaxClock /\ spent \subseteq Events
  BY DEF TaskTypeOK, TaskSet, RowSet, JobSet

LEMMA BoundsAre ==
  /\ MaxRuns \in Nat \ {0} /\ MaxVersions \in Nat \ {0} /\ MaxClock \in Nat \ {0}
  /\ 0 \in 0..MaxClock /\ 0 \in 0..MaxVersions
  <1>1. MaxRuns \in Nat \ {0} /\ MaxVersions \in Nat \ {0} /\ MaxClock \in Nat \ {0}
    OBVIOUS
  <1>2. QED
    BY <1>1

-----------------------------------------------------------------------------
(* Cards, rows and jobs. *)

LEMMA CardTyped ==
  ASSUME NEW t \in TaskSet, NEW at \in 0..MaxClock, NEW id \in Runs \union {None},
         NEW s \in Terminal \union LiveSummary
  PROVE  /\ Card(t, at, id, s) \in TaskSet
         /\ Card(t, at, id, s).version = t.version /\ Card(t, at, id, s).lastAt = at
         /\ Card(t, at, id, s).lastID = id /\ Card(t, at, id, s).lastStatus = s
         /\ Card(t, at, id, s) # NoTask
  <1>1. s # ""
    BY DEF Terminal, LiveSummary
  <1>2. QED
    BY <1>1 DEF Card, TaskSet, NoTask

\* The cards of a dispatch that is due and of one that was refused.
LEMMA UnnamedCard ==
  ASSUME NEW t \in TaskSet, NEW at \in 0..MaxClock, NEW s \in Terminal \union {"dispatching"}
  PROVE  /\ Card(t, at, None, s) \in TaskSet /\ Card(t, at, None, s) # NoTask
         /\ Card(t, at, None, s).lastAt = at /\ Card(t, at, None, s).lastID = None
         /\ Card(t, at, None, s).lastStatus = s
  <1>1. s \in Terminal \union LiveSummary
    BY DEF Terminal, LiveSummary
  <1>2. ASSUME NEW id \in Runs \union {None}
        PROVE  /\ Card(t, at, id, s) \in TaskSet /\ Card(t, at, id, s) # NoTask
               /\ Card(t, at, id, s).lastAt = at /\ Card(t, at, id, s).lastID = id
               /\ Card(t, at, id, s).lastStatus = s
    BY <1>1, CardTyped
  <1>3. QED
    BY <1>2

LEMMA NoTaskTyped == NoTask \in TaskSet /\ NoTask.lastStatus = ""
  BY DEF NoTask, TaskSet

LEMMA NoRowTyped ==
  /\ NoRow \in RowSet /\ NoRow.status = "none"
  /\ "none" \notin Terminal /\ "running" \notin Terminal
  BY DEF NoRow, RowSet, Terminal

\* The rows there are: live and terminal ones.
LEMMA RowKinds ==
  ASSUME TaskTypeOK, RowShape
  PROVE  RowIDs = LiveRows \union OverRows /\ LiveRows \intersect OverRows = {}
  <1>1. \A d \in Runs : runs[d].status \in Terminal \union {"running", "none"}
    BY TaskTypes DEF RowSet
  <1>2. QED
    BY <1>1, NoRowTyped DEF RowShape, RowIDs, LiveRows, OverRows

\* fitScheduledTaskRuns keeps a row as it is or drops it, and drops no live one.
LEMMA FitKeeps ==
  ASSUME NEW rows \in [Runs -> RowSet]
  PROVE  /\ FitRows(rows) \in [Runs -> RowSet]
         /\ \A d \in Runs : FitRows(rows)[d] \in {rows[d], NoRow}
         /\ \A d \in Runs : rows[d].status = "running" => FitRows(rows)[d] = rows[d]
  BY NoRowTyped DEF FitRows

LEMMA NoJobTyped ==
  ASSUME NEW p \in JobPhases, NEW v \in 0..MaxVersions
  PROVE  /\ [NoJob EXCEPT !.pc = p] \in JobSet /\ [NoJob EXCEPT !.pc = p].pc = p
         /\ [NoJob EXCEPT !.pc = p, !.version = v] \in JobSet
         /\ [NoJob EXCEPT !.pc = p, !.version = v].pc = p
  <1>1. NoJob \in JobSet
    BY BoundsAre DEF NoJob, JobSet, JobPhases
  <1>2. ASSUME NEW j \in JobSet
        PROVE  /\ [j EXCEPT !.pc = p] \in JobSet /\ [j EXCEPT !.pc = p].pc = p
               /\ [j EXCEPT !.pc = p, !.version = v] \in JobSet
               /\ [j EXCEPT !.pc = p, !.version = v].pc = p
    BY DEF JobSet
  <1>3. QED
    BY <1>1, <1>2

\* The goroutine of d is now at p, and the others where they were.
Moved(d, p) ==
    /\ job' \in [Runs -> JobSet] /\ job'[d].pc = p
    /\ \A e \in Runs \ {d} : job'[e] = job[e]

LEMMA JobWritten ==
  ASSUME TaskTypeOK, NEW d \in Runs, NEW p \in JobPhases, NEW at \in 0..MaxClock,
         NEW v \in Terminal \union {""}, Job(d, p, at, v)
  PROVE  Moved(d, p) /\ job'[d].at = at /\ job'[d].verdict = v
  <1>1. job \in [Runs -> JobSet]
    BY TaskTypes
  <1>2. job' = [job EXCEPT ![d] = [job[d] EXCEPT !.pc = p, !.at = at, !.verdict = v]]
    BY <1>1 DEF Job, JobSet
  <1> DEFINE j == [job[d] EXCEPT !.pc = p, !.at = at, !.verdict = v]
  <1>3. j \in JobSet /\ j.pc = p /\ j.at = at /\ j.verdict = v
    BY <1>1 DEF JobSet
  <1>4. job' = [job EXCEPT ![d] = j]
    BY <1>2
  <1>5. QED
    <2> HIDE DEF j
    <2>1. job' \in [Runs -> JobSet] /\ job'[d] = j /\ \A e \in Runs \ {d} : job'[e] = job[e]
      BY <1>1, <1>3, <1>4
    <2>2. QED
      BY <1>3, <2>1 DEF Moved

LEMMA PcWritten ==
  ASSUME TaskTypeOK, NEW d \in Runs, NEW p \in JobPhases, job' = [job EXCEPT ![d].pc = p]
  PROVE  Moved(d, p) /\ job'[d].at = job[d].at /\ job'[d].verdict = job[d].verdict
  <1>1. job \in [Runs -> JobSet]
    BY TaskTypes
  <1>2. job' = [job EXCEPT ![d] = [job[d] EXCEPT !.pc = p]]
    BY <1>1
  <1> DEFINE j == [job[d] EXCEPT !.pc = p]
  <1>3. j \in JobSet /\ j.pc = p /\ j.at = job[d].at /\ j.verdict = job[d].verdict
    BY <1>1 DEF JobSet
  <1>4. job' = [job EXCEPT ![d] = j]
    BY <1>2
  <1>5. QED
    <2> HIDE DEF j
    <2>1. job' \in [Runs -> JobSet] /\ job'[d] = j /\ \A e \in Runs \ {d} : job'[e] = job[e]
      BY <1>1, <1>3, <1>4
    <2>2. QED
      BY <1>3, <2>1 DEF Moved

LEMMA VerdictWritten ==
  ASSUME TaskTypeOK, NEW d \in Runs, NEW p \in JobPhases, NEW v \in Terminal,
         job' = [job EXCEPT ![d].pc = p, ![d].verdict = v]
  PROVE  Moved(d, p) /\ job'[d].at = job[d].at /\ job'[d].verdict = v
  <1>1. job \in [Runs -> JobSet]
    BY TaskTypes
  <1>2. job' = [job EXCEPT ![d] = [job[d] EXCEPT !.pc = p, !.verdict = v]]
    BY <1>1 DEF JobSet
  <1> DEFINE j == [job[d] EXCEPT !.pc = p, !.verdict = v]
  <1>3. j \in JobSet /\ j.pc = p /\ j.at = job[d].at /\ j.verdict = v
    BY <1>1 DEF JobSet
  <1>4. job' = [job EXCEPT ![d] = j]
    BY <1>2
  <1>5. QED
    <2> HIDE DEF j
    <2>1. job' \in [Runs -> JobSet] /\ job'[d] = j /\ \A e \in Runs \ {d} : job'[e] = job[e]
      BY <1>1, <1>3, <1>4
    <2>2. QED
      BY <1>3, <2>1 DEF Moved

LEMMA DoneWritten ==
  ASSUME TaskTypeOK, NEW d \in Runs, Done(d)
  PROVE  Moved(d, "done") /\ due' = (IF due = d THEN None ELSE due)
  <1>1. job \in [Runs -> JobSet]
    BY TaskTypes
  <1>2. [NoJob EXCEPT !.pc = "done"] \in JobSet /\ [NoJob EXCEPT !.pc = "done"].pc = "done"
    BY BoundsAre, NoJobTyped DEF JobPhases
  <1>3. QED
    BY <1>1, <1>2 DEF Done, Moved

LEMMA TakenWritten ==
  ASSUME TaskTypeOK, NEW d \in Runs,
         job' = [job EXCEPT ![d] = [NoJob EXCEPT !.pc = "taken", !.version = task.version]]
  PROVE  Moved(d, "taken")
  <1>1. job \in [Runs -> JobSet] /\ task \in TaskSet
    BY TaskTypes
  <1>2. task.version \in 0..MaxVersions /\ "taken" \in JobPhases
    BY <1>1 DEF TaskSet, JobPhases
  <1>3. /\ [NoJob EXCEPT !.pc = "taken", !.version = task.version] \in JobSet
        /\ [NoJob EXCEPT !.pc = "taken", !.version = task.version].pc = "taken"
    BY <1>2, NoJobTyped
  <1>4. QED
    BY <1>1, <1>3 DEF Moved

-----------------------------------------------------------------------------
(* What each step of a run does to the books. *)

LEMMA PublishIs ==
  ASSUME TaskTypeOK, NEW d \in Runs, Publish(d)
  PROVE  \/ /\ Moved(d, "appended") /\ job'[d].at = job[d].at
            /\ task # NoTask /\ LiveRows = {} /\ spent' = spent
            /\ runs' \in [Runs -> RowSet] /\ runs'[d].status = "running" /\ runs'[d] # NoRow
            /\ \A e \in Runs \ {d} : runs'[e] \in {runs[e], NoRow}
            /\ recorded' \in Nat /\ reaping' \subseteq Runs /\ reaping \subseteq reaping'
            /\ ~quitting => RowIDs \subseteq {e \in Runs : runs'[e] # NoRow} \union reaping'
         \/ /\ Moved(d, "discarding")
            /\ UNCHANGED <<runs, recorded, reaping>>
            /\ spent' = spent \/ (spent' = spent \union {"fault"} /\ "fault" \in Events)
  <1> DEFINE row == [at |-> job[d].at, end |-> 0, born |-> recorded + 1, status |-> "running"]
  <1> DEFINE next == [runs EXCEPT ![d] = row]
  <1>1. /\ job \in [Runs -> JobSet] /\ runs \in [Runs -> RowSet] /\ recorded \in Nat
        /\ reaping \subseteq Runs
    BY TaskTypes
  <1>2. row \in RowSet
    <2>1. job[d].at \in 0..MaxClock
      BY <1>1 DEF JobSet
    <2>2. recorded + 1 \in Nat
      BY <1>1
    <2>3. QED
      BY <2>1, <2>2, BoundsAre DEF RowSet
  <1>3. next \in [Runs -> RowSet] /\ next[d].status = "running"
    BY <1>1, <1>2
  <1>4. CASE /\ NoFault /\ SameExecution(d) /\ NoOtherRun
             /\ runs' = FitRows(next) /\ recorded' = recorded + 1
             /\ reaping' = (IF quitting THEN reaping
                            ELSE reaping \union {e \in RowIDs : runs'[e] = NoRow})
             /\ job' = [job EXCEPT ![d].pc = "appended"]
    <2>1. Moved(d, "appended") /\ job'[d].at = job[d].at
      BY <1>4, PcWritten DEF JobPhases
    <2>2. task # NoTask /\ LiveRows = {} /\ spent' = spent
      BY <1>4 DEF SameExecution, NoOtherRun, NoFault
    <2>3. /\ runs' \in [Runs -> RowSet] /\ runs'[d] = next[d]
          /\ \A e \in Runs : runs'[e] \in {next[e], NoRow}
      <3> HIDE DEF next
      <3>1. QED
        BY <1>3, <1>4, FitKeeps
    <2>4. \A e \in Runs \ {d} : runs'[e] \in {runs[e], NoRow}
      BY <1>1, <2>3
    <2>5. runs'[d].status = "running" /\ runs'[d] # NoRow
      BY <1>3, <2>3, NoRowTyped
    <2>6. /\ recorded' \in Nat /\ reaping' \subseteq Runs /\ reaping \subseteq reaping'
          /\ ~quitting => RowIDs \subseteq {e \in Runs : runs'[e] # NoRow} \union reaping'
      BY <1>1, <1>4 DEF RowIDs
    <2>7. QED
      BY <2>1, <2>2, <2>3, <2>4, <2>5, <2>6
  <1>5. CASE /\ \/ ~(SameExecution(d) /\ NoOtherRun) /\ NoFault
                \/ Fault
             /\ job' = [job EXCEPT ![d].pc = "discarding"]
             /\ UNCHANGED <<index, reaping>>
    <2>1. Moved(d, "discarding")
      BY <1>5, PcWritten DEF JobPhases
    <2>2. spent' = spent \/ (spent' = spent \union {"fault"} /\ "fault" \in Events)
      BY <1>5 DEF NoFault, Fault, Spend, CanStill
    <2>3. QED
      BY <1>5, <2>1, <2>2 DEF index
  <1>6. QED
    BY <1>4, <1>5 DEF Publish

LEMMA RefusalIs ==
  ASSUME TaskTypeOK, VerdictOK, NEW d \in Runs, ReportRefusal(d)
  PROVE  /\ task' \in TaskSet /\ job[d].verdict \in Terminal
         /\ \/ /\ task' = task
               /\ \/ "fault" \in spent' \/ task = NoTask
                  \/ task.lastID # None /\ task.lastStatus \in LiveSummary
            \/ /\ task # NoTask /\ task' = Card(task, job[d].at, None, job[d].verdict)
               /\ ~(task.lastID # None /\ task.lastStatus \in LiveSummary)
  <1>1. task \in TaskSet /\ job[d].at \in 0..MaxClock /\ job[d].verdict \in Terminal
    BY TaskTypes DEF JobSet, ReportRefusal, VerdictOK
  <1>2. Card(task, job[d].at, None, job[d].verdict) \in TaskSet
    BY <1>1, UnnamedCard
  <1>3. QED
    BY <1>1, <1>2 DEF ReportRefusal, CardAfterRefusal, Fault, Spend

LEMMA SettleIs ==
  ASSUME TaskTypeOK, VerdictOK, NEW d \in Runs, Settle(d)
  PROVE  /\ task' \in TaskSet /\ job[d].verdict \in Terminal
         /\ \/ /\ task' = task
               /\ \/ "fault" \in spent' \/ task = NoTask \/ task.lastID \notin {None, d}
                  \/ task.lastID = None /\ task.lastAt > job[d].at
            \/ /\ task # NoTask /\ task' = Card(task, job[d].at, d, job[d].verdict)
               /\ task.lastID \in {None, d}
  <1>1. task \in TaskSet /\ job[d].at \in 0..MaxClock
    BY TaskTypes DEF JobSet
  <1>2. job[d].verdict \in Terminal
    BY DEF Settle, VerdictOK
  <1>3. Card(task, job[d].at, d, job[d].verdict) \in TaskSet
    BY <1>1, <1>2, CardTyped
  <1>4. QED
    BY <1>1, <1>2, <1>3 DEF Settle, CardAfterRun, Fault, Spend

LEMMA ClaimIs ==
  ASSUME TaskTypeOK, NEW d \in Runs, ClaimStart(d)
  PROVE  /\ job[d].pc = "appended" /\ job'[d].at = job[d].at /\ task' \in TaskSet
         /\ \/ /\ spent' = spent /\ d \in LiveRows /\ task # NoTask
               /\ task.version = job[d].version
               /\ task' = Card(task, job[d].at, d, "running")
               /\ \/ /\ quitting /\ chat' = chat
                     /\ Moved(d, "finishing") /\ job'[d].verdict = "error"
                  \/ /\ ~quitting /\ chat' = [chat EXCEPT ![d] = "working"]
                     /\ Moved(d, "claimed")
            \/ /\ task' = task /\ chat' = chat
               /\ Moved(d, "finishing") /\ job'[d].verdict = "error"
  <1>1. task \in TaskSet /\ job[d].at \in 0..MaxClock
    BY TaskTypes DEF JobSet
  <1>2. Card(task, job[d].at, d, "running") \in TaskSet
    BY <1>1, CardTyped DEF LiveSummary
  <1>3. ASSUME NEW p \in {"finishing", "claimed"}, NEW v \in {"error", ""},
               Job(d, p, job[d].at, v)
        PROVE  Moved(d, p) /\ job'[d].verdict = v /\ job'[d].at = job[d].at
    <2>1. p \in JobPhases /\ v \in Terminal \union {""}
      BY DEF JobPhases, Terminal
    <2>2. QED
      BY <1>1, <1>3, <2>1, JobWritten
  <1>5. CASE /\ NoFault /\ SameExecution(d) /\ d \in LiveRows
             /\ task' = Card(task, job[d].at, d, "running")
             /\ IF quitting
                THEN Job(d, "finishing", job[d].at, "error") /\ UNCHANGED chat
                ELSE /\ Job(d, "claimed", job[d].at, "")
                     /\ chat' = [chat EXCEPT ![d] = "working"]
    BY <1>2, <1>3, <1>5 DEF ClaimStart, NoFault, SameExecution
  <1>6. CASE Job(d, "finishing", job[d].at, "error") /\ UNCHANGED <<task, chat>>
    BY <1>1, <1>3, <1>6 DEF ClaimStart
  <1>7. QED
    BY <1>5, <1>6 DEF ClaimStart

\* session.Stop touches a chat at work only.
LEMMA StoppedIs ==
  ASSUME TaskTypeOK, NEW S
  PROVE  /\ Stopped(S) \in [Runs -> ChatStates]
         /\ \A d \in Runs : Stopped(S)[d] = chat[d]
                            \/ (chat[d] \in Active /\ Stopped(S)[d] = "stopping")
         /\ \A d \in Runs : d \in S => Stopped(S)[d] # "working"
  <1>1. chat \in [Runs -> ChatStates]
    BY TaskTypes
  <1>2. QED
    BY <1>1 DEF Stopped, Active, ChatStates

LEMMA MonitorIs ==
  ASSUME TaskTypeOK, NEW d \in Runs, StartMonitor(d)
  PROVE  /\ job[d].pc = "claimed"
         /\ \/ /\ quitting /\ due' = due /\ chat' = Stopped({d})
               /\ Moved(d, "finishing") /\ job'[d].verdict = "stopped"
            \/ /\ ~quitting /\ due' = (IF due = d THEN None ELSE due) /\ chat' = chat
               /\ Moved(d, "watching")
  <1>1. job[d].at \in 0..MaxClock
    BY TaskTypes DEF JobSet
  <1>2. Job(d, "finishing", job[d].at, "stopped") =>
            Moved(d, "finishing") /\ job'[d].verdict = "stopped"
    BY <1>1, JobWritten DEF JobPhases, Terminal
  <1>3. Job(d, "watching", 0, "") => Moved(d, "watching")
    <2>1. "watching" \in JobPhases /\ 0 \in 0..MaxClock /\ "" \in Terminal \union {""}
      BY BoundsAre DEF JobPhases
    <2>2. QED
      BY <2>1, JobWritten
  <1>4. CASE quitting
    BY <1>2, <1>4 DEF StartMonitor
  <1>5. CASE ~quitting
    BY <1>3, <1>5 DEF StartMonitor
  <1>6. QED
    BY <1>4, <1>5

LEMMA PollIs ==
  ASSUME TaskTypeOK, RowShape, NEW d \in Runs, Poll(d)
  PROVE  /\ job[d].pc = "watching"
         /\ \/ /\ task = NoTask \/ d \in OverRows
               /\ chat' = Stopped({d})
               /\ Moved(d, "done") /\ due' = (IF due = d THEN None ELSE due)
            \/ /\ chat' = Stopped({d}) /\ due' = due
               /\ Moved(d, "settling") /\ job'[d].verdict \in Terminal
            \/ /\ chat' = chat /\ chat[d] \notin Active /\ d \in LiveRows /\ due' = due
               /\ Moved(d, "finishing") /\ job'[d].verdict \in Terminal
         /\ disowned' \in {disowned, disowned \union {d}}
  <1>1. clock \in 0..MaxClock
    BY TaskTypes
  <1>2. \A v \in Terminal : Job(d, "settling", clock, v) =>
            Moved(d, "settling") /\ job'[d].verdict \in Terminal
    BY <1>1, JobWritten DEF JobPhases
  <1>3. \A v \in Terminal : Job(d, "finishing", clock, v) =>
            Moved(d, "finishing") /\ job'[d].verdict \in Terminal
    BY <1>1, JobWritten DEF JobPhases
  <1>4. {"completed", "error"} \subseteq Terminal
    BY DEF Terminal
  <1>5. d \in RowIDs \ LiveRows => d \in OverRows
    BY RowKinds
  <1>6. job[d].pc = "watching" /\ disowned' \in {disowned, disowned \union {d}}
    BY DEF Poll
  <1>7. CASE (task = NoTask \/ d \in RowIDs \ LiveRows) /\ chat' = LostRow(d) /\ Done(d)
    BY <1>5, <1>6, <1>7, DoneWritten DEF LostRow
  <1>8. CASE chat' = LostRow(d) /\ Job(d, "settling", clock, "error") /\ UNCHANGED due
    BY <1>2, <1>4, <1>6, <1>8 DEF LostRow
  <1>9. CASE /\ d \in LiveRows /\ chat[d] \notin Active
             /\ \E verdict \in {"completed", "error"} : Job(d, "finishing", clock, verdict)
             /\ UNCHANGED <<chat, due>>
    BY <1>3, <1>4, <1>6, <1>9
  <1>10. QED
    BY <1>7, <1>8, <1>9 DEF Poll

LEMMA FinishIs ==
  ASSUME TaskTypeOK, RowShape, VerdictOK, NEW d \in Runs, Finish(d)
  PROVE  /\ job[d].pc = "finishing" /\ task' = task
         /\ runs' \in [Runs -> RowSet] /\ \A e \in Runs \ {d} : runs'[e] = runs[e]
         /\ \/ /\ d \in LiveRows /\ runs'[d].status \in Terminal
               /\ Moved(d, "settling") /\ job'[d].at = job[d].at
               /\ job'[d].verdict \in Terminal /\ due' = due
            \/ /\ d \in OverRows /\ runs' = runs
               /\ Moved(d, "done") /\ due' = (IF due = d THEN None ELSE due)
            \/ /\ runs' = runs /\ due' = due
               /\ Moved(d, "settling") /\ job'[d].at = job[d].at
               /\ job'[d].verdict \in Terminal
  <1>1. /\ job[d].pc = "finishing" /\ job[d].verdict \in Terminal /\ task' = task
        /\ runs \in [Runs -> RowSet] /\ clock \in 0..MaxClock
    BY TaskTypes DEF Finish, VerdictOK
  <1>2. CASE /\ MayFinish(d)
             /\ runs' = [runs EXCEPT ![d].status = job[d].verdict, ![d].end = clock]
             /\ job' = [job EXCEPT ![d].pc = "settling"]
             /\ UNCHANGED due
    <2>1. Moved(d, "settling") /\ job'[d].at = job[d].at /\ job'[d].verdict \in Terminal
      BY <1>1, <1>2, PcWritten DEF JobPhases
    <2> DEFINE row == [runs[d] EXCEPT !.status = job[d].verdict, !.end = clock]
    <2>2. runs' = [runs EXCEPT ![d] = row]
      BY <1>1, <1>2 DEF RowSet
    <2>3. row \in RowSet /\ row.status = job[d].verdict
      BY <1>1 DEF RowSet
    <2>4. runs' \in [Runs -> RowSet] /\ runs'[d] = row
          /\ \A e \in Runs \ {d} : runs'[e] = runs[e]
      <3> HIDE DEF row
      <3>1. QED
        BY <1>1, <2>2, <2>3
    <2>5. QED
      BY <1>1, <1>2, <2>1, <2>3, <2>4 DEF MayFinish
  <1>3. CASE ~MayFinish(d) /\ d \in RowIDs /\ Done(d) /\ UNCHANGED runs
    BY <1>1, <1>3, RowKinds, DoneWritten DEF MayFinish
  <1>4. CASE /\ job' = [job EXCEPT ![d].pc = "settling", ![d].verdict = "error"]
             /\ UNCHANGED <<runs, due>>
    <2>1. Moved(d, "settling") /\ job'[d].at = job[d].at /\ job'[d].verdict \in Terminal
      BY <1>4, VerdictWritten DEF JobPhases, Terminal
    <2>2. QED
      BY <1>1, <1>4, <2>1
  <1>5. QED
    BY <1>2, <1>3, <1>4 DEF Finish

LEMMA DiscardIs ==
  ASSUME TaskTypeOK, NEW d \in Runs, Discard(d)
  PROVE  /\ job[d].pc = "discarding" /\ Moved(d, "refused") /\ job'[d].verdict \in Terminal
         /\ \/ chat' = [chat EXCEPT ![d] = "gone"]
            \/ chat' = chat /\ "fault" \in spent'
  <1>1. "refused" \in JobPhases /\ "error" \in Terminal
    BY DEF JobPhases, Terminal
  <1>2. job' = [job EXCEPT ![d].pc = "refused", ![d].verdict = "error"]
    BY DEF Discard
  <1>3. Moved(d, "refused") /\ job'[d].verdict \in Terminal
    BY <1>1, <1>2, VerdictWritten
  <1>4. QED
    BY <1>3 DEF Discard, Discarded, Fault, Spend

LEMMA RestartIs ==
  ASSUME TaskTypeOK, Restart
  PROVE  /\ job' \in [Runs -> JobSet]
         /\ \A d \in Runs : \/ job[d].pc = "unused" /\ job'[d].pc = "unused"
                            \/ job'[d].pc = "done"
         /\ chat' \in [Runs -> ChatStates]
         /\ \A d \in Runs : /\ chat'[d] = chat[d] \/ (chat[d] \in Active /\ chat'[d] = "ended")
                            /\ chat'[d] # "working"
         /\ runs' = runs \/ runs' = Emptied
         /\ "restart" \in spent' \/ (quitting /\ spent' = spent)
         /\ scheduler' = "starting" /\ due' = None /\ quitting' = FALSE /\ task' = task
  <1>1. chat \in [Runs -> ChatStates]
    BY TaskTypes
  <1>2. NoJob \in JobSet /\ NoJob.pc = "unused"
    BY BoundsAre DEF NoJob, JobSet, JobPhases
  <1>3. [NoJob EXCEPT !.pc = "done"] \in JobSet /\ [NoJob EXCEPT !.pc = "done"].pc = "done"
    BY BoundsAre, NoJobTyped DEF JobPhases
  <1>4. job' = [d \in Runs |-> IF job[d].pc = "unused" THEN NoJob
                               ELSE [NoJob EXCEPT !.pc = "done"]]
    BY DEF Restart
  <1>5. chat' = [d \in Runs |-> IF chat[d] \in Active THEN "ended" ELSE chat[d]]
    BY DEF Restart
  <1>6. /\ job' \in [Runs -> JobSet]
        /\ \A d \in Runs : \/ job[d].pc = "unused" /\ job'[d].pc = "unused"
                           \/ job'[d].pc = "done"
    BY <1>2, <1>3, <1>4
  <1>7. /\ chat' \in [Runs -> ChatStates]
        /\ \A d \in Runs : /\ chat'[d] = chat[d] \/ (chat[d] \in Active /\ chat'[d] = "ended")
                           /\ chat'[d] # "working"
    BY <1>1, <1>5 DEF Active, ChatStates
  <1>8. "restart" \in spent' \/ (quitting /\ spent' = spent)
    BY DEF Restart, NoFault, Spend
  <1>9. QED
    BY <1>6, <1>7, <1>8 DEF Restart

LEMMA EmptiedIs ==
  /\ Emptied \in [Runs -> RowSet] /\ \A d \in Runs : Emptied[d] = NoRow
  BY NoRowTyped DEF Emptied

LEMMA ReconcileIs ==
  ASSUME TaskTypeOK, ReconcileRows
  PROVE  /\ runs' \in [Runs -> RowSet]
         /\ \/ /\ \A d \in Runs :
                    \/ d \in LiveRows /\ runs'[d].status = "stopped"
                    \/ d \notin LiveRows /\ runs'[d] = runs[d]
               /\ scheduler' = "repairing" /\ disowned' = disowned \union LiveRows
            \/ /\ runs' = runs /\ disowned' = disowned /\ scheduler' = "loop"
               /\ "fault" \in spent'
  <1>1. runs \in [Runs -> RowSet] /\ clock \in 0..MaxClock
    BY TaskTypes
  <1>2. CASE /\ runs' = [d \in Runs |->
                  IF d \in LiveRows
                  THEN [runs[d] EXCEPT !.status = Interrupted, !.end = clock]
                  ELSE runs[d]]
             /\ disowned' = disowned \union LiveRows
             /\ scheduler' = "repairing"
    <2>1. ASSUME NEW r \in RowSet
          PROVE  /\ [r EXCEPT !.status = Interrupted, !.end = clock] \in RowSet
                 /\ [r EXCEPT !.status = Interrupted, !.end = clock].status = "stopped"
      BY <1>1 DEF RowSet, Interrupted, Terminal
    <2>2. QED
      BY <1>1, <1>2, <2>1
  <1>3. CASE Fault /\ scheduler' = "loop" /\ UNCHANGED <<runs, disowned>>
    BY <1>1, <1>3 DEF Fault, Spend
  <1>4. QED
    BY <1>2, <1>3 DEF ReconcileRows

-----------------------------------------------------------------------------
(* The newest finished run, and the card a restart leaves. *)

LEMMA LeastExists ==
  ASSUME NEW S, S \subseteq Nat, S # {}
  PROVE  \E i \in S : \A j \in S : i <= j
  <1> DEFINE T == {1..i : i \in S}
  <1>1. T \subseteq FiniteSubsetsOf(Nat) /\ T # {}
    <2>1. ASSUME NEW i \in S
          PROVE  1..i \in FiniteSubsetsOf(Nat)
      <3>1. i \in Int /\ 1 \in Int /\ 1..i \in SUBSET Nat
        OBVIOUS
      <3>2. IsFiniteSet(1..i)
        BY <3>1, FS_Interval
      <3>3. QED
        BY <3>1, <3>2 DEF FiniteSubsetsOf
    <2>2. T \subseteq FiniteSubsetsOf(Nat)
      BY <2>1
    <2>3. T # {}
      OBVIOUS
    <2>4. QED
      BY <2>2, <2>3
  <1>2. \E x \in T : \A y \in T : ~(<<y, x>> \in StrictSubsetOrdering(Nat))
    <2> HIDE DEF T
    <2>1. IsWellFoundedOn(StrictSubsetOrdering(Nat), FiniteSubsetsOf(Nat))
      BY FS_StrictSubsetOrderingWellFounded
    <2>2. QED
      BY <1>1, <2>1, WFMin
  <1>3. PICK i \in S : \A j \in S : ~(<<1..j, 1..i>> \in StrictSubsetOrdering(Nat))
    BY <1>2
  <1>4. ASSUME NEW j \in S, j < i
        PROVE  FALSE
    <2>1. i \in Nat /\ j \in Nat
      OBVIOUS
    <2>2. 1..j \in SUBSET Nat /\ 1..i \in SUBSET Nat /\ 1..j \subseteq 1..i
      BY <1>4, <2>1
    <2>3. i \in 1..i /\ i \notin 1..j
      BY <1>4, <2>1
    <2>4. 1..j # 1..i
      BY <2>3
    <2>5. <<1..j, 1..i>> \in StrictSubsetOrdering(Nat)
      BY <2>2, <2>4 DEF StrictSubsetOrdering
    <2>6. QED
      BY <1>3, <2>5
  <1>5. QED
    BY <1>4

LEMMA NewestExists ==
  ASSUME TaskTypeOK, OverRows # {}
  PROVE  \E d \in OverRows : \A e \in OverRows : ~Precedes(runs, e, d)
  <1> DEFINE age(d) == MaxClock - runs[d].at
  <1>1. \A d \in OverRows : runs[d].at \in 0..MaxClock /\ runs[d].born \in Nat
    BY TaskTypes DEF OverRows, RowSet
  <1>2. \A d \in OverRows : age(d) \in Nat
    BY <1>1, BoundsAre
  <1>3. PICK d0 \in OverRows : \A e \in OverRows : age(d0) <= age(e)
    <2> DEFINE ages == {age(d) : d \in OverRows}
    <2>1. ages \subseteq Nat /\ ages # {}
      BY <1>2
    <2>2. PICK i \in ages : \A j \in ages : i <= j
      <3> HIDE DEF ages
      <3>1. QED
        BY <2>1, LeastExists
    <2>3. QED
      BY <2>2
  <1>4. \A e \in OverRows : runs[e].at <= runs[d0].at
    BY <1>1, <1>3, BoundsAre
  <1> DEFINE newest == {d \in OverRows : runs[d].at = runs[d0].at}
  <1>5. PICK d1 \in newest : \A e \in newest : runs[d1].born <= runs[e].born
    <2> DEFINE births == {runs[d].born : d \in newest}
    <2>1. births \subseteq Nat /\ births # {}
      BY <1>1
    <2>2. PICK i \in births : \A j \in births : i <= j
      <3> HIDE DEF births
      <3>1. QED
        BY <2>1, LeastExists
    <2>3. QED
      BY <2>2
  <1>6. ASSUME NEW e \in OverRows, Precedes(runs, e, d1)
        PROVE  FALSE
    BY <1>1, <1>4, <1>5, <1>6 DEF Precedes
  <1>7. QED
    BY <1>5, <1>6

\* What reconcileInterruptedScheduledRuns leaves on a card.
LEMMA ReconcileCardIs ==
  ASSUME TaskTypeOK, ReconcileCard
  PROVE  /\ task' \in TaskSet /\ scheduler = "repairing" /\ scheduler' = "loop"
         /\ \/ "fault" \in spent' /\ task' = task
            \/ task'.lastStatus \notin LiveSummary /\ (task' = NoTask => task = NoTask)
  <1> DEFINE latest == CHOOSE d \in OverRows : \A e \in OverRows : ~Precedes(runs, e, d)
             copy(d) == Card(task, runs[d].end, d, runs[d].status)
             failed(s) == [task EXCEPT !.lastStatus = s]
  <1>1. task \in TaskSet /\ runs \in [Runs -> RowSet]
    BY TaskTypes
  <1>2. ASSUME NEW d \in OverRows
        PROVE  /\ copy(d) \in TaskSet /\ copy(d).lastStatus \notin LiveSummary
               /\ copy(d) # NoTask
    <2>1. d \in Runs /\ runs[d].end \in 0..MaxClock /\ runs[d].status \in Terminal
      BY <1>1 DEF OverRows, RowSet
    <2>2. Terminal \intersect LiveSummary = {}
      BY DEF Terminal, LiveSummary
    <2>3. QED
      BY <1>1, <2>1, <2>2, CardTyped
  <1>3. ASSUME NEW s \in {"error", "stopped"}
        PROVE  /\ failed(s) \in TaskSet /\ failed(s).lastStatus \notin LiveSummary
               /\ failed(s) # NoTask
    <2>1. s \in Terminal /\ s \notin LiveSummary /\ s # ""
      BY DEF Terminal, LiveSummary
    <2>2. failed(s) \in TaskSet /\ failed(s).lastStatus = s
      BY <1>1, <2>1 DEF TaskSet
    <2>3. QED
      BY <2>1, <2>2, NoTaskTyped
  <1>4. OverRows # {} => latest \in OverRows
    BY NewestExists
  <1>5. NoTask.lastStatus \notin LiveSummary
    BY NoTaskTyped DEF LiveSummary
  <1>6. \/ CardAfterRestart(task) = task /\ (task = NoTask \/ task.lastStatus \notin LiveSummary)
        \/ \E d \in OverRows : CardAfterRestart(task) = copy(d)
        \/ \E s \in {"error", "stopped"} : CardAfterRestart(task) = failed(s)
    <2>1. CASE task = NoTask
      BY <2>1 DEF CardAfterRestart
    <2>2. CASE task # NoTask /\ task.lastID # None
      <3>1. CardAfterRestart(task) =
              IF task.lastID \in OverRows THEN copy(task.lastID)
              ELSE IF task.lastStatus \in LiveSummary THEN failed("error") ELSE task
        BY <2>2 DEF CardAfterRestart
      <3> HIDE DEF copy, failed
      <3>2. QED
        BY <3>1
    <2>3. CASE task # NoTask /\ task.lastID = None
      <3> DEFINE older == OverRows = {} \/ runs[latest].end < task.lastAt
      <3>1. CardAfterRestart(task) =
              CASE task.lastStatus = "dispatching" /\ older -> failed("stopped")
                [] task.lastStatus = "running" /\ older -> failed("error")
                [] task.lastStatus \notin LiveSummary
                      /\ (OverRows = {} \/ task.lastAt >= runs[latest].end) -> task
                [] OTHER -> copy(latest)
        BY <2>3 DEF CardAfterRestart
      <3>2. CASE OverRows = {}
        <4>1. task.lastStatus \in {"dispatching", "running"} \/ task.lastStatus \notin LiveSummary
          BY DEF LiveSummary
        <4>2. "dispatching" \in LiveSummary /\ "running" \in LiveSummary
          BY DEF LiveSummary
        <4> HIDE DEF copy, failed, latest
        <4>3. QED
          BY <3>1, <3>2, <4>1, <4>2
      <3>3. CASE OverRows # {}
        <4>1. latest \in OverRows
          BY <1>4, <3>3
        <4>2. "dispatching" \in LiveSummary /\ "running" \in LiveSummary
          BY DEF LiveSummary
        <4> HIDE DEF copy, failed, latest
        <4>3. QED
          BY <3>1, <3>3, <4>1, <4>2
      <3>4. QED
        BY <3>2, <3>3
    <2>4. QED
      BY <2>1, <2>2, <2>3
  <1>7. /\ CardAfterRestart(task) \in TaskSet
        /\ CardAfterRestart(task).lastStatus \notin LiveSummary
        /\ CardAfterRestart(task) = NoTask => task = NoTask
    <2> HIDE DEF copy, failed
    <2>1. QED
      BY <1>1, <1>2, <1>3, <1>5, <1>6
  <1>8. scheduler = "repairing" /\ scheduler' = "loop"
    BY DEF ReconcileCard
  <1>9. CASE NoFault /\ task' = CardAfterRestart(task)
    BY <1>7, <1>8, <1>9
  <1>10. CASE Fault /\ UNCHANGED task
    BY <1>1, <1>8, <1>10 DEF Fault, Spend
  <1>11. QED
    BY <1>9, <1>10 DEF ReconcileCard

-----------------------------------------------------------------------------
(* Which steps touch what. *)

\* Steps of the deleter and of the clock: nothing but their own variables.
Aside ==
    \/ DeletePreview \/ DeleteKeepingChats \/ DeleteSource \/ DeleteChanged
    \/ DeleteDone \/ Tick
\* Steps of a child chat.
ChatMove(d) ==
    \/ DeleteChild(d) \/ TurnEnds(d) \/ StoppedTurnEnds(d) \/ UserStop(d)
    \/ HumanContinues(d) \/ Reap(d)
\* Steps of the goroutines of a run.
RunMove(d) == RunNow(d) \/ DispatchDue(d) \/ DispatchStep(d) \/ MonitorStep(d)

LEMMA StepKinds ==
  ASSUME [TaskNext]_taskVars
  PROVE  \/ Aside
         \/ \E d \in Runs : ChatMove(d)
         \/ \E d \in Runs : RunMove(d)
         \/ \E v \in 1..MaxVersions : Save(v)
         \/ DeleteRecords \/ Shutdown \/ Restart \/ ReconcileStep
         \/ UNCHANGED taskVars
  BY DEF TaskNext, DeleteStep, Aside, ChatMove, RunMove

LEMMA AsideIs ==
  ASSUME TaskTypeOK, Aside
  PROVE  /\ UNCHANGED <<task, runs, recorded, chat, job, scheduler, due, reaping,
                        quitting, disowned>>
         /\ clock' \in 1..MaxClock /\ clock <= clock'
  <1>1. clock \in 1..MaxClock /\ MaxClock \in Nat
    BY TaskTypes, BoundsAre
  <1>2. CASE Tick
    BY <1>1, <1>2 DEF Tick, files, index
  <1>3. CASE DeletePreview \/ DeleteKeepingChats \/ DeleteSource \/ DeleteChanged \/ DeleteDone
    BY <1>1, <1>3 DEF DeletePreview, DeleteKeepingChats, DeleteSource, DeleteChanged,
       DeleteDone, files, index
  <1>4. QED
    BY <1>2, <1>3 DEF Aside

LEMMA ChatMoveIs ==
  ASSUME TaskTypeOK, NEW d \in Runs, ChatMove(d)
  PROVE  /\ UNCHANGED <<task, runs, recorded, job, scheduler, due, quitting, clock>>
         /\ chat' \in [Runs -> ChatStates]
         /\ \A e \in Runs :
              \/ chat'[e] = chat[e]
              \/ chat'[e] = "gone"
              \/ /\ chat[e] \in Active \union {"ended"}
                 /\ chat'[e] \in {"stopping", "ended", "human"}
         /\ reaping' \subseteq reaping /\ disowned \subseteq disowned' /\ disowned' \subseteq Runs
         /\ \A e \in reaping \ reaping' : chat'[e] = "gone" \/ e \in disowned'
  <1>1. chat \in [Runs -> ChatStates] /\ reaping \subseteq Runs /\ disowned \subseteq Runs
    BY TaskTypes
  <1>2. CASE DeleteChild(d)
    <2>1. \/ chat' = [chat EXCEPT ![d] = "gone"]
          \/ chat' = Stopped({d})
      BY <1>2 DEF DeleteChild
    <2>2. UNCHANGED <<task, runs, recorded, job, scheduler, due, quitting, clock, reaping, disowned>>
      BY <1>2 DEF DeleteChild, files, index
    <2>3. CASE chat' = [chat EXCEPT ![d] = "gone"]
      BY <1>1, <2>2, <2>3 DEF ChatStates
    <2>4. CASE chat' = Stopped({d})
      BY <1>1, <2>2, <2>4, StoppedIs DEF ChatStates
    <2>5. QED
      BY <2>1, <2>3, <2>4
  <1>3. CASE Reap(d)
    <2>1. \/ chat' = [chat EXCEPT ![d] = "gone"] /\ UNCHANGED disowned
          \/ chat' = Stopped({d}) /\ disowned' = disowned \union {d}
      BY <1>3 DEF Reap
    <2>2. /\ UNCHANGED <<task, runs, recorded, job, scheduler, due, quitting, clock>>
          /\ reaping' = reaping \ {d}
      BY <1>3 DEF Reap, files, index
    <2>3. CASE chat' = [chat EXCEPT ![d] = "gone"] /\ UNCHANGED disowned
      BY <1>1, <2>2, <2>3 DEF ChatStates
    <2>4. CASE chat' = Stopped({d}) /\ disowned' = disowned \union {d}
      BY <1>1, <2>2, <2>4, StoppedIs DEF ChatStates
    <2>5. QED
      BY <2>1, <2>3, <2>4
  <1>4. CASE TurnEnds(d) \/ StoppedTurnEnds(d) \/ UserStop(d) \/ HumanContinues(d)
    <2>1. PICK to \in {"stopping", "ended", "human"} :
             /\ chat[d] \in Active \union {"ended"}
             /\ chat' = [chat EXCEPT ![d] = to]
             /\ UNCHANGED <<files, job, scheduler, due, others, spent>>
      BY <1>4 DEF TurnEnds, StoppedTurnEnds, UserStop, HumanContinues, ChatStep, Active
    <2>2. to \in ChatStates
      BY DEF ChatStates
    <2>3. UNCHANGED <<task, runs, recorded, job, scheduler, due, quitting, clock, reaping, disowned>>
      BY <2>1 DEF files, index, others
    <2>4. QED
      BY <1>1, <2>1, <2>2, <2>3
  <1>5. QED
    BY <1>2, <1>3, <1>4 DEF ChatMove

\* The other variables of the steps of a run.
LEMMA RunMoveFrame ==
  ASSUME TaskTypeOK, NEW d \in Runs, RunMove(d)
  PROVE  /\ UNCHANGED <<scheduler, source, deleter, quitting, clock>>
         /\ DispatchDue(d) \/ ReportRefusal(d) \/ ClaimStart(d) \/ Settle(d) \/ UNCHANGED task
         /\ Publish(d) \/ UNCHANGED <<recorded, reaping>>
         /\ Publish(d) \/ Finish(d) \/ UNCHANGED runs
         /\ CreateChild(d) \/ Discard(d) \/ ClaimStart(d) \/ StartMonitor(d) \/ Poll(d)
            \/ UNCHANGED chat
         /\ Poll(d) \/ UNCHANGED disowned
         /\ spent' = spent \/ (spent' = spent \union {"fault"} /\ "fault" \in Events)
  <1>1. CASE RunNow(d) \/ DispatchDue(d) \/ Refuse(d) \/ CreateChild(d)
    BY <1>1 DEF RunNow, DispatchDue, Refuse, CreateChild, files, index, others
  <1>2. CASE Publish(d)
    BY <1>2 DEF Publish, NoFault, Fault, Spend, CanStill
  <1>3. CASE Discard(d) \/ ReportRefusal(d) \/ ClaimStart(d) \/ StartMonitor(d)
    BY <1>3 DEF Discard, ReportRefusal, ClaimStart, StartMonitor, files, index, others,
       NoFault, Fault, Spend, CanStill
  <1>4. CASE Poll(d)
    BY <1>4 DEF Poll, NoFault, Fault, Spend, CanStill, files, index
  <1>5. CASE MonitorCancelled(d) \/ Finish(d) \/ Settle(d)
    BY <1>5 DEF MonitorCancelled, Finish, Settle, files, index, others,
       NoFault, Fault, Spend, CanStill
  <1>6. QED
    BY <1>1, <1>2, <1>3, <1>4, <1>5 DEF RunMove, DispatchStep, MonitorStep

\* Where the goroutines of a run go: from one phase to the next.
LEMMA RunMoveJob ==
  ASSUME TaskTypeOK, RowShape, VerdictOK, NEW d \in Runs, RunMove(d)
  PROVE  \/ /\ job[d].pc = "unused" /\ Moved(d, "taken")
            /\ \/ RunNow(d) /\ due' = due
               \/ DispatchDue(d) /\ due = None /\ due' = d
         \/ /\ job[d].pc = "taken" /\ Moved(d, "refused") /\ due' = due /\ Refuse(d)
            /\ job'[d].verdict \in Terminal
         \/ /\ job[d].pc = "taken" /\ Moved(d, "created") /\ due' = due
            /\ CreateChild(d) /\ job'[d].at = clock
         \/ /\ job[d].pc = "created" /\ Publish(d) /\ due' = due
            /\ Moved(d, "appended") \/ Moved(d, "discarding")
         \/ /\ job[d].pc = "discarding" /\ Moved(d, "refused") /\ due' = due /\ Discard(d)
            /\ job'[d].verdict \in Terminal
         \/ /\ job[d].pc = "refused" /\ Moved(d, "done") /\ ReportRefusal(d)
            /\ due' = (IF due = d THEN None ELSE due)
         \/ /\ job[d].pc = "appended" /\ ClaimStart(d) /\ due' = due
            /\ \/ Moved(d, "claimed")
               \/ Moved(d, "finishing") /\ job'[d].verdict \in Terminal
         \/ /\ job[d].pc = "claimed" /\ StartMonitor(d)
            /\ \/ quitting /\ Moved(d, "finishing") /\ job'[d].verdict \in Terminal /\ due' = due
               \/ ~quitting /\ Moved(d, "watching") /\ due' = (IF due = d THEN None ELSE due)
         \/ /\ job[d].pc = "watching" /\ Poll(d)
            /\ \/ Moved(d, "done") /\ due' = (IF due = d THEN None ELSE due)
               \/ /\ Moved(d, "settling") \/ Moved(d, "finishing")
                  /\ job'[d].verdict \in Terminal /\ due' = due
         \/ /\ job[d].pc = "watching" /\ quitting /\ MonitorCancelled(d)
            /\ Moved(d, "finishing") /\ job'[d].verdict \in Terminal /\ due' = due
         \/ /\ job[d].pc = "finishing" /\ Finish(d)
            /\ \/ Moved(d, "done") /\ due' = (IF due = d THEN None ELSE due)
               \/ Moved(d, "settling") /\ job'[d].verdict \in Terminal /\ due' = due
         \/ /\ job[d].pc = "settling" /\ Moved(d, "done") /\ Settle(d)
            /\ due' = (IF due = d THEN None ELSE due)
  <1> USE DEF files, index, others
  <1>1. clock \in 0..MaxClock
    BY TaskTypes
  <1>2. CASE RunNow(d)
    BY <1>2, TakenWritten DEF RunNow, Fresh
  <1>3. CASE DispatchDue(d)
    BY <1>3, TakenWritten DEF DispatchDue, Fresh
  <1>4. CASE Refuse(d)
    <2>1. PICK verdict \in {"error", "stopped"} : Job(d, "refused", clock, verdict)
      BY <1>4 DEF Refuse
    <2>2. verdict \in Terminal /\ "refused" \in JobPhases
      BY DEF Terminal, JobPhases
    <2>3. Moved(d, "refused") /\ job'[d].verdict \in Terminal
      BY <1>1, <2>1, <2>2, JobWritten
    <2>4. QED
      BY <1>4, <2>3 DEF Refuse
  <1>5. CASE CreateChild(d)
    <2>1. Moved(d, "created") /\ job'[d].at = clock
      BY <1>1, <1>5, JobWritten DEF CreateChild, JobPhases, Terminal
    <2>2. QED
      BY <1>5, <2>1 DEF CreateChild
  <1>6. CASE Publish(d)
    BY <1>6, PublishIs DEF Publish
  <1>7. CASE Discard(d)
    BY <1>7, DiscardIs DEF Discard
  <1>8. CASE ReportRefusal(d)
    BY <1>8, DoneWritten DEF ReportRefusal
  <1>9. CASE ClaimStart(d)
    BY <1>9, ClaimIs DEF ClaimStart, Terminal
  <1>10. CASE StartMonitor(d)
    BY <1>10, MonitorIs DEF Terminal
  <1>11. CASE Poll(d)
    BY <1>11, PollIs
  <1>12. CASE MonitorCancelled(d)
    <2>1. Moved(d, "finishing") /\ job'[d].verdict = "stopped"
      BY <1>1, <1>12, JobWritten DEF MonitorCancelled, AfterCancel, JobPhases, Terminal
    <2>2. QED
      BY <1>12, <2>1 DEF MonitorCancelled, AfterCancel, Terminal
  <1>13. CASE Finish(d)
    BY <1>13, FinishIs DEF Finish
  <1>14. CASE Settle(d)
    BY <1>14, DoneWritten DEF Settle
  <1>15. QED
    BY <1>2, <1>3, <1>4, <1>5, <1>6, <1>7, <1>8, <1>9, <1>10, <1>11, <1>12, <1>13, <1>14
       DEF RunMove, DispatchStep, MonitorStep

\* What the steps of a run do to its chat.
LEMMA RunMoveChat ==
  ASSUME TaskTypeOK, RowShape, NEW d \in Runs, RunMove(d)
  PROVE  /\ chat' \in [Runs -> ChatStates]
         /\ \A e \in Runs \ {d} : chat'[e] = chat[e]
         /\ \/ chat'[d] = chat[d]
            \/ Discard(d) /\ chat'[d] = "gone"
            \/ chat[d] \in Active /\ chat'[d] = "stopping"
            \/ CreateChild(d) /\ chat'[d] = "idle"
            \/ ClaimStart(d) /\ chat'[d] = "working"
  <1>1. chat \in [Runs -> ChatStates]
    BY TaskTypes
  <1>2. CASE CreateChild(d)
    BY <1>1, <1>2 DEF CreateChild, ChatStates
  <1>3. CASE Discard(d)
    BY <1>1, <1>3, DiscardIs DEF ChatStates
  <1>4. CASE ClaimStart(d)
    BY <1>1, <1>4, ClaimIs DEF ChatStates
  <1>5. CASE chat' = Stopped({d})
    <2>1. \A e \in Runs \ {d} : chat'[e] = chat[e]
      BY <1>5 DEF Stopped
    <2>2. QED
      BY <1>5, <2>1, StoppedIs
  <1>6. CASE chat' = chat
    BY <1>1, <1>6
  <1>7. StartMonitor(d) \/ Poll(d) => chat' = chat \/ chat' = Stopped({d})
    BY MonitorIs, PollIs
  <1>8. QED
    BY <1>2, <1>3, <1>4, <1>5, <1>6, <1>7, RunMoveFrame

LEMMA DeleteRecordsIs ==
  ASSUME TaskTypeOK, DeleteRecords
  PROVE  /\ UNCHANGED <<recorded, chat, job, scheduler, due, quitting, clock, reaping>>
         /\ \/ runs' = runs /\ task' = task /\ disowned' = disowned
            \/ /\ runs' = Emptied /\ disowned' = disowned \union RowIDs
               /\ task' \in {task, NoTask}
         /\ task' = NoTask => task = NoTask \/ runs' = Emptied
  BY DEF DeleteRecords

LEMMA SaveIs ==
  ASSUME TaskTypeOK, NEW v \in 1..MaxVersions, Save(v)
  PROVE  /\ task' \in TaskSet /\ task' # NoTask
         /\ task'.lastID = task.lastID /\ task'.lastStatus = task.lastStatus
         /\ task'.lastAt = task.lastAt
         /\ UNCHANGED <<runs, recorded, chat, job, scheduler, due, quitting, clock,
                        reaping, disowned>>
  <1>1. task \in TaskSet /\ v \in 0..MaxVersions /\ v # 0
    BY TaskTypes, BoundsAre
  <1>2. task' = [task EXCEPT !.version = v]
    BY DEF Save
  <1>3. task' \in TaskSet /\ task'.version = v
    BY <1>1, <1>2 DEF TaskSet
  <1>4. task'.lastID = task.lastID /\ task'.lastStatus = task.lastStatus
        /\ task'.lastAt = task.lastAt
    BY <1>1, <1>2 DEF TaskSet
  <1>5. task' # NoTask
    <2>1. NoTask.version = 0
      BY DEF NoTask
    <2>2. QED
      BY <1>1, <1>3, <2>1
  <1>6. QED
    BY <1>3, <1>4, <1>5 DEF Save, index, others

LEMMA ShutdownIs ==
  ASSUME TaskTypeOK, Shutdown
  PROVE  /\ quitting' = TRUE /\ "restart" \in spent' /\ chat' = Stopped(Runs)
         /\ UNCHANGED <<task, runs, recorded, job, scheduler, due, clock, reaping, disowned>>
  BY DEF Shutdown, Spend, files, index

LEMMA SpentGrows ==
  ASSUME TaskTypeOK, [TaskNext]_taskVars
  PROVE  spent \subseteq spent' /\ spent' \subseteq Events
  <1>1. spent \subseteq Events
    BY TaskTypes
  <1>2. CASE Aside
    BY <1>1, <1>2 DEF Aside, DeletePreview, DeleteKeepingChats, DeleteSource, DeleteChanged,
       DeleteDone, Tick, Spend, CanStill
  <1>3. ASSUME NEW d \in Runs, ChatMove(d) PROVE spent' = spent
    BY <1>3 DEF ChatMove, DeleteChild, TurnEnds, StoppedTurnEnds, UserStop, HumanContinues,
       ChatStep, Reap
  <1>4. ASSUME NEW d \in Runs, RunMove(d)
        PROVE spent \subseteq spent' /\ spent' \subseteq Events
    BY <1>1, <1>4, RunMoveFrame
  <1>5. CASE \E v \in 1..MaxVersions : Save(v)
    BY <1>1, <1>5 DEF Save, Spend, CanStill
  <1>6. CASE DeleteRecords
    BY <1>1, <1>6 DEF DeleteRecords, NoFault, Fault, Spend, CanStill
  <1>7. CASE Shutdown \/ Restart
    BY <1>1, <1>7 DEF Shutdown, Restart, NoFault, Spend, CanStill
  <1>8. CASE ReconcileStep
    BY <1>1, <1>8 DEF ReconcileStep, ReconcileRows, ReconcileCard, NoFault, Fault, Spend, CanStill
  <1>9. CASE UNCHANGED taskVars
    BY <1>1, <1>9 DEF taskVars
  <1>10. QED
    BY <1>1, <1>2, <1>3, <1>4, <1>5, <1>6, <1>7, <1>8, <1>9, StepKinds

LEMMA ChatMoves ==
  ASSUME TaskTypeOK, RowShape, [TaskNext]_taskVars
  PROVE  /\ chat' \in [Runs -> ChatStates]
         /\ \A e \in Runs :
              \/ chat'[e] = chat[e] /\ ~Shutdown
              \/ chat'[e] = chat[e] /\ chat'[e] # "working"
              \/ chat'[e] = "gone"
              \/ /\ chat[e] \in Active \union {"ended"}
                 /\ chat'[e] \in {"stopping", "ended", "human"}
              \/ CreateChild(e) /\ chat'[e] = "idle"
              \/ ClaimStart(e) /\ chat'[e] = "working"
  <1>1. chat \in [Runs -> ChatStates]
    BY TaskTypes
  <1>2. CASE Shutdown
    BY <1>2, ShutdownIs, StoppedIs
  <1>3. CASE ~Shutdown
    <2>1. CASE Aside
      BY <1>1, <1>3, <2>1, AsideIs
    <2>2. ASSUME NEW d \in Runs, ChatMove(d)
          PROVE  /\ chat' \in [Runs -> ChatStates]
                 /\ \A e \in Runs :
                      \/ chat'[e] = chat[e]
                      \/ chat'[e] = "gone"
                      \/ /\ chat[e] \in Active \union {"ended"}
                         /\ chat'[e] \in {"stopping", "ended", "human"}
      BY <2>2, ChatMoveIs
    <2>3. ASSUME NEW d \in Runs, RunMove(d)
          PROVE  /\ chat' \in [Runs -> ChatStates]
                 /\ \A e \in Runs :
                      \/ chat'[e] = chat[e]
                      \/ chat'[e] = "gone"
                      \/ chat[e] \in Active /\ chat'[e] = "stopping"
                      \/ CreateChild(e) /\ chat'[e] = "idle"
                      \/ ClaimStart(e) /\ chat'[e] = "working"
      BY <2>3, RunMoveChat
    <2>4. CASE (\E v \in 1..MaxVersions : Save(v)) \/ DeleteRecords \/ ReconcileStep
               \/ UNCHANGED taskVars
      <3>1. chat' = chat
        BY <2>4, SaveIs, DeleteRecordsIs DEF ReconcileStep, ReconcileRows, ReconcileCard, taskVars
      <3>2. QED
        BY <1>1, <1>3, <3>1
    <2>5. CASE Restart
      BY <1>3, <2>5, RestartIs
    <2>6. QED
      BY <1>3, <2>1, <2>2, <2>3, <2>4, <2>5, StepKinds
  <1>4. QED
    BY <1>2, <1>3

LEMMA JobMoves ==
  ASSUME TaskTypeOK, RowShape, VerdictOK, [TaskNext]_taskVars
  PROVE  /\ job' \in [Runs -> JobSet]
         /\ \/ job' = job /\ due' = due
            \/ \E d \in Runs : RunMove(d)
            \/ Restart
  <1>1. job \in [Runs -> JobSet]
    BY TaskTypes
  <1>2. ASSUME NEW d \in Runs, RunMove(d) PROVE job' \in [Runs -> JobSet]
    BY <1>2, RunMoveJob DEF Moved
  <1>3. CASE Restart
    BY <1>3, RestartIs
  <1>4. CASE Aside \/ (\E d \in Runs : ChatMove(d))
    BY <1>1, <1>4, AsideIs, ChatMoveIs
  <1>5. CASE (\E v \in 1..MaxVersions : Save(v)) \/ DeleteRecords \/ Shutdown
    BY <1>1, <1>5, SaveIs, DeleteRecordsIs, ShutdownIs
  <1>6. CASE ReconcileStep \/ UNCHANGED taskVars
    BY <1>1, <1>6 DEF ReconcileStep, ReconcileRows, ReconcileCard, others, taskVars
  <1>7. QED
    BY <1>2, <1>3, <1>4, <1>5, <1>6, StepKinds

LEMMA RowMoves ==
  ASSUME TaskTypeOK, RowShape, VerdictOK, [TaskNext]_taskVars
  PROVE  /\ runs' \in [Runs -> RowSet] /\ recorded' \in Nat
         /\ \A e \in Runs :
              \/ runs'[e] = runs[e]
              \/ runs'[e] = NoRow
              \/ Publish(e) /\ runs'[e].status = "running"
              \/ Finish(e) /\ e \in LiveRows /\ runs'[e].status \in Terminal
              \/ ReconcileRows /\ e \in LiveRows /\ runs'[e].status \in Terminal
  <1>1. runs \in [Runs -> RowSet] /\ recorded \in Nat
    BY TaskTypes
  <1>2. ASSUME NEW d \in Runs, RunMove(d)
        PROVE  /\ runs' \in [Runs -> RowSet] /\ recorded' \in Nat
               /\ \A e \in Runs \ {d} : runs'[e] \in {runs[e], NoRow}
               /\ \/ runs'[d] = runs[d]
                  \/ Publish(d) /\ runs'[d].status = "running"
                  \/ Finish(d) /\ d \in LiveRows /\ runs'[d].status \in Terminal
    <2>1. CASE Publish(d)
      BY <1>1, <2>1, PublishIs
    <2>2. CASE Finish(d)
      <3>1. recorded' = recorded
        BY <2>2 DEF Finish
      <3>2. QED
        BY <1>1, <2>2, <3>1, FinishIs
    <2>3. CASE UNCHANGED <<runs, recorded>>
      BY <1>1, <2>3
    <2>4. QED
      BY <1>2, <2>1, <2>2, <2>3, RunMoveFrame
  <1>3. CASE Restart
    <2>1. recorded' = recorded /\ runs' \in {runs, Emptied}
      BY <1>3, RestartIs DEF Restart
    <2>2. QED
      BY <1>1, <2>1, EmptiedIs
  <1>4. CASE Aside \/ (\E d \in Runs : ChatMove(d))
    BY <1>1, <1>4, AsideIs, ChatMoveIs
  <1>5. CASE (\E v \in 1..MaxVersions : Save(v)) \/ DeleteRecords \/ Shutdown
    BY <1>1, <1>5, SaveIs, DeleteRecordsIs, ShutdownIs, EmptiedIs
  <1>6. CASE ReconcileRows
    <2>1. recorded' = recorded /\ "stopped" \in Terminal
      BY <1>6 DEF ReconcileRows, Terminal
    <2>2. QED
      BY <1>1, <1>6, <2>1, ReconcileIs
  <1>7. CASE ReconcileCard \/ UNCHANGED taskVars
    BY <1>1, <1>7 DEF ReconcileCard, index, taskVars
  <1>8. QED
    BY <1>2, <1>3, <1>4, <1>5, <1>6, <1>7, StepKinds DEF ReconcileStep

LEMMA CardMoves ==
  ASSUME TaskTypeOK, RowShape, VerdictOK, [TaskNext]_taskVars
  PROVE  /\ task' \in TaskSet
         /\ task' = NoTask => task = NoTask \/ (DeleteRecords /\ runs' = Emptied)
         /\ \/ /\ task'.lastID = task.lastID /\ task'.lastStatus = task.lastStatus
               /\ task'.lastAt = task.lastAt
            \/ DeleteRecords /\ task' = NoTask
            \/ ReconcileCard
            \/ \E d \in Runs : DispatchDue(d) \/ ReportRefusal(d) \/ ClaimStart(d) \/ Settle(d)
  <1>1. task \in TaskSet /\ clock \in 0..MaxClock
    BY TaskTypes
  <1>2. ASSUME NEW d \in Runs, RunMove(d)
        PROVE  /\ task' \in TaskSet /\ (task' = NoTask => task = NoTask)
               /\ \/ task' = task
                  \/ DispatchDue(d) \/ ReportRefusal(d) \/ ClaimStart(d) \/ Settle(d)
    <2>1. CASE DispatchDue(d)
      BY <1>1, <2>1, UnnamedCard DEF DispatchDue
    <2>2. CASE ReportRefusal(d)
      <3>1. job[d].at \in 0..MaxClock
        BY TaskTypes DEF JobSet
      <3>2. Card(task, job[d].at, None, job[d].verdict) # NoTask
        BY <1>1, <2>2, <3>1, RefusalIs, UnnamedCard
      <3>3. QED
        BY <2>2, <3>2, RefusalIs
    <2>3. CASE ClaimStart(d)
      <3>1. job[d].at \in 0..MaxClock
        BY TaskTypes DEF JobSet
      <3>2. Card(task, job[d].at, d, "running") # NoTask
        BY <1>1, <3>1, CardTyped DEF LiveSummary
      <3>3. QED
        BY <2>3, <3>2, ClaimIs
    <2>4. CASE Settle(d)
      <3>1. job[d].at \in 0..MaxClock
        BY TaskTypes DEF JobSet
      <3>2. job[d].verdict \in Terminal => Card(task, job[d].at, d, job[d].verdict) # NoTask
        BY <1>1, <3>1, CardTyped
      <3>3. QED
        BY <2>4, <3>2, SettleIs
    <2>5. CASE UNCHANGED task
      BY <1>1, <2>5
    <2>6. QED
      BY <1>2, <2>1, <2>2, <2>3, <2>4, <2>5, RunMoveFrame
  <1>3. CASE \E v \in 1..MaxVersions : Save(v)
    BY <1>3, SaveIs
  <1>4. CASE DeleteRecords
    BY <1>1, <1>4, DeleteRecordsIs, NoTaskTyped
  <1>5. CASE ReconcileCard
    BY <1>5, ReconcileCardIs
  <1>6. CASE UNCHANGED task
    BY <1>1, <1>6
  <1>7. Aside \/ (\E d \in Runs : ChatMove(d)) \/ Shutdown \/ Restart \/ ReconcileRows
        \/ UNCHANGED taskVars => UNCHANGED task
    BY AsideIs, ChatMoveIs, ShutdownIs, RestartIs DEF ReconcileRows, taskVars
  <1>8. QED
    BY <1>2, <1>3, <1>4, <1>5, <1>6, <1>7, StepKinds DEF ReconcileStep

Deleters == [pc : {"none", "previewed", "finishing"}, data : BOOLEAN,
             expected : SUBSET Runs, todo : SUBSET Runs]

LEMMA DeleterTyped ==
  ASSUME TaskTypeOK, [TaskNext]_taskVars
  PROVE  deleter' \in Deleters
  <1>1. deleter \in Deleters
    BY TaskTypes DEF Deleters
  <1>2. NoDeleter \in Deleters /\ [NoDeleter EXCEPT !.pc = "previewed"] \in Deleters
    BY DEF NoDeleter, Deleters
  <1>3. RowIDs \in SUBSET Runs /\ LiveRows \in SUBSET Runs /\ Doomed \in SUBSET Runs
    BY DEF RowIDs, LiveRows, Doomed
  <1>4. [pc |-> "previewed", data |-> TRUE, expected |-> RowIDs, todo |-> {}] \in Deleters
    BY <1>3 DEF Deleters
  <1>5. ASSUME NEW S \in SUBSET Runs
        PROVE  /\ [deleter EXCEPT !.expected = S] \in Deleters
               /\ [deleter EXCEPT !.pc = "finishing", !.todo = S] \in Deleters
               /\ [deleter EXCEPT !.todo = S] \in Deleters
    BY <1>1 DEF Deleters
  <1>6. CASE Aside
    <2>1. CASE DeletePreview \/ DeleteKeepingChats \/ DeleteSource \/ DeleteDone \/ Tick
      BY <1>1, <1>2, <1>4, <2>1
         DEF DeletePreview, DeleteKeepingChats, DeleteSource, DeleteDone, Tick
    <2>2. CASE DeleteChanged
      <3>1. deleter' = [deleter EXCEPT !.expected = RowIDs] \/ deleter' = NoDeleter
        BY <2>2 DEF DeleteChanged
      <3>2. QED
        BY <1>2, <1>3, <1>5, <3>1
    <2>3. QED
      BY <1>6, <2>1, <2>2 DEF Aside
  <1>7. ASSUME NEW d \in Runs, ChatMove(d) PROVE deleter' \in Deleters
    <2>1. CASE DeleteChild(d)
      <3>1. deleter' = [deleter EXCEPT !.todo = @ \ {d}] \/ deleter' = NoDeleter
        BY <2>1 DEF DeleteChild
      <3>2. deleter.todo \ {d} \in SUBSET Runs
        BY <1>1 DEF Deleters
      <3>3. QED
        BY <1>2, <1>5, <3>1, <3>2
    <2>2. CASE TurnEnds(d) \/ StoppedTurnEnds(d) \/ UserStop(d) \/ HumanContinues(d) \/ Reap(d)
      BY <1>1, <2>2 DEF TurnEnds, StoppedTurnEnds, UserStop, HumanContinues, Reap, ChatStep, others
    <2>3. QED
      BY <1>7, <2>1, <2>2 DEF ChatMove
  <1>8. CASE DeleteRecords
    <2>1. \/ deleter' = NoDeleter
          \/ deleter' = [deleter EXCEPT !.pc = "finishing", !.todo = Doomed]
      BY <1>8 DEF DeleteRecords
    <2>2. QED
      BY <1>2, <1>3, <1>5, <2>1
  <1>9. CASE Restart
    BY <1>2, <1>9 DEF Restart
  <1>10. CASE deleter' = deleter
    BY <1>1, <1>10
  <1>11. (\E d \in Runs : RunMove(d)) \/ (\E v \in 1..MaxVersions : Save(v)) \/ Shutdown
         \/ ReconcileStep \/ UNCHANGED taskVars => deleter' = deleter
    BY RunMoveFrame DEF Save, Shutdown, ReconcileStep, ReconcileRows, ReconcileCard, others, taskVars
  <1>12. QED
    BY <1>6, <1>7, <1>8, <1>9, <1>10, <1>11, StepKinds

LEMMA RestTyped ==
  ASSUME TaskTypeOK, RowShape, VerdictOK, [TaskNext]_taskVars
  PROVE  /\ scheduler' \in {"starting", "repairing", "loop"}
         /\ due' \in Runs \union {None}
         /\ source' \in BOOLEAN /\ quitting' \in BOOLEAN
         /\ reaping' \subseteq Runs /\ disowned' \subseteq Runs
         /\ clock' \in 1..MaxClock
  <1>1. /\ scheduler \in {"starting", "repairing", "loop"}
        /\ due \in Runs \union {None}
        /\ source \in BOOLEAN /\ quitting \in BOOLEAN
        /\ reaping \subseteq Runs /\ disowned \subseteq Runs
        /\ clock \in 1..MaxClock
    BY TaskTypes
  <1>2. RowIDs \subseteq Runs /\ LiveRows \subseteq Runs
    BY DEF RowIDs, LiveRows
  <1>3. source' \in BOOLEAN
    <2>1. source' \in {source, FALSE}
      <3>1. Aside => source' \in {source, FALSE}
        BY DEF Aside, DeletePreview, DeleteKeepingChats, DeleteSource, DeleteChanged, DeleteDone, Tick
      <3>2. ASSUME NEW d \in Runs PROVE ChatMove(d) => source' = source
        BY DEF ChatMove, DeleteChild, TurnEnds, StoppedTurnEnds, UserStop, HumanContinues, Reap,
           ChatStep, others
      <3>3. ASSUME NEW d \in Runs PROVE RunMove(d) => source' = source
        BY RunMoveFrame
      <3>4. (\E v \in 1..MaxVersions : Save(v)) \/ DeleteRecords \/ Shutdown \/ Restart
            \/ ReconcileStep \/ UNCHANGED taskVars => source' = source
        BY DEF Save, DeleteRecords, Shutdown, Restart, ReconcileStep, ReconcileRows,
           ReconcileCard, others, taskVars
      <3>5. QED
        BY <3>1, <3>2, <3>3, <3>4, StepKinds
    <2>2. QED
      BY <1>1, <2>1
  <1>4. CASE Aside
    BY <1>1, <1>3, <1>4, AsideIs
  <1>5. CASE \E d \in Runs : ChatMove(d)
    BY <1>1, <1>3, <1>5, ChatMoveIs
  <1>6. CASE \E d \in Runs : RunMove(d)
    <2>1. PICK d \in Runs : RunMove(d)
      BY <1>6
    <2>2. due' \in Runs \union {None}
      BY <1>1, <2>1, RunMoveJob
    <2>3. reaping' \subseteq Runs
      <3>1. Publish(d) => reaping' \subseteq Runs
        BY <1>1, PublishIs
      <3>2. QED
        BY <1>1, <2>1, <3>1, RunMoveFrame
    <2>4. disowned' \subseteq Runs
      <3>1. Poll(d) => disowned' \in {disowned, disowned \union {d}}
        BY PollIs
      <3>2. QED
        BY <1>1, <2>1, <3>1, RunMoveFrame
    <2>5. QED
      BY <1>1, <1>3, <2>1, <2>2, <2>3, <2>4, RunMoveFrame
  <1>7. CASE \E v \in 1..MaxVersions : Save(v)
    BY <1>1, <1>3, <1>7, SaveIs
  <1>8. CASE DeleteRecords
    BY <1>1, <1>2, <1>3, <1>8, DeleteRecordsIs
  <1>9. CASE Shutdown
    BY <1>1, <1>3, <1>9, ShutdownIs DEF Shutdown
  <1>10. CASE Restart
    BY <1>1, <1>3, <1>10 DEF Restart
  <1>11. CASE ReconcileStep
    BY <1>1, <1>2, <1>3, <1>11 DEF ReconcileStep, ReconcileRows, ReconcileCard, others
  <1>12. CASE UNCHANGED taskVars
    BY <1>1, <1>12 DEF taskVars
  <1>13. QED
    BY <1>4, <1>5, <1>6, <1>7, <1>8, <1>9, <1>10, <1>11, <1>12, StepKinds

LEMMA TypeStep ==
  ASSUME TaskTypeOK, RowShape, VerdictOK, [TaskNext]_taskVars
  PROVE  TaskTypeOK'
  <1>1. spent' \subseteq Events
    BY SpentGrows
  <1>2. deleter' \in Deleters
    BY DeleterTyped
  <1>3. /\ task' \in TaskSet /\ runs' \in [Runs -> RowSet] /\ recorded' \in Nat
        /\ chat' \in [Runs -> ChatStates] /\ job' \in [Runs -> JobSet]
    BY CardMoves, RowMoves, ChatMoves, JobMoves
  <1>4. QED
    BY <1>1, <1>2, <1>3, RestTyped DEF TaskTypeOK, TaskSet, RowSet, JobSet, Deleters

LEMMA InitTInv ==
  ASSUME TaskInit
  PROVE  TInv
  <1>1. /\ 0 \in 0..MaxClock /\ 0 \in 0..MaxVersions /\ 1 \in 0..MaxVersions
        /\ 1 \in 1..MaxClock /\ None \notin Runs
    BY BoundsAre DEF Runs, None
  <1>2. NoJob \in JobSet /\ NoJob.pc = "unused"
    BY <1>1 DEF NoJob, JobSet, JobPhases
  <1>3. task \in TaskSet /\ task.lastStatus = ""
    <2>1. [NoTask EXCEPT !.version = 1] \in TaskSet
          /\ [NoTask EXCEPT !.version = 1].lastStatus = ""
      BY <1>1 DEF NoTask, TaskSet
    <2>2. QED
      BY <2>1, NoTaskTyped DEF TaskInit
  <1>4. NoDeleter \in Deleters
    BY DEF NoDeleter, Deleters
  <1>5. runs \in [Runs -> RowSet] /\ \A d \in Runs : runs[d] = NoRow
    BY EmptiedIs DEF TaskInit
  <1>6. chat \in [Runs -> ChatStates] /\ \A d \in Runs : chat[d] = "none"
    BY DEF TaskInit, ChatStates
  <1>7. job \in [Runs -> JobSet] /\ \A d \in Runs : job[d].pc = "unused"
    BY <1>2 DEF TaskInit
  <1>8. TaskTypeOK
    <2>1. /\ recorded \in Nat /\ scheduler \in {"starting", "repairing", "loop"}
          /\ due \in Runs \union {None} /\ source \in BOOLEAN /\ quitting \in BOOLEAN
          /\ deleter \in Deleters /\ reaping \subseteq Runs /\ disowned \subseteq Runs
          /\ clock \in 1..MaxClock /\ spent \subseteq Events
      BY <1>1, <1>4 DEF TaskInit
    <2>2. QED
      BY <1>3, <1>5, <1>6, <1>7, <2>1 DEF TaskTypeOK, TaskSet, RowSet, JobSet, Deleters
  <1>9. RowShape /\ RowIDs = {} /\ LiveRows = {} /\ OverRows = {}
    BY <1>5, NoRowTyped DEF RowShape, RowIDs, LiveRows, OverRows
  <1>10. RowsOK /\ WorkOK /\ VerdictOK /\ CardShowsRun
    BY <1>6, <1>7, <1>9 DEF RowsOK, OneLive, FreshRow, WorkOK, VerdictOK, CardShowsRun, TaskInit
  <1>11. RunningCard /\ DueOK /\ DueCard /\ NoStrayChild
    BY <1>3, <1>6 DEF RunningCard, DueOK, DueCard, NoStrayChild, TaskInit
  <1>12. QED
    BY <1>8, <1>9, <1>10, <1>11 DEF TInv

-----------------------------------------------------------------------------
(* The invariant is kept, one conjunct after the other. *)

LEMMA RowShapeStep ==
  ASSUME TaskTypeOK, RowShape, VerdictOK, [TaskNext]_taskVars
  PROVE  RowShape'
  BY RowMoves, NoRowTyped DEF RowShape

\* Which rows are live after a step.
LEMMA LiveMoves ==
  ASSUME TaskTypeOK, RowShape, VerdictOK, [TaskNext]_taskVars, NEW e \in LiveRows'
  PROVE  \/ e \in LiveRows /\ runs'[e] = runs[e]
         \/ Publish(e) /\ job[e].pc = "created" /\ Moved(e, "appended") /\ LiveRows = {}
  <1>1. e \in Runs /\ runs'[e].status = "running"
    BY DEF LiveRows
  <1>2. CASE Publish(e) /\ runs'[e] # runs[e]
    BY <1>1, <1>2, PublishIs DEF Publish
  <1>3. CASE runs'[e] = runs[e]
    BY <1>1, <1>3 DEF LiveRows
  <1>4. QED
    BY <1>1, <1>2, <1>3, RowMoves, NoRowTyped

\* A live row stays live until its monitor settles it, unless it is taken.
LEMMA LiveKept ==
  ASSUME TaskTypeOK, RowShape, VerdictOK, [TaskNext]_taskVars, NEW e \in LiveRows
  PROVE  e \in LiveRows' \/ e \in disowned' \/ Finish(e) \/ Restart
  <1>1. e \in Runs /\ runs[e].status = "running" /\ e \in RowIDs
    BY RowKinds DEF LiveRows
  <1>2. runs' = runs => e \in LiveRows'
    BY <1>1 DEF LiveRows
  <1>3. ASSUME NEW d \in Runs, RunMove(d) PROVE e \in LiveRows' \/ Finish(e)
    <2>1. CASE Publish(d)
      BY <1>1, <1>2, <2>1, PublishIs
    <2>2. CASE Finish(d) /\ d # e
      BY <1>1, <2>2, FinishIs DEF LiveRows
    <2>3. QED
      BY <1>2, <1>3, <2>1, <2>2, RunMoveFrame
  <1>4. CASE Aside \/ (\E d \in Runs : ChatMove(d)) \/ (\E v \in 1..MaxVersions : Save(v))
             \/ Shutdown
    BY <1>2, <1>4, AsideIs, ChatMoveIs, SaveIs, ShutdownIs
  <1>5. CASE DeleteRecords
    BY <1>1, <1>2, <1>5, DeleteRecordsIs
  <1>6. CASE ReconcileStep \/ UNCHANGED taskVars
    <2>1. ReconcileRows => runs' = runs \/ disowned' = disowned \union LiveRows
      BY ReconcileIs
    <2>2. QED
      BY <1>2, <1>6, <2>1 DEF ReconcileStep, ReconcileCard, index, taskVars
  <1>7. QED
    BY <1>3, <1>4, <1>5, <1>6, StepKinds

\* The phases a goroutine can come from.
LEMMA PhaseMoves ==
  ASSUME TaskTypeOK, RowShape, VerdictOK, [TaskNext]_taskVars, NEW e \in Runs
  PROVE  job'[e] = job[e] \/ RunMove(e) \/ (Restart /\ job'[e].pc \in {"unused", "done"}
                                            /\ (job'[e].pc = "unused" => job[e].pc = "unused"))
  <1>1. ASSUME NEW d \in Runs, RunMove(d), d # e PROVE job'[e] = job[e]
    BY <1>1, RunMoveJob DEF Moved
  <1>2. Restart => /\ job'[e].pc \in {"unused", "done"}
                   /\ job'[e].pc = "unused" => job[e].pc = "unused"
    BY RestartIs
  <1>3. QED
    BY <1>1, <1>2, JobMoves

LEMMA RowsStep ==
  ASSUME TInv, [TaskNext]_taskVars
  PROVE  RowsOK'
  <1>1. TaskTypeOK /\ RowShape /\ VerdictOK /\ RowsOK
    BY DEF TInv
  <1>2. OneLive'
    <2>1. ASSUME NEW d \in LiveRows', NEW e \in LiveRows', Publish(d), LiveRows = {} PROVE e = d
      <3>1. CASE e \in LiveRows
        BY <2>1, <3>1
      <3>2. CASE Publish(e) /\ Moved(e, "appended") /\ job[e].pc = "created"
        BY <1>1, <2>1, <3>2, LiveMoves, PublishIs DEF Moved, LiveRows
      <3>3. QED
        BY <1>1, <3>1, <3>2, LiveMoves
    <2>2. QED
      BY <1>1, <2>1, LiveMoves DEF RowsOK, OneLive
  <1>3. FreshRow'
    <2> SUFFICES ASSUME NEW d \in Runs, job'[d].pc \in Unpublished
                 PROVE  runs'[d] = NoRow
      BY DEF FreshRow, RowIDs
    <2>1. job[d].pc \in Unpublished /\ ~Moved(d, "appended") /\ ~Finish(d)
      <3>1. CASE job'[d] = job[d]
        BY <3>1 DEF Unpublished, Moved, Finish
      <3>2. CASE RunMove(d)
        BY <1>1, <3>2, RunMoveJob DEF Unpublished, Moved, Finish
      <3>3. CASE Restart
        BY <1>1, <3>3, PhaseMoves, RestartIs DEF Unpublished, Moved, Finish
      <3>4. QED
        BY <1>1, <3>1, <3>2, <3>3, PhaseMoves
    <2>2. runs[d] = NoRow
      BY <1>1, <2>1 DEF RowsOK, FreshRow, RowIDs
    <2>3. Publish(d) => runs' = runs
      BY <1>1, <2>1, PublishIs
    <2>4. QED
      BY <1>1, <2>1, <2>2, <2>3, RowMoves, NoRowTyped DEF LiveRows
  <1>4. task' = NoTask => RowIDs' = {}
    <2> SUFFICES ASSUME task' = NoTask, NEW d \in Runs PROVE runs'[d] = NoRow
      BY DEF RowIDs
    <2>1. CASE task = NoTask
      <3>1. runs[d] = NoRow
        BY <1>1, <2>1 DEF RowsOK, RowIDs
      <3>2. Publish(d) => runs' = runs
        BY <1>1, <2>1, PublishIs
      <3>3. QED
        BY <1>1, <3>1, <3>2, RowMoves, NoRowTyped DEF LiveRows
    <2>2. CASE runs' = Emptied
      BY <2>2, EmptiedIs
    <2>3. QED
      BY <1>1, <2>1, <2>2, CardMoves
  <1>5. scheduler' = "repairing" => LiveRows' = {}
    <2> SUFFICES ASSUME scheduler' = "repairing", NEW d \in LiveRows' PROVE FALSE
      OBVIOUS
    <2>1. CASE ReconcileRows
      <3>1. runs'[d].status = "running" /\ d \in Runs
        BY DEF LiveRows
      <3>2. QED
        BY <1>1, <2>1, <3>1, ReconcileIs DEF LiveRows
    <2>2. CASE scheduler = "repairing"
      <3>1. LiveRows = {} /\ ~Publish(d)
        BY <1>1, <2>2 DEF RowsOK, Publish, LockFree
      <3>2. QED
        BY <1>1, <3>1, LiveMoves
    <2>3. ReconcileRows \/ scheduler = "repairing"
      <3>1. Aside \/ (\E e \in Runs : ChatMove(e)) \/ (\E e \in Runs : RunMove(e))
            \/ (\E v \in 1..MaxVersions : Save(v)) \/ DeleteRecords \/ Shutdown
            \/ UNCHANGED taskVars => scheduler' = scheduler
        BY <1>1, AsideIs, ChatMoveIs, RunMoveFrame, SaveIs, DeleteRecordsIs, ShutdownIs DEF taskVars
      <3>2. Restart => scheduler' = "starting"
        BY DEF Restart
      <3>3. ReconcileStep => ReconcileRows \/ scheduler' = "loop"
        BY DEF ReconcileStep, ReconcileCard
      <3>4. QED
        BY <3>1, <3>2, <3>3, StepKinds
    <2>4. QED
      BY <2>1, <2>2, <2>3
  <1>6. QED
    BY <1>2, <1>3, <1>4, <1>5 DEF RowsOK

LEMMA VerdictStep ==
  ASSUME TInv, [TaskNext]_taskVars
  PROVE  VerdictOK'
  <1>1. TaskTypeOK /\ RowShape /\ VerdictOK
    BY DEF TInv
  <1> SUFFICES ASSUME NEW d \in Runs, job'[d].pc \in {"refused", "finishing", "settling"}
               PROVE  job'[d].verdict \in Terminal
    BY DEF VerdictOK
  <1>2. CASE job'[d] = job[d]
    BY <1>1, <1>2 DEF VerdictOK
  <1>3. CASE RunMove(d)
    BY <1>1, <1>3, RunMoveJob DEF Moved
  <1>4. QED
    BY <1>1, <1>2, <1>3, PhaseMoves

LEMMA DisownedGrows ==
  ASSUME TaskTypeOK, RowShape, [TaskNext]_taskVars
  PROVE  disowned \subseteq disowned'
  <1>1. ASSUME NEW d \in Runs, RunMove(d) PROVE disowned \subseteq disowned'
    <2>1. Poll(d) => disowned' \in {disowned, disowned \union {d}}
      BY PollIs
    <2>2. QED
      BY <1>1, <2>1, RunMoveFrame
  <1>2. CASE ReconcileStep
    BY <1>2 DEF ReconcileStep, ReconcileRows, ReconcileCard, others
  <1>3. Restart \/ UNCHANGED taskVars => disowned' = disowned
    BY DEF Restart, taskVars
  <1>4. Aside \/ (\E d \in Runs : ChatMove(d)) \/ (\E v \in 1..MaxVersions : Save(v))
        \/ DeleteRecords \/ Shutdown => disowned \subseteq disowned'
    BY AsideIs, ChatMoveIs, SaveIs, DeleteRecordsIs, ShutdownIs
  <1>5. QED
    BY <1>1, <1>2, <1>3, <1>4, StepKinds

\* Shutdown alone begins the end, and a restart is over with it.
LEMMA QuittingMoves ==
  ASSUME TaskTypeOK, RowShape, [TaskNext]_taskVars
  PROVE  quitting' = quitting \/ Shutdown \/ (Restart /\ quitting' = FALSE)
  <1>1. Restart => quitting' = FALSE
    BY DEF Restart
  <1>2. Aside \/ (\E d \in Runs : ChatMove(d)) \/ (\E d \in Runs : RunMove(d))
        \/ (\E v \in 1..MaxVersions : Save(v)) \/ DeleteRecords \/ ReconcileStep
        \/ UNCHANGED taskVars => quitting' = quitting
    BY AsideIs, ChatMoveIs, RunMoveFrame, SaveIs, DeleteRecordsIs
       DEF ReconcileStep, ReconcileRows, ReconcileCard, others, taskVars
  <1>3. QED
    BY <1>1, <1>2, StepKinds

LEMMA WorkStep ==
  ASSUME TInv, [TaskNext]_taskVars
  PROVE  WorkOK'
  <1>1. TaskTypeOK /\ RowShape /\ VerdictOK /\ WorkOK /\ chat \in [Runs -> ChatStates]
    BY TaskTypes DEF TInv
  <1>2. ASSUME quitting' PROVE "restart" \in spent'
    BY <1>1, <1>2, QuittingMoves, SpentGrows, ShutdownIs DEF WorkOK
  <1>3. ASSUME NEW d \in Runs, chat'[d] = "working"
        PROVE  ~quitting' /\ job'[d].pc \in {"claimed", "watching"}
               /\ d \in LiveRows' \union disowned'
    <2>1. CASE ClaimStart(d) /\ chat'[d] # chat[d]
      <3>1. ~quitting /\ d \in LiveRows /\ Moved(d, "claimed") /\ UNCHANGED <<runs, quitting>>
        BY <1>1, <2>1, ClaimIs DEF ClaimStart, index, others
      <3>2. QED
        BY <3>1 DEF Moved, LiveRows
    <2>2. CASE chat'[d] = chat[d] /\ ~Shutdown
      <3>1. chat[d] = "working" /\ ~quitting /\ job[d].pc \in {"claimed", "watching"}
            /\ d \in LiveRows \union disowned
        BY <1>1, <1>3, <2>2 DEF WorkOK
      <3>2. ~Restart /\ ~Finish(d)
        BY <1>1, <1>3, <3>1, RestartIs DEF Finish
      <3>3. ~quitting'
        BY <1>1, <2>2, <3>1, <3>2, QuittingMoves
      <3>4. d \in LiveRows' \union disowned'
        BY <1>1, <3>1, <3>2, LiveKept, DisownedGrows
      <3>5. job'[d].pc \in {"claimed", "watching"}
        <4>1. CASE job'[d] = job[d]
          BY <3>1, <4>1
        <4>2. CASE RunMove(d)
          <5>1. CASE StartMonitor(d)
            BY <1>1, <3>1, <5>1, MonitorIs DEF Moved
          <5>2. CASE Poll(d)
              <6>1. chat' # Stopped({d})
              BY <1>1, <1>3, StoppedIs
            <6>2. chat[d] \in Active
              BY <3>1 DEF Active
            <6>3. QED
              BY <1>1, <5>2, <6>1, <6>2, PollIs
          <5>3. QED
            BY <1>1, <3>1, <4>2, <5>1, <5>2, RunMoveJob
        <4>3. QED
          BY <1>1, <3>2, <4>1, <4>2, PhaseMoves
      <3>6. QED
        BY <3>3, <3>4, <3>5
    <2>3. ~Shutdown
      BY <1>1, <1>3, ShutdownIs, StoppedIs
    <2>4. QED
      BY <1>1, <1>3, <2>1, <2>2, <2>3, ChatMoves
  <1>4. QED
    BY <1>2, <1>3 DEF WorkOK

LEMMA CardStep ==
  ASSUME TInv, [TaskNext]_taskVars
  PROVE  CardShowsRun'
  <1>1. /\ TaskTypeOK /\ RowShape /\ VerdictOK /\ RowsOK /\ WorkOK /\ CardShowsRun
        /\ task \in TaskSet
    BY TaskTypes DEF TInv
  <1> SUFFICES ASSUME NEW d \in LiveRows', chat'[d] = "working", task' # NoTask
               PROVE  task'.lastID = d /\ task'.lastStatus = "running"
    BY DEF CardShowsRun
  <1>2. d \in Runs /\ job'[d].pc \in {"claimed", "watching"}
    BY WorkStep DEF WorkOK, LiveRows
  <1>3. CASE ClaimStart(d)
    <2>1. Moved(d, "claimed") => task' = Card(task, job[d].at, d, "running")
      BY <1>1, <1>2, <1>3, ClaimIs DEF Moved
    <2>2. Moved(d, "claimed")
      BY <1>1, <1>2, <1>3, ClaimIs DEF Moved
    <2>3. job[d].at \in 0..MaxClock
      BY <1>1, <1>2, TaskTypes DEF JobSet
    <2>4. QED
      BY <1>1, <1>2, <2>1, <2>2, <2>3, CardTyped DEF LiveSummary
  <1>4. CASE ~ClaimStart(d)
    <2>1. chat[d] = "working" /\ job[d].pc \in {"claimed", "watching"}
      BY <1>1, <1>2, <1>4, ChatMoves DEF WorkOK
    <2>2. d \in LiveRows
      BY <1>1, <2>1, LiveMoves
    <2>3. task # NoTask
      BY <1>1, <1>2, <2>2, RowKinds DEF RowsOK
    <2>4. task.lastID = d /\ task.lastStatus = "running"
      BY <1>1, <2>1, <2>2, <2>3 DEF CardShowsRun
    <2>5. task.lastID # None /\ task.lastStatus \in LiveSummary
      BY <1>2, <2>4, BoundsAre DEF LiveSummary, Runs, None
    <2>6. CASE \E e \in Runs : DispatchDue(e)
      BY <2>2, <2>6 DEF DispatchDue
    <2>7. CASE \E e \in Runs : ReportRefusal(e)
      BY <1>1, <2>4, <2>5, <2>7, RefusalIs
    <2>8. ASSUME NEW e \in Runs, ClaimStart(e) PROVE task' = task
      <3>1. e # d
        BY <1>4, <2>8
      <3>2. QED
        BY <1>1, <2>2, <2>8, <3>1, ClaimIs DEF RowsOK, OneLive
    <2>9. ASSUME NEW e \in Runs, Settle(e) PROVE task' = task
      <3>1. e # d
        BY <2>1, <2>9 DEF Settle
      <3>2. QED
        BY <1>1, <2>4, <2>5, <2>9, <3>1, SettleIs
    <2>10. ~ReconcileCard
      BY <1>1, <2>2 DEF ReconcileCard, RowsOK
    <2>11. QED
      BY <1>1, <2>4, <2>6, <2>7, <2>8, <2>9, <2>10, CardMoves
  <1>5. QED
    BY <1>3, <1>4

LEMMA DispatchDueIs ==
  ASSUME TaskTypeOK, NEW d \in Runs, DispatchDue(d)
  PROVE  /\ task'.lastID = None /\ task'.lastAt = clock
         /\ task'.lastStatus = "dispatching"
  <1>1. task \in TaskSet /\ clock \in 0..MaxClock
    BY TaskTypes
  <1>2. task' = Card(task, clock, None, "dispatching")
    BY DEF DispatchDue
  <1>3. QED
    BY <1>1, <1>2, UnnamedCard

SameCard == UNCHANGED <<task.lastAt, task.lastID, task.lastStatus>>

\* The reconciliation leaves no card that waits for a run.
LEMMA QuietBefore ==
  ASSUME TInv, [TaskNext]_taskVars, Quiet', task'.lastStatus \in LiveSummary
  PROVE  Quiet /\ ~ReconcileStep /\ ~Restart
  <1>1. TaskTypeOK /\ RowShape /\ VerdictOK
    BY DEF TInv
  <1>2. "fault" \notin spent /\ "fault" \notin spent' /\ scheduler' = "loop"
    BY <1>1, SpentGrows DEF Quiet
  <1>3. ~ReconcileRows /\ ~ReconcileCard /\ ~Restart
    BY <1>1, <1>2, ReconcileIs, ReconcileCardIs DEF Restart
  <1>4. scheduler = "loop"
    <2>1. Aside \/ (\E e \in Runs : ChatMove(e)) \/ (\E e \in Runs : RunMove(e))
          \/ (\E v \in 1..MaxVersions : Save(v)) \/ DeleteRecords \/ Shutdown
          \/ UNCHANGED taskVars => scheduler' = scheduler
      BY <1>1, AsideIs, ChatMoveIs, RunMoveFrame, SaveIs, DeleteRecordsIs, ShutdownIs DEF taskVars
    <2>2. QED
      BY <1>2, <1>3, <2>1, StepKinds DEF ReconcileStep
  <1>5. QED
    BY <1>2, <1>3, <1>4 DEF Quiet, ReconcileStep

\* Who writes "running" and "dispatching" on a card.
LEMMA RunningWritten ==
  ASSUME TInv, [TaskNext]_taskVars, ~ReconcileStep, task'.lastStatus = "running"
  PROVE  \/ SameCard
         \/ \E d \in Runs : /\ ClaimStart(d) /\ task'.lastID = d /\ d \in LiveRows
                            /\ Moved(d, "claimed") \/ Moved(d, "finishing")
  <1>1. TaskTypeOK /\ RowShape /\ VerdictOK /\ task \in TaskSet /\ clock \in 0..MaxClock
    BY TaskTypes DEF TInv
  <1>2. \A d \in Runs : job[d].at \in 0..MaxClock
    BY <1>1, TaskTypes DEF JobSet
  <1>3. "running" \notin Terminal /\ "running" # "dispatching" /\ "error" # "running"
    BY DEF Terminal
  <1>4. ASSUME NEW d \in Runs, DispatchDue(d) PROVE FALSE
    BY <1>1, <1>3, <1>4, DispatchDueIs
  <1>5. ASSUME NEW d \in Runs, ReportRefusal(d) PROVE task' = task
    <2>1. job[d].verdict \in Terminal
      BY <1>1, <1>5, RefusalIs
    <2>2. Card(task, job[d].at, None, job[d].verdict).lastStatus = job[d].verdict
      BY <1>1, <1>2, <2>1, UnnamedCard
    <2>3. job[d].verdict # task'.lastStatus
      BY <1>3, <2>1
    <2>4. QED
      BY <1>1, <1>5, <2>2, <2>3, RefusalIs
  <1>6. ASSUME NEW d \in Runs, Settle(d) PROVE task' = task
    BY <1>1, <1>2, <1>3, <1>6, SettleIs, CardTyped
  <1>7. ASSUME NEW d \in Runs, ClaimStart(d)
        PROVE  task' = task \/ /\ ClaimStart(d) /\ task'.lastID = d /\ d \in LiveRows
                               /\ Moved(d, "claimed") \/ Moved(d, "finishing")
    BY <1>1, <1>2, <1>7, ClaimIs, CardTyped DEF LiveSummary
  <1>8. CASE DeleteRecords /\ task' = NoTask
    BY <1>8, NoTaskTyped
  <1>9. ~ReconcileCard
    BY DEF ReconcileStep
  <1>10. CASE task' = task
    BY <1>10 DEF SameCard
  <1>11. QED
    BY <1>1, <1>4, <1>5, <1>6, <1>7, <1>8, <1>9, <1>10, CardMoves DEF SameCard

LEMMA DispatchingWritten ==
  ASSUME TInv, [TaskNext]_taskVars, ~ReconcileStep, task'.lastStatus = "dispatching"
  PROVE  \/ /\ SameCard /\ \A d \in Runs : ~DispatchDue(d)
            /\ \A d \in Runs : ClaimStart(d) =>
                 Moved(d, "finishing") /\ job'[d].at = job[d].at
            /\ \A d \in Runs : ReportRefusal(d) /\ task.lastID = None =>
                 "fault" \in spent' \/ task = NoTask
            /\ \A d \in Runs : Settle(d) /\ task.lastID = None /\ task.lastAt <= job[d].at =>
                 "fault" \in spent' \/ task = NoTask
         \/ \E d \in Runs : DispatchDue(d) /\ task'.lastID = None /\ task'.lastAt = clock
  <1>1. TaskTypeOK /\ RowShape /\ VerdictOK /\ task \in TaskSet /\ clock \in 0..MaxClock
    BY TaskTypes DEF TInv
  <1>2. \A d \in Runs : job[d].at \in 0..MaxClock
    BY <1>1, TaskTypes DEF JobSet
  <1>3. "dispatching" \notin Terminal /\ "running" # "dispatching" /\ "error" # "dispatching"
    BY DEF Terminal
  <1>4. ASSUME NEW d \in Runs, DispatchDue(d) PROVE task'.lastID = None /\ task'.lastAt = clock
    BY <1>1, <1>4, DispatchDueIs
  <1>5. ASSUME NEW d \in Runs, ReportRefusal(d)
        PROVE  task' = task /\ (task.lastID = None => "fault" \in spent' \/ task = NoTask)
    <2>1. job[d].verdict \in Terminal
      BY <1>1, <1>5, RefusalIs
    <2>2. Card(task, job[d].at, None, job[d].verdict).lastStatus = job[d].verdict
      BY <1>1, <1>2, <2>1, UnnamedCard
    <2>3. job[d].verdict # task'.lastStatus
      BY <1>3, <2>1
    <2>4. QED
      BY <1>1, <1>5, <2>2, <2>3, RefusalIs
  <1>6. ASSUME NEW d \in Runs, Settle(d)
        PROVE  /\ task' = task
               /\ task.lastID = None /\ task.lastAt <= job[d].at
                    => "fault" \in spent' \/ task = NoTask
    <2>1. task.lastAt \in Nat /\ job[d].at \in Nat
      <3>1. task.lastAt \in 0..MaxClock /\ job[d].at \in 0..MaxClock
        BY <1>1, <1>2 DEF TaskSet
      <3>2. QED
        BY <3>1, BoundsAre
    <2>2. task' = task
      BY <1>1, <1>2, <1>3, <1>6, SettleIs, CardTyped
    <2>3. Card(task, job[d].at, d, job[d].verdict) # task' \/ job[d].verdict \notin Terminal
      BY <1>1, <1>2, <1>3, CardTyped
    <2>4. QED
      BY <1>1, <1>6, <2>1, <2>2, <2>3, SettleIs
  <1>7. ASSUME NEW d \in Runs, ClaimStart(d)
        PROVE  task' = task /\ Moved(d, "finishing") /\ job'[d].at = job[d].at
    <2>1. Card(task, job[d].at, d, "running") # task'
      BY <1>1, <1>2, <1>3, CardTyped DEF LiveSummary
    <2>2. QED
      BY <1>1, <1>7, <2>1, ClaimIs
  <1>8. ~(DeleteRecords /\ task' = NoTask)
    BY NoTaskTyped
  <1>9. ~ReconcileCard
    BY DEF ReconcileStep
  <1>10. SameCard \/ \E d \in Runs : DispatchDue(d)
    <2>1. CASE task' = task
      BY <2>1 DEF SameCard
    <2>2. QED
      BY <1>1, <1>4, <1>5, <1>6, <1>7, <1>8, <1>9, <2>1, CardMoves DEF SameCard
  <1>11. QED
    BY <1>4, <1>5, <1>6, <1>7, <1>10

LEMMA OverMoves ==
  ASSUME TaskTypeOK, RowShape, VerdictOK, [TaskNext]_taskVars, ~ReconcileStep,
         NEW e \in OverRows'
  PROVE  e \in OverRows \/ Finish(e)
  <1>1. e \in Runs /\ runs'[e].status \in Terminal
    BY DEF OverRows
  <1>2. QED
    BY <1>1, RowMoves, NoRowTyped DEF OverRows, ReconcileStep

LEMMA RunningStep ==
  ASSUME TInv, [TaskNext]_taskVars
  PROVE  RunningCard'
  <1> DEFINE id == task'.lastID
  <1>1. /\ TaskTypeOK /\ RowShape /\ VerdictOK /\ RunningCard /\ task \in TaskSet
    BY TaskTypes DEF TInv
  <1> SUFFICES ASSUME Quiet', task'.lastStatus = "running"
               PROVE  /\ id \in Runs
                      /\ \/ /\ job'[id].pc \in {"claimed", "watching", "finishing"}
                            /\ id \notin OverRows'
                         \/ job'[id].pc = "settling"
    BY DEF RunningCard
  <1>2. Quiet /\ ~ReconcileStep /\ ~Restart /\ "fault" \notin spent'
    BY QuietBefore DEF LiveSummary, Quiet
  <1>3. CASE \E d \in Runs : /\ ClaimStart(d) /\ task'.lastID = d /\ d \in LiveRows
                             /\ Moved(d, "claimed") \/ Moved(d, "finishing")
    <2>1. id \in Runs /\ id \in LiveRows /\ ClaimStart(id) /\ job[id].pc = "appended"
          /\ job'[id].pc \in {"claimed", "finishing"}
      BY <1>3 DEF Moved, ClaimStart
    <2>2. id \notin OverRows
      BY <1>1, <2>1, RowKinds
    <2>3. ~Finish(id)
      BY <2>1 DEF Finish
    <2>4. QED
      BY <1>1, <1>2, <2>1, <2>2, <2>3, OverMoves
  <1>4. CASE SameCard
    <2>1. /\ id = task.lastID /\ task.lastStatus = "running" /\ id \in Runs
          /\ \/ /\ job[id].pc \in {"claimed", "watching", "finishing"}
                /\ id \notin OverRows
             \/ job[id].pc = "settling"
      BY <1>1, <1>2, <1>4 DEF SameCard, RunningCard
    <2>2. task # NoTask
      BY <2>1, NoTaskTyped
    <2>3. ~Settle(id)
      <3>1. SUFFICES ASSUME Settle(id) PROVE FALSE
        OBVIOUS
      <3>2. /\ task' = Card(task, job[id].at, id, job[id].verdict)
            /\ job[id].verdict \in Terminal
        <4>1. id # None
          BY <2>1, BoundsAre DEF Runs, None
        <4>2. QED
          BY <1>1, <1>2, <2>1, <2>2, <3>1, <4>1, SettleIs
      <3>3. job[id].at \in 0..MaxClock
        BY <1>1, <2>1, TaskTypes DEF JobSet
      <3>4. task'.lastStatus \in Terminal
        BY <1>1, <2>1, <3>2, <3>3, CardTyped
      <3>5. QED
        BY <3>4 DEF Terminal
    <2>4. CASE job'[id] = job[id]
      <3>1. ~Finish(id) \/ job[id].pc = "settling" \/ id \notin OverRows'
        <4>1. Finish(id) => ~(job[id].pc \in {"claimed", "watching"}) /\ job'[id] # job[id]
          BY <1>1, <2>1, FinishIs DEF Moved
        <4>2. QED
          BY <2>4, <4>1
      <3>2. job'[id].pc = "settling" \/ ~Finish(id)
        BY <1>1, <2>1, <2>4, FinishIs DEF Moved
      <3>3. QED
        BY <1>1, <1>2, <2>1, <2>4, <3>2, OverMoves
    <2>5. CASE RunMove(id)
      <3>1. CASE job[id].pc = "claimed"
        <4>1. job'[id].pc \in {"watching", "finishing"} /\ ~Finish(id)
          BY <1>1, <2>1, <2>5, <3>1, RunMoveJob DEF Moved, Finish
        <4>2. QED
          BY <1>1, <1>2, <2>1, <3>1, <4>1, OverMoves
      <3>2. CASE job[id].pc = "watching"
        <4>1. Poll(id) => job'[id].pc \in {"settling", "finishing"}
          BY <1>1, <2>1, <2>2, <3>2, PollIs DEF Moved
        <4>2. job'[id].pc \in {"settling", "finishing"} /\ ~Finish(id)
          BY <1>1, <2>1, <2>5, <3>2, <4>1, RunMoveJob DEF Moved, Finish
        <4>3. QED
          BY <1>1, <1>2, <2>1, <3>2, <4>2, OverMoves
      <3>3. CASE job[id].pc = "finishing"
        <4>1. Finish(id)
          BY <1>1, <2>1, <2>5, <3>3, RunMoveJob
        <4>2. QED
          BY <1>1, <2>1, <3>3, <4>1, FinishIs DEF Moved
      <3>4. CASE job[id].pc = "settling"
        BY <1>1, <2>1, <2>3, <2>5, <3>4, RunMoveJob
      <3>5. QED
        BY <2>1, <3>1, <3>2, <3>3, <3>4
    <2>6. QED
      BY <1>1, <1>2, <2>1, <2>4, <2>5, PhaseMoves
  <1>5. QED
    BY <1>2, <1>3, <1>4, RunningWritten

\* A dispatch of the scheduler ends with its goroutine.
LEMMA DueMoves ==
  ASSUME TaskTypeOK, RowShape, VerdictOK, [TaskNext]_taskVars, due' # None
  PROVE  \/ due' = due /\ ~Restart
         \/ due' \in Runs /\ DispatchDue(due') /\ Moved(due', "taken")
  <1>1. ~Restart
    BY DEF Restart
  <1>2. CASE job' = job /\ due' = due
    BY <1>1, <1>2
  <1>3. ASSUME NEW d \in Runs, RunMove(d)
        PROVE  due' = due \/ (due' = d /\ DispatchDue(d) /\ Moved(d, "taken"))
    BY <1>3, RunMoveJob
  <1>4. QED
    BY <1>1, <1>2, <1>3, JobMoves

LEMMA LoopGoesOn ==
  ASSUME TaskTypeOK, RowShape, VerdictOK, [TaskNext]_taskVars, scheduler = "loop", ~Restart
  PROVE  scheduler' = "loop" /\ ~ReconcileStep
  <1>1. ~ReconcileStep
    BY DEF ReconcileStep, ReconcileRows, ReconcileCard
  <1>2. Aside \/ (\E e \in Runs : ChatMove(e)) \/ (\E e \in Runs : RunMove(e))
        \/ (\E v \in 1..MaxVersions : Save(v)) \/ DeleteRecords \/ Shutdown
        \/ UNCHANGED taskVars => scheduler' = scheduler
    BY AsideIs, ChatMoveIs, RunMoveFrame, SaveIs, DeleteRecordsIs, ShutdownIs DEF taskVars
  <1>3. QED
    BY <1>1, <1>2, StepKinds

LEMMA DueStep ==
  ASSUME TInv, [TaskNext]_taskVars
  PROVE  DueOK'
  <1>1. TaskTypeOK /\ RowShape /\ VerdictOK /\ DueOK
    BY DEF TInv
  <1> SUFFICES ASSUME due' # None
               PROVE  /\ scheduler' = "loop"
                      /\ job'[due'].pc \notin {"unused", "watching", "done"}
                      /\ job'[due'].pc \in {"appended", "claimed", "finishing"}
                            => due' \notin OverRows'
                      /\ job'[due'].pc = "claimed" => task'.lastStatus # "dispatching"
    BY DEF DueOK
  <1>2. CASE due' \in Runs /\ DispatchDue(due') /\ Moved(due', "taken")
    BY <1>2 DEF DispatchDue, Moved
  <1>3. CASE due' = due /\ ~Restart
    <2> DEFINE d == due
    <2>1. /\ d \in Runs /\ scheduler = "loop"
          /\ job[d].pc \notin {"unused", "watching", "done"}
          /\ job[d].pc \in {"appended", "claimed", "finishing"} => d \notin OverRows
          /\ job[d].pc = "claimed" => task.lastStatus # "dispatching"
      BY <1>1, <1>3, TaskTypes DEF DueOK
    <2>2. scheduler' = "loop" /\ ~ReconcileStep
      BY <1>1, <1>3, <2>1, LoopGoesOn
    <2>3. \A e \in Runs : ~DispatchDue(e)
      BY <1>3 DEF DispatchDue
    <2>4. job'[d].pc = "claimed" => task'.lastStatus # "dispatching"
      <3>1. SUFFICES ASSUME job'[d].pc = "claimed", task'.lastStatus = "dispatching" PROVE FALSE
        OBVIOUS
      <3>2. /\ SameCard
            /\ ClaimStart(d) => Moved(d, "finishing")
        BY <2>1, <2>2, <2>3, <3>1, DispatchingWritten
      <3>3. task.lastStatus = "dispatching"
        BY <3>1, <3>2 DEF SameCard
      <3>4. job[d].pc = "claimed"
        <4>1. CASE job'[d] = job[d]
          BY <3>1, <4>1
        <4>2. CASE RunMove(d)
          <5>1. ~ClaimStart(d)
            BY <3>1, <3>2 DEF Moved
          <5>2. QED
            BY <1>1, <2>1, <3>1, <4>2, <5>1, RunMoveJob DEF Moved
        <4>3. QED
          BY <1>1, <1>3, <2>1, <4>1, <4>2, PhaseMoves
      <3>5. QED
        BY <2>1, <3>3, <3>4
    <2>5. CASE job'[d] = job[d]
      <3>1. ~Finish(d)
        BY <1>1, <2>1, <2>5, FinishIs DEF Moved
      <3>2. QED
        BY <1>1, <1>3, <2>1, <2>2, <2>4, <2>5, <3>1, OverMoves
    <2>6. CASE RunMove(d)
      <3>1. job'[d].pc \notin {"unused", "watching", "done"}
        BY <1>1, <1>3, <2>1, <2>6, RunMoveJob, BoundsAre DEF Moved
      <3>2. ASSUME job'[d].pc \in {"appended", "claimed", "finishing"}
            PROVE  d \notin OverRows'
        <4>1. CASE job[d].pc = "created"
          <5>1. Publish(d) /\ Moved(d, "appended")
            BY <1>1, <2>1, <2>6, <3>2, <4>1, RunMoveJob DEF Moved
          <5>2. runs'[d].status = "running"
            BY <1>1, <2>1, <3>2, <5>1, PublishIs DEF Moved
          <5>3. QED
            BY <5>2 DEF OverRows, Terminal
        <4>2. CASE job[d].pc \in {"appended", "claimed", "finishing"}
          <5>1. ~Finish(d)
            BY <1>1, <2>1, <3>1, <3>2, FinishIs DEF Moved
          <5>2. QED
            BY <1>1, <2>1, <2>2, <4>2, <5>1, OverMoves
        <4>3. job[d].pc \in {"created", "appended", "claimed", "finishing"}
          BY <1>1, <2>1, <2>6, <3>2, RunMoveJob DEF Moved
        <4>4. QED
          BY <4>1, <4>2, <4>3
      <3>3. QED
        BY <1>3, <2>2, <2>4, <3>1, <3>2
    <2>7. QED
      BY <1>1, <1>3, <2>1, <2>5, <2>6, PhaseMoves
  <1>4. QED
    BY <1>1, <1>2, <1>3, DueMoves

LEMMA DueCardStep ==
  ASSUME TInv, [TaskNext]_taskVars
  PROVE  DueCard'
  <1>1. /\ TaskTypeOK /\ RowShape /\ VerdictOK /\ DueOK /\ DueCard /\ task \in TaskSet
        /\ clock \in Nat /\ clock' \in Nat
    BY TaskTypes, RestTyped DEF TInv
  <1> SUFFICES ASSUME Quiet', task'.lastStatus = "dispatching"
               PROVE  /\ due' # None /\ task'.lastID = None /\ task'.lastAt <= clock'
                      /\ job'[due'].pc \in {"created", "appended", "finishing", "settling"}
                            => task'.lastAt <= job'[due'].at
    BY DEF DueCard
  <1>2. Quiet /\ ~ReconcileStep /\ ~Restart /\ "fault" \notin spent'
    BY QuietBefore DEF LiveSummary, Quiet
  <1>3. clock <= clock'
    <2>1. ASSUME NEW d \in Runs, RunMove(d) PROVE clock' = clock
      BY <1>1, <2>1, RunMoveFrame
    <2>2. Aside => clock <= clock'
      BY <1>1, AsideIs
    <2>3. (\E d \in Runs : ChatMove(d)) \/ (\E v \in 1..MaxVersions : Save(v)) \/ DeleteRecords
          \/ Shutdown \/ UNCHANGED taskVars => clock' = clock
      BY <1>1, ChatMoveIs, SaveIs, DeleteRecordsIs, ShutdownIs DEF taskVars
    <2>4. QED
      BY <1>1, <1>2, <2>1, <2>2, <2>3, StepKinds
  <1>4. ASSUME NEW e \in Runs, DispatchDue(e), task'.lastID = None, task'.lastAt = clock
        PROVE  /\ due' # None /\ task'.lastID = None /\ task'.lastAt <= clock'
               /\ job'[due'].pc = "taken"
    <2>1. Moved(e, "taken") /\ due' = e /\ e # None
      <3>1. RunMove(e) /\ ~RunNow(e)
        <4>1. due' = e /\ due = None /\ e # None
          BY <1>4, BoundsAre DEF DispatchDue, Runs, None
        <4>2. RunNow(e) => due' = due
          BY DEF RunNow
        <4>3. QED
          BY <1>4, <4>1, <4>2 DEF RunMove
      <3>2. job[e].pc = "unused" /\ due' = e /\ e # None
        BY <1>4, BoundsAre DEF DispatchDue, Fresh, Runs, None
      <3>3. QED
        BY <1>1, <3>1, <3>2, RunMoveJob
    <2>2. QED
      BY <1>1, <1>3, <1>4, <2>1 DEF Moved
  <1>5. CASE SameCard /\ \A e \in Runs : ~DispatchDue(e)
    <2> DEFINE d == due
    <2>1. /\ task.lastStatus = "dispatching" /\ d # None /\ d \in Runs
          /\ task.lastID = None /\ task.lastAt <= clock /\ task # NoTask
          /\ job[d].pc \in {"created", "appended", "finishing", "settling"}
                => task.lastAt <= job[d].at
          /\ task'.lastID = None /\ task'.lastAt = task.lastAt
      BY <1>1, <1>2, <1>5, TaskTypes, NoTaskTyped DEF DueCard, SameCard
    <2>2. /\ job[d].pc \notin {"unused", "watching", "done", "claimed"}
          /\ job[d].pc \in {"appended", "finishing"} => d \notin OverRows
      BY <1>1, <2>1 DEF DueOK
    <2>3. /\ ClaimStart(d) => Moved(d, "finishing") /\ job'[d].at = job[d].at
          /\ ~ReportRefusal(d)
          /\ Settle(d) => ~(task.lastAt <= job[d].at)
      BY <1>2, <1>5, <2>1, DispatchingWritten
    <2>4. task'.lastAt <= clock'
      <3>1. task.lastAt \in 0..MaxClock
        BY <1>1 DEF TaskSet
      <3>2. QED
        BY <1>1, <1>3, <2>1, <3>1
    <2>5. ~Settle(d)
      BY <2>1, <2>3 DEF Settle
    <2>6. CASE RunMove(d)
      <3>1. due' = due
        <4>1. Finish(d) => ~Moved(d, "done")
          BY <1>1, <2>1, <2>2, FinishIs DEF Moved, Finish
        <4>2. QED
          BY <1>1, <2>1, <2>2, <2>3, <2>5, <2>6, <4>1, RunMoveJob
      <3>2. ASSUME job'[d].pc \in {"created", "appended", "finishing", "settling"}
            PROVE  task.lastAt <= job'[d].at
        <4>1. CASE job[d].pc = "taken"
          BY <1>1, <2>1, <2>6, <3>2, <4>1, RunMoveJob DEF Moved
        <4>2. CASE job[d].pc = "created"
          <5>1. Publish(d)
            BY <1>1, <2>1, <2>6, <4>2, RunMoveJob
          <5>2. job'[d].at = job[d].at
            BY <1>1, <2>1, <3>2, <5>1, PublishIs DEF Moved
          <5>3. QED
            BY <2>1, <4>2, <5>2
        <4>3. CASE job[d].pc = "appended"
          BY <1>1, <2>1, <2>3, <2>6, <4>3, RunMoveJob
        <4>4. CASE job[d].pc = "finishing"
          <5>1. Finish(d)
            BY <1>1, <2>1, <2>6, <4>4, RunMoveJob
          <5>2. job'[d].at = job[d].at
            BY <1>1, <2>1, <2>2, <3>2, <5>1, FinishIs DEF Moved
          <5>3. QED
            BY <2>1, <4>4, <5>2
        <4>5. job[d].pc \in {"taken", "created", "appended", "finishing"}
          BY <1>1, <2>1, <2>2, <2>3, <2>5, <2>6, <3>2, RunMoveJob DEF Moved
        <4>6. QED
          BY <4>1, <4>2, <4>3, <4>4, <4>5
      <3>3. QED
        BY <2>1, <2>4, <3>1, <3>2
    <2>7. CASE job'[d] = job[d] /\ ~RunMove(d)
      <3>1. due' = due
        <4>1. ASSUME NEW e \in Runs, RunMove(e) PROVE due' = due
          <5>1. e # d /\ ~DispatchDue(e)
            BY <1>5, <2>7, <4>1
          <5>2. QED
            BY <1>1, <4>1, <5>1, RunMoveJob
        <4>2. QED
          BY <1>1, <1>2, <4>1, JobMoves
      <3>2. QED
        BY <2>1, <2>4, <2>7, <3>1
    <2>8. QED
      BY <1>1, <1>2, <2>1, <2>6, <2>7, PhaseMoves
  <1>6. QED
    BY <1>2, <1>4, <1>5, DispatchingWritten

\* A row that leaves the index hands its chat to the deletion or to retention.
LEMMA RowKept ==
  ASSUME TaskTypeOK, RowShape, VerdictOK, [TaskNext]_taskVars, ~Restart, ~quitting,
         NEW d \in RowIDs
  PROVE  d \in RowIDs' \union reaping' \union disowned'
  <1>1. d \in Runs /\ runs[d] # NoRow
    BY DEF RowIDs
  <1>2. CASE runs'[d] = NoRow
    <2>1. CASE \E e \in Runs : Publish(e)
      BY <1>1, <1>2, <2>1, PublishIs DEF RowIDs
    <2>2. CASE DeleteRecords
      BY <1>1, <1>2, <2>2, DeleteRecordsIs DEF RowIDs
    <2>3. ASSUME NEW e \in Runs, RunMove(e), ~Publish(e) PROVE FALSE
      <3>1. Finish(e)
        BY <1>1, <1>2, <2>3, RunMoveFrame
      <3>2. QED
        BY <1>1, <1>2, <3>1, FinishIs, NoRowTyped
    <2>4. ReconcileRows => runs'[d] # NoRow
      BY <1>1, ReconcileIs, NoRowTyped
    <2>5. Aside \/ (\E e \in Runs : ChatMove(e)) \/ (\E v \in 1..MaxVersions : Save(v))
          \/ Shutdown \/ ReconcileCard \/ UNCHANGED taskVars => runs' = runs
      BY AsideIs, ChatMoveIs, SaveIs, ShutdownIs DEF ReconcileCard, index, taskVars
    <2>6. QED
      BY <1>1, <1>2, <2>1, <2>2, <2>3, <2>4, <2>5, StepKinds DEF ReconcileStep
  <1>3. CASE runs'[d] # NoRow
    BY <1>1, <1>3 DEF RowIDs
  <1>4. QED
    BY <1>2, <1>3

\* A chat that retention gives up is gone, or kept for its dirty worktree.
LEMMA ReapingKept ==
  ASSUME TaskTypeOK, RowShape, VerdictOK, [TaskNext]_taskVars, ~Restart, NEW d \in reaping
  PROVE  d \in reaping' \/ d \in disowned' \/ chat'[d] = "gone"
  <1>1. d \in Runs
    BY TaskTypes
  <1>2. ASSUME NEW e \in Runs, RunMove(e) PROVE reaping \subseteq reaping'
    BY <1>2, RunMoveFrame, PublishIs
  <1>3. Aside \/ (\E v \in 1..MaxVersions : Save(v)) \/ DeleteRecords \/ Shutdown
        \/ ReconcileStep \/ UNCHANGED taskVars => reaping' = reaping
    BY AsideIs, SaveIs, DeleteRecordsIs, ShutdownIs
       DEF ReconcileStep, ReconcileRows, ReconcileCard, others, taskVars
  <1>4. (\E e \in Runs : ChatMove(e)) => d \in reaping' \/ d \in disowned' \/ chat'[d] = "gone"
    BY ChatMoveIs
  <1>5. QED
    BY <1>2, <1>3, <1>4, StepKinds

LEMMA StrayStep ==
  ASSUME TInv, [TaskNext]_taskVars
  PROVE  NoStrayChild'
  <1>1. TaskTypeOK /\ RowShape /\ VerdictOK /\ WorkOK /\ NoStrayChild
    BY DEF TInv
  <1> SUFFICES ASSUME NEW d \in Runs, chat'[d] \notin {"none", "gone"},
                      spent' \subseteq {"save", "delete"}, ~quitting'
               PROVE  \/ d \in RowIDs' \union reaping' \union disowned'
                      \/ job'[d].pc \in {"created", "discarding"}
    BY DEF NoStrayChild
  <1>2. /\ spent \subseteq {"save", "delete"} /\ "restart" \notin spent'
        /\ "fault" \notin spent' /\ ~quitting /\ ~Restart
    <2>1. spent \subseteq {"save", "delete"} /\ "restart" \notin spent /\ "restart" \notin spent'
          /\ "fault" \notin spent'
      BY <1>1, SpentGrows
    <2>2. ~quitting
      BY <1>1, <2>1 DEF WorkOK
    <2>3. QED
      BY <1>1, <2>1, <2>2, RestartIs
  <1>3. CASE CreateChild(d)
    <2>1. job'[d].pc = "created"
      <3>1. clock \in 0..MaxClock /\ "created" \in JobPhases /\ "" \in Terminal \union {""}
        BY <1>1, TaskTypes DEF JobPhases
      <3>2. Job(d, "created", clock, "")
        BY <1>3 DEF CreateChild
      <3>3. QED
        BY <1>1, <3>1, <3>2, JobWritten DEF Moved
    <2>2. QED
      BY <2>1
  <1>4. CASE ClaimStart(d) /\ chat'[d] # chat[d]
    <2>1. d \in LiveRows /\ UNCHANGED runs
      BY <1>1, <1>4, ClaimIs DEF ClaimStart, index
    <2>2. QED
      BY <1>1, <2>1, NoRowTyped DEF RowIDs, LiveRows
  <1>5. CASE chat[d] \notin {"none", "gone"}
    <2>1. CASE d \in RowIDs
      BY <1>1, <1>2, <2>1, RowKept
    <2>2. CASE d \in reaping
      BY <1>1, <1>2, <2>2, ReapingKept
    <2>3. CASE d \in disowned
      BY <1>1, <2>3, DisownedGrows
    <2>4. CASE job[d].pc \in {"created", "discarding"}
      <3>1. CASE Publish(d)
        <4>1. CASE Moved(d, "appended")
          <5>1. runs'[d] # NoRow
            BY <1>1, <3>1, <4>1, PublishIs DEF Moved
          <5>2. QED
            BY <5>1 DEF RowIDs
        <4>2. CASE Moved(d, "discarding")
          BY <4>2 DEF Moved
        <4>3. QED
          BY <1>1, <3>1, <4>1, <4>2, PublishIs
      <3>2. ~Discard(d)
        BY <1>1, <1>2, DiscardIs, TaskTypes
      <3>3. CASE RunMove(d) /\ ~Publish(d)
        BY <1>1, <2>4, <3>2, <3>3, RunMoveJob
      <3>4. QED
        BY <1>1, <1>2, <2>4, <3>1, <3>3, PhaseMoves
    <2>5. QED
      BY <1>1, <1>2, <1>5, <2>1, <2>2, <2>3, <2>4 DEF NoStrayChild
  <1>6. QED
    BY <1>1, <1>3, <1>4, <1>5, ChatMoves DEF Active

LEMMA TaskStep ==
  ASSUME TInv, [TaskNext]_taskVars
  PROVE  TInv'
  <1>1. TaskTypeOK /\ RowShape /\ VerdictOK
    BY DEF TInv
  <1>2. QED
    BY <1>1, TypeStep, RowShapeStep, RowsStep, WorkStep, VerdictStep, CardStep, RunningStep,
       DueStep, DueCardStep, StrayStep DEF TInv

-----------------------------------------------------------------------------
(* The theorems. *)

\* Every critical section of scheduled_tasks.go, in any order, keeps the card,
\* the rows, the chats and the goroutines of a task in step.
THEOREM TaskInvariant == TaskSpec => []TInv
  <1>1. TInv /\ [TaskNext]_taskVars => TInv'
    BY TaskStep
  <1>2. TaskInit => TInv
    BY InitTInv
  <1>3. QED
    <2> HIDE DEF TInv
    <2>1. QED
      BY <1>1, <1>2, PTL DEF TaskSpec

\* The task, the rows, the children and the goroutines keep their shape.
THEOREM TaskTypeCorrect == TaskSpec => []TaskTypeOK
  <1>1. TInv => TaskTypeOK
    BY DEF TInv
  <1>2. QED
    BY <1>1, TaskInvariant, PTL

\* Two executions of one task never work at the same time, unless the row of
\* one was taken from its monitor: appendScheduledTaskRunOwned is exclusive.
THEOREM RunsNeverOverlap == TaskSpec => []NoOverlap
  <1>1. TInv => NoOverlap
    <2> SUFFICES ASSUME TInv PROVE NoOverlap
      OBVIOUS
    <2> DEFINE W == {d \in Runs : chat[d] = "working" /\ d \notin disowned}
    <2>1. W \subseteq LiveRows
      BY DEF TInv, WorkOK
    <2>2. \A d, e \in W : d = e
      BY <2>1 DEF TInv, RowsOK, OneLive
    <2>3. CASE W = {}
      BY <2>3, FS_EmptySet DEF NoOverlap
    <2>4. CASE W # {}
      <3>1. PICK d \in W : TRUE
        BY <2>4
      <3>2. W = {d}
        BY <2>2, <3>1
      <3>3. Cardinality(W) = 1
        BY <3>2, FS_Singleton
      <3>4. QED
        BY <3>3 DEF NoOverlap
    <2>5. QED
      BY <2>3, <2>4
  <1>2. QED
    BY <1>1, TaskInvariant, PTL

\* The card of a task tells what its runs do, somebody will end what it calls
\* running, and every child chat is on record.
THEOREM BooksAlwaysAgree == TaskSpec => []BooksAgree
  <1>1. TInv => BooksAgree
    <2> SUFFICES ASSUME TInv PROVE BooksAgree
      OBVIOUS
    <2>1. CardShowsRun /\ NoStrayChild
      BY DEF TInv
    <2>2. SummarySettles
      <3>1. ASSUME task.lastStatus = "running", Quiet
            PROVE  job[task.lastID].pc \in {"claimed", "watching", "finishing", "settling"}
        BY <3>1 DEF TInv, RunningCard
      <3>2. ASSUME task.lastStatus = "dispatching", Quiet PROVE due # None
        BY <3>2 DEF TInv, DueCard
      <3>3. QED
        BY <3>1, <3>2 DEF SummarySettles, Quiet
    <2>3. QED
      BY <2>1, <2>2 DEF BooksAgree, CardIsRight
  <1>2. QED
    BY <1>1, TaskInvariant, PTL

LEMMA RowsStayStep ==
  ASSUME TInv, [TaskNext]_taskVars
  PROVE  /\ \A d \in OverRows : runs'[d] \in {runs[d], NoRow}
         /\ \A d \in Runs : chat[d] = "idle" /\ chat'[d] = "working"
              => task' # NoTask /\ task'.version = job[d].version
  <1>1. TaskTypeOK /\ RowShape /\ VerdictOK /\ RowsOK /\ task \in TaskSet
    BY TaskTypes DEF TInv
  <1>2. ASSUME NEW d \in OverRows PROVE runs'[d] \in {runs[d], NoRow}
    <2>1. d \in Runs /\ d \notin LiveRows /\ d \in RowIDs
      BY <1>1, RowKinds DEF OverRows
    <2>2. ~(Publish(d) /\ runs'[d].status = "running")
      <3>1. Publish(d) => FALSE
        BY <1>1, <2>1 DEF RowsOK, FreshRow, Unpublished, Publish
      <3>2. QED
        BY <3>1
    <2>3. QED
      BY <1>1, <2>1, <2>2, RowMoves
  <1>3. ASSUME NEW d \in Runs, chat[d] = "idle", chat'[d] = "working"
        PROVE  task' # NoTask /\ task'.version = job[d].version
    <2>1. ClaimStart(d) /\ chat' # chat
      BY <1>1, <1>3, ChatMoves
    <2>2. /\ task.version = job[d].version
          /\ task' = Card(task, job[d].at, d, "running")
      BY <1>1, <2>1, ClaimIs
    <2>3. job[d].at \in 0..MaxClock
      BY <1>1, TaskTypes DEF JobSet
    <2>4. QED
      BY <1>1, <2>2, <2>3, CardTyped DEF LiveSummary
  <1>4. QED
    BY <1>2, <1>3

\* The first verdict of a row stands, and a child starts only for the task as
\* it is at that moment.
THEOREM RowsAlwaysStayTrue == TaskSpec => RowsStayTrue
  <1>1. TInv /\ [TaskNext]_taskVars =>
          /\ [\A d \in OverRows : runs'[d] \in {runs[d], NoRow}]_taskVars
          /\ [\A d \in Runs : chat[d] = "idle" /\ chat'[d] = "working"
                => task' # NoTask /\ task'.version = job[d].version]_taskVars
    BY RowsStayStep
  <1>2. QED
    <2> HIDE DEF TInv
    <2>1. QED
      BY <1>1, TaskInvariant, PTL DEF TaskSpec, RowsStayTrue, RowVerdictStands, StartsCurrent
===============================================================================
