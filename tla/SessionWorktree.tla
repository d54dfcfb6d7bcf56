--------------------------- MODULE SessionWorktree ---------------------------
(***************************************************************************)
(* One chat of a Git project and its own checkout: a worktree under the    *)
(* configuration directory, a branch in the repository of the project, a   *)
(* record that tells the next start of both, and the history file that     *)
(* makes the chat appear at all.  Creating and removing the chat touches   *)
(* them one after the other, while a turn that was told to stop, its tool, *)
(* a background shell and a process that a command has left behind still   *)
(* work, and the program may die in between.                               *)
(***************************************************************************)
EXTENDS Naturals

CONSTANTS
    MaxCommits,     \* bound: commits on the branch of the chat
    MaxTroubles     \* bound: steps that fail, restarts and damages from outside

ASSUME WorktreeAssumption == MaxCommits \in Nat /\ MaxTroubles \in Nat

VARIABLES
    history,    \* the history file: "absent", "empty" or "used"
    record,     \* sessionWorktreeRecord: "absent", "good" or "bad"
    tree,       \* the checkout: "absent", "fit", or "unfit" (moved, other branch)
    branch,     \* the branch of the chat exists
    dirty,      \* the checkout has changes that are not committed
    ahead,      \* commits on the branch after the head it began with
    open,       \* the chat is in Project.sessions
    used,       \* its history in memory is not empty
    path,       \* ChatSession.WorktreePath # ""
    wtError,    \* ChatSession.WorktreeError # ""
    manager,    \* the chat has a background task manager of its own
    shell,      \* one of its commands runs in the checkout, or somebody holds its output
    stray,      \* a process works in the checkout that a command has left behind with
                \* its output redirected, or that has outlived the program
    agent,      \* the turn: step, directory, stopped, a tool at work
    chore,        \* the creation or removal under way, and its last look at ahead
    given,      \* auxiliary: the chat was opened with a checkout of its own
    removal,    \* auxiliary: "never", "now" or "earlier", when the checkout was removed
    lateCommit, \* auxiliary: somebody committed after the last look of a removal
    troubles

diskVars == <<history, record, tree, branch, dirty, ahead>>
chatVars == <<open, used, path, wtError, manager>>
auxVars == <<given, removal, lateCommit>>
shellVars == <<shell, stray>>
treeVars == <<diskVars, chatVars, shellVars, agent, chore, auxVars, troubles>>

NoAgent == [step |-> "none", dir |-> "none", stopped |-> FALSE, busy |-> FALSE]
NoChore == [kind |-> "none", step |-> "none", look |-> 0]

Trouble == troubles < MaxTroubles /\ troubles' = troubles + 1
NoTrouble == UNCHANGED troubles

TreeInit ==
    /\ history = "absent" /\ record = "absent" /\ tree = "absent"
    /\ branch = FALSE /\ dirty = FALSE /\ ahead = 0
    /\ open = FALSE /\ used = FALSE /\ path = FALSE /\ wtError = FALSE
    /\ manager = FALSE /\ shell = FALSE /\ stray = FALSE /\ agent = NoAgent
    /\ chore = [kind |-> "create", step |-> "add", look |-> 0]
    /\ given = FALSE /\ removal = "never" /\ lateCommit = FALSE /\ troubles = 0

ChoreGoes(step) == chore' = [chore EXCEPT !.step = step]

-----------------------------------------------------------------------------
(* CreateChatSession; Project.mu is free during the Git commands. *)

AddTree ==
    /\ chore.step = "add"
    /\ \/ /\ tree' = "fit" /\ branch' = TRUE /\ ChoreGoes("note") /\ NoTrouble
       \/ /\ Trouble /\ chore' = NoChore /\ UNCHANGED <<tree, branch>>
    /\ UNCHANGED <<history, record, dirty, ahead, chatVars, shellVars, agent, auxVars>>

\* .worktreeinclude, the record and its validation; what fails is taken back.
NoteTree ==
    /\ chore.step = "note"
    /\ \/ /\ record' = "good" /\ path' = TRUE /\ ChoreGoes("list") /\ NoTrouble
          /\ UNCHANGED <<tree, branch>>
       \/ /\ Trouble /\ chore' = NoChore
          /\ \/ tree' = "absent" /\ branch' = FALSE
             \/ UNCHANGED <<tree, branch>>
          /\ UNCHANGED <<record, path>>
    /\ UNCHANGED <<history, dirty, ahead, open, used, wtError, manager, shellVars, agent, auxVars>>

\* The empty history is on disk before the chat is shown.
ListChat ==
    /\ chore.step = "list"
    /\ \/ history' = "empty" /\ ChoreGoes("open") /\ NoTrouble
       \/ Trouble /\ ChoreGoes("look") /\ UNCHANGED history
    /\ UNCHANGED <<record, tree, branch, dirty, ahead, chatVars, shellVars, agent, auxVars>>

OpenChat ==
    /\ chore.step = "open"
    /\ open' = TRUE /\ given' = TRUE /\ chore' = NoChore
    /\ UNCHANGED <<diskVars, used, path, wtError, manager, shellVars, agent, removal, lateCommit,
                   troubles>>

-----------------------------------------------------------------------------
(* sendMessage, as far as the checkout is concerned. *)

\* A removal holds Project.mu for writing.
ProjectFree == chore.kind \in {"none", "create"}

EnterAgent ==
    /\ open /\ agent.step = "none" /\ ProjectFree
    /\ agent' = [NoAgent EXCEPT !.step = "entered"]
    /\ UNCHANGED <<diskVars, chatVars, shellVars, chore, auxVars, troubles>>

\* validateLoadedSessionWorktree
Usable == tree = "fit"
OutOfOrder == wtError \/ (path /\ ~Usable)

\* Mutant: a checkout that cannot be used falls back to the project.
Shared_Fallback == ~path \/ ~Usable
Shared == ~path

\* registryForSession
Arm ==
    /\ agent.step = "entered" /\ ProjectFree
    /\ \/ /\ OutOfOrder
          /\ wtError' = TRUE /\ agent' = NoAgent /\ UNCHANGED manager
       \/ /\ ~wtError /\ Shared
          /\ agent' = [agent EXCEPT !.step = "armed", !.dir = "project"]
          /\ UNCHANGED <<wtError, manager>>
       \/ /\ ~wtError /\ path /\ Usable
          /\ agent' = [agent EXCEPT !.step = "armed", !.dir = "own"]
          /\ manager' = TRUE /\ UNCHANGED wtError
    /\ UNCHANGED <<diskVars, open, used, path, shellVars, chore, auxVars, troubles>>

\* The early save, whatever became of the chat.
KeepMessage ==
    /\ agent.step = "armed"
    /\ used' = TRUE
    /\ \/ history' = "used" /\ NoTrouble
       \/ Trouble /\ UNCHANGED history
    /\ agent' = [agent EXCEPT !.step = "rounds"]
    /\ UNCHANGED <<record, tree, branch, dirty, ahead, open, path, wtError, manager, shellVars,
                   chore, auxVars>>

MayCall == agent.step = "rounds" /\ ~agent.busy /\ ~agent.stopped

CallTool ==
    /\ MayCall
    /\ agent' = [agent EXCEPT !.busy = TRUE]
    /\ UNCHANGED <<diskVars, chatVars, shellVars, chore, auxVars, troubles>>

\* What a command in the checkout may do to it.
Change ==
    /\ tree = "fit"
    /\ \/ dirty' = TRUE /\ UNCHANGED ahead
       \/ dirty' = FALSE /\ UNCHANGED ahead
       \/ dirty /\ ahead < MaxCommits /\ dirty' = FALSE /\ ahead' = ahead + 1

\* A change by somebody whom a removal does not wait for; it knows nothing of a commit
\* after its last look.
LooseChange == Change /\ lateCommit' = (lateCommit \/ (chore.step = "tree" /\ ahead' # ahead))

ToolChanges ==
    /\ agent.busy /\ agent.dir = "own" /\ LooseChange
    /\ UNCHANGED <<history, record, tree, branch, chatVars, shellVars, agent, chore, given, removal,
                   troubles>>

\* The start gate of the manager closes with it.
ToolStartsShell ==
    /\ agent.busy /\ agent.dir = "own" /\ manager /\ shell' = TRUE
    /\ UNCHANGED <<diskVars, chatVars, stray, agent, chore, auxVars, troubles>>

\* What is left of a command in the checkout when it is over.
MayLeave == stray' \in {stray, TRUE}

ToolEnds ==
    /\ agent.busy /\ agent' = [agent EXCEPT !.busy = FALSE]
    /\ \/ agent.dir = "own" /\ MayLeave
       \/ agent.dir # "own" /\ UNCHANGED stray
    /\ UNCHANGED <<diskVars, chatVars, shell, chore, auxVars, troubles>>

ShellChanges ==
    /\ shell /\ Change
    /\ UNCHANGED <<history, record, tree, branch, chatVars, shellVars, agent, chore, auxVars,
                   troubles>>

ShellEnds ==
    /\ shell /\ shell' = FALSE /\ MayLeave
    /\ UNCHANGED <<diskVars, chatVars, agent, chore, auxVars, troubles>>

StrayChanges ==
    /\ stray /\ LooseChange
    /\ UNCHANGED <<history, record, tree, branch, chatVars, shellVars, agent, chore, given,
                   removal, troubles>>

StrayEnds ==
    /\ stray /\ stray' = FALSE
    /\ UNCHANGED <<diskVars, chatVars, shell, agent, chore, auxVars, troubles>>

StopAgent ==
    /\ agent.step # "none" /\ ~agent.stopped
    /\ agent' = [agent EXCEPT !.stopped = TRUE]
    /\ UNCHANGED <<diskVars, chatVars, shellVars, chore, auxVars, troubles>>

\* The final save steps aside for whoever stopped the turn.
EndAgent ==
    /\ agent.step = "rounds" /\ ~agent.busy
    /\ agent' = NoAgent
    /\ history' \in IF agent.stopped THEN {history} ELSE {"used"}
    /\ UNCHANGED <<record, tree, branch, dirty, ahead, chatVars, shellVars, chore, auxVars,
                   troubles>>

-----------------------------------------------------------------------------
(* DeleteChatSession and pruneAbandonedEmptySessions. *)

BeginDelete ==
    /\ open /\ chore = NoChore
    /\ chore' = [kind |-> "delete", step |-> "history", look |-> 0]
    /\ agent' = IF agent.step = "none" THEN agent ELSE [agent EXCEPT !.stopped = TRUE]
    /\ UNCHANGED <<diskVars, chatVars, shellVars, auxVars, troubles>>

DeleteHistory ==
    /\ chore.step = "history"
    /\ \/ history' = "absent" /\ ChoreGoes("look") /\ NoTrouble
       \/ Trouble /\ chore' = NoChore /\ UNCHANGED history
    /\ UNCHANGED <<record, tree, branch, dirty, ahead, chatVars, shellVars, agent, auxVars>>

\* An empty chat whose checkout has nothing of value.
BeginPrune ==
    /\ open /\ chore = NoChore /\ ~used /\ agent.step = "none"
    /\ path => ~wtError /\ Usable /\ ~dirty /\ ahead = 0
    /\ chore' = [kind |-> "prune", step |-> "look", look |-> 0]
    /\ UNCHANGED <<diskVars, chatVars, shellVars, agent, auxVars, troubles>>

\* The chat stays; a deletion writes its history again, if it can.
GivesUp ==
    /\ chore' = NoChore
    /\ history' \in IF chore.kind # "delete" THEN {history}
                   ELSE {history, IF used THEN "used" ELSE "empty"}

\* removeSessionWorktreeAt: sessionWorktreeStatus and what follows from it.
Look(next) ==
    \/ OutOfOrder /\ wtError' = TRUE /\ GivesUp
    \/ ~OutOfOrder /\ path /\ dirty /\ GivesUp /\ UNCHANGED wtError
    \/ /\ ~OutOfOrder /\ path /\ ~dirty
       /\ chore' = [chore EXCEPT !.step = next, !.look = ahead]
       /\ UNCHANGED <<history, wtError>>
    \/ ~OutOfOrder /\ ~path /\ ChoreGoes("forget") /\ UNCHANGED <<history, wtError>>

LookRest == <<record, tree, branch, dirty, ahead, open, used, path, manager, shellVars, agent,
              auxVars, troubles>>

FirstLook ==
    /\ chore.step = "look" /\ Look(IF manager THEN "close" ELSE "tree")
    /\ UNCHANGED LookRest

\* Mutant: what the first look found is good enough.
AfterClose_Tree == "tree"
AfterClose == "again"

\* closeBackgroundTaskManager is a barrier for what it can still cancel, or times out.
CloseShells ==
    /\ chore.step = "close"
    /\ \/ /\ shell' = FALSE /\ manager' = FALSE /\ ChoreGoes(AfterClose)
          /\ stray' \in {stray, stray \/ shell}
          /\ NoTrouble /\ UNCHANGED history
       \/ shell /\ Trouble /\ GivesUp /\ UNCHANGED <<shellVars, manager>>
    /\ UNCHANGED <<record, tree, branch, dirty, ahead, open, used, path, wtError, agent, auxVars>>

SecondLook ==
    /\ chore.step = "again" /\ Look("tree") /\ UNCHANGED LookRest

\* git worktree remove refuses a checkout that is not clean.
RemoveTree ==
    /\ chore.step = "tree"
    /\ \/ /\ tree = "fit" /\ ~dirty
          /\ tree' = "absent" /\ removal' = "now" /\ ChoreGoes("branch")
          /\ NoTrouble /\ UNCHANGED history
       \/ /\ tree # "fit" \/ dirty
          /\ GivesUp /\ NoTrouble /\ UNCHANGED <<tree, removal>>
       \/ Trouble /\ GivesUp /\ UNCHANGED <<tree, removal>>
    /\ UNCHANGED <<record, branch, dirty, ahead, chatVars, shellVars, agent, given, lateCommit>>

\* A branch that has commits of its own stays.
DropBranch ==
    /\ chore.step = "branch"
    /\ \/ chore.look = 0 /\ branch' = FALSE /\ NoTrouble
       \/ chore.look # 0 /\ NoTrouble /\ UNCHANGED branch
       \/ chore.look = 0 /\ Trouble /\ UNCHANGED branch
    /\ ChoreGoes("record")
    /\ UNCHANGED <<history, record, tree, dirty, ahead, chatVars, shellVars, agent, auxVars>>

RemoveRecord ==
    /\ chore.step = "record"
    /\ \/ record' = "absent" /\ NoTrouble
       \/ Trouble /\ UNCHANGED record
    /\ ChoreGoes("forget")
    /\ UNCHANGED <<history, tree, branch, dirty, ahead, chatVars, shellVars, agent, auxVars>>

ForgetChat ==
    /\ chore.step = "forget"
    /\ open' = FALSE /\ path' = FALSE /\ wtError' = FALSE /\ manager' = FALSE
    /\ chore' = IF chore.kind = "prune" THEN [chore EXCEPT !.step = "unlist"] ELSE NoChore
    /\ UNCHANGED <<diskVars, used, shellVars, agent, auxVars, troubles>>

\* DeleteHistory of the prune, whose error is dropped.
Unlist ==
    /\ chore.step = "unlist" /\ chore' = NoChore
    /\ \/ history' = "absent" /\ NoTrouble
       \/ Trouble /\ UNCHANGED history
    /\ UNCHANGED <<record, tree, branch, dirty, ahead, chatVars, shellVars, agent, auxVars>>

-----------------------------------------------------------------------------
(* From outside, and the next start. *)

\* The checkout is moved or switched, or the record is spoilt.
Damage ==
    /\ Trouble
    /\ \/ tree = "fit" /\ tree' = "unfit" /\ UNCHANGED record
       \/ record = "good" /\ record' = "bad" /\ UNCHANGED tree
    /\ UNCHANGED <<history, branch, dirty, ahead, chatVars, shellVars, agent, chore, auxVars>>

\* NewProject shows what has a history file, and loadSessionWorktree reads the record.
StartAgain ==
    /\ Trouble
    /\ open' = (history # "absent") /\ used' = (history = "used")
    /\ path' = (record = "good")
    /\ wtError' = (record = "bad" \/ (record = "good" /\ ~Usable))
    /\ manager' = FALSE /\ agent' = NoAgent /\ chore' = NoChore
    /\ shell' = FALSE /\ stray' \in {stray, stray \/ shell}
    /\ removal' = IF removal = "now" THEN "earlier" ELSE removal
    /\ given' = (given \/ (open' /\ path'))
    /\ UNCHANGED <<diskVars, lateCommit>>

TreeNext ==
    \/ AddTree \/ NoteTree \/ ListChat \/ OpenChat
    \/ EnterAgent \/ Arm \/ KeepMessage \/ CallTool
    \/ ToolChanges \/ ToolStartsShell \/ ToolEnds \/ ShellChanges \/ ShellEnds
    \/ StrayChanges \/ StrayEnds
    \/ StopAgent \/ EndAgent
    \/ BeginDelete \/ DeleteHistory \/ BeginPrune
    \/ FirstLook \/ CloseShells \/ SecondLook \/ RemoveTree \/ DropBranch
    \/ RemoveRecord \/ ForgetChat \/ Unlist
    \/ Damage \/ StartAgain

TreeSpec == TreeInit /\ [][TreeNext]_treeVars

-----------------------------------------------------------------------------
(* Properties. *)

\* The files, the chat, its turn and its removal keep their types.
TreeTypeOK ==
    /\ history \in {"absent", "empty", "used"} /\ record \in {"absent", "good", "bad"}
    /\ tree \in {"absent", "fit", "unfit"} /\ branch \in BOOLEAN /\ dirty \in BOOLEAN
    /\ ahead \in 0..MaxCommits /\ troubles \in 0..MaxTroubles
    /\ {open, used, path, wtError, manager, given, lateCommit} \subseteq BOOLEAN
    /\ shell \in BOOLEAN /\ stray \in BOOLEAN
    /\ agent \in [step : {"none", "entered", "armed", "rounds"}, dir : {"none", "own", "project"},
                  stopped : BOOLEAN, busy : BOOLEAN]
    /\ chore \in [kind : {"none", "create", "delete", "prune"},
                step : {"none", "add", "note", "list", "open", "history", "look", "close", "again",
                        "tree", "branch", "record", "forget", "unlist"},
                look : 0..MaxCommits]
    /\ removal \in {"never", "now", "earlier"}

\* No tool of a chat that was given a checkout ever works in the directory of
\* the project, which other chats share: not when the checkout or its record is
\* damaged, and not in a turn that meets the removal of its chat.  (A removed
\* chat that a stray save brought back at a later start has no checkout.)
FailsClosed ==
    agent.busy /\ agent.dir = "project" /\ given => removal = "earlier"

\* Removing a chat never drops a branch that has commits, unless somebody whom the
\* removal has no way to stop in time has committed after its last look: the tool of
\* a turn that was told to stop, or a process that a command has left behind.
CommitsStay ==
    [][branch /\ ~branch' => ahead = 0 \/ lateCommit]_treeVars
=============================================================================
