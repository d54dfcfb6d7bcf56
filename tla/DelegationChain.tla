--------------------------- MODULE DelegationChain ---------------------------
(***************************************************************************)
(* The brake on agent-to-agent work (delegation_guard.go).  A turn that a  *)
(* person typed may hand work to another chat (session_agent "send") or    *)
(* to a child chat in another project (delegate "ask", "run", "batch").    *)
(* Each turn started that way carries a stamp: how many hops deep it is    *)
(* and which projects the chain has been through.  The guard judges the    *)
(* next hop from the stamp alone.                                          *)
(*                                                                         *)
(* The field path of a turn is auxiliary: the projects really passed since *)
(* the turn's chain began.  No guard reads it; the properties compare the  *)
(* stamp with it.                                                          *)
(***************************************************************************)
EXTENDS Integers, Sequences, FiniteSets

CONSTANTS
    Projects,        \* project identifiers
    MaxDepth,        \* maxDelegationDepth
    MaxTargets,      \* maxDelegationBatchTargets
    MaxTurns         \* bound of the model: turns running or still to be queued

ASSUME DepthAssumption == MaxDepth \in Nat

VARIABLES
    turns,           \* the turns now running
    awaiting         \* chats whose fan-out has a synthesis turn still to be queued

vars == <<turns, awaiting>>

-----------------------------------------------------------------------------
(* Stamps. *)

\* A turn without a stamp: depth() and chain() of a nil *delegationStamp.
NoStamp == [depth |-> 0, chain |-> <<>>]

Stamp == [depth : Nat, chain : Seq(Projects)]

Visited(chain) == {chain[i] : i \in 1..Len(chain)}

\* Mutant: the chain is seeded with the target only.
NextChain_NoOrigin(parent, origin, target) ==
    IF parent.chain # <<>> /\ parent.chain[Len(parent.chain)] = target
    THEN parent.chain ELSE Append(parent.chain, target)

\* nextDelegationStamp: the chain is seeded with the origin, a project that is
\* already last is not repeated, and the result keeps its MaxDepth + 1 newest.
NextChain(parent, origin, target) ==
    LET seed == IF parent = NoStamp THEN <<origin>> ELSE parent.chain
        full == IF seed # <<>> /\ seed[Len(seed)] = target
                THEN seed ELSE Append(seed, target)
    IN  IF Len(full) > MaxDepth + 1
        THEN SubSeq(full, Len(full) - MaxDepth, Len(full))
        ELSE full

NextStamp(parent, origin, target) ==
    [depth |-> parent.depth + 1, chain |-> NextChain(parent, origin, target)]

\* delegationHopAllowed: depth is judged for every hop, the cycle rule only
\* for a hop into a different project.
HopAllowed(parent, origin, target) ==
    /\ parent.depth < MaxDepth
    /\ target # origin => target \notin Visited(parent.chain)

-----------------------------------------------------------------------------
(* Turns. *)

Turn == [project : Projects, child : BOOLEAN, stamp : Stamp,
         path : Seq(Projects)]

\* A turn that begins a chain of its own in project p.
RootTurn(p, child) ==
    [project |-> p, child |-> child, stamp |-> NoStamp, path |-> <<p>>]

\* The turn that a hop from t starts in project q.
HopTurn(t, q, child) ==
    [project |-> q, child |-> child, stamp |-> NextStamp(t.stamp, t.project, q),
     path |-> Append(t.path, q)]

\* sessionAgentMayCoordinate: a chat created to serve another chat's request
\* neither originates nor receives cross-agent work.
MayCoordinate(t) == ~t.child

-----------------------------------------------------------------------------
(* Actions. *)

Init == turns = {} /\ awaiting = {}

Room(n) == Cardinality(turns) + Cardinality(awaiting) + n <= MaxTurns

\* A person types into an ordinary chat, or into a delegation child.
HumanTurn(p, child) ==
    /\ Room(1)
    /\ turns' = turns \union {RootTurn(p, child)}
    /\ UNCHANGED awaiting

\* session_agent "send" to an ordinary chat, of this project or another.
Send(t, q) ==
    /\ Room(1)
    /\ MayCoordinate(t)
    /\ HopAllowed(t.stamp, t.project, q)
    /\ turns' = turns \union {HopTurn(t, q, FALSE)}
    /\ UNCHANGED awaiting

\* delegate "ask" and "run": a child chat in another project.
Delegate(t, q) ==
    /\ Room(1)
    /\ q # t.project
    /\ MayCoordinate(t)
    /\ HopAllowed(t.stamp, t.project, q)
    /\ turns' = turns \union {HopTurn(t, q, TRUE)}
    /\ UNCHANGED awaiting

\* delegate "batch": every target must be legal before any child starts; two
\* targets or more leave a synthesis turn to be queued in the caller's chat.
Batch(t, targets) ==
    /\ Room(Cardinality(targets) + 1)
    /\ targets # {}
    /\ Cardinality(targets) <= MaxTargets
    /\ t.project \notin targets
    /\ MayCoordinate(t)
    /\ \A q \in targets : HopAllowed(t.stamp, t.project, q)
    /\ turns' = turns \union {HopTurn(t, q, TRUE) : q \in targets}
    /\ awaiting' = IF Cardinality(targets) > 1
                   THEN awaiting \union {t.project} ELSE awaiting

\* scheduleBatchSynthesis calls QueueMessage, whose queued turn has no stamp:
\* the caller's chat starts a chain of its own.
Synthesis(p) ==
    /\ turns' = turns \union {RootTurn(p, FALSE)}
    /\ awaiting' = awaiting \ {p}

\* sendMessage returns.
EndTurn(t) ==
    /\ turns' = turns \ {t}
    /\ UNCHANGED awaiting

Next ==
    \/ \E t \in turns : EndTurn(t)
    \/ \E p \in Projects, child \in BOOLEAN : HumanTurn(p, child)
    \/ \E t \in turns, q \in Projects : Send(t, q) \/ Delegate(t, q)
    \/ \E t \in turns, targets \in SUBSET Projects : Batch(t, targets)
    \/ \E p \in awaiting : Synthesis(p)

Spec == Init /\ [][Next]_vars

-----------------------------------------------------------------------------
(* Properties. *)

\* Turns and pending fan-outs have the shape the code gives them.
TypeOK ==
    /\ turns \subseteq Turn
    /\ awaiting \subseteq Projects

\* A stamp counts exactly the hops of its chain and remembers every project
\* the chain has been through, in particular the one where it began: the
\* defensive trim of nextDelegationStamp never forgets a project.
StampTellsHistory ==
    \A t \in turns :
        /\ t.stamp.depth = Len(t.path) - 1
        /\ Visited(t.path) = Visited(t.stamp.chain) \union {t.project}

\* No chain is longer than maxDelegationDepth hops, whichever of the four
\* tools made each hop.
DepthBounded == \A t \in turns : Len(t.path) - 1 <= MaxDepth

\* A chain that has left a project never comes back to it (A -> B -> A, and
\* any longer loop); hand-overs between chats of one project are not loops.
NoProjectRevisited ==
    \A t \in turns : \A i, k, j \in 1..Len(t.path) :
        i <= k /\ k <= j /\ t.path[i] = t.path[j] => t.path[k] = t.path[i]

\* What the hop guard is for: true stamps keep chains short and free of loops.
GuardHolds == StampTellsHistory /\ DepthBounded /\ NoProjectRevisited
=============================================================================
