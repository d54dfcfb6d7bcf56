------------------------ MODULE DelegationChainProofs ------------------------
(* What the hop guard promises for any set of projects and any depth limit. *)
EXTENDS DelegationChain, TLAPS

\* The part of the inductive invariant that describes one turn.  The bound on
\* the chain is what keeps the defensive trim from ever forgetting a project.
TurnOK(t) ==
    /\ t \in Turn
    /\ t.path # <<>>
    /\ t.path[Len(t.path)] = t.project
    /\ t.stamp.depth = Len(t.path) - 1
    /\ t.stamp.depth <= MaxDepth
    /\ Len(t.stamp.chain) <= t.stamp.depth + 1
    /\ Visited(t.path) = Visited(t.stamp.chain) \union {t.project}
    /\ t.stamp # NoStamp => /\ t.stamp.chain # <<>>
                            /\ t.stamp.chain[Len(t.stamp.chain)] = t.project
    /\ \A i, k, j \in 1..Len(t.path) :
          i <= k /\ k <= j /\ t.path[i] = t.path[j] => t.path[k] = t.path[i]

\* The inductive invariant.
IInv ==
    /\ \A t \in turns : TurnOK(t)
    /\ awaiting \subseteq Projects

\* A turn that a person or a synthesis starts is described by the invariant.
LEMMA RootTurnOK ==
  ASSUME NEW p \in Projects, NEW child \in BOOLEAN
  PROVE  TurnOK(RootTurn(p, child))
  BY DepthAssumption DEF TurnOK, RootTurn, Turn, Stamp, NoStamp, Visited

\* What one append does to the set of visited projects.
LEMMA VisitedAppend ==
  ASSUME NEW s \in Seq(Projects), NEW q \in Projects
  PROVE  Visited(Append(s, q)) = Visited(s) \union {q}
  BY DEF Visited

\* A target that is already last is not repeated, any other is appended.
LEMMA ExtendChain ==
  ASSUME NEW s \in Seq(Projects), s # <<>>, NEW q \in Projects
  PROVE  LET f == IF s # <<>> /\ s[Len(s)] = q THEN s ELSE Append(s, q)
         IN  /\ f \in Seq(Projects)
             /\ f # <<>>
             /\ f[Len(f)] = q
             /\ Len(f) <= Len(s) + 1
             /\ Visited(f) = Visited(s) \union {q}
  <1>1. CASE s[Len(s)] = q
    <2>1. Len(s) \in 1..Len(s)
      OBVIOUS
    <2>2. q \in Visited(s)
      BY <1>1, <2>1 DEF Visited
    <2> QED BY <1>1, <2>2
  <1>2. CASE s[Len(s)] # q
    BY <1>2, VisitedAppend
  <1> QED BY <1>1, <1>2

\* With room for one more project the chain is the old one plus the target:
\* nothing is trimmed.
LEMMA NextChainOK ==
  ASSUME NEW t, TurnOK(t), t.stamp.depth < MaxDepth, NEW q \in Projects
  PROVE  LET c == NextChain(t.stamp, t.project, q)
         IN  /\ c \in Seq(Projects)
             /\ c # <<>>
             /\ c[Len(c)] = q
             /\ Len(c) <= t.stamp.depth + 2
             /\ Visited(c) = Visited(t.path) \union {q}
  <1> DEFINE seed == IF t.stamp = NoStamp THEN <<t.project>> ELSE t.stamp.chain
             full == IF seed # <<>> /\ seed[Len(seed)] = q
                     THEN seed ELSE Append(seed, q)
  <1>1. /\ t.stamp \in Stamp
        /\ t.project \in Projects
        /\ t.stamp.depth \in Nat
        /\ t.stamp.chain \in Seq(Projects)
    BY DEF TurnOK, Turn, Stamp
  <1>2. /\ seed \in Seq(Projects)
        /\ seed # <<>>
        /\ Len(seed) <= t.stamp.depth + 1
        /\ Visited(seed) = Visited(t.path)
    <2>1. CASE t.stamp = NoStamp
      BY <1>1, <2>1 DEF TurnOK, NoStamp, Visited
    <2>2. CASE t.stamp # NoStamp
      <3>1. /\ t.stamp.chain # <<>>
            /\ t.stamp.chain[Len(t.stamp.chain)] = t.project
            /\ Visited(t.path) = Visited(t.stamp.chain) \union {t.project}
        BY <2>2 DEF TurnOK
      <3>2. t.project \in Visited(t.stamp.chain)
        BY <1>1, <3>1 DEF Visited
      <3>3. Len(t.stamp.chain) <= t.stamp.depth + 1
        BY DEF TurnOK
      <3> QED BY <1>1, <2>2, <3>1, <3>2, <3>3
    <2> QED BY <2>1, <2>2
  <1>3. /\ full \in Seq(Projects)
        /\ full # <<>>
        /\ full[Len(full)] = q
        /\ Len(full) <= Len(seed) + 1
        /\ Visited(full) = Visited(seed) \union {q}
    <2> HIDE DEF seed
    <2> QED BY <1>2, ExtendChain
  <1>4. /\ Len(full) <= t.stamp.depth + 2
        /\ Visited(full) = Visited(t.path) \union {q}
    <2> HIDE DEF seed, full
    <2>1. Len(seed) \in Nat /\ Len(full) \in Nat
      BY <1>2, <1>3
    <2> QED BY <1>1, <1>2, <1>3, <2>1
  <1>5. NextChain(t.stamp, t.project, q) = full
    <2>1. NextChain(t.stamp, t.project, q) =
             IF Len(full) > MaxDepth + 1
             THEN SubSeq(full, Len(full) - MaxDepth, Len(full)) ELSE full
      BY DEF NextChain
    <2>2. ~(Len(full) > MaxDepth + 1)
      <3> HIDE DEF full
      <3>1. Len(full) \in Nat
        BY <1>3
      <3> QED BY <1>1, <1>4, <3>1, DepthAssumption
    <2> QED BY <2>1, <2>2
  <1> QED BY <1>3, <1>4, <1>5

\* A hop the guard allows starts a turn the invariant describes.
LEMMA HopTurnOK ==
  ASSUME NEW t, TurnOK(t), NEW q \in Projects, NEW child \in BOOLEAN,
         HopAllowed(t.stamp, t.project, q)
  PROVE  TurnOK(HopTurn(t, q, child))
  <1> DEFINE u == HopTurn(t, q, child)
             c == NextChain(t.stamp, t.project, q)
  <1>1. /\ t.stamp.depth \in Nat
        /\ t.path \in Seq(Projects)
        /\ t.project \in Projects
        /\ t.stamp.chain \in Seq(Projects)
    BY DEF TurnOK, Turn, Stamp
  <1>2. t.stamp.depth < MaxDepth
    BY DEF HopAllowed
  <1>3. /\ c \in Seq(Projects)
        /\ c # <<>>
        /\ c[Len(c)] = q
        /\ Len(c) <= t.stamp.depth + 2
        /\ Visited(c) = Visited(t.path) \union {q}
    BY <1>2, NextChainOK
  <1>4. /\ u.project = q
        /\ u.stamp = [depth |-> t.stamp.depth + 1, chain |-> c]
        /\ u.path = Append(t.path, q)
    BY DEF HopTurn, NextStamp
  <1>5. u \in Turn
    <2>1. [depth |-> t.stamp.depth + 1, chain |-> c] \in Stamp
      BY <1>1, <1>3 DEF Stamp
    <2>2. Append(t.path, q) \in Seq(Projects)
      BY <1>1
    <2> QED BY <2>1, <2>2 DEF HopTurn, NextStamp, Turn
  <1>6. Visited(u.path) = Visited(u.stamp.chain) \union {q}
    BY <1>1, <1>3, <1>4, VisitedAppend
  <1>7. ASSUME NEW i \in 1..Len(u.path), NEW k \in 1..Len(u.path),
               NEW j \in 1..Len(u.path),
               i <= k, k <= j, u.path[i] = u.path[j]
        PROVE  u.path[k] = u.path[i]
    <2> DEFINE n == Len(t.path)
    <2>1. /\ n \in Nat \ {0}
          /\ Len(u.path) = n + 1
          /\ u.path[n + 1] = q
          /\ \A x \in 1..n : u.path[x] = t.path[x]
          /\ t.path[n] = t.project
      BY <1>1, <1>4 DEF TurnOK
    <2>2. \A x, y, z \in 1..n :
             x <= y /\ y <= z /\ t.path[x] = t.path[z] => t.path[y] = t.path[x]
      BY DEF TurnOK
    <2>3. CASE j \in 1..n
      BY <1>7, <2>1, <2>2, <2>3
    <2>4. CASE j = n + 1 /\ i = n + 1
      BY <1>7, <2>1, <2>4
    <2>5. CASE j = n + 1 /\ i \in 1..n /\ q = t.project
      <3>1. t.path[i] = t.path[n]
        BY <1>7, <2>1, <2>5
      <3>2. CASE k = n + 1
        BY <1>7, <2>1, <2>5, <3>2
      <3>3. CASE k \in 1..n
        <4>1. t.path[k] = t.path[i]
          BY <1>7, <2>1, <2>2, <2>5, <3>1, <3>3
        <4> QED BY <2>1, <2>5, <3>3, <4>1
      <3> QED BY <2>1, <3>2, <3>3
    <2>6. CASE j = n + 1 /\ i \in 1..n /\ q # t.project
      <3>1. q \notin Visited(t.stamp.chain)
        BY <2>6 DEF HopAllowed
      <3>2. Visited(t.path) = Visited(t.stamp.chain) \union {t.project}
        BY DEF TurnOK
      <3>3. q \notin Visited(t.path)
        BY <2>6, <3>1, <3>2
      <3>4. t.path[i] \in Visited(t.path)
        BY <2>1, <2>6 DEF Visited
      <3> QED BY <1>7, <2>1, <2>6, <3>3, <3>4
    <2> QED BY <2>1, <2>3, <2>4, <2>5, <2>6
  <1>8. /\ u.path # <<>>
        /\ u.path[Len(u.path)] = u.project
        /\ u.stamp.depth = Len(u.path) - 1
        /\ u.stamp.depth <= MaxDepth
        /\ Len(u.stamp.chain) <= u.stamp.depth + 1
    <2>1. t.stamp.depth = Len(t.path) - 1
      BY DEF TurnOK
    <2> QED BY <1>1, <1>2, <1>3, <1>4, <2>1, DepthAssumption
  <1> QED BY <1>3, <1>4, <1>5, <1>6, <1>7, <1>8 DEF TurnOK

\* Every step keeps the inductive invariant.
LEMMA StepInv == IInv /\ [Next]_vars => IInv'
  <1> SUFFICES ASSUME IInv, [Next]_vars PROVE IInv'
    OBVIOUS
  <1>1. ASSUME NEW t \in turns, EndTurn(t) PROVE IInv'
    BY <1>1 DEF IInv, EndTurn
  <1>2. ASSUME NEW p \in Projects, NEW child \in BOOLEAN, HumanTurn(p, child)
        PROVE  IInv'
    <2>1. TurnOK(RootTurn(p, child))
      BY RootTurnOK
    <2> QED BY <1>2, <2>1 DEF IInv, HumanTurn
  <1>3. ASSUME NEW t \in turns, NEW q \in Projects, Send(t, q)
        PROVE  IInv'
    <2>1. TurnOK(HopTurn(t, q, FALSE))
      BY <1>3, HopTurnOK DEF IInv, Send
    <2> QED BY <1>3, <2>1 DEF IInv, Send
  <1>4. ASSUME NEW t \in turns, NEW q \in Projects, Delegate(t, q)
        PROVE  IInv'
    <2>1. TurnOK(HopTurn(t, q, TRUE))
      BY <1>4, HopTurnOK DEF IInv, Delegate
    <2> QED BY <1>4, <2>1 DEF IInv, Delegate
  <1>5. ASSUME NEW t \in turns, NEW targets \in SUBSET Projects, Batch(t, targets)
        PROVE  IInv'
    <2>1. \A q \in targets : TurnOK(HopTurn(t, q, TRUE))
      BY <1>5, HopTurnOK DEF IInv, Batch
    <2>2. t.project \in Projects
      BY <1>5 DEF IInv, TurnOK, Turn
    <2> QED BY <1>5, <2>1, <2>2 DEF IInv, Batch
  <1>6. ASSUME NEW p \in awaiting, Synthesis(p)
        PROVE  IInv'
    <2>1. TurnOK(RootTurn(p, FALSE))
      BY RootTurnOK DEF IInv
    <2> QED BY <1>6, <2>1 DEF IInv, Synthesis
  <1>7. CASE UNCHANGED vars
    BY <1>7 DEF IInv, vars
  <1> QED BY <1>1, <1>2, <1>3, <1>4, <1>5, <1>6, <1>7 DEF Next

THEOREM Inductive == Spec => []IInv
  <1>1. Init => IInv
    BY DEF Init, IInv
  <1> QED BY <1>1, StepInv, PTL DEF Spec

\* The turns and the pending fan-outs always have their types.
THEOREM TypeCorrect == Spec => []TypeOK
  <1>1. IInv => TypeOK
    BY DEF IInv, TypeOK, TurnOK
  <1> QED BY <1>1, Inductive, PTL

\* The stamp the guard reads is the true history of the chain, for any number
\* of projects and any depth limit: the defensive trim never bites.
THEOREM StampIsHistory == Spec => []StampTellsHistory
  <1>1. IInv => StampTellsHistory
    BY DEF IInv, StampTellsHistory, TurnOK
  <1> QED BY <1>1, Inductive, PTL

\* No mixture of sends, single delegations and fan-outs makes a chain longer
\* than maxDelegationDepth hops.
THEOREM DepthIsBounded == Spec => []DepthBounded
  <1>1. IInv => DepthBounded
    BY DEF IInv, DepthBounded, TurnOK
  <1> QED BY <1>1, Inductive, PTL

\* No mixture of them brings a chain back to a project it has left.
THEOREM NoLoop == Spec => []NoProjectRevisited
  <1>1. IInv => NoProjectRevisited
    BY DEF IInv, NoProjectRevisited, TurnOK
  <1> QED BY <1>1, Inductive, PTL

\* Whatever mixture of tools makes the hops, the guard keeps what it promises.
THEOREM GuardIsRight == Spec => []GuardHolds
  BY StampIsHistory, DepthIsBounded, NoLoop, PTL DEF GuardHolds
=============================================================================
