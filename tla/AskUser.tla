-------------------------------- MODULE AskUser --------------------------------
(***************************************************************************)
(* Questions and approvals (ask_user.go).  A goroutine that needs a person *)
(* queues at the gate of its chat, registers its question under a fresh    *)
(* ID, shows a card and waits for an answer, a dismissal or the end of its *)
(* own context.  The frontend draws one card per chat, so the gate lets    *)
(* one question through at a time; it exists while somebody holds it or    *)
(* queues at it.                                                           *)
(*                                                                         *)
(* Each element of Askers is one call of waitForUserAnswer.  A gate is     *)
(* named after the call that created it.  Every action is one critical     *)
(* section of askUserRegistry.mu, one channel operation or one event.      *)
(***************************************************************************)
EXTENDS Integers, FiniteSets

CONSTANTS
    Askers,        \* calls of waitForUserAnswer
    Routes,        \* chats: project and session
    QuestionIDs,   \* values of uuid.New
    NoAsker        \* nil

ASSUME AskAssumption ==
    IsFiniteSet(Askers) /\ NoAsker \notin Askers /\ NoAsker \notin Routes

VARIABLES
    routes,      \* routes: the gate of each chat
    refs,        \* refs of each gate
    token,       \* the gates whose token is in their channel
    chatOf,      \* the chat each call asks in
    gate,        \* the gate each call has got hold of
    asker,       \* where each call is
    pending,     \* pending: the call that owns each question ID
    box,         \* the channel of each question
    reply,       \* a resolve or cancel that has taken the ID and not yet sent
    ended,       \* calls whose context is over
    cards        \* the cards the frontend shows

gateVars == <<routes, refs, token, chatOf, gate>>
cardVars == <<pending, box, reply, cards>>
askVars == <<gateVars, cardVars, asker, ended>>

\* "queued": counted at the gate.  "took": has the token, the context is to be
\* checked again.  "granted": acquireRoute returned.  "waiting": the card is
\* shown.  "leaving": the select is over, the deferred calls remain.
\* "returning": no longer counted, the token is to be sent back.
AskerStates == {"idle", "queued", "took", "granted", "registered", "waiting",
                "leaving", "cleaned", "releasing", "returning", "out"}

\* A call that refs counts, and one that keeps the token from the others.
Counted == {"queued", "took", "granted", "registered", "waiting", "leaving",
            "cleaned", "releasing"}
Holding == (Counted \ {"queued"}) \union {"returning"}

Members(g) == {a \in Askers : gate[a] = g /\ asker[a] \in Counted}

AskInit ==
    /\ routes = [r \in Routes |-> NoAsker]
    /\ refs = [g \in Askers |-> 0] /\ token = {}
    /\ chatOf = [a \in Askers |-> NoAsker] /\ gate = [a \in Askers |-> NoAsker]
    /\ asker = [a \in Askers |-> "idle"]
    /\ pending = [q \in QuestionIDs |-> NoAsker]
    /\ box = [a \in Askers |-> "empty"]
    /\ reply = [a \in Askers |-> "none"]
    /\ ended = {} /\ cards = {}

Goes(a, from, to) == asker[a] = from /\ asker' = [asker EXCEPT ![a] = to]

-----------------------------------------------------------------------------
(* acquireRoute. *)

\* The call joins the gate of its chat, or makes one with the token in it.
Join(a, r) ==
    /\ a \notin ended
    /\ Goes(a, "idle", "queued")
    /\ chatOf' = [chatOf EXCEPT ![a] = r]
    /\ LET g == IF routes[r] = NoAsker THEN a ELSE routes[r]
       IN  /\ routes' = [routes EXCEPT ![r] = g]
           /\ refs' = [refs EXCEPT ![g] = @ + 1]
           /\ token' = IF g = a THEN token \union {a} ELSE token
           /\ gate' = [gate EXCEPT ![a] = g]
    /\ UNCHANGED <<cardVars, ended>>

\* The context is over before the call has joined.
TurnedAway(a) ==
    /\ a \in ended
    /\ Goes(a, "idle", "out")
    /\ UNCHANGED <<gateVars, cardVars, ended>>

TakeToken(a) ==
    /\ gate[a] \in token
    /\ Goes(a, "queued", "took")
    /\ token' = token \ {gate[a]}
    /\ UNCHANGED <<routes, refs, chatOf, gate, cardVars, ended>>

\* Mutant: a call that leaves takes the gate away from the others.
Uncounted_DropsGate(a) ==
    /\ refs' = [refs EXCEPT ![gate[a]] = @ - 1]
    /\ routes' = [routes EXCEPT ![chatOf[a]] = NoAsker]

\* refs-- and, for the last one, the removal of the gate if it is still the
\* gate of its chat.
Uncounted(a) ==
    /\ refs' = [refs EXCEPT ![gate[a]] = @ - 1]
    /\ routes' = IF refs'[gate[a]] = 0 /\ routes[chatOf[a]] = gate[a]
                 THEN [routes EXCEPT ![chatOf[a]] = NoAsker] ELSE routes

\* abandonRoute.
Abandon(a) ==
    /\ a \in ended
    /\ Goes(a, "queued", "out")
    /\ Uncounted(a)
    /\ UNCHANGED <<token, chatOf, gate, cardVars, ended>>

\* Mutant: a cancelled call keeps the token it took.
Recheck_KeepsToken(a) ==
    /\ Goes(a, "took", IF a \in ended THEN "out" ELSE "granted")
    /\ UNCHANGED <<gateVars, cardVars, ended>>

\* Cancellation wins over a token that came at the same time.
Recheck(a) ==
    /\ Goes(a, "took", IF a \in ended THEN "releasing" ELSE "granted")
    /\ UNCHANGED <<gateVars, cardVars, ended>>

\* releaseRoute, first half.
Release(a) ==
    /\ Goes(a, "releasing", IF refs[gate[a]] = 1 THEN "out" ELSE "returning")
    /\ Uncounted(a)
    /\ UNCHANGED <<token, chatOf, gate, cardVars, ended>>

\* Second half, outside the lock: a send to a channel of capacity one.
ReturnToken(a) ==
    /\ gate[a] \notin token
    /\ Goes(a, "returning", "out")
    /\ token' = token \union {gate[a]}
    /\ UNCHANGED <<routes, refs, chatOf, gate, cardVars, ended>>

-----------------------------------------------------------------------------
(* waitForUserAnswer, once the gate is passed. *)

\* register refuses an ID that is in use.
MayRegister(q) == pending[q] = NoAsker

Register(a) ==
    /\ Goes(a, "granted", "registered")
    /\ \E q \in QuestionIDs :
        /\ MayRegister(q)
        /\ pending' = [pending EXCEPT ![q] = a]
    /\ UNCHANGED <<gateVars, box, reply, ended, cards>>

ShowCard(a) ==
    /\ Goes(a, "registered", "waiting")
    /\ cards' = cards \union {a}
    /\ UNCHANGED <<gateVars, pending, box, reply, ended>>

\* An answer, a closed channel or the end of the context.
Receive(a) ==
    /\ box[a] # "empty" \/ a \in ended
    /\ Goes(a, "waiting", "leaving")
    /\ UNCHANGED <<gateVars, cardVars, ended>>

\* cleanup removes the ID only while the call is still its owner.
Cleanup(a) ==
    /\ Goes(a, "leaving", "cleaned")
    /\ pending' = [q \in QuestionIDs |->
                    IF pending[q] = a THEN NoAsker ELSE pending[q]]
    /\ UNCHANGED <<gateVars, box, reply, ended, cards>>

\* The card is closed before the next question may open one.
CloseCard(a) ==
    /\ Goes(a, "cleaned", "releasing")
    /\ cards' = cards \ {a}
    /\ UNCHANGED <<gateVars, pending, box, reply, ended>>

-----------------------------------------------------------------------------
(* The person, and the owners of the contexts. *)

\* AnswerQuestion and CancelQuestion take the ID, from a card that was shown.
\* The call may come late: the question's own context may be over by then.
Resolve(q, kind) ==
    /\ pending[q] # NoAsker /\ asker[pending[q]] # "registered"
    /\ reply' = [reply EXCEPT ![pending[q]] = kind]
    /\ pending' = [pending EXCEPT ![q] = NoAsker]
    /\ UNCHANGED <<gateVars, asker, box, ended, cards>>

\* They send the answer, or close the channel, after they have left the lock.
Deliver(a) ==
    /\ reply[a] # "none"
    /\ box' = [box EXCEPT ![a] = reply[a]]
    /\ reply' = [reply EXCEPT ![a] = "none"]
    /\ UNCHANGED <<gateVars, asker, pending, ended, cards>>

\* Stop, a timeout, the end of a turn or of the program.
EndContext(a) ==
    /\ a \notin ended /\ asker[a] # "out"
    /\ ended' = ended \union {a}
    /\ UNCHANGED <<gateVars, asker, cardVars>>

AskerStep(a) ==
    \/ TurnedAway(a) \/ TakeToken(a) \/ Abandon(a) \/ Recheck(a)
    \/ Register(a) \/ ShowCard(a) \/ Receive(a) \/ Cleanup(a) \/ CloseCard(a)
    \/ Release(a) \/ ReturnToken(a)

AskNext ==
    \/ \E a \in Askers, r \in Routes : Join(a, r)
    \/ \E a \in Askers : AskerStep(a) \/ Deliver(a) \/ EndContext(a)
    \/ \E q \in QuestionIDs, kind \in {"answer", "dismissed"} : Resolve(q, kind)

\* A call that has begun goes on, and a reply that took an ID is delivered.
\* Nothing is assumed of the person.
AskFairness ==
    \A a \in Askers : WF_askVars(AskerStep(a)) /\ WF_askVars(Deliver(a))

AskSpec == AskInit /\ [][AskNext]_askVars
AskFairSpec == AskSpec /\ AskFairness

-----------------------------------------------------------------------------
(* Properties. *)

\* Gates, calls, questions and cards have the shape the code gives them.
AskTypeOK ==
    /\ routes \in [Routes -> Askers \union {NoAsker}]
    /\ refs \in [Askers -> Nat] /\ token \subseteq Askers
    /\ chatOf \in [Askers -> Routes \union {NoAsker}]
    /\ gate \in [Askers -> Askers \union {NoAsker}]
    /\ asker \in [Askers -> AskerStates]
    /\ pending \in [QuestionIDs -> Askers \union {NoAsker}]
    /\ box \in [Askers -> {"empty", "answer", "dismissed"}]
    /\ reply \in [Askers -> {"none", "answer", "dismissed"}]
    /\ ended \subseteq Askers /\ cards \subseteq Askers

\* "The frontend intentionally renders one question card per chat": no question
\* or approval overwrites the card of another one of its chat.
OneCard ==
    \A a, b \in cards : chatOf[a] = chatOf[b] => a = b

\* A gate is listed exactly while somebody is counted at it, its count is
\* right, and its token is in the channel or with one call: no chat keeps a
\* gate nobody can pass, and none loses the gate that others queue at.
GateAccounts ==
    /\ \A g \in Askers : refs[g] = Cardinality(Members(g))
    /\ \A r \in Routes : routes[r] # NoAsker => refs[routes[r]] > 0
    /\ \A a \in Askers : asker[a] \in Counted => routes[chatOf[a]] = gate[a]
    /\ \A a \in Askers : asker[a] \in Holding => gate[a] \notin token

\* A question whose card waits can be answered: it owns an ID, or its answer is
\* on the way.  A late cleanup or a second use of an ID never orphans it.
WaiterIsReachable ==
    \A a \in Askers : asker[a] = "waiting" /\ box[a] = "empty"
        => reply[a] # "none" \/ \E q \in QuestionIDs : pending[q] = a

\* Every call that queues is let through or gives up, whatever becomes of the
\* calls before it: only a card that waits for the person holds it up.
QueueMoves ==
    \A a \in Askers : asker[a] = "queued" ~>
        asker[a] # "queued" \/ \E b \in cards : chatOf[b] = chatOf[a]

\* A call whose context is over leaves and takes its card with it.
EndedLeaves ==
    \A a \in Askers : a \in ended ~> asker[a] = "out" /\ a \notin cards

\* Every card is the only one of its chat, and every waiting card can still be
\* answered.
QuestionsStand == OneCard /\ WaiterIsReachable

\* No call waits for ever for anything but the person.
AskSettles == QueueMoves /\ EndedLeaves
=============================================================================
