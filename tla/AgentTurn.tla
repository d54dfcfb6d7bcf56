------------------------------ MODULE AgentTurn ------------------------------
(***************************************************************************)
(* The agent loop of one chat (project.go sendMessage, stagnation.go,      *)
(* permission_policy.go) and the request it makes of its transcript        *)
(* (model_switch.go, history_sanitizer.go, anthropic.go): ask the model,   *)
(* run the tools it calls, send their results, and go on until it answers  *)
(* in words.  Stop, ClearHistory, the 30-minute ceiling, an overflowing    *)
(* context, a failing provider and the person who approves tools come in   *)
(* between.                                                                *)
(*                                                                         *)
(* One action is one critical section of session.mu, one request or one    *)
(* tool.  Sizes are left out: whatever a compaction may drop, it drops.    *)
(* The IDs of tool calls are fresh, and every retry of a request that      *)
(* has shown nothing yet is part of that request.                          *)
(***************************************************************************)
EXTENDS Integers, SequencesExt

CONSTANTS
    MaxPrompts,         \* bound of the model: messages of the person
    MaxCalls,           \* bound of the model: tool calls of the model
    CallsAtOnce,        \* bound of the model: tool calls in one answer
    Apps,               \* applications that computer_* tools may look at
    KeepRecent,         \* keepRecent of compactHistory
    MaxRounds,          \* rounds of the outer loop
    MaxToolRounds,      \* rounds of the tool loop
    MaxRecoveries,      \* maxContextRecoveryAttempts
    MaxContinuations,   \* maxTruncationContinuations
    MaxStuck,           \* MaxIncompleteWorkContinuations
    MaxPreviewNudges,   \* nudges to look at the preview
    Persona             \* what is said first reads like a system prompt and its
                        \*   acknowledgement

ASSUME AgentAssumption ==
    /\ {MaxPrompts, MaxCalls, CallsAtOnce, KeepRecent, MaxRounds, MaxToolRounds,
        MaxRecoveries, MaxContinuations, MaxStuck, MaxPreviewNudges} \subseteq Nat
    /\ Apps \intersect {"changes", "none", "free", "kept", "exact"} = {}
    /\ Persona \in BOOLEAN

VARIABLES
    transcript, \* session.history
    prompt,     \* the number of the latest message of the person
    stage,      \* where the loop is
    life,       \* ctx: "none", "live" or "over"
    emptying,   \* ClearHistory has stopped the turn and not yet emptied the chat
    sent,       \* the history of the request in flight
    squeezed,   \* how it was made shorter: "no", "compacted", "emergency" or "twice"
    answer,     \* collected
    todo,       \* the calls of answer that have no outcome yet
    outcomes,   \* funcParts: the calls that have one
    pictures,   \* funcParts holds the pictures of a tool
    using,      \* the permission that the call at hand is asked for or runs under
    consent,    \* approved and computerApprovals: "open", "yes" or "no"
    counts,     \* the counters of the loop
    issued,     \* the calls the model has ever made
    turnedDown, \* auxiliary: what the person has refused in this turn
    ran         \* auxiliary: the calls of this turn whose tools have run

asking == <<sent, squeezed>>
replying == <<answer, issued>>
calling == <<todo, outcomes, pictures, using>>
approving == <<consent, turnedDown>>
agentVars == <<transcript, prompt, stage, life, emptying, asking, replying,
               calling, approving, counts, ran>>

Calls == 1..MaxCalls
Grants == {"changes"} \union Apps

\* One content of the history: who put it there, the message it is, the calls
\* and the results in it, and whether it holds anything besides these.
Item == [by : {"prompt", "nudge", "results", "model"}, prompt : Nat,
         calls : SUBSET Calls, results : SUBSET Calls, other : BOOLEAN]
Words(who, n) == [by |-> who, prompt |-> n, calls |-> {}, results |-> {}, other |-> TRUE]
Results == [by |-> "results", prompt |-> 0, calls |-> {}, results |-> outcomes,
            other |-> pictures]
Reply == [text : BOOLEAN, calls : SUBSET Calls, cut : BOOLEAN]
\* An answer with nothing in it is recorded as a blank.
Spoken(r) == [by |-> "model", prompt |-> 0, calls |-> r.calls, results |-> {},
              other |-> r.text \/ r.calls = {}]
Partial == Spoken([text |-> TRUE, calls |-> {}, cut |-> FALSE])
NoReply == [text |-> FALSE, calls |-> {}, cut |-> FALSE]
NoCounts == [rounds |-> 0, toolRounds |-> 0, recoveries |-> 0, continuations |-> 0,
             stuck |-> 0, previews |-> 0, progress |-> FALSE, warned |-> FALSE]
InFlight == stage \in {"asking", "answering"}

AgentInit ==
    /\ transcript = <<>> /\ prompt = 0 /\ stage = "idle" /\ life = "none"
    /\ emptying = FALSE /\ sent = <<>> /\ squeezed = "no" /\ answer = NoReply
    /\ todo = {} /\ outcomes = {} /\ pictures = FALSE /\ using = "none"
    /\ consent = [g \in Grants |-> "open"] /\ counts = NoCounts
    /\ turnedDown = {} /\ ran = {} /\ issued = 0

-----------------------------------------------------------------------------
(* The request: compaction, sanitizer and conversion. *)

\* findExchangeStarts: every content of the user that is more than results.
Starts(h) == {i \in 1..Len(h) : h[i].by # "model" /\ (h[i].results = {} \/ h[i].other)}
From(h, i) == SubSeq(h, i, Len(h))
Least(S) == CHOOSE i \in S : \A j \in S : i <= j

\* injectContinuationHint, into the copy that is sent.
WithHint(h) ==
    IF h # <<>> /\ h[Len(h)].by # "model"
    THEN [h EXCEPT ![Len(h)].other = TRUE]
    ELSE Append(h, Words("nudge", 0))

\* compactHistory: the first exchange stays, and so do the most recent ones.
Compactions(h) ==
    LET later == Starts(h) \ {Least(Starts(h))}
    IN {WithHint(SubSeq(h, 1, Least(later) - 1) \o From(h, i)) :
            i \in {j \in later : /\ j # Least(later)
                                 /\ Cardinality({k \in later : k >= j}) >= KeepRecent}}

\* emergencyCompactHistory: only the most recent exchanges stay.
Emergencies(h) == {WithHint(From(h, i)) : i \in Starts(h) \ {Least(Starts(h))}}

Calling(h, c, n) == Cardinality({i \in 1..n : c \in h[i].calls})
Answering(h, c, n) == Cardinality({i \in 1..n : c \in h[i].results})
Lesser(m, n) == IF m <= n THEN m ELSE n

\* sanitizeToolPairsWithPendingResults: of the calls and results with one ID,
\* the first of each stay, as many as there are of both.
Pairs_NoPending(h, pending, c) == Lesser(Calling(h, c, Len(h)), Answering(h, c, Len(h)))
Pairs(h, pending, c) ==
    Lesser(Calling(h, c, Len(h)), Answering(h, c, Len(h)) + (IF c \in pending THEN 1 ELSE 0))
Clean(h, pending, i) ==
    [h[i] EXCEPT
        !.calls = {c \in @ : Calling(h, c, i) <= Pairs(h, pending, c)},
        !.results = {c \in @ : Answering(h, c, i) <= Pairs(h, pending, c)}]
\* What is left empty is left out.
Keep(kept, item) ==
    IF item.other \/ item.calls # {} \/ item.results # {} THEN Append(kept, item) ELSE kept
Sanitized(h, pending) ==
    LET kept[n \in 0..Len(h)] ==
            IF n = 0 THEN <<>> ELSE Keep(kept[n - 1], Clean(h, pending, n))
    IN kept[Len(h)]

\* A first message that reads like a system prompt is not sent, and neither is
\* an acknowledgement of it.
SkipFirst(h) ==
    LET read == Persona /\ h # <<>> /\ h[1].by = "prompt"
        acknowledged == read /\ Len(h) > 1 /\ h[2].by = "model" /\ h[2].other
    IN From(h, IF acknowledged THEN 3 ELSE IF read THEN 2 ELSE 1)

\* A message without the order of its parts: orderToolResultsFirst sees to that.
Message(item) ==
    [role |-> IF item.by = "model" THEN "assistant" ELSE "user",
     prompts |-> {item.prompt} \ {0}, calls |-> item.calls, results |-> item.results]
Merged(m, n) ==
    [role |-> m.role, prompts |-> m.prompts \union n.prompts,
     calls |-> m.calls \union n.calls, results |-> m.results \union n.results]

\* mergeConsecutiveMessages: a message joins the last one if their roles agree.
Joining(done, m) ==
    IF done # <<>> /\ Last(done).role = m.role
    THEN Append(Front(done), Merged(Last(done), m))
    ELSE Append(done, m)
Joined(messages) ==
    LET done[n \in 0..Len(messages)] ==
            IF n = 0 THEN <<>> ELSE Joining(done[n - 1], messages[n])
    IN done[Len(messages)]

\* SendMessageWithHistory, which ends in a message of its own, and
\* SendFunctionResponse.
Payload ==
    LET pending == IF stage = "answering" THEN outcomes ELSE {}
        last == IF stage = "answering" THEN Results ELSE Words("nudge", 0)
        history == SkipFirst(Sanitized(sent, pending))
    IN Joined([i \in 1..Len(history) + 1 |->
                   Message(IF i <= Len(history) THEN history[i] ELSE last)])

-----------------------------------------------------------------------------
(* The loop. *)

Proceed(s) == stage' = s
\* sendMessage returns, and with it go its variables.
Ends ==
    /\ Proceed("idle") /\ life' = "none"
    /\ sent' = <<>> /\ squeezed' = "no" /\ answer' = NoReply /\ counts' = NoCounts
    /\ todo' = {} /\ outcomes' = {} /\ pictures' = FALSE /\ using' = "none"
    /\ consent' = [g \in Grants |-> "open"] /\ turnedDown' = {} /\ ran' = {}
CountUp(f) == counts' = [counts EXCEPT ![f] = @ + 1]

TakePrompt ==
    /\ stage = "idle" /\ ~emptying /\ prompt < MaxPrompts
    /\ prompt' = prompt + 1 /\ life' = "live" /\ Proceed("round")
    /\ transcript' = Append(transcript, Words("prompt", prompt'))
    /\ UNCHANGED <<emptying, asking, replying, calling, approving, counts, ran>>

\* The turn is given up: its context is over, or its rounds are used up.
GiveUp ==
    /\ \/ stage \in {"round", "tools", "asking", "answering"} /\ life # "live"
       \/ stage = "round" /\ counts.rounds >= MaxRounds
    /\ Ends /\ UNCHANGED <<transcript, prompt, emptying, issued>>

\* The history a request starts from, shortened when it is too long.
Snapshot ==
    \/ sent' = transcript /\ squeezed' = "no"
    \/ sent' \in Compactions(transcript) /\ squeezed' = "compacted"

ConsentNextRound_Forgotten == [g \in Grants |-> "open"]
\* "Approval is scoped to the complete user turn".
ConsentNextRound == consent

OpenRound ==
    /\ stage = "round" /\ life = "live" /\ counts.rounds < MaxRounds
    /\ Snapshot
    /\ counts' = [counts EXCEPT !.rounds = @ + 1, !.toolRounds = 0, !.warned = FALSE]
    /\ consent' = ConsentNextRound
    /\ Proceed("asking")
    /\ UNCHANGED <<transcript, prompt, life, emptying, replying, calling, turnedDown, ran>>

\* The provider refuses the request as too long: once more, with less.
Overflow ==
    /\ InFlight /\ life = "live" /\ squeezed \in {"no", "compacted"}
    /\ counts.recoveries < MaxRecoveries
    /\ sent' \in Emergencies(sent)
    /\ squeezed' = (IF squeezed = "no" THEN "emergency" ELSE "twice")
    /\ CountUp("recoveries")
    /\ UNCHANGED <<transcript, prompt, stage, life, emptying, replying, calling, approving, ran>>

\* The request fails for good; what it has shown stays in the transcript.
ProviderFails ==
    /\ InFlight /\ life = "live"
    /\ transcript' \in {transcript, Append(transcript, Partial)}
    /\ Ends /\ UNCHANGED <<prompt, emptying, issued>>

AfterAnswer_Skipped == "heard"
AfterAnswer == IF stage = "answering" THEN "resulted" ELSE "heard"

\* A stream that has ended is taken, also when the context is over by then.
Hear ==
    /\ InFlight
    /\ \E text, cut \in BOOLEAN, n \in 0..CallsAtOnce :
          /\ issued' = issued + n /\ issued' <= MaxCalls
          /\ answer' = [text |-> text, calls |-> issued + 1..issued', cut |-> cut]
    /\ Proceed(AfterAnswer) /\ sent' = <<>> /\ squeezed' = "no"
    /\ UNCHANGED <<transcript, prompt, life, emptying, calling, approving, counts, ran>>

\* The results join the transcript when their request has succeeded.
AppendResults ==
    /\ stage = "resulted"
    /\ transcript' = Append(transcript, Results) /\ Proceed("heard")
    /\ UNCHANGED <<prompt, life, emptying, asking, replying, calling, approving, counts, ran>>

\* recordResponse, and the head of the tool loop.
RecordReply ==
    /\ stage = "heard"
    /\ transcript' = Append(transcript, Spoken(answer))
    /\ IF answer.calls # {} /\ counts.toolRounds < MaxToolRounds
       THEN /\ Proceed("tools") /\ todo' = answer.calls
            /\ counts' = [counts EXCEPT !.toolRounds = @ + 1, !.progress = TRUE]
       ELSE Proceed("judge") /\ todo' = {} /\ UNCHANGED counts
    /\ outcomes' = {} /\ pictures' = FALSE /\ using' = "none"
    /\ UNCHANGED <<prompt, life, emptying, asking, replying, approving, ran>>

-----------------------------------------------------------------------------
(* The tools. *)

AtHand == Least(todo)
NextCall == stage = "tools" /\ life = "live" /\ todo # {}
AnswerCall ==
    /\ todo' = todo \ {AtHand} /\ outcomes' = outcomes \union {AtHand}
    /\ using' = "none" /\ Proceed("tools")

\* The tool is unknown, its arguments are wrong, a hook or the hop guard
\* objects, the mode forbids it, or the person has turned it down.
RefuseCall ==
    /\ NextCall /\ AnswerCall
    /\ UNCHANGED <<transcript, prompt, life, emptying, asking, replying, pictures, approving,
                   counts, ran>>

\* "free": the mode allows it; "kept": the project has a rule for it.
Permit ==
    /\ NextCall
    /\ using' \in {"free", "kept"} \union {g \in Grants : consent[g] = "yes"}
    /\ Proceed("allowed") \/ (using' \in Apps /\ Proceed("confirm"))
    /\ UNCHANGED <<transcript, prompt, life, emptying, asking, replying, todo, outcomes,
                   pictures, approving, counts, ran>>

\* "exact": this very action has to be approved.
AskPerson ==
    /\ NextCall
    /\ \/ using' = "exact" /\ Proceed("confirm")
       \/ using' \in {g \in Grants : consent[g] = "open"} /\ Proceed("person")
    /\ UNCHANGED <<transcript, prompt, life, emptying, asking, replying, todo, outcomes,
                   pictures, approving, counts, ran>>

\* A yes for the turn, or one for this tool in this project.
PersonAllows ==
    /\ stage = "person"
    /\ \/ /\ consent' = [consent EXCEPT ![using] = "yes"] /\ UNCHANGED using
          /\ Proceed("allowed") \/ (using \in Apps /\ Proceed("confirm"))
       \/ /\ using = "changes" /\ using' = "kept"
          /\ Proceed("allowed") /\ UNCHANGED consent
    /\ UNCHANGED <<transcript, prompt, life, emptying, asking, replying, todo, outcomes,
                   pictures, counts, turnedDown, ran>>

\* A no; an answer that fails to come counts as one.
Declined ==
    /\ stage = "person" /\ AnswerCall
    /\ consent' = [consent EXCEPT ![using] = "no"]
    /\ turnedDown' = turnedDown \union {using}
    /\ UNCHANGED <<transcript, prompt, life, emptying, asking, replying, pictures, counts, ran>>

PersonConfirms ==
    /\ stage = "confirm"
    /\ \/ Proceed("allowed") /\ UNCHANGED <<todo, outcomes, using>>
       \/ AnswerCall
    /\ UNCHANGED <<transcript, prompt, life, emptying, asking, replying, pictures, approving,
                   counts, ran>>

QuestionLives_Always == TRUE
\* waitForUserAnswer gives up when its context is over.
QuestionLives == life = "live"

QuestionEnds ==
    /\ ~QuestionLives
    /\ Declined \/ (PersonConfirms /\ todo' # todo)

Execute ==
    /\ stage = "allowed" /\ Proceed("working") /\ ran' = ran \union {AtHand}
    /\ UNCHANGED <<transcript, prompt, life, emptying, asking, replying, calling, approving,
                   counts>>

ToolReturns ==
    /\ stage = "working" /\ AnswerCall /\ pictures' \in {pictures, TRUE}
    /\ UNCHANGED <<transcript, prompt, life, emptying, asking, replying, approving, counts, ran>>

\* checkStagnation: a word of warning, and after that the end of the turn.
LoopGuard ==
    /\ stage = "allowed"
    /\ \/ /\ AnswerCall /\ counts' = [counts EXCEPT !.warned = TRUE]
          /\ UNCHANGED <<life, asking, answer, pictures, approving, ran>>
       \/ counts.warned /\ Ends
    /\ UNCHANGED <<transcript, prompt, emptying, issued>>

SendResults ==
    /\ stage = "tools" /\ life = "live" /\ todo = {}
    /\ Snapshot
    /\ Proceed("answering")
    /\ UNCHANGED <<transcript, prompt, life, emptying, replying, calling, approving, counts, ran>>

-----------------------------------------------------------------------------
(* After an answer in words. *)

Truncated == answer.cut /\ answer.calls = {} /\ answer.text
             /\ counts.continuations < MaxContinuations
Stuck == IF counts.progress THEN 0 ELSE counts.stuck

\* A truncated answer is to be continued, a preview to be looked at, or the
\* model's own list of tasks to be finished.
Nudge ==
    /\ stage = "judge"
    /\ \/ Truncated /\ CountUp("continuations")
       \/ ~answer.cut /\ counts.previews < MaxPreviewNudges /\ CountUp("previews")
       \/ /\ ~answer.cut /\ Stuck < MaxStuck
          /\ counts' = [counts EXCEPT !.stuck = Stuck + 1, !.progress = FALSE]
    /\ transcript' = Append(transcript, Words("nudge", 0)) /\ Proceed("round")
    /\ UNCHANGED <<prompt, life, emptying, asking, replying, calling, approving, ran>>

EndLoop ==
    /\ stage = "judge" /\ ~Truncated
    /\ Ends /\ UNCHANGED <<transcript, prompt, emptying, issued>>

-----------------------------------------------------------------------------
(* What comes in between. *)

StopOrExpire ==
    /\ life = "live" /\ life' = "over"
    /\ UNCHANGED <<transcript, prompt, stage, emptying, asking, replying, calling, approving,
                   counts, ran>>

ClearStops ==
    /\ ~emptying /\ emptying' = TRUE
    /\ life' = (IF life = "live" THEN "over" ELSE life)
    /\ UNCHANGED <<transcript, prompt, stage, asking, replying, calling, approving, counts, ran>>

\* The transcript is emptied, unless the file could not be deleted.
ClearEmpties ==
    /\ emptying /\ emptying' = FALSE /\ transcript' \in {<<>>, transcript}
    /\ UNCHANGED <<prompt, stage, life, asking, replying, calling, approving, counts, ran>>

\* EditUserMessage cuts the transcript in front of words of the user; the
\* message it then sends may be refused like any other.
CutTranscript ==
    /\ stage = "idle"
    /\ \E i \in 1..Len(transcript) :
          /\ transcript[i].by \in {"prompt", "nudge"}
          /\ transcript' = SubSeq(transcript, 1, i - 1)
    /\ UNCHANGED <<prompt, stage, life, emptying, asking, replying, calling, approving, counts,
                   ran>>

-----------------------------------------------------------------------------

\* What the loop does by itself; a provider answers or fails, a tool returns.
Loop ==
    \/ GiveUp \/ OpenRound \/ Overflow \/ ProviderFails \/ Hear \/ AppendResults
    \/ RecordReply \/ RefuseCall \/ Permit \/ AskPerson \/ QuestionEnds \/ Execute
    \/ ToolReturns \/ LoopGuard \/ SendResults \/ Nudge \/ EndLoop

AgentNext ==
    \/ TakePrompt \/ Loop \/ PersonAllows \/ Declined \/ PersonConfirms
    \/ StopOrExpire \/ ClearStops \/ ClearEmpties \/ CutTranscript

AgentSpec == AgentInit /\ [][AgentNext]_agentVars

\* The goroutine of the turn runs on; the person need not answer.
AgentFairness == WF_agentVars(Loop)

-----------------------------------------------------------------------------
(* Properties. *)

\* The transcript, the request and the loop keep their types.
AgentTypeOK ==
    /\ transcript \in Seq(Item) /\ sent \in Seq(Item)
    /\ prompt \in Nat /\ issued \in 0..MaxCalls
    /\ stage \in {"idle", "round", "asking", "heard", "tools", "person", "confirm",
                  "allowed", "working", "answering", "resulted", "judge"}
    /\ life \in {"none", "live", "over"}
    /\ emptying \in BOOLEAN /\ pictures \in BOOLEAN
    /\ squeezed \in {"no", "compacted", "emergency", "twice"}
    /\ answer \in Reply /\ todo \subseteq Calls /\ outcomes \subseteq Calls
    /\ ran \subseteq Calls
    /\ using \in {"none", "free", "kept", "exact"} \union Grants
    /\ consent \in [Grants -> {"open", "yes", "no"}] /\ turnedDown \subseteq Grants

\* What a provider asks of a request: the roles alternate, the last word is
\* the user's, and the calls of a message are answered, all of them and
\* nothing else, at the head of the message that follows it.
WellFormed(messages) ==
    /\ messages[Len(messages)].role = "user"
    /\ messages[Len(messages)].calls = {}
    /\ messages[1].results = {}
    /\ \A i \in 2..Len(messages) :
          /\ messages[i].role # messages[i - 1].role
          /\ messages[i].results = messages[i - 1].calls

\* Whatever a compaction, a Stop, a failed request, an edit or a clear has done
\* to the transcript, no request breaks the pairing of calls and results; only
\* one that was compacted first and then refused may, when the hint of the first
\* compaction is taken for the newest exchange.
RequestsAreWellFormed == InFlight /\ squeezed # "twice" => WellFormed(Payload)

\* "history stays in causal order": results stand right behind their calls, all
\* of them, unless a clear took the calls away.
ResultsFollowCalls ==
    \A i \in 2..Len(transcript) :
        transcript[i].results # {} => transcript[i].results = transcript[i - 1].calls

\* A turn that goes on has the results of all its tools in the transcript.
RunsAreRecorded ==
    stage \in {"round", "judge"} /\ life = "live" =>
        ran \subseteq UNION {transcript[i].results : i \in 1..Len(transcript)}

\* The transcript tells what was done, in the order in which it was.
TranscriptIsCausal == ResultsFollowCalls /\ RunsAreRecorded

\* What the person has turned down in a turn stays turned down until the next
\* message, through nudges and further rounds; only a rule of the project, or
\* an approval of the very action, lets such a tool run.
DenialStands == stage \in {"allowed", "working"} => using \notin turnedDown

\* Stop, a clear and the ceiling end the turn, whatever it is doing, also when
\* the person leaves a question open.
StopEndsTurn == life = "over" ~> life = "none"

\* "Use explicit system instruction - skip heuristic extraction from history":
\* what a person has said, and the request still holds, reaches the model.
MessagesAreSent ==
    InFlight =>
        \A i \in 1..Len(sent) : sent[i].by = "prompt" =>
            \E j \in 1..Len(Payload) : sent[i].prompt \in Payload[j].prompts
=============================================================================
