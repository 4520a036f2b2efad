----------------------------- MODULE AgentLoop -----------------------------
(***************************************************************************)
(* AgentLoop::run (rc-core/src/agent.rs): one session, one prompt after    *)
(* the other.  Each prompt is a loop of model requests; a response ends    *)
(* the turn, or is answered (its tool calls run, a bounded recovery) and   *)
(* the loop goes round.  The user may cancel, and the turn's deadline may  *)
(* pass, at any moment; both are noticed at the two awaits of the loop,    *)
(* the model request and the tool batch.                                   *)
(*                                                                         *)
(* A tool batch is one step here, with the answers BatchContract promises  *)
(* (module ToolBatch is the batch in detail).                              *)
(*                                                                         *)
(* Abstracted: texts, reasoning, traces and token counts; a call is its    *)
(* position in the response; a response costs 0 (no usage reported) or 1.  *)
(* The research nudge and the estimator change only what a request says.   *)
(***************************************************************************)
EXTENDS Integers, Sequences, FiniteSets

CONSTANTS
  MaxPrompts,        \* bound on the prompts of the session
  MaxCalls,          \* bound on the calls of a response
  MAX_ITERS,         \* AgentLoop.max_iters
  MAX_LENGTH_RECOVERIES_PER_TURN,
  MAX_UNCONFIRMED_TOOL_RECOVERIES_PER_TURN,
  CompletionReview,  \* AgentLoop.completion_review
  HasDeadline,       \* whether a turn_timeout is set
  BatchBodies,       \* the bodies a batch may hand back
  Costs              \* the costs of a response

Bodies == {"ok", "error", "denied", "interrupted"}

ASSUME LoopAssumption ==
  /\ MaxPrompts \in Nat /\ MaxCalls \in Nat /\ MAX_ITERS \in Nat
  /\ MAX_LENGTH_RECOVERIES_PER_TURN \in Nat
  /\ MAX_UNCONFIRMED_TOOL_RECOVERIES_PER_TURN \in Nat
  /\ CompletionReview \in BOOLEAN /\ HasDeadline \in BOOLEAN
  /\ BatchBodies \subseteq Bodies /\ BatchBodies # {}
  /\ Costs \subseteq {0, 1}

VARIABLES
  messages,         \* Session.messages
  pc,               \* "idle", or where run is
  iters,            \* model requests of this turn
  lengthUsed,       \* length_recoveries_used
  unconfirmedUsed,  \* unconfirmed_tool_recoveries_used
  reviewUsed,       \* completion_review_used
  toolWork,         \* tool_work_observed
  calls,            \* calls of the batch being executed
  cancelled,        \* the turn's cancellation token
  expired,          \* the turn's deadline has passed
  totalCost,        \* Session.total_cost
  prompts,          \* prompts submitted so far
  outcome           \* how the last turn ended

budgets == <<lengthUsed, unconfirmedUsed, reviewUsed, toolWork>>
signals == <<cancelled, expired>>
vars == <<messages, pc, iters, budgets, calls, signals, totalCost, prompts, outcome>>

FinishReason == {"tool_calls", "stop", "length", "content_filter", "other"}

\* What a model response is to the loop: blank, when it has no visible text;
\* ceiling, when its reasoning used the completion limit up.
Response ==
  {r \in [fin : FinishReason, calls : 0..MaxCalls, blank : BOOLEAN,
          ceiling : BOOLEAN, cost : Costs] : r.ceiling => r.blank}

\* The turns of a transcript.
User == [kind |-> "user"]
Assistant(r, fin) == [kind |-> "assistant", calls |-> r.calls, fin |-> fin, cost |-> r.cost]
ToolResult(c, body) == [kind |-> "tool", call |-> c, body |-> body]
Recovery(why) == [kind |-> "note", why |-> why]
Cancelled == [kind |-> "cancelled"]
Error == [kind |-> "error"]

Turn ==
  {User, Cancelled, Error}
    \cup [kind : {"assistant"}, calls : 0..MaxCalls, fin : FinishReason, cost : {0, 1}]
    \cup [kind : {"tool"}, call : 1..MaxCalls, body : Bodies]
    \cup [kind : {"note"}, why : {"review", "length"}]

\* The answers of a batch, as turns in call order.
ToolResults(answers) == [c \in 1..Len(answers) |-> ToolResult(c, answers[c])]
\* synthesize_interrupted and synthesize_retryable_unconfirmed
Synthesized(n, body) == [c \in 1..n |-> ToolResult(c, body)]

\* looks_like_implicit_length turns a blank stop at the ceiling into a length.
EffectiveFinish(r) ==
  IF r.fin = "stop" /\ r.calls = 0 /\ r.ceiling THEN "length" ELSE r.fin

\* The calls of a response that did not end with tool_calls are never run.
Unconfirmed(r) == r.calls > 0 /\ EffectiveFinish(r) \in {"stop", "length", "other"}

Init ==
  /\ messages = <<>>
  /\ pc = "idle"
  /\ iters = 0
  /\ lengthUsed = 0 /\ unconfirmedUsed = 0 /\ reviewUsed = FALSE /\ toolWork = FALSE
  /\ calls = 0
  /\ cancelled = FALSE /\ expired = FALSE
  /\ totalCost = 0
  /\ prompts = 0
  /\ outcome = "none"

-----------------------------------------------------------------------------

push_turn(turns) == messages' = messages \o turns

Return(how) == pc' = "idle" /\ outcome' = how

\* A prompt: run pushes the user's turn and starts from fresh budgets and a
\* child of a fresh token.
Submit ==
  /\ pc = "idle"
  /\ prompts < MaxPrompts
  /\ prompts' = prompts + 1
  /\ push_turn(<<User>>)
  /\ pc' = "top"
  /\ iters' = 0
  /\ lengthUsed' = 0 /\ unconfirmedUsed' = 0 /\ reviewUsed' = FALSE /\ toolWork' = FALSE
  /\ cancelled' = FALSE /\ expired' = FALSE
  /\ outcome' = "none"
  /\ UNCHANGED <<calls, totalCost>>

\* Mutant of Iterate: a turn out of time continues instead of returning.
IterateIgnoresClock ==
  /\ pc = "top"
  /\ \/ iters' = iters + 1 /\ iters' > MAX_ITERS /\ Return("iters_exceeded")
     \/ expired /\ UNCHANGED <<iters, pc, outcome>>
     \/ iters' = iters + 1 /\ iters' <= MAX_ITERS /\ ~expired
        /\ pc' = "request" /\ UNCHANGED outcome
  /\ UNCHANGED <<messages, budgets, calls, signals, totalCost, prompts>>

\* The top of the loop: the iteration cap, then the clock, then the request.
Iterate ==
  /\ pc = "top"
  /\ iters' = iters + 1
  /\ \/ /\ iters' > MAX_ITERS
        /\ Return("iters_exceeded")
     \/ /\ iters' <= MAX_ITERS
        /\ expired
        /\ Return("time_up")
     \/ /\ iters' <= MAX_ITERS
        /\ ~expired
        /\ pc' = "request"
        /\ UNCHANGED outcome
  /\ UNCHANGED <<messages, budgets, calls, signals, totalCost, prompts>>

\* await_turn_budget around the request: cancellation is looked at first.
RequestCancelled ==
  /\ pc = "request"
  /\ cancelled
  /\ push_turn(<<Cancelled>>)
  /\ Return("cancelled")
  /\ UNCHANGED <<iters, budgets, calls, signals, totalCost, prompts>>

RequestTimeUp ==
  /\ pc = "request"
  /\ expired /\ ~cancelled
  /\ Return("time_up")
  /\ UNCHANGED <<messages, iters, budgets, calls, signals, totalCost, prompts>>

\* Mutant of RequestFails: a request cut off by a cancel leaves an Error turn.
RequestFailsBlind ==
  /\ pc = "request"
  /\ push_turn(<<Error>>)
  /\ Return(IF cancelled THEN "cancelled" ELSE "error")
  /\ UNCHANGED <<iters, budgets, calls, signals, totalCost, prompts>>

\* The request failed for good (the client's retries are spent).
RequestFails ==
  /\ pc = "request"
  /\ IF cancelled THEN push_turn(<<Cancelled>>) /\ Return("cancelled")
                  ELSE push_turn(<<Error>>) /\ Return("error")
  /\ UNCHANGED <<iters, budgets, calls, signals, totalCost, prompts>>

-----------------------------------------------------------------------------
(* A response arrived.  Its cost is added before anything else.            *)

Receive(r) ==
  /\ pc = "request"
  /\ totalCost' = totalCost + r.cost
  /\ UNCHANGED <<iters, signals, prompts>>

\* Mutant of RetryUnconfirmed: the unconfirmed calls are not answered.
RetryUnanswered(r) ==
  /\ Receive(r) /\ Unconfirmed(r)
  /\ push_turn(<<Assistant(r, EffectiveFinish(r))>>)
  /\ IF unconfirmedUsed >= MAX_UNCONFIRMED_TOOL_RECOVERIES_PER_TURN
       THEN Return("incomplete") /\ UNCHANGED unconfirmedUsed
       ELSE unconfirmedUsed' = unconfirmedUsed + 1 /\ pc' = "top" /\ UNCHANGED outcome
  /\ UNCHANGED <<lengthUsed, reviewUsed, toolWork, calls>>

\* Calls that are not confirmed: answered by retryable errors, once.
RetryUnconfirmed(r) ==
  /\ Receive(r)
  /\ Unconfirmed(r)
  /\ push_turn(<<Assistant(r, EffectiveFinish(r))>> \o Synthesized(r.calls, "error"))
  /\ IF unconfirmedUsed >= MAX_UNCONFIRMED_TOOL_RECOVERIES_PER_TURN
       THEN Return("incomplete") /\ UNCHANGED unconfirmedUsed
       ELSE /\ unconfirmedUsed' = unconfirmedUsed + 1
            /\ pc' = "top" /\ UNCHANGED outcome
  /\ UNCHANGED <<lengthUsed, reviewUsed, toolWork, calls>>

\* Confirmed calls (perhaps none) go to execute_batch.
BeginBatch(r) ==
  /\ Receive(r)
  /\ ~Unconfirmed(r) /\ EffectiveFinish(r) = "tool_calls"
  /\ push_turn(<<Assistant(r, "tool_calls")>>)
  /\ pc' = "batch"
  /\ calls' = r.calls
  /\ toolWork' = (toolWork \/ r.calls > 0)
  /\ UNCHANGED <<lengthUsed, unconfirmedUsed, reviewUsed, outcome>>

\* The model stops; after tool work it may be asked, once, to review it.
Stop(r) ==
  /\ Receive(r)
  /\ ~Unconfirmed(r) /\ EffectiveFinish(r) = "stop"
  /\ IF CompletionReview /\ toolWork /\ ~reviewUsed
       THEN /\ push_turn(<<Assistant(r, "stop"), Recovery("review")>>)
            /\ reviewUsed' = TRUE
            /\ pc' = "top" /\ UNCHANGED outcome
       ELSE /\ push_turn(<<Assistant(r, "stop")>>)
            /\ Return("stop") /\ UNCHANGED reviewUsed
  /\ UNCHANGED <<lengthUsed, unconfirmedUsed, toolWork, calls>>

\* The answer was cut off: one continuation, then the turn ends.
Length(r) ==
  /\ Receive(r)
  /\ ~Unconfirmed(r) /\ EffectiveFinish(r) = "length"
  /\ IF lengthUsed >= MAX_LENGTH_RECOVERIES_PER_TURN
       THEN /\ push_turn(<<Assistant(r, "length")>>)
            /\ Return(IF r.blank THEN "no_progress" ELSE "length")
            /\ UNCHANGED lengthUsed
       ELSE /\ push_turn(<<Assistant(r, "length"), Recovery("length")>>)
            /\ lengthUsed' = lengthUsed + 1
            /\ pc' = "top" /\ UNCHANGED outcome
  /\ UNCHANGED <<unconfirmedUsed, reviewUsed, toolWork, calls>>

\* A filtered response, or an unknown reason without calls, ends the turn; its
\* calls are answered as interrupted and not run.
Filtered(r) ==
  /\ Receive(r)
  /\ ~Unconfirmed(r) /\ EffectiveFinish(r) \in {"content_filter", "other"}
  /\ push_turn(<<Assistant(r, EffectiveFinish(r))>> \o Synthesized(r.calls, "interrupted"))
  /\ Return("incomplete")
  /\ UNCHANGED <<budgets, calls>>

-----------------------------------------------------------------------------
(* The batch, by its contract: one answer per call, in call order.         *)

Answers == [1..calls -> BatchBodies]

BatchReturns ==
  /\ pc = "batch"
  /\ \E a \in Answers : push_turn(ToolResults(a))
  /\ pc' = "top"
  /\ calls' = 0
  /\ UNCHANGED <<iters, budgets, signals, totalCost, prompts, outcome>>

\* finish_partial_batch after a cancel, then the Cancelled turn.
BatchCancelled ==
  /\ pc = "batch"
  /\ cancelled
  /\ \E a \in Answers : push_turn(ToolResults(a) \o <<Cancelled>>)
  /\ Return("cancelled")
  /\ calls' = 0
  /\ UNCHANGED <<iters, budgets, signals, totalCost, prompts>>

\* Mutant of BatchTimeUp: the deadline returns without answering the batch.
BatchTimeUpSilent ==
  /\ pc = "batch" /\ expired /\ ~cancelled
  /\ Return("time_up")
  /\ calls' = 0
  /\ UNCHANGED <<messages, iters, budgets, signals, totalCost, prompts>>

\* finish_partial_batch after the deadline.
BatchTimeUp ==
  /\ pc = "batch"
  /\ expired /\ ~cancelled
  /\ \E a \in Answers : push_turn(ToolResults(a))
  /\ Return("time_up")
  /\ calls' = 0
  /\ UNCHANGED <<iters, budgets, signals, totalCost, prompts>>

-----------------------------------------------------------------------------

Cancel ==
  /\ pc # "idle" /\ ~cancelled
  /\ cancelled' = TRUE
  /\ UNCHANGED <<messages, pc, iters, budgets, calls, expired, totalCost, prompts, outcome>>

DeadlinePasses ==
  /\ HasDeadline
  /\ pc # "idle" /\ ~expired
  /\ expired' = TRUE
  /\ UNCHANGED <<messages, pc, iters, budgets, calls, cancelled, totalCost, prompts, outcome>>

\* The session's bounded supply of prompts is used up.
SessionOver ==
  /\ pc = "idle" /\ prompts = MaxPrompts
  /\ UNCHANGED vars

Respond(r) == RetryUnconfirmed(r) \/ BeginBatch(r) \/ Stop(r) \/ Length(r) \/ Filtered(r)

Next ==
  \/ Submit \/ Iterate
  \/ RequestCancelled \/ RequestTimeUp \/ RequestFails
  \/ \E r \in Response : Respond(r)
  \/ BatchReturns \/ BatchCancelled \/ BatchTimeUp
  \/ Cancel \/ DeadlinePasses \/ SessionOver

Spec == Init /\ [][Next]_vars

\* The loop runs when it can, and a fired token or timer wakes it; nothing
\* makes the model answer or a tool return.
FairSpec ==
  /\ Spec
  /\ WF_vars(Iterate)
  /\ WF_vars(RequestCancelled) /\ WF_vars(BatchCancelled)
  /\ WF_vars(RequestTimeUp) /\ WF_vars(BatchTimeUp)

\* The client bounds its retries and idle time, so a request ends; batches end.
Responsive ==
  /\ WF_vars(RequestFails \/ \E r \in Response : Respond(r))
  /\ WF_vars(BatchReturns)

-----------------------------------------------------------------------------
(* Properties                                                              *)

\* What project sends: errors and cancellations stay out of the request.
Visible(turn) == turn.kind \notin {"error", "cancelled"}

Projection(m) ==
  LET sent[n \in 0..Len(m)] ==
        IF n = 0 THEN <<>> ELSE IF Visible(m[n]) THEN Append(sent[n - 1], m[n]) ELSE sent[n - 1]
  IN  sent[Len(m)]

\* verify_invariant: the contiguous tool messages after an assistant message
\* answer exactly its calls.
VerifyInvariant(m) ==
  \A i \in DOMAIN m : (m[i].kind = "assistant" /\ m[i].calls > 0) =>
    LET run == {j \in (i + 1)..Len(m) : \A k \in (i + 1)..j : m[k].kind = "tool"}
    IN  run # {} /\ {m[j].call : j \in run} = 1..m[i].calls

\* Type invariant.
TypeOK ==
  /\ messages \in Seq(Turn)
  /\ pc \in {"idle", "top", "request", "batch"}
  /\ iters \in 0..(MAX_ITERS + 1)
  /\ lengthUsed \in 0..MAX_LENGTH_RECOVERIES_PER_TURN
  /\ unconfirmedUsed \in 0..MAX_UNCONFIRMED_TOOL_RECOVERIES_PER_TURN
  /\ reviewUsed \in BOOLEAN /\ toolWork \in BOOLEAN
  /\ calls \in 0..MaxCalls
  /\ cancelled \in BOOLEAN /\ expired \in BOOLEAN
  /\ totalCost \in Nat
  /\ prompts \in 0..MaxPrompts
  /\ outcome \in {"none", "stop", "length", "no_progress", "incomplete", "cancelled",
                  "time_up", "iters_exceeded", "error"}

\* The tool-answer invariant of project.rs, on whatever is about to be sent:
\* no cancel, timeout, cut-off stream or recovery of this or an earlier turn
\* leaves a call without its contiguous answer.
RequestsWellFormed ==
  pc = "request" => VerifyInvariant(Projection(messages))

\* Call c of a response is answered c turns later, always and exactly once,
\* except for the response whose batch is running, which is the last turn.
AnsweredInPlace ==
  /\ \A i \in DOMAIN messages : messages[i].kind = "assistant" =>
       \/ pc = "batch" /\ i = Len(messages) /\ messages[i].calls = calls
       \/ \A c \in 1..messages[i].calls :
            /\ i + c \in DOMAIN messages
            /\ messages[i + c].kind = "tool" /\ messages[i + c].call = c
  /\ \A j \in DOMAIN messages : messages[j].kind = "tool" =>
       LET i == j - messages[j].call
       IN  /\ i \in DOMAIN messages
           /\ messages[i].kind = "assistant" /\ messages[j].call <= messages[i].calls
  /\ pc = "batch" => messages # <<>> /\ messages[Len(messages)].kind = "assistant"

\* Only the calls of a response that ended with tool_calls are ever executed: a
\* result other than the synthesized ones belongs to such a response.
OnlyConfirmedCallsRun ==
  \A j \in DOMAIN messages :
    (messages[j].kind = "tool" /\ messages[j].body \in {"ok", "denied"}) =>
      messages[j - messages[j].call].fin = "tool_calls"

\* The turns after the last prompt.
ThisTurn == {i \in DOMAIN messages :
               \A j \in DOMAIN messages : messages[j].kind = "user" => j <= i}

\* One prompt makes at most MAX_ITERS requests, and each kind of recovery stays
\* within its budget however cut-off, unconfirmed and final responses alternate.
TurnIsBounded ==
  LET count(P(_)) == Cardinality({i \in ThisTurn : P(messages[i])})
      isResponse(t) == t.kind = "assistant"
      isRetried(t) == t.kind = "assistant" /\ t.calls > 0
                      /\ t.fin \in {"stop", "length", "other"}
      isLength(t) == t.kind = "note" /\ t.why = "length"
      isReview(t) == t.kind = "note" /\ t.why = "review"
  IN  /\ count(isResponse) <= MAX_ITERS
      /\ count(isRetried) <= MAX_UNCONFIRMED_TOOL_RECOVERIES_PER_TURN + 1
      /\ count(isLength) <= MAX_LENGTH_RECOVERIES_PER_TURN
      /\ count(isReview) <= 1

\* The transcript tells how the turn ended: it ends with a Cancelled turn exactly
\* when the turn was cancelled, with an Error exactly when the request failed,
\* and with an answer without calls when the model stopped.
TranscriptTellsOutcome ==
  (pc = "idle" /\ messages # <<>>) =>
    LET last == messages[Len(messages)]
    IN  /\ (last.kind = "cancelled") <=> (outcome = "cancelled")
        /\ (last.kind = "error") <=> (outcome = "error")
        /\ outcome = "stop" => last.kind = "assistant" /\ last.calls = 0

\* "a resumed session reconstructs total_cost exactly from the records": every
\* cost that was added is in the transcript.
CostIsRecorded ==
  totalCost = Cardinality({i \in DOMAIN messages :
                             messages[i].kind = "assistant" /\ messages[i].cost = 1})

\* A cancelled turn ends, whatever the model, the tools and the user do.
CancelEndsTurn == (cancelled /\ pc # "idle") ~> pc = "idle"

\* With a client and tools that come back, every prompt's turn ends.
TurnEnds == Responsive => (pc # "idle" ~> pc = "idle")

\* No turn is left hanging: a cancelled one ends without any cooperation, and
\* with cooperation each ends by itself.
TurnsEnd == CancelEndsTurn /\ TurnEnds

\* The transcript is the record of the session: it tells how each turn ended and
\* every cost that was charged, after any failures, recoveries and cancellations.
TranscriptTells == TranscriptTellsOutcome /\ CostIsRecorded
=============================================================================
