-------------------------- MODULE AgentLoopProofs --------------------------
(***************************************************************************)
(* Safety of AgentLoop::run for every cap, budget and size of response: no *)
(* way a turn can go leaves a tool call of the transcript without its      *)
(* answer, and no call runs that the model did not confirm.                *)
(***************************************************************************)
EXTENDS AgentLoop, FiniteSetTheorems, SequenceTheorems, WellFoundedInduction, TLAPS

-----------------------------------------------------------------------------
(* Transcripts whose calls are all answered, and transcripts that owe the  *)
(* answers of their last turn.                                             *)

\* Turn i is a response, and call c is answered c turns later, for every c.
AnsweredAt(m, i) ==
  \A c \in 1..m[i].calls :
    i + c \in 1..Len(m) /\ m[i + c].kind = "tool" /\ m[i + c].call = c

\* Turn j answers a call of a response before it, one that may have run only
\* if the model confirmed it.
AnswerAt(m, j) ==
  LET i == j - m[j].call
  IN  /\ i \in 1..Len(m)
      /\ m[i].kind = "assistant" /\ m[j].call <= m[i].calls
      /\ m[j].body \in {"ok", "denied"} => m[i].fin = "tool_calls"

Answered(m) ==
  \A i \in 1..Len(m) : /\ m[i].kind = "assistant" => AnsweredAt(m, i)
                       /\ m[i].kind = "tool" => AnswerAt(m, i)

Owing(m, n, fin) ==
  /\ Len(m) > 0
  /\ m[Len(m)].kind = "assistant" /\ m[Len(m)].calls = n /\ m[Len(m)].fin = fin
  /\ \A i \in 1..(Len(m) - 1) : /\ m[i].kind = "assistant" => AnsweredAt(m, i)
                                /\ m[i].kind = "tool" => AnswerAt(m, i)

IInv ==
  /\ TypeOK
  /\ pc # "idle" => iters <= MAX_ITERS
  /\ pc # "batch" => Answered(messages)
  /\ pc = "batch" => Owing(messages, calls, "tool_calls")

\* Length and elements of a transcript with turns pushed.
LEMMA Pushed ==
  ASSUME NEW m \in Seq(Turn), NEW t \in Seq(Turn)
  PROVE  /\ m \o t \in Seq(Turn)
         /\ Len(m \o t) = Len(m) + Len(t) /\ Len(m) \in Nat /\ Len(t) \in Nat
         /\ \A i \in 1..Len(m) : (m \o t)[i] = m[i]
         /\ \A i \in 1..Len(t) : (m \o t)[Len(m) + i] = t[i]
BY ConcatProperties

\* A turn that is neither a response nor an answer owes nothing.
LEMMA PushPlain ==
  ASSUME NEW m \in Seq(Turn), Answered(m), NEW x \in Turn, x.kind \notin {"assistant", "tool"}
  PROVE  Answered(m \o <<x>>)
<1> DEFINE w == m \o <<x>>
<1>1. /\ Len(w) = Len(m) + 1 /\ Len(m) \in Nat
      /\ \A i \in 1..Len(m) : w[i] = m[i]
      /\ w[Len(m) + 1] = x
  <2>1. <<x>> \in Seq(Turn) /\ Len(<<x>>) = 1 /\ <<x>>[1] = x
    OBVIOUS
  <2>2. QED
    BY <2>1, Pushed
<1> HIDE DEF w
<1>2. SUFFICES ASSUME NEW i \in 1..Len(w)
               PROVE  /\ w[i].kind = "assistant" => AnsweredAt(w, i)
                      /\ w[i].kind = "tool" => AnswerAt(w, i)
  BY DEF Answered, w
<1>3. CASE i = Len(m) + 1
  BY <1>1, <1>3
<1>4. CASE i \in 1..Len(m)
  <2>1. w[i] = m[i] /\ m[i] \in Turn
    BY <1>1, <1>4
  <2>2. ASSUME m[i].kind = "assistant" PROVE AnsweredAt(w, i)
    <3>1. AnsweredAt(m, i)
      BY <1>4, <2>2 DEF Answered
    <3>2. QED
      BY <1>1, <1>4, <2>1, <3>1 DEF AnsweredAt
  <2>3. ASSUME m[i].kind = "tool" PROVE AnswerAt(w, i)
    <3>1. AnswerAt(m, i)
      BY <1>4, <2>3 DEF Answered
    <3>2. QED
      BY <1>1, <1>4, <2>1, <3>1 DEF AnswerAt
  <2>4. QED
    BY <2>1, <2>2, <2>3
<1>5. QED
  BY <1>1, <1>3, <1>4

\* A response owes the answers of its calls.
LEMMA PushResponse ==
  ASSUME NEW m \in Seq(Turn), Answered(m), NEW x \in Turn, x.kind = "assistant"
  PROVE  Owing(m \o <<x>>, x.calls, x.fin)
<1> DEFINE w == m \o <<x>>
<1>1. /\ Len(w) = Len(m) + 1 /\ Len(m) \in Nat
      /\ \A i \in 1..Len(m) : w[i] = m[i]
      /\ w[Len(m) + 1] = x
  <2>1. <<x>> \in Seq(Turn) /\ Len(<<x>>) = 1 /\ <<x>>[1] = x
    OBVIOUS
  <2>2. QED
    BY <2>1, Pushed
<1> HIDE DEF w
<1>2. ASSUME NEW i \in 1..(Len(w) - 1)
      PROVE  /\ w[i].kind = "assistant" => AnsweredAt(w, i)
             /\ w[i].kind = "tool" => AnswerAt(w, i)
  <2>1. w[i] = m[i] /\ m[i] \in Turn /\ i \in 1..Len(m)
    BY <1>1
  <2>2. ASSUME m[i].kind = "assistant" PROVE AnsweredAt(w, i)
    <3>1. AnsweredAt(m, i)
      BY <2>1, <2>2 DEF Answered
    <3>2. QED
      BY <1>1, <2>1, <3>1 DEF AnsweredAt
  <2>3. ASSUME m[i].kind = "tool" PROVE AnswerAt(w, i)
    <3>1. AnswerAt(m, i)
      BY <2>1, <2>3 DEF Answered
    <3>2. QED
      BY <1>1, <2>1, <3>1 DEF AnswerAt
  <2>4. QED
    BY <2>1, <2>2, <2>3
<1>3. QED
  BY <1>1, <1>2 DEF Owing, w

\* A turn that answers call c.
IsAnswer(t, c, fin) ==
  /\ t.kind = "tool" /\ t.call = c
  /\ t.body \in {"ok", "denied"} => fin = "tool_calls"

\* The answers of the last response, in call order, settle what is owed.
LEMMA PushAnswers ==
  ASSUME NEW m \in Seq(Turn), NEW n \in Nat, NEW fin, Owing(m, n, fin),
         NEW r \in Seq(Turn), Len(r) = n, \A c \in 1..n : IsAnswer(r[c], c, fin)
  PROVE  Answered(m \o r)
<1> DEFINE w == m \o r
<1>1. /\ Len(w) = Len(m) + n /\ Len(m) \in Nat /\ Len(m) > 0
      /\ \A i \in 1..Len(m) : w[i] = m[i]
      /\ \A c \in 1..n : w[Len(m) + c] = r[c]
  BY Pushed DEF Owing
<1> HIDE DEF w
<1>2. SUFFICES ASSUME NEW i \in 1..Len(w)
               PROVE  /\ w[i].kind = "assistant" => AnsweredAt(w, i)
                      /\ w[i].kind = "tool" => AnswerAt(w, i)
  BY DEF Answered, w
<1>3. CASE i \in 1..(Len(m) - 1)
  <2>1. w[i] = m[i] /\ m[i] \in Turn /\ i \in 1..Len(m)
    BY <1>1, <1>3
  <2>2. ASSUME m[i].kind = "assistant" PROVE AnsweredAt(w, i)
    <3>1. AnsweredAt(m, i)
      BY <1>3, <2>2 DEF Owing
    <3>2. ASSUME NEW c \in 1..m[i].calls
          PROVE  i + c \in 1..Len(w) /\ w[i + c].kind = "tool" /\ w[i + c].call = c
      <4>1. i + c \in 1..Len(m) /\ m[i + c].kind = "tool" /\ m[i + c].call = c
        BY <3>1 DEF AnsweredAt
      <4>2. QED
        BY <1>1, <4>1
    <3>3. QED
      BY <2>1, <3>2 DEF AnsweredAt
  <2>3. ASSUME m[i].kind = "tool" PROVE AnswerAt(w, i)
    <3>1. AnswerAt(m, i)
      BY <1>3, <2>3 DEF Owing
    <3>2. QED
      BY <1>1, <2>1, <3>1 DEF AnswerAt
  <2>4. QED
    BY <2>1, <2>2, <2>3
<1>4. CASE i = Len(m)
  <2>1. w[i].kind = "assistant" /\ w[i].calls = n
    BY <1>1, <1>4 DEF Owing
  <2>2. \A c \in 1..n : /\ i + c \in 1..Len(w)
                        /\ w[i + c].kind = "tool" /\ w[i + c].call = c
    BY <1>1, <1>4, SMTT(60) DEF IsAnswer
  <2>3. QED
    BY <2>1, <2>2 DEF AnsweredAt
<1>5. CASE i > Len(m)
  <2>1. PICK c \in 1..n : i = Len(m) + c
    BY <1>1, <1>5
  <2>2. w[i] = r[c] /\ IsAnswer(r[c], c, fin)
    BY <1>1, <2>1
  <2>3. i - w[i].call = Len(m)
    BY <1>1, <2>1, <2>2 DEF IsAnswer
  <2>4. w[Len(m)].kind = "assistant" /\ w[Len(m)].calls = n /\ w[Len(m)].fin = fin
    BY <1>1 DEF Owing
  <2>5. AnswerAt(w, i)
    BY <1>1, <2>1, <2>2, <2>3, <2>4 DEF AnswerAt, IsAnswer
  <2>6. QED
    BY <2>2, <2>5 DEF IsAnswer
<1>6. QED
  BY <1>1, <1>3, <1>4, <1>5

\* A response without calls owes nothing.
LEMMA PushFinal ==
  ASSUME NEW m \in Seq(Turn), Answered(m), NEW x \in Turn, x.kind = "assistant", x.calls = 0
  PROVE  Answered(m \o <<x>>)
<1>1. Owing(m \o <<x>>, 0, x.fin)
  BY PushResponse
<1>2. m \o <<x>> \in Seq(Turn) /\ <<>> \in Seq(Turn) /\ Len(<<>>) = 0
  BY Pushed
<1>3. Answered((m \o <<x>>) \o <<>>)
  <2>1. \A c \in 1..0 : IsAnswer(<<>>[c], c, x.fin)
    OBVIOUS
  <2>2. 0 \in Nat
    OBVIOUS
  <2>3. QED
    BY <1>1, <1>2, <2>1, <2>2, PushAnswers, Zenon
<1>4. QED
  BY <1>2, <1>3, ConcatEmptySeq

\* A response followed at once by the answers of its calls.
LEMMA PushResponseAnswered ==
  ASSUME NEW m \in Seq(Turn), Answered(m), NEW x \in Turn, x.kind = "assistant", x.calls \in Nat,
         NEW r \in Seq(Turn), Len(r) = x.calls, \A c \in 1..x.calls : IsAnswer(r[c], c, x.fin)
  PROVE  Answered(m \o (<<x>> \o r)) /\ m \o (<<x>> \o r) \in Seq(Turn)
<1>1. Owing(m \o <<x>>, x.calls, x.fin)
  BY PushResponse
<1>2. m \o <<x>> \in Seq(Turn) /\ <<x>> \in Seq(Turn) /\ <<x>> \o r \in Seq(Turn)
  BY Pushed
<1>3. Answered((m \o <<x>>) \o r)
  BY <1>1, <1>2, PushAnswers
<1>4. (m \o <<x>>) \o r = m \o (<<x>> \o r)
  BY <1>2, ConcatAssociative
<1>5. QED
  BY <1>2, <1>3, <1>4, Pushed

\* Two turns pushed at once are two turns pushed one after the other.
LEMMA PushTwo ==
  ASSUME NEW m \in Seq(Turn), NEW x \in Turn, NEW y \in Turn
  PROVE  m \o <<x, y>> = (m \o <<x>>) \o <<y>> /\ m \o <<x>> \in Seq(Turn)
<1>1. <<x>> \in Seq(Turn) /\ <<y>> \in Seq(Turn) /\ <<x, y>> \in Seq(Turn)
  OBVIOUS
<1>2. Len(<<x>>) = 1 /\ Len(<<y>>) = 1 /\ Len(<<x, y>>) = 2
  OBVIOUS
<1>3. /\ <<x>> \o <<y>> \in Seq(Turn) /\ Len(<<x>> \o <<y>>) = 2
      /\ (<<x>> \o <<y>>)[1] = x /\ (<<x>> \o <<y>>)[2] = y
  BY <1>1, <1>2, ConcatProperties
<1>4. <<x, y>> = <<x>> \o <<y>>
  <2> DEFINE s == <<x, y>>
             t == <<x>> \o <<y>>
  <2>1. s[1] = x /\ s[2] = y
    OBVIOUS
  <2>2. s \in Seq(Turn) /\ t \in Seq(Turn) /\ Len(s) = 2 /\ Len(t) = 2
    BY <1>1, <1>2, <1>3
  <2>3. \A i \in 1..2 : s[i] = t[i]
    BY <1>3, <2>1
  <2> HIDE DEF s, t
  <2>4. s = t
    BY <2>2, <2>3, SeqEqual
  <2>5. QED
    BY <2>4 DEF s, t
<1>5. QED
  BY <1>1, <1>4, ConcatAssociative, Pushed

-----------------------------------------------------------------------------
(* The turns the loop pushes                                               *)

\* Prompts, notes and endings are turns that owe nothing.
LEMMA PlainTurns ==
  /\ User \in Turn /\ Cancelled \in Turn /\ Error \in Turn
  /\ Recovery("review") \in Turn /\ Recovery("length") \in Turn
  /\ User.kind = "user" /\ Cancelled.kind = "cancelled" /\ Error.kind = "error"
  /\ Recovery("review").kind = "note" /\ Recovery("length").kind = "note"
BY DEF Turn, User, Cancelled, Error, Recovery

\* The turn of a response.
LEMMA ResponseTurn ==
  ASSUME NEW r \in Response, NEW fin \in FinishReason
  PROVE  /\ Assistant(r, fin) \in Turn
         /\ Assistant(r, fin).kind = "assistant" /\ Assistant(r, fin).fin = fin
         /\ Assistant(r, fin).calls = r.calls /\ r.calls \in 0..MaxCalls
BY LoopAssumption DEF Response, Assistant, Turn, FinishReason

\* The finish reason the loop acts on is one of the five.
LEMMA EffectiveFinishReason ==
  ASSUME NEW r \in Response PROVE EffectiveFinish(r) \in FinishReason
BY DEF Response, EffectiveFinish, FinishReason

\* Synthesized answers: errors and interruptions, so any finish reason will do.
LEMMA SynthesizedTurns ==
  ASSUME NEW n \in 0..MaxCalls, NEW body \in {"error", "interrupted"}, NEW fin
  PROVE  /\ Synthesized(n, body) \in Seq(Turn) /\ Len(Synthesized(n, body)) = n
         /\ \A c \in 1..n : IsAnswer(Synthesized(n, body)[c], c, fin)
<1> DEFINE s == Synthesized(n, body)
<1>1. n \in Nat /\ \A c \in 1..n : c \in 1..MaxCalls
  BY LoopAssumption
<1>2. \A c \in 1..n : ToolResult(c, body) \in Turn
  BY <1>1 DEF ToolResult, Turn, Bodies
<1>3. s \in [1..n -> Turn] /\ \A c \in 1..n : s[c] = ToolResult(c, body)
  BY <1>2 DEF Synthesized
<1>4. QED
  BY <1>1, <1>3 DEF IsAnswer, ToolResult

\* The answers of a batch of confirmed calls.
LEMMA BatchTurns ==
  ASSUME TypeOK, NEW a \in Answers
  PROVE  /\ ToolResults(a) \in Seq(Turn) /\ Len(ToolResults(a)) = calls
         /\ \A c \in 1..calls : IsAnswer(ToolResults(a)[c], c, "tool_calls")
<1> DEFINE s == ToolResults(a)
<1>1. calls \in Nat /\ (\A c \in 1..calls : c \in 1..MaxCalls) /\ Len(a) = calls
  BY LoopAssumption DEF TypeOK, Answers
<1>2. \A c \in 1..calls : ToolResult(c, a[c]) \in Turn
  BY <1>1, LoopAssumption DEF ToolResult, Turn, Answers
<1>3. s \in [1..calls -> Turn] /\ \A c \in 1..calls : s[c] = ToolResult(c, a[c])
  BY <1>1, <1>2 DEF ToolResults
<1>4. QED
  BY <1>1, <1>3 DEF IsAnswer, ToolResult

-----------------------------------------------------------------------------
(* Every action preserves the invariant                                    *)

\* A prompt adds a turn that owes nothing.
LEMMA SubmitStep == IInv /\ Submit => IInv'
<1> SUFFICES ASSUME IInv, Submit PROVE IInv'
  OBVIOUS
<1>1. messages' \in Seq(Turn) /\ Answered(messages')
  BY PushPlain, PlainTurns, Pushed DEF IInv, TypeOK, Submit, push_turn
<1>2. iters' \in 0..(MAX_ITERS + 1) /\ iters' <= MAX_ITERS /\ prompts' \in 0..MaxPrompts
  BY LoopAssumption DEF IInv, TypeOK, Submit
<1>3. /\ lengthUsed' \in 0..MAX_LENGTH_RECOVERIES_PER_TURN
      /\ unconfirmedUsed' \in 0..MAX_UNCONFIRMED_TOOL_RECOVERIES_PER_TURN
  BY LoopAssumption DEF Submit
<1>4. pc' = "top" /\ outcome' = "none" /\ TypeOK'
  BY <1>1, <1>2, <1>3 DEF IInv, TypeOK, Submit
<1>5. QED
  BY <1>1, <1>2, <1>4 DEF IInv

\* The top of the loop pushes nothing; the cap keeps iters in range.
LEMMA IterateStep == IInv /\ Iterate => IInv'
<1> SUFFICES ASSUME IInv, Iterate PROVE IInv'
  OBVIOUS
<1>1. /\ iters' \in 0..(MAX_ITERS + 1) /\ (pc' # "idle" => iters' <= MAX_ITERS)
      /\ pc' \in {"idle", "request"}
  BY LoopAssumption DEF IInv, TypeOK, Iterate, Return
<1>2. messages' = messages /\ Answered(messages)
  BY DEF IInv, Iterate
<1>3. outcome' \in {outcome, "iters_exceeded", "time_up"}
  BY DEF Iterate, Return
<1>4. TypeOK'
  BY <1>1, <1>3 DEF IInv, TypeOK, Iterate, budgets, signals
<1>5. QED
  BY <1>1, <1>2, <1>4 DEF IInv

\* The ways the wait for a response ends without one.
LEMMA RequestEndsStep ==
  IInv /\ (RequestCancelled \/ RequestTimeUp \/ RequestFails) => IInv'
<1> SUFFICES ASSUME IInv, RequestCancelled \/ RequestTimeUp \/ RequestFails PROVE IInv'
  OBVIOUS
<1>1. Answered(messages) /\ messages \in Seq(Turn)
  BY DEF IInv, TypeOK, RequestCancelled, RequestTimeUp, RequestFails
<1>2. messages' \in {messages, messages \o <<Cancelled>>, messages \o <<Error>>}
  BY DEF RequestCancelled, RequestTimeUp, RequestFails, push_turn
<1>3. messages' \in Seq(Turn) /\ Answered(messages')
  <2>1. ASSUME NEW x \in Turn, x.kind \notin {"assistant", "tool"}
        PROVE  messages \o <<x>> \in Seq(Turn) /\ Answered(messages \o <<x>>)
    BY <1>1, <2>1, PushPlain, PushTwo
  <2>2. QED
    BY <1>1, <1>2, <2>1, PlainTurns
<1>4. pc' = "idle" /\ outcome' \in {"cancelled", "time_up", "error"}
      /\ UNCHANGED <<iters, budgets, calls, signals, totalCost, prompts>>
  BY DEF RequestCancelled, RequestTimeUp, RequestFails, Return
<1>5. TypeOK'
  BY <1>3, <1>4 DEF IInv, TypeOK, budgets, signals
<1>6. QED
  BY <1>3, <1>4, <1>5 DEF IInv

\* What every response does: the cost is added, the rest of the loop's state stays.
LEMMA Received ==
  ASSUME IInv, NEW r \in Response, Receive(r)
  PROVE  /\ messages \in Seq(Turn) /\ Answered(messages)
         /\ totalCost' \in Nat /\ UNCHANGED <<iters, signals, prompts>>
         /\ iters <= MAX_ITERS
<1>1. r.cost \in {0, 1}
  BY LoopAssumption DEF Response
<1>2. pc = "request" /\ totalCost' = totalCost + r.cost
  BY DEF Receive
<1>3. QED
  BY <1>1, <1>2 DEF IInv, TypeOK, Receive

\* Unconfirmed calls are answered by errors in the same step.
LEMMA RetryUnconfirmedStep ==
  ASSUME IInv, NEW r \in Response, RetryUnconfirmed(r)
  PROVE  IInv'
<1>1. Receive(r)
  BY DEF RetryUnconfirmed
<1> DEFINE x == Assistant(r, EffectiveFinish(r))
<1>2. /\ x \in Turn /\ x.kind = "assistant" /\ x.calls = r.calls /\ r.calls \in 0..MaxCalls
      /\ r.calls \in Nat
  BY ResponseTurn, EffectiveFinishReason, LoopAssumption
<1>3. messages' = messages \o (<<x>> \o Synthesized(r.calls, "error"))
  BY DEF RetryUnconfirmed, push_turn
<1> HIDE DEF x
<1>4. messages' \in Seq(Turn) /\ Answered(messages')
  BY <1>1, <1>2, <1>3, Received, SynthesizedTurns, PushResponseAnswered
<1>5. unconfirmedUsed' \in 0..MAX_UNCONFIRMED_TOOL_RECOVERIES_PER_TURN
  BY LoopAssumption DEF RetryUnconfirmed, IInv, TypeOK
<1>6. pc' \in {"idle", "top"} /\ outcome' \in {outcome, "incomplete"}
      /\ UNCHANGED <<lengthUsed, reviewUsed, toolWork, calls>>
  BY DEF RetryUnconfirmed, Return
<1>7. TypeOK'
  BY <1>1, <1>4, <1>5, <1>6, Received DEF IInv, TypeOK, signals
<1>8. QED
  BY <1>1, <1>4, <1>6, <1>7, Received DEF IInv

\* Confirmed calls are owed until the batch returns.
LEMMA BeginBatchStep ==
  ASSUME IInv, NEW r \in Response, BeginBatch(r)
  PROVE  IInv'
<1>1. Receive(r)
  BY DEF BeginBatch
<1> DEFINE x == Assistant(r, "tool_calls")
<1>2. /\ x \in Turn /\ x.kind = "assistant" /\ x.calls = r.calls /\ x.fin = "tool_calls"
      /\ r.calls \in 0..MaxCalls
  BY ResponseTurn DEF FinishReason
<1>3. messages' = messages \o <<x>>
  BY DEF BeginBatch, push_turn
<1> HIDE DEF x
<1>4. messages' \in Seq(Turn)
  BY <1>1, <1>2, <1>3, Received, PushTwo
<1>5. Owing(messages', r.calls, "tool_calls")
  BY <1>1, <1>2, <1>3, Received, PushResponse
<1>6. pc' = "batch" /\ calls' = r.calls /\ toolWork' \in BOOLEAN
      /\ UNCHANGED <<lengthUsed, unconfirmedUsed, reviewUsed, outcome>>
  BY DEF BeginBatch
<1>7. TypeOK'
  BY <1>1, <1>2, <1>4, <1>6, Received DEF IInv, TypeOK, signals
<1>8. QED
  BY <1>1, <1>5, <1>6, <1>7, Received DEF IInv

\* A response without calls, alone or followed by a note to the model.
LEMMA FinalTurns ==
  ASSUME IInv, NEW r \in Response, Receive(r), r.calls = 0, NEW fin \in FinishReason,
         NEW why \in {"review", "length"},
         messages' \in {messages \o <<Assistant(r, fin)>>,
                        messages \o <<Assistant(r, fin), Recovery(why)>>}
  PROVE  messages' \in Seq(Turn) /\ Answered(messages')
<1> DEFINE x == Assistant(r, fin)
           y == Recovery(why)
<1>1. x \in Turn /\ x.kind = "assistant" /\ x.calls = 0
  BY ResponseTurn
<1>2. y \in Turn /\ y.kind = "note"
  BY PlainTurns
<1>3. messages' \in {messages \o <<x>>, messages \o <<x, y>>}
  OBVIOUS
<1> HIDE DEF x, y
<1>4. messages \o <<x>> \in Seq(Turn) /\ Answered(messages \o <<x>>)
  BY <1>1, <1>2, PushTwo, PushFinal, Received
<1>5. Answered((messages \o <<x>>) \o <<y>>) /\ (messages \o <<x>>) \o <<y>> \in Seq(Turn)
  BY <1>2, <1>4, PushPlain, PushTwo
<1>6. QED
  BY <1>1, <1>2, <1>3, <1>4, <1>5, PushTwo, Received

\* A response that reaches Stop or Length has no calls.
LEMMA NoCalls ==
  ASSUME NEW r \in Response, ~Unconfirmed(r), EffectiveFinish(r) \in {"stop", "length"}
  PROVE  r.calls = 0
<1>1. r.calls \in 0..MaxCalls
  BY DEF Response
<1>2. QED
  BY <1>1, LoopAssumption DEF Unconfirmed

\* The model stops, or is asked to review.
LEMMA StopStep ==
  ASSUME IInv, NEW r \in Response, Stop(r)
  PROVE  IInv'
<1>1. Receive(r) /\ r.calls = 0
  BY NoCalls DEF Stop
<1>2. messages' \in {messages \o <<Assistant(r, "stop")>>,
                     messages \o <<Assistant(r, "stop"), Recovery("review")>>}
  BY DEF Stop, push_turn
<1>3. messages' \in Seq(Turn) /\ Answered(messages')
  BY <1>1, <1>2, FinalTurns DEF FinishReason
<1>4. pc' \in {"idle", "top"} /\ outcome' \in {outcome, "stop"} /\ reviewUsed' \in BOOLEAN
      /\ UNCHANGED <<lengthUsed, unconfirmedUsed, toolWork, calls>>
  BY DEF Stop, Return, IInv, TypeOK
<1>5. TypeOK'
  BY <1>1, <1>3, <1>4, Received DEF IInv, TypeOK, signals
<1>6. QED
  BY <1>1, <1>3, <1>4, <1>5, Received DEF IInv

\* A cut-off answer.
LEMMA LengthStep ==
  ASSUME IInv, NEW r \in Response, Length(r)
  PROVE  IInv'
<1>1. Receive(r) /\ r.calls = 0
  BY NoCalls DEF Length
<1>2. messages' \in {messages \o <<Assistant(r, "length")>>,
                     messages \o <<Assistant(r, "length"), Recovery("length")>>}
  BY DEF Length, push_turn
<1>3. messages' \in Seq(Turn) /\ Answered(messages')
  BY <1>1, <1>2, FinalTurns DEF FinishReason
<1>4. lengthUsed' \in 0..MAX_LENGTH_RECOVERIES_PER_TURN
  BY LoopAssumption DEF Length, IInv, TypeOK
<1>5. pc' \in {"idle", "top"} /\ outcome' \in {outcome, "no_progress", "length"}
      /\ UNCHANGED <<unconfirmedUsed, reviewUsed, toolWork, calls>>
  BY DEF Length, Return
<1>6. TypeOK'
  BY <1>1, <1>3, <1>4, <1>5, Received DEF IInv, TypeOK, signals
<1>7. QED
  BY <1>1, <1>3, <1>5, <1>6, Received DEF IInv

\* The calls of a filtered response are answered as interrupted.
LEMMA FilteredStep ==
  ASSUME IInv, NEW r \in Response, Filtered(r)
  PROVE  IInv'
<1>1. Receive(r)
  BY DEF Filtered
<1> DEFINE x == Assistant(r, EffectiveFinish(r))
<1>2. /\ x \in Turn /\ x.kind = "assistant" /\ x.calls = r.calls /\ r.calls \in 0..MaxCalls
      /\ r.calls \in Nat
  BY ResponseTurn, EffectiveFinishReason, LoopAssumption
<1>3. messages' = messages \o (<<x>> \o Synthesized(r.calls, "interrupted"))
  BY DEF Filtered, push_turn
<1> HIDE DEF x
<1>4. messages' \in Seq(Turn) /\ Answered(messages')
  BY <1>1, <1>2, <1>3, Received, SynthesizedTurns, PushResponseAnswered
<1>5. pc' = "idle" /\ outcome' = "incomplete" /\ UNCHANGED <<budgets, calls>>
  BY DEF Filtered, Return
<1>6. TypeOK'
  BY <1>1, <1>4, <1>5, Received DEF IInv, TypeOK, signals, budgets
<1>7. QED
  BY <1>1, <1>4, <1>5, <1>6, Received DEF IInv

\* However the batch ends, what was owed is answered.
LEMMA BatchStep ==
  IInv /\ (BatchReturns \/ BatchCancelled \/ BatchTimeUp) => IInv'
<1> SUFFICES ASSUME IInv, BatchReturns \/ BatchCancelled \/ BatchTimeUp PROVE IInv'
  OBVIOUS
<1>1. PICK a \in Answers : messages' \in {messages \o ToolResults(a),
                                          messages \o (ToolResults(a) \o <<Cancelled>>)}
  BY DEF BatchReturns, BatchCancelled, BatchTimeUp, push_turn
<1> DEFINE t == ToolResults(a)
<1>2. messages \in Seq(Turn) /\ Owing(messages, calls, "tool_calls") /\ calls \in Nat
  BY LoopAssumption DEF IInv, TypeOK, BatchReturns, BatchCancelled, BatchTimeUp
<1>3. t \in Seq(Turn) /\ Len(t) = calls /\ \A c \in 1..calls : IsAnswer(t[c], c, "tool_calls")
  BY BatchTurns DEF IInv
<1> HIDE DEF t
<1>4. messages \o t \in Seq(Turn) /\ Answered(messages \o t)
  BY <1>2, <1>3, PushAnswers, Pushed
<1>5. <<Cancelled>> \in Seq(Turn)
  BY PlainTurns
<1>6. messages \o (t \o <<Cancelled>>) = (messages \o t) \o <<Cancelled>>
  BY <1>2, <1>3, <1>5, ConcatAssociative
<1>7. (messages \o t) \o <<Cancelled>> \in Seq(Turn) /\ Answered((messages \o t) \o <<Cancelled>>)
  BY <1>4, <1>5, PushPlain, PlainTurns, Pushed
<1>8. messages' \in Seq(Turn) /\ Answered(messages')
  BY <1>1, <1>4, <1>6, <1>7 DEF t
<1>9. pc' \in {"idle", "top"} /\ outcome' \in {outcome, "cancelled", "time_up"} /\ calls' = 0
      /\ UNCHANGED <<iters, budgets, signals, totalCost, prompts>>
  BY DEF BatchReturns, BatchCancelled, BatchTimeUp, Return
<1>10. TypeOK' /\ (pc' # "idle" => iters' <= MAX_ITERS)
  BY <1>8, <1>9, LoopAssumption DEF IInv, TypeOK, budgets, signals, BatchReturns, BatchCancelled, BatchTimeUp
<1>11. QED
  BY <1>8, <1>9, <1>10 DEF IInv

\* The signals, and the steps that change nothing.
LEMMA SignalStep ==
  IInv /\ (Cancel \/ DeadlinePasses \/ SessionOver \/ UNCHANGED vars) => IInv'
<1> SUFFICES ASSUME IInv, Cancel \/ DeadlinePasses \/ SessionOver \/ UNCHANGED vars PROVE IInv'
  OBVIOUS
<1>1. /\ UNCHANGED <<messages, pc, iters, budgets, calls, totalCost, prompts, outcome>>
      /\ cancelled' \in BOOLEAN /\ expired' \in BOOLEAN
  BY DEF Cancel, DeadlinePasses, SessionOver, vars, signals, IInv, TypeOK
<1>2. QED
  BY <1>1 DEF IInv, TypeOK, budgets

\* The last turn, or one before it.
LEMMA LastOrBefore ==
  ASSUME NEW n \in Nat, NEW i \in 1..n PROVE i = n \/ i \in 1..(n - 1)
OBVIOUS

\* The invariant holds in every reachable state.
THEOREM Invariance == Spec => []IInv
<1>1. Init => IInv
  <2> SUFFICES ASSUME Init PROVE IInv
    OBVIOUS
  <2>1. messages \in Seq(Turn) /\ Len(messages) = 0
    BY DEF Init
  <2>2. /\ 0 \in 0..(MAX_ITERS + 1) /\ 0 \in 0..MAX_LENGTH_RECOVERIES_PER_TURN
        /\ 0 \in 0..MAX_UNCONFIRMED_TOOL_RECOVERIES_PER_TURN
        /\ 0 \in 0..MaxCalls /\ 0 \in 0..MaxPrompts
    BY LoopAssumption
  <2>3. TypeOK
    BY <2>1, <2>2 DEF Init, TypeOK
  <2>4. QED
    BY <2>1, <2>3 DEF Init, IInv, Answered
<1>2. IInv /\ [Next]_vars => IInv'
  BY SubmitStep, IterateStep, RequestEndsStep, RetryUnconfirmedStep, BeginBatchStep, StopStep,
     LengthStep, FilteredStep, BatchStep, SignalStep DEF Next, Respond
<1>3. QED
  BY <1>1, <1>2, PTL DEF Spec

-----------------------------------------------------------------------------
(* What follows                                                            *)

\* Type correctness of the loop, its caps and recovery budgets included.
THEOREM TypeCorrect == Spec => []TypeOK
<1>1. IInv => TypeOK
  BY DEF IInv
<1>2. QED
  BY <1>1, Invariance, PTL

\* However run leaves a turn, every call of the transcript has its answer, at its
\* place, and every answer its call.
THEOREM CallsAnsweredInPlace == Spec => []AnsweredInPlace
<1>1. ASSUME IInv PROVE AnsweredInPlace
  <2>1. messages \in Seq(Turn) /\ Len(messages) \in Nat /\ DOMAIN messages = 1..Len(messages)
    BY <1>1 DEF IInv, TypeOK
  <2>2. CASE pc = "batch"
    <3>1. Owing(messages, calls, "tool_calls")
      BY <1>1, <2>2 DEF IInv
    <3>2. \A i \in 1..Len(messages) : i = Len(messages) \/ i \in 1..(Len(messages) - 1)
      BY <2>1, LastOrBefore
    <3>3. QED
      <4>1. messages # <<>> /\ messages[Len(messages)].kind = "assistant"
            /\ messages[Len(messages)].calls = calls
        BY <2>1, <3>1 DEF Owing
      <4>2. \A i \in 1..Len(messages) :
              /\ messages[i].kind = "assistant" => i = Len(messages) \/ AnsweredAt(messages, i)
              /\ messages[i].kind = "tool" => AnswerAt(messages, i)
        BY <3>1, <3>2, <4>1 DEF Owing
      <4>3. QED
        BY <2>1, <2>2, <4>1, <4>2 DEF AnsweredInPlace, AnsweredAt, AnswerAt
  <2>3. CASE pc # "batch"
    BY <1>1, <2>1, <2>3 DEF IInv, AnsweredInPlace, Answered, AnsweredAt, AnswerAt
  <2>4. QED
    BY <2>2, <2>3
<1>2. QED
  BY <1>1, Invariance, PTL

\* No call runs unless its response ended with tool_calls.
THEOREM ConfirmedBeforeRun == Spec => []OnlyConfirmedCallsRun
<1>1. ASSUME IInv PROVE OnlyConfirmedCallsRun
  <2>1. messages \in Seq(Turn) /\ Len(messages) \in Nat /\ DOMAIN messages = 1..Len(messages)
    BY <1>1 DEF IInv, TypeOK
  <2>2. \A j \in 1..Len(messages) : messages[j].kind = "tool" => AnswerAt(messages, j)
    <3>1. CASE pc = "batch"
      <4>1. \A i \in 1..Len(messages) : i = Len(messages) \/ i \in 1..(Len(messages) - 1)
        BY <2>1, LastOrBefore
      <4>2. QED
        BY <1>1, <3>1, <4>1 DEF IInv, Owing
    <3>2. CASE pc # "batch"
      BY <1>1, <3>2 DEF IInv, Answered
    <3>3. QED
      BY <3>1, <3>2
  <2>3. QED
    BY <2>1, <2>2 DEF OnlyConfirmedCallsRun, AnswerAt
<1>2. QED
  BY <1>1, Invariance, PTL
-----------------------------------------------------------------------------
(* The transcript as a record: how the turn ended, and what it cost.       *)

\* The responses that were charged for.
Charged(m) == {i \in DOMAIN m : m[i].kind = "assistant" /\ m[i].cost = 1}

\* A turn under way has not been closed: the last turn is no ending.
Open == pc # "idle" => Len(messages) > 0 /\ messages[Len(messages)].kind \notin {"cancelled", "error"}

Tells == Open /\ TranscriptTellsOutcome /\ CostIsRecorded

\* What the last turn says of the outcome of the turn it ends.
Fits(x, how) ==
  /\ (x.kind = "cancelled") <=> (how = "cancelled")
  /\ (x.kind = "error") <=> (how = "error")
  /\ how = "stop" => x.kind = "assistant" /\ x.calls = 0

\* Of the turns pushed at once only the first can be a response.
LEMMA ChargePushed ==
  ASSUME NEW m \in Seq(Turn), NEW t \in Seq(Turn), Len(t) > 0,
         \A i \in 2..Len(t) : t[i].kind # "assistant"
  PROVE  /\ Cardinality(Charged(m)) \in Nat
         /\ Cardinality(Charged(m \o t)) =
              Cardinality(Charged(m)) + (IF t[1].kind = "assistant" /\ t[1].cost = 1 THEN 1 ELSE 0)
<1> DEFINE w == m \o t  n == Len(m)
<1>1. /\ n \in Nat /\ Len(t) \in Nat /\ Len(w) = n + Len(t) /\ DOMAIN w = 1..(n + Len(t)) /\ DOMAIN m = 1..n
      /\ \A i \in 1..n : w[i] = m[i]
      /\ \A i \in 1..Len(t) : w[n + i] = t[i]
  BY Pushed
<1> HIDE DEF w, n
<1>2. IsFiniteSet(Charged(m)) /\ Cardinality(Charged(m)) \in Nat
  <2>1. IsFiniteSet(1..n) /\ Charged(m) \subseteq 1..n
    BY <1>1, FS_Interval DEF Charged
  <2>2. QED
    BY <2>1, FS_Subset, FS_CardinalityType
<1>3. n + 1 \notin Charged(m)
  BY <1>1 DEF Charged
<1>4. ASSUME NEW i \in 1..(n + Len(t)), i \notin 1..n, i # n + 1 PROVE w[i].kind # "assistant"
  <2>1. i - n \in 2..Len(t) /\ i - n \in 1..Len(t) /\ n + (i - n) = i
    BY <1>1, <1>4
  <2>2. w[i] = t[i - n]
    BY <1>1, <2>1
  <2>3. QED
    BY <2>1, <2>2
<1>5. w[n + 1] = t[1] /\ n + 1 \in DOMAIN w /\ \A i \in 1..n : i \in DOMAIN w
  BY <1>1
<1>6. Charged(w) = IF t[1].kind = "assistant" /\ t[1].cost = 1 THEN Charged(m) \cup {n + 1} ELSE Charged(m)
  BY <1>1, <1>4, <1>5, SMTT(60) DEF Charged
<1>7. CASE t[1].kind = "assistant" /\ t[1].cost = 1
  BY <1>2, <1>3, <1>6, <1>7, FS_AddElement DEF w
<1>8. CASE ~(t[1].kind = "assistant" /\ t[1].cost = 1)
  BY <1>2, <1>6, <1>8 DEF w
<1>9. QED
  BY <1>2, <1>7, <1>8

\* A step that pushes turns, the first of them the response that is charged for.
LEMMA PushTells ==
  ASSUME IInv, Tells, NEW t \in Seq(Turn), Len(t) > 0, messages' = messages \o t,
         \A i \in 2..Len(t) : t[i].kind # "assistant",
         totalCost' = totalCost + (IF t[1].kind = "assistant" /\ t[1].cost = 1 THEN 1 ELSE 0),
         pc' # "idle" => t[Len(t)].kind \notin {"cancelled", "error"},
         pc' = "idle" => Fits(t[Len(t)], outcome')
  PROVE  Tells'
<1>1. messages \in Seq(Turn)
  BY DEF IInv, TypeOK
<1>2. /\ Len(messages') > 0 /\ messages'[Len(messages')] = t[Len(t)]
  <2>1. Len(messages') = Len(messages) + Len(t) /\ Len(messages) \in Nat /\ Len(t) \in 1..Len(t)
    BY <1>1, Pushed
  <2>2. messages'[Len(messages) + Len(t)] = t[Len(t)]
    BY <1>1, <2>1, Pushed
  <2>3. QED
    BY <2>1, <2>2
<1>3. CostIsRecorded'
  BY <1>1, ChargePushed DEF CostIsRecorded, Tells, Charged
<1>4. Open' /\ TranscriptTellsOutcome'
  BY <1>2 DEF Open, TranscriptTellsOutcome, Fits
<1>5. QED
  BY <1>3, <1>4 DEF Tells

\* A step that pushes nothing, and ends the turn only in a way that leaves no mark.
LEMMA SilentTells ==
  ASSUME IInv, Tells, messages' = messages, totalCost' = totalCost,
         \/ pc # "idle" /\ (pc' # "idle" \/ outcome' \in {"iters_exceeded", "time_up"})
         \/ pc' = pc /\ outcome' = outcome
  PROVE  Tells'
<1>1. messages \in Seq(Turn)
  BY DEF IInv, TypeOK
<1>2. CostIsRecorded'
  BY DEF CostIsRecorded, Tells
<1>3. Open'
  BY DEF Open, Tells
<1>4. TranscriptTellsOutcome'
  BY DEF Open, Tells, TranscriptTellsOutcome
<1>5. QED
  BY <1>2, <1>3, <1>4 DEF Tells
\* A response is the first turn pushed; answers or a note may follow it.
LEMMA ResponseTells ==
  ASSUME IInv, Tells, NEW r \in Response, Receive(r), NEW fin \in FinishReason, NEW u \in Seq(Turn),
         messages' = messages \o (<<Assistant(r, fin)>> \o u),
         \A i \in 1..Len(u) : u[i].kind \in {"tool", "note"},
         pc' = "idle" => outcome' \notin {"cancelled", "error"},
         pc' = "idle" /\ outcome' = "stop" => r.calls = 0 /\ Len(u) = 0
  PROVE  Tells'
<1> DEFINE x == Assistant(r, fin)  t == <<x>> \o u
<1>1. x \in Turn /\ x.kind = "assistant" /\ x.calls = r.calls /\ x.cost = r.cost /\ r.cost \in {0, 1}
  BY ResponseTurn, LoopAssumption DEF Assistant, Response
<1>2. totalCost' = totalCost + r.cost
  BY DEF Receive
<1> HIDE DEF x
<1>3. /\ t \in Seq(Turn) /\ Len(t) = 1 + Len(u) /\ Len(u) \in Nat /\ t[1] = x
      /\ \A i \in 1..Len(u) : t[1 + i] = u[i]
  <2>1. <<x>> \in Seq(Turn) /\ Len(<<x>>) = 1 /\ <<x>>[1] = x
    BY <1>1
  <2>2. QED
    BY <2>1, Pushed
<1>4. messages' = messages \o t
  BY DEF x
<1> HIDE DEF t
<1>5. ASSUME NEW i \in 2..Len(t) PROVE t[i].kind \in {"tool", "note"}
  <2>1. i - 1 \in 1..Len(u) /\ 1 + (i - 1) = i
    BY <1>3
  <2>2. QED
    BY <1>3, <2>1
<1>6. t[Len(t)].kind \in {"assistant", "tool", "note"} /\ (Len(u) = 0 => t[Len(t)] = x)
  <2>1. CASE Len(u) = 0
    BY <1>1, <1>3, <2>1
  <2>2. CASE Len(u) # 0
    <3>1. Len(t) \in 2..Len(t)
      BY <1>3, <2>2
    <3>2. QED
      BY <1>5, <2>2, <3>1
  <2>3. QED
    BY <2>1, <2>2
<1>7. totalCost' = totalCost + (IF t[1].kind = "assistant" /\ t[1].cost = 1 THEN 1 ELSE 0)
  BY <1>1, <1>2, <1>3
<1>8. pc' = "idle" => Fits(t[Len(t)], outcome')
  BY <1>1, <1>6 DEF Fits
<1>9. Len(t) > 0 /\ (\A i \in 2..Len(t) : t[i].kind # "assistant") /\ t[Len(t)].kind \notin {"cancelled", "error"}
  BY <1>3, <1>5, <1>6
<1>10. QED
  BY <1>3, <1>4, <1>7, <1>8, <1>9, PushTells, ZenonT(60)

\* One turn pushed that is no response: nothing is charged.
LEMMA PlainTells ==
  ASSUME IInv, Tells, NEW x \in Turn, x.kind # "assistant", messages' = messages \o <<x>>,
         totalCost' = totalCost,
         pc' # "idle" => x.kind \notin {"cancelled", "error"},
         pc' = "idle" => Fits(x, outcome')
  PROVE  Tells'
<1> DEFINE t == <<x>>
<1>1. t \in Seq(Turn) /\ Len(t) = 1 /\ t[1] = x /\ messages' = messages \o t
  OBVIOUS
<1>2. totalCost \in Nat
  BY DEF IInv, TypeOK
<1> HIDE DEF t
<1>3. QED
  BY <1>1, <1>2, PushTells

\* The kinds of the answers.
LEMMA AnswerKinds ==
  /\ \A n \in 0..MaxCalls, body \in {"error", "interrupted"} :
       \A c \in 1..Len(Synthesized(n, body)) : Synthesized(n, body)[c].kind = "tool"
  /\ TypeOK => \A a \in Answers : \A c \in 1..Len(ToolResults(a)) : ToolResults(a)[c].kind = "tool"
<1>1. ASSUME NEW n \in 0..MaxCalls, NEW body \in {"error", "interrupted"},
             NEW c \in 1..Len(Synthesized(n, body))
      PROVE  Synthesized(n, body)[c].kind = "tool"
  BY SynthesizedTurns DEF IsAnswer
<1>2. ASSUME TypeOK, NEW a \in Answers, NEW c \in 1..Len(ToolResults(a)) PROVE ToolResults(a)[c].kind = "tool"
  BY <1>2, BatchTurns DEF IsAnswer
<1>3. QED
  BY <1>1, <1>2

LEMMA RespondTells ==
  ASSUME IInv, Tells, NEW r \in Response, Respond(r)
  PROVE  Tells'
<1>1. Receive(r) /\ EffectiveFinish(r) \in FinishReason /\ r.calls \in 0..MaxCalls
  BY EffectiveFinishReason, ResponseTurn DEF Respond, RetryUnconfirmed, BeginBatch, Stop, Length, Filtered
<1>2. {"stop", "length", "tool_calls"} \subseteq FinishReason
  BY DEF FinishReason
<1>3. ASSUME NEW body \in {"error", "interrupted"}
      PROVE  /\ Synthesized(r.calls, body) \in Seq(Turn)
             /\ \A i \in 1..Len(Synthesized(r.calls, body)) : Synthesized(r.calls, body)[i].kind \in {"tool", "note"}
  BY <1>1, SynthesizedTurns, AnswerKinds
<1>4. CASE RetryUnconfirmed(r)
  <2>1. messages' = messages \o (<<Assistant(r, EffectiveFinish(r))>> \o Synthesized(r.calls, "error"))
    BY <1>4 DEF RetryUnconfirmed, push_turn
  <2>2. pc' = "idle" => outcome' = "incomplete"
    BY <1>4 DEF RetryUnconfirmed, Return
  <2>3. QED
    BY <1>1, <1>3, <2>1, <2>2, ResponseTells
<1>5. CASE Filtered(r)
  <2>1. messages' = messages \o (<<Assistant(r, EffectiveFinish(r))>> \o Synthesized(r.calls, "interrupted"))
    BY <1>5 DEF Filtered, push_turn
  <2>2. outcome' = "incomplete"
    BY <1>5 DEF Filtered, Return
  <2>3. QED
    BY <1>1, <1>3, <2>1, <2>2, ResponseTells
<1>6. ASSUME NEW fin \in FinishReason, messages' = messages \o <<Assistant(r, fin)>>,
             pc' = "idle" => outcome' \notin {"cancelled", "error"},
             pc' = "idle" /\ outcome' = "stop" => r.calls = 0
      PROVE  Tells'
  <2>1. Assistant(r, fin) \in Turn /\ <<>> \in Seq(Turn) /\ Len(<<>>) = 0
    BY ResponseTurn
  <2>2. messages' = messages \o (<<Assistant(r, fin)>> \o <<>>)
    BY <1>6, <2>1
  <2>3. \A i \in 1..Len(<<>>) : <<>>[i].kind \in {"tool", "note"}
    BY <2>1
  <2>4. QED
    BY <1>1, <1>6, <2>1, <2>2, <2>3, ResponseTells, ZenonT(60)
<1>7. ASSUME NEW fin \in FinishReason, NEW why \in {"review", "length"}, pc' # "idle",
             messages' = messages \o <<Assistant(r, fin), Recovery(why)>>
      PROVE  Tells'
  <2>1. Assistant(r, fin) \in Turn /\ Recovery(why) \in Turn /\ Recovery(why).kind = "note"
    BY ResponseTurn, PlainTurns
  <2>2. /\ <<Recovery(why)>> \in Seq(Turn) /\ Len(<<Recovery(why)>>) = 1
        /\ <<Recovery(why)>>[1] = Recovery(why)
    BY <2>1
  <2>3. \A i \in 1..Len(<<Recovery(why)>>) : <<Recovery(why)>>[i].kind \in {"tool", "note"}
    BY <2>1, <2>2
  <2>4. messages' = messages \o (<<Assistant(r, fin)>> \o <<Recovery(why)>>)
    BY <1>7, <2>1
  <2>5. QED
    BY <1>1, <1>7, <2>2, <2>3, <2>4, ResponseTells
<1>8. CASE BeginBatch(r)
  BY <1>2, <1>6, <1>8 DEF BeginBatch, push_turn
<1>9. CASE Stop(r)
  <2>1. r.calls = 0
    BY <1>9, NoCalls DEF Stop
  <2>2. QED
    BY <1>2, <1>6, <1>7, <1>9, <2>1 DEF Stop, push_turn, Return
<1>10. CASE Length(r)
  BY <1>2, <1>6, <1>7, <1>10 DEF Length, push_turn, Return
<1>11. QED
  BY <1>4, <1>5, <1>8, <1>9, <1>10 DEF Respond

LEMMA BatchTells ==
  ASSUME IInv, Tells, BatchReturns \/ BatchCancelled \/ BatchTimeUp
  PROVE  Tells'
<1>1. /\ pc = "batch" /\ TypeOK /\ messages \in Seq(Turn) /\ totalCost \in Nat /\ totalCost' = totalCost
      /\ <<Cancelled>> \in Seq(Turn) /\ Cancelled.kind = "cancelled" /\ Cancelled \in Turn
  BY PlainTurns DEF IInv, TypeOK, BatchReturns, BatchCancelled, BatchTimeUp
<1>2. ASSUME NEW a \in Answers
      PROVE  ToolResults(a) \in Seq(Turn) /\ \A i \in 1..Len(ToolResults(a)) : ToolResults(a)[i].kind = "tool"
  BY <1>1, BatchTurns, AnswerKinds
<1>3. ASSUME NEW t \in Seq(Turn), \A i \in 1..Len(t) : t[i].kind = "tool", messages' = messages \o t,
             pc' # "idle" \/ outcome' = "time_up"
      PROVE  Tells'
  <2>1. CASE Len(t) = 0
    <3>1. messages' = messages
      BY <1>1, <1>3, <2>1
    <3>2. QED
      BY <1>1, <1>3, <3>1, SilentTells
  <2>2. CASE Len(t) > 0
    <3>1. Len(t) \in 1..Len(t) /\ 1 \in 1..Len(t) /\ \A i \in 2..Len(t) : i \in 1..Len(t)
      BY <2>2
    <3>2. \A i \in 2..Len(t) : t[i].kind # "assistant"
      BY <1>3, <3>1
    <3>3. totalCost' = totalCost + (IF t[1].kind = "assistant" /\ t[1].cost = 1 THEN 1 ELSE 0)
      BY <1>1, <1>3, <3>1
    <3>4. t[Len(t)].kind \notin {"cancelled", "error"} /\ (pc' = "idle" => Fits(t[Len(t)], outcome'))
      BY <1>3, <3>1 DEF Fits
    <3>5. QED
      BY <1>3, <2>2, <3>2, <3>3, <3>4, PushTells, ZenonT(60)
  <2>3. QED
    BY <2>1, <2>2
<1>4. CASE BatchReturns \/ BatchTimeUp
  <2>1. PICK a \in Answers : messages' = messages \o ToolResults(a)
    BY <1>4 DEF BatchReturns, BatchTimeUp, push_turn
  <2>2. pc' # "idle" \/ outcome' = "time_up"
    BY <1>4 DEF BatchReturns, BatchTimeUp, Return
  <2>3. QED
    BY <1>2, <1>3, <2>1, <2>2
<1>5. CASE BatchCancelled
  <2>1. PICK a \in Answers : messages' = messages \o (ToolResults(a) \o <<Cancelled>>)
    BY <1>5 DEF BatchCancelled, push_turn
  <2>2. pc' = "idle" /\ outcome' = "cancelled"
    BY <1>5 DEF BatchCancelled, Return
  <2> DEFINE u == ToolResults(a)  t == u \o <<Cancelled>>
  <2>3. u \in Seq(Turn) /\ \A i \in 1..Len(u) : u[i].kind = "tool"
    BY <1>2
  <2> HIDE DEF u
  <2>4. /\ t \in Seq(Turn) /\ Len(t) = Len(u) + 1 /\ Len(u) \in Nat /\ t[Len(u) + 1] = Cancelled
        /\ \A i \in 1..Len(u) : t[i] = u[i]
    <3>1. Len(<<Cancelled>>) = 1 /\ <<Cancelled>>[1] = Cancelled
      OBVIOUS
    <3>2. QED
      BY <1>1, <2>3, <3>1, Pushed
  <2> HIDE DEF t
  <2>5. \A i \in 1..Len(t) : t[i].kind \in {"tool", "cancelled"}
    <3>1. \A i \in 1..Len(t) : i = Len(u) + 1 \/ i \in 1..Len(u)
      BY <2>4
    <3>2. QED
      BY <1>1, <2>3, <2>4, <3>1
  <2>6. messages' = messages \o t
    BY <2>1 DEF t, u
  <2>7. Fits(t[Len(t)], outcome') /\ Len(t) > 0 /\ 1 \in 1..Len(t) /\ \A i \in 2..Len(t) : i \in 1..Len(t)
    BY <1>1, <2>2, <2>4 DEF Fits
  <2>8. \A i \in 2..Len(t) : t[i].kind # "assistant"
    BY <2>5, <2>7
  <2>9. totalCost' = totalCost + (IF t[1].kind = "assistant" /\ t[1].cost = 1 THEN 1 ELSE 0)
    BY <1>1, <2>5, <2>7
  <2>10. QED
    BY <2>2, <2>4, <2>6, <2>7, <2>8, <2>9, PushTells, ZenonT(60)
<1>6. QED
  BY <1>4, <1>5

LEMMA TellsKept == IInv /\ Tells /\ [Next]_vars => Tells'
<1> SUFFICES ASSUME IInv, Tells, [Next]_vars PROVE Tells'
  OBVIOUS
<1>1. CASE Submit
  BY <1>1, PlainTells, PlainTurns DEF Submit, push_turn
<1>2. CASE Iterate
  <2>1. messages' = messages /\ totalCost' = totalCost /\ pc = "top"
    BY <1>2 DEF Iterate
  <2>2. pc' = "request" \/ outcome' \in {"iters_exceeded", "time_up"}
    BY <1>2 DEF Iterate, Return
  <2>3. QED
    BY <2>1, <2>2, SilentTells
<1>3. CASE RequestCancelled
  BY <1>3, PlainTells, PlainTurns DEF RequestCancelled, push_turn, Return, Fits
<1>4. CASE RequestTimeUp
  BY <1>4, SilentTells DEF RequestTimeUp, Return
<1>5. CASE RequestFails
  BY <1>5, PlainTells, PlainTurns DEF RequestFails, push_turn, Return, Fits
<1>6. CASE \E r \in Response : Respond(r)
  BY <1>6, RespondTells
<1>7. CASE BatchReturns \/ BatchCancelled \/ BatchTimeUp
  BY <1>7, BatchTells
<1>8. CASE Cancel \/ DeadlinePasses \/ SessionOver \/ UNCHANGED vars
  <2>1. UNCHANGED <<messages, totalCost, pc, outcome>>
    BY <1>8 DEF Cancel, DeadlinePasses, SessionOver, vars
  <2>2. QED
    BY <2>1, SilentTells
<1>9. QED
  BY <1>1, <1>2, <1>3, <1>4, <1>5, <1>6, <1>7, <1>8 DEF Next

\* The transcript tells how the last turn ended and accounts for every cost added
\* to the session, whatever was cut off, refused or cancelled on the way.
THEOREM TranscriptTellsAlways == Spec => []TranscriptTells
<1>1. Init => Tells
  <2> SUFFICES ASSUME Init PROVE Tells
    OBVIOUS
  <2>1. {i \in DOMAIN messages : messages[i].kind = "assistant" /\ messages[i].cost = 1} = {}
    BY DEF Init
  <2>2. QED
    BY <2>1, FS_EmptySet DEF Init, Tells, Open, TranscriptTellsOutcome, CostIsRecorded
<1>2. Tells => TranscriptTells
  BY DEF Tells, TranscriptTells
<1>3. QED
  BY <1>1, <1>2, TellsKept, Invariance, PTL DEF Spec
-----------------------------------------------------------------------------
(* The request: what is left of a transcript without the turns that are    *)
(* not sent.  Facts about its recursion are shown by the least prefix that *)
(* would violate them.                                                     *)

LEMMA Least ==
  ASSUME NEW S, S \subseteq Nat, S # {}
  PROVE  \E x \in S : \A y \in S : x <= y
<1> DEFINE Less == {ss \in Nat \X Nat : ss[1] < ss[2]}
<1>1. IsWellFoundedOn(Less, Nat)
  BY NatLessThanWellFounded, Zenon DEF OpToRel
<1> HIDE DEF Less
<1>2. PICK x \in S : \A y \in S : ~(<<y, x>> \in Less)
  BY <1>1, WFMin
<1>3. ASSUME NEW y \in S PROVE x <= y
  <2>1. <<y, x>> \in Nat \X Nat
    OBVIOUS
  <2>2. <<y, x>> \notin Less
    BY <1>2
  <2>3. QED
    BY <2>1, <2>2 DEF Less
<1>4. QED
  BY <1>3

\* What is sent of a prefix, from what is sent of the prefix without its last turn.
Sent(m, x, n) == IF Visible(m[n]) THEN Append(x, m[n]) ELSE x

Projects(f, m) ==
  /\ f \in [0..Len(m) -> Seq(Turn)] /\ f[0] = <<>>
  /\ \A n \in 1..Len(m) : f[n] = Sent(m, f[n - 1], n)

LEMMA SentType ==
  ASSUME NEW m \in Seq(Turn), NEW n \in 1..Len(m), NEW x \in Seq(Turn)
  PROVE  Sent(m, x, n) \in Seq(Turn)
<1>1. m[n] \in Turn
  OBVIOUS
<1>2. QED
  BY <1>1, AppendProperties DEF Sent

LEMMA ProjectsExist ==
  ASSUME NEW m \in Seq(Turn)
  PROVE  \E f : Projects(f, m)
<1> DEFINE Upto(f, k) == /\ f \in [0..k -> Seq(Turn)] /\ f[0] = <<>>
                         /\ \A n \in 1..k : f[n] = Sent(m, f[n - 1], n)
           Bad == {k \in 0..Len(m) : ~\E f : Upto(f, k)}
<1>0. Len(m) \in Nat
  OBVIOUS
<1>1. SUFFICES Bad = {}
  <2>1. Len(m) \in 0..Len(m)
    BY <1>0
  <2>2. PICK f : Upto(f, Len(m))
    BY <1>1, <2>1
  <2>3. Projects(f, m)
    BY <2>2 DEF Projects
  <2>4. QED
    BY <2>3
<1>2. SUFFICES ASSUME Bad # {} PROVE FALSE
  OBVIOUS
<1>3. PICK k \in Bad : \A y \in Bad : k <= y
  <2>1. Bad \subseteq Nat
    BY <1>0
  <2>2. QED
    BY <1>2, <2>1, Least, Zenon
<1>4. k # 0
  <2>1. Upto([n \in 0..0 |-> <<>>], 0)
    OBVIOUS
  <2>2. QED
    BY <2>1
<1>5. k \in 1..Len(m) /\ k - 1 \in 0..Len(m) /\ k - 1 \notin Bad
  <2>1. k \in 0..Len(m)
    OBVIOUS
  <2>2. k \in 1..Len(m) /\ k - 1 \in 0..Len(m) /\ ~(k <= k - 1)
    BY <1>0, <1>4, <2>1
  <2> HIDE DEF Bad
  <2>3. QED
    BY <1>3, <2>2
<1>6. PICK f : Upto(f, k - 1)
  BY <1>5
<1> DEFINE g == [n \in 0..k |-> IF n = k THEN Sent(m, f[k - 1], k) ELSE f[n]]
<1>7. Upto(g, k)
  <2>1. \A n \in 0..(k - 1) : f[n] \in Seq(Turn) /\ g[n] = f[n]
    BY <1>5, <1>6
  <2>2. g[k] = Sent(m, f[k - 1], k) /\ f[k - 1] \in Seq(Turn)
    BY <1>5, <1>6
  <2>3. g \in [0..k -> Seq(Turn)]
    <3>1. \A n \in 0..k : g[n] \in Seq(Turn)
      <4>1. Sent(m, f[k - 1], k) \in Seq(Turn)
        BY <1>5, <2>2, SentType
      <4>2. \A n \in 0..k : n = k \/ n \in 0..(k - 1)
        BY <1>5
      <4>3. QED
        BY <2>1, <2>2, <4>1, <4>2
    <3>2. QED
      BY <3>1
  <2>4. ASSUME NEW n \in 1..k PROVE g[n] = Sent(m, g[n - 1], n)
    <3>1. CASE n = k
      BY <1>5, <2>1, <2>2, <3>1
    <3>2. CASE n # k
      BY <1>5, <1>6, <2>1, <3>2
    <3>3. QED
      BY <3>1, <3>2
  <2>5. g[0] = <<>>
    BY <1>5, <1>6, <2>1
  <2>6. QED
    BY <2>3, <2>4, <2>5
<1>8. QED
  BY <1>3, <1>7

LEMMA ProjectionIs ==
  ASSUME NEW m \in Seq(Turn), NEW f, Projects(f, m)
  PROVE  Projection(m) = f[Len(m)]
<1> DEFINE Rec(h) == h = [n \in 0..Len(m) |-> IF n = 0 THEN <<>>
                                               ELSE IF Visible(m[n]) THEN Append(h[n - 1], m[n]) ELSE h[n - 1]]
<1>0. Len(m) \in Nat
  OBVIOUS
<1>1. Rec(f)
  <2>1. f = [n \in 0..Len(m) |-> f[n]]
    BY DEF Projects
  <2>2. \A n \in 0..Len(m) : f[n] = IF n = 0 THEN <<>>
                                    ELSE IF Visible(m[n]) THEN Append(f[n - 1], m[n]) ELSE f[n - 1]
    <3>1. \A n \in 0..Len(m) : n = 0 \/ n \in 1..Len(m)
      BY <1>0
    <3>2. \A n \in 1..Len(m) : n # 0
      BY <1>0
    <3>3. QED
      BY <3>1, <3>2 DEF Projects, Sent
  <2> HIDE DEF Projects
  <2>3. QED
    BY <2>1, <2>2, Zenon
<1>2. ASSUME NEW h, Rec(h) PROVE h = f
  <2> DEFINE Bad == {k \in 0..Len(m) : f[k] # h[k]}
  <2>1. DOMAIN h = 0..Len(m) /\ h = [n \in 0..Len(m) |-> h[n]]
    BY <1>2
  <2>2. f = [n \in 0..Len(m) |-> f[n]]
    BY DEF Projects
  <2>3. SUFFICES Bad = {}
    BY <2>1, <2>2, <2>3
  <2>4. SUFFICES ASSUME Bad # {} PROVE FALSE
    OBVIOUS
  <2>5. PICK k \in Bad : \A y \in Bad : k <= y
    <3>1. Bad \subseteq Nat
      BY <1>0
    <3>2. QED
      BY <2>4, <3>1, Least, Zenon
  <2>6. \A n \in 0..Len(m) : h[n] = IF n = 0 THEN <<>> ELSE Sent(m, h[n - 1], n)
    BY <1>2 DEF Sent
  <2>7. k # 0
    BY <1>0, <2>6 DEF Projects
  <2>8. k \in 1..Len(m) /\ k - 1 \in 0..Len(m) /\ k - 1 \notin Bad
    BY <1>0, <2>5, <2>7
  <2>9. f[k - 1] = h[k - 1]
    BY <2>8
  <2>10. QED
    BY <2>6, <2>8, <2>9 DEF Projects
<1>3. (CHOOSE h : Rec(h)) = f
  BY <1>1, <1>2
<1>4. Projection(m) = (CHOOSE h : Rec(h))[Len(m)]
  BY DEF Projection
<1>5. QED
  BY <1>3, <1>4
\* One more turn: what was sent stays, a visible turn comes after it.
LEMMA OneMore ==
  ASSUME NEW m \in Seq(Turn), NEW f, Projects(f, m), NEW n \in 1..Len(m)
  PROVE  /\ n - 1 \in 0..Len(m) /\ n \in 0..Len(m)
         /\ f[n - 1] \in Seq(Turn) /\ f[n] \in Seq(Turn) /\ Len(f[n - 1]) \in Nat /\ Len(f[n]) \in Nat
         /\ \A k \in 1..Len(f[n - 1]) : f[n][k] = f[n - 1][k]
         /\ Visible(m[n]) => Len(f[n]) = Len(f[n - 1]) + 1 /\ f[n][Len(f[n])] = m[n]
         /\ ~Visible(m[n]) => Len(f[n]) = Len(f[n - 1])
<1>1. n - 1 \in 0..Len(m) /\ n \in 0..Len(m) /\ m[n] \in Turn
  OBVIOUS
<1>2. f[n - 1] \in Seq(Turn) /\ f[n] \in Seq(Turn) /\ f[n] = Sent(m, f[n - 1], n)
  BY <1>1 DEF Projects
<1>3. CASE Visible(m[n])
  <2>1. f[n] = Append(f[n - 1], m[n])
    BY <1>2, <1>3 DEF Sent
  <2>2. QED
    BY <1>1, <1>2, <1>3, <2>1, AppendProperties
<1>4. CASE ~Visible(m[n])
  <2>1. f[n] = f[n - 1]
    BY <1>2, <1>4 DEF Sent
  <2>2. QED
    BY <1>1, <1>2, <1>4, <2>1
<1>5. QED
  BY <1>3, <1>4

\* What is sent of a prefix is a prefix of what is sent.
LEMMA Grows ==
  ASSUME NEW m \in Seq(Turn), NEW f, Projects(f, m), NEW a \in 0..Len(m), NEW b \in 0..Len(m), a <= b
  PROVE  /\ Len(f[a]) \in Nat /\ Len(f[b]) \in Nat /\ Len(f[a]) <= Len(f[b])
         /\ \A k \in 1..Len(f[a]) : f[b][k] = f[a][k]
<1> DEFINE Bad == {n \in a..Len(m) : ~(/\ Len(f[a]) <= Len(f[n])
                                       /\ \A k \in 1..Len(f[a]) : f[n][k] = f[a][k])}
<1>0. /\ Len(m) \in Nat /\ a \in Nat /\ b \in a..Len(m)
      /\ \A n \in 0..Len(m) : Len(f[n]) \in Nat
  BY DEF Projects
<1>1. SUFFICES Bad = {}
  BY <1>0, <1>1
<1>2. SUFFICES ASSUME Bad # {} PROVE FALSE
  OBVIOUS
<1>3. PICK n \in Bad : \A y \in Bad : n <= y
  <2>1. Bad \subseteq Nat
    BY <1>0
  <2>2. QED
    BY <1>2, <2>1, Least, Zenon
<1>4. n # a
  BY <1>0
<1>5. n \in 1..Len(m) /\ n - 1 \in a..Len(m) /\ ~(n <= n - 1)
  BY <1>0, <1>4
<1>6. n - 1 \notin Bad
  <2> HIDE DEF Bad
  <2>1. QED
    BY <1>3, <1>5
<1>7. Len(f[a]) <= Len(f[n - 1]) /\ \A k \in 1..Len(f[a]) : f[n - 1][k] = f[a][k]
  BY <1>5, <1>6
<1>8. /\ Len(f[n]) \in Nat /\ Len(f[n - 1]) \in Nat /\ Len(f[n - 1]) <= Len(f[n])
      /\ \A k \in 1..Len(f[n - 1]) : f[n][k] = f[n - 1][k]
  BY <1>5, OneMore, SMTT(60)
<1>9. Len(f[a]) <= Len(f[n])
  BY <1>0, <1>7, <1>8
<1>10. ASSUME NEW k \in 1..Len(f[a]) PROVE f[n][k] = f[a][k]
  <2>1. k \in 1..Len(f[n - 1])
    BY <1>0, <1>7, <1>8
  <2>2. QED
    BY <1>7, <1>8, <2>1
<1>11. QED
  BY <1>9, <1>10

\* Where a visible turn stands in the request.
LEMMA Place ==
  ASSUME NEW m \in Seq(Turn), NEW f, Projects(f, m), NEW j \in 1..Len(m), Visible(m[j])
  PROVE  /\ Len(f[j]) \in 1..Len(f[Len(m)]) /\ f[Len(m)][Len(f[j])] = m[j]
         /\ \A i \in 1..(j - 1) : Len(f[i]) < Len(f[j])
<1>1. Len(m) \in 0..Len(m) /\ j \in 0..Len(m) /\ j <= Len(m) /\ j - 1 \in 0..Len(m)
  OBVIOUS
<1>2. Len(f[j]) = Len(f[j - 1]) + 1 /\ f[j][Len(f[j])] = m[j] /\ Len(f[j - 1]) \in Nat /\ Len(f[j]) \in Nat
  BY OneMore
<1>3. /\ Len(f[Len(m)]) \in Nat /\ Len(f[j]) <= Len(f[Len(m)])
      /\ \A k \in 1..Len(f[j]) : f[Len(m)][k] = f[j][k]
  BY <1>1, Grows
<1>4. Len(f[j]) \in 1..Len(f[j])
  BY <1>2
<1>5. ASSUME NEW i \in 1..(j - 1) PROVE Len(f[i]) < Len(f[j])
  <2>1. i \in 0..Len(m) /\ i <= j - 1
    BY <1>1
  <2>2. Len(f[i]) \in Nat /\ Len(f[i]) <= Len(f[j - 1])
    BY <1>1, <2>1, Grows
  <2>3. QED
    BY <1>2, <2>2
<1>6. QED
  BY <1>2, <1>3, <1>4, <1>5, SMTT(60)

\* Every message of the request is a turn of the transcript.
LEMMA Source ==
  ASSUME NEW m \in Seq(Turn), NEW f, Projects(f, m), NEW k \in 1..Len(f[Len(m)])
  PROVE  \E j \in 1..Len(m) : Visible(m[j]) /\ Len(f[j]) = k /\ f[Len(m)][k] = m[j]
<1> DEFINE S == {n \in 0..Len(m) : k <= Len(f[n])}
<1>0. /\ Len(m) \in Nat /\ k \in Nat /\ k >= 1 /\ Len(m) \in 0..Len(m)
      /\ \A n \in 0..Len(m) : Len(f[n]) \in Nat
  BY DEF Projects
<1>1. S # {} /\ S \subseteq Nat
  BY <1>0
<1>2. PICK j \in S : \A y \in S : j <= y
  BY <1>1, Least, Zenon
<1>3. j # 0
  <2>1. Len(f[0]) = 0
    BY DEF Projects
  <2>2. QED
    BY <1>0, <2>1
<1>4. j \in 1..Len(m) /\ j - 1 \in 0..Len(m) /\ ~(j <= j - 1)
  BY <1>0, <1>3
<1>5. j - 1 \notin S
  <2> HIDE DEF S
  <2>1. QED
    BY <1>2, <1>4
<1>6. ~(k <= Len(f[j - 1])) /\ k <= Len(f[j])
  BY <1>4, <1>5
<1>7. Visible(m[j]) /\ Len(f[j]) = k
  BY <1>0, <1>4, <1>6, OneMore, SMTT(60)
<1>8. QED
  BY <1>4, <1>7, Place

\* The answers of a response follow it in the request as they do in the transcript.
LEMMA AnswersFollow ==
  ASSUME NEW m \in Seq(Turn), NEW f, Projects(f, m), NEW i \in 1..Len(m), AnsweredAt(m, i), m[i].calls \in Nat,
         NEW c \in 1..m[i].calls
  PROVE  Len(f[i + c]) = Len(f[i]) + c /\ Visible(m[i + c]) /\ i + c \in 1..Len(m)
<1> DEFINE Bad == {d \in 1..m[i].calls : Len(f[i + d]) # Len(f[i]) + d}
<1>0. \A d \in 1..m[i].calls : i + d \in 1..Len(m) /\ Visible(m[i + d])
  BY DEF AnsweredAt, Visible
<1>1. SUFFICES Bad = {}
  BY <1>0, <1>1
<1>2. SUFFICES ASSUME Bad # {} PROVE FALSE
  OBVIOUS
<1>3. PICK d \in Bad : \A y \in Bad : d <= y
  <2>1. Bad \subseteq Nat
    OBVIOUS
  <2>2. QED
    BY <1>2, <2>1, Least, Zenon
<1>4. /\ i + d \in 1..Len(m) /\ Len(f[i + d]) = Len(f[(i + d) - 1]) + 1
      /\ Len(f[i]) \in Nat /\ (i + d) - 1 = i + (d - 1)
  BY <1>0, OneMore
<1>5. CASE d = 1
  BY <1>4, <1>5
<1>6. CASE d # 1
  <2>1. d - 1 \in 1..m[i].calls /\ ~(d <= d - 1)
    BY <1>6
  <2>2. d - 1 \notin Bad
    <3> HIDE DEF Bad
    <3>1. QED
      BY <1>3, <2>1
  <2>3. Len(f[i + (d - 1)]) = Len(f[i]) + (d - 1)
    BY <2>1, <2>2
  <2>4. QED
    BY <1>4, <2>3
<1>7. QED
  BY <1>5, <1>6

\* The fields the transcript's turns carry.
LEMMA TurnFields ==
  ASSUME NEW x \in Turn
  PROVE  (x.kind = "assistant" => x.calls \in Nat) /\ (x.kind = "tool" => x.call \in Nat \ {0})
BY LoopAssumption DEF Turn, User, Cancelled, Error
\* The run of answers after a response holds the answers to its calls, in place ...
LEMMA RunHolds ==
  ASSUME NEW m \in Seq(Turn), NEW f, Projects(f, m), NEW i \in 1..Len(m), m[i].kind = "assistant",
         AnsweredAt(m, i), NEW c \in 1..m[i].calls
  PROVE  /\ Len(f[i]) + c \in 1..Len(f[Len(m)])
         /\ f[Len(m)][Len(f[i]) + c].kind = "tool" /\ f[Len(m)][Len(f[i]) + c].call = c
<1>1. m[i].calls \in Nat
  BY TurnFields
<1>2. Len(f[i + c]) = Len(f[i]) + c /\ Visible(m[i + c]) /\ i + c \in 1..Len(m)
  BY <1>1, AnswersFollow
<1>3. Len(f[i + c]) \in 1..Len(f[Len(m)]) /\ f[Len(m)][Len(f[i + c])] = m[i + c]
  BY <1>2, Place
<1>4. QED
  BY <1>2, <1>3 DEF AnsweredAt

\* ... and nothing else: the message after them is no answer.
LEMMA RunEnds ==
  ASSUME NEW m \in Seq(Turn), NEW f, Projects(f, m), Answered(m), NEW i \in 1..Len(m),
         m[i].kind = "assistant", Len(f[i]) + m[i].calls + 1 \in 1..Len(f[Len(m)])
  PROVE  f[Len(m)][Len(f[i]) + m[i].calls + 1].kind # "tool"
<1>a. PICK p, k, q : p = f[Len(m)] /\ k = Len(f[i]) /\ q = k + m[i].calls + 1
  OBVIOUS
<1>0. SUFFICES ASSUME p[q].kind = "tool" PROVE FALSE
  BY <1>a
<1>1. m[i].calls \in Nat /\ AnsweredAt(m, i) /\ Visible(m[i]) /\ k \in Nat /\ q = k + m[i].calls + 1
  <2>1. m[i] \in Turn /\ i \in 0..Len(m)
    OBVIOUS
  <2>2. Len(f[i]) \in Nat
    BY <2>1 DEF Projects
  <2>3. QED
    BY <1>a, <2>1, <2>2, TurnFields DEF Answered, Visible
<1>2. PICK j \in 1..Len(m) : Visible(m[j]) /\ Len(f[j]) = q /\ p[q] = m[j]
  BY <1>a, Source
<1>3. PICK d, h : d \in Nat \ {0} /\ h \in 1..Len(m) /\ m[h].kind = "assistant" /\ d <= m[h].calls /\ j = h + d
  <2>1. m[j] \in Turn /\ m[j].kind = "tool"
    BY <1>0, <1>2
  <2>2. m[j].call \in Nat \ {0} /\ AnswerAt(m, j)
    BY <2>1, TurnFields DEF Answered
  <2>3. /\ j - m[j].call \in 1..Len(m) /\ m[j - m[j].call].kind = "assistant"
        /\ m[j].call <= m[j - m[j].call].calls /\ j = (j - m[j].call) + m[j].call
    BY <2>2 DEF AnswerAt
  <2>4. QED
    BY <2>2, <2>3, Zenon
<1>4. m[h].calls \in Nat /\ AnsweredAt(m, h) /\ Visible(m[h]) /\ d \in 1..m[h].calls /\ Len(f[h]) \in Nat
  <2>1. m[h] \in Turn /\ h \in 0..Len(m)
    BY <1>3
  <2>2. m[h].calls \in Nat
    BY <1>3, <2>1, TurnFields
  <2>3. AnsweredAt(m, h) /\ Visible(m[h])
    BY <1>3 DEF Answered, Visible
  <2>4. Len(f[h]) \in Nat
    BY <2>1 DEF Projects
  <2>5. QED
    BY <1>3, <2>2, <2>3, <2>4
<1>5. q = Len(f[h]) + d
  <2>1. Len(f[h + d]) = Len(f[h]) + d
    BY <1>3, <1>4, AnswersFollow
  <2>2. QED
    BY <1>2, <1>3, <2>1
<1>6. k < q
  BY <1>1
<1>7. CASE h = i
  BY <1>a, <1>1, <1>3, <1>4, <1>5, <1>7
<1>8. CASE h > i
  <2>1. i \in 1..(h - 1)
    BY <1>3, <1>8
  <2>2. k < Len(f[h]) /\ Len(f[h]) \in 1..Len(p) /\ p[Len(f[h])] = m[h]
    BY <1>a, <1>3, <1>4, <2>1, Place
  <2>3. Len(f[h]) - k \in 1..m[i].calls /\ k + (Len(f[h]) - k) = Len(f[h])
    <3>1. \A a, b, n, x \in Nat : b < a /\ b + n + 1 = a + x /\ x # 0 => a - b \in 1..n /\ b + (a - b) = a
      OBVIOUS
    <3>2. d \in Nat /\ d # 0 /\ k + m[i].calls + 1 = Len(f[h]) + d
      BY <1>1, <1>3, <1>5
    <3>3. QED
      BY <1>1, <1>4, <2>2, <3>1, <3>2
  <2>4. p[k + (Len(f[h]) - k)].kind = "tool"
    <3>1. \A c \in 1..m[i].calls : f[Len(m)][Len(f[i]) + c].kind = "tool"
      BY <1>1, RunHolds, SMTT(60)
    <3>2. QED
      BY <1>a, <2>3, <3>1, Zenon
  <2>5. QED
    BY <1>3, <2>2, <2>3, <2>4
<1>9. CASE h < i
  <2>1. i < j
    <3>1. SUFFICES ASSUME ~(i < j) PROVE FALSE
      OBVIOUS
    <3>2. j = i \/ j \in 1..(i - 1)
      BY <3>1
    <3>3. \A n \in 1..(i - 1) : Len(f[n]) < Len(f[i])
      BY <1>1, Place
    <3>4. QED
      BY <1>a, <1>1, <1>2, <1>6, <3>2, <3>3
  <2>2. i - h \in 1..m[h].calls /\ h + (i - h) = i
    BY <1>3, <1>4, <1>9, <2>1
  <2>3. m[h + (i - h)].kind = "tool"
    BY <1>4, <2>2 DEF AnsweredAt
  <2>4. QED
    BY <2>2, <2>3
<1>10. QED
  BY <1>3, <1>7, <1>8, <1>9

\* Calls answered in place in the transcript are answered in the request, by exactly
\* the run of messages verify_invariant looks at.
LEMMA ProjectionVerified ==
  ASSUME NEW m \in Seq(Turn), Answered(m)
  PROVE  VerifyInvariant(Projection(m))
<1>1. PICK f : Projects(f, m)
  BY ProjectsExist
<1> DEFINE p == f[Len(m)]
<1>2. Projection(m) = p /\ p \in Seq(Turn) /\ Len(p) \in Nat /\ DOMAIN p = 1..Len(p)
  <2>1. Len(m) \in 0..Len(m)
    OBVIOUS
  <2>2. p \in Seq(Turn)
    BY <1>1, <2>1 DEF Projects
  <2>3. QED
    BY <1>1, <2>2, ProjectionIs
<1> HIDE DEF p
<1>3. ASSUME NEW k \in 1..Len(p), p[k].kind = "assistant", p[k].calls > 0
      PROVE  LET run == {j \in (k + 1)..Len(p) : \A l \in (k + 1)..j : p[l].kind = "tool"}
             IN  run # {} /\ {p[j].call : j \in run} = 1..p[k].calls
  <2> DEFINE run == {j \in (k + 1)..Len(p) : \A l \in (k + 1)..j : p[l].kind = "tool"}
             n == p[k].calls
  <2>1. PICK i \in 1..Len(m) : Visible(m[i]) /\ Len(f[i]) = k /\ p[k] = m[i]
    BY <1>1, Source DEF p
  <2>2. m[i].kind = "assistant" /\ AnsweredAt(m, i) /\ n \in Nat /\ n = m[i].calls /\ n > 0
    <3>1. m[i] \in Turn
      OBVIOUS
    <3>2. QED
      BY <1>3, <2>1, <3>1, TurnFields DEF Answered
  <2> HIDE DEF n
  <2>3. ASSUME NEW c \in 1..n PROVE k + c \in 1..Len(p) /\ p[k + c].kind = "tool" /\ p[k + c].call = c
    <3>1. c \in 1..m[i].calls /\ p = f[Len(m)] /\ k = Len(f[i])
      BY <2>1, <2>2 DEF p
    <3>2. QED
      BY <1>1, <2>2, <3>1, RunHolds
  <2>4. ASSUME NEW c \in 1..n PROVE k + c \in run
    <3>1. k + c \in (k + 1)..Len(p)
      BY <2>3
    <3>2. ASSUME NEW l \in (k + 1)..(k + c) PROVE p[l].kind = "tool"
      <4>1. l - k \in 1..n /\ k + (l - k) = l
        BY <2>2
      <4>2. QED
        BY <2>3, <4>1
    <3>3. QED
      BY <3>1, <3>2
  <2>5. ASSUME NEW j \in run PROVE j - k \in 1..n /\ k + (j - k) = j
    <3>1. j \in (k + 1)..Len(p) /\ \A l \in (k + 1)..j : p[l].kind = "tool"
      OBVIOUS
    <3>2. SUFFICES ASSUME ~(j - k <= n) PROVE FALSE
      BY <2>2, <3>1
    <3>3. k + n + 1 \in (k + 1)..j /\ k + n + 1 \in 1..Len(p)
      BY <1>2, <2>2, <3>1, <3>2
    <3>4. p[k + n + 1].kind # "tool"
        <4>1. p = f[Len(m)] /\ k = Len(f[i]) /\ n = m[i].calls
        BY <2>1, <2>2 DEF p
      <4>2. QED
        BY <1>1, <2>2, <3>3, <4>1, RunEnds
    <3>5. QED
      BY <3>1, <3>3, <3>4
  <2>6. run # {}
    <3>1. 1 \in 1..n
      BY <2>2
    <3>2. QED
      BY <2>4, <3>1
  <2>7. \A j \in run : p[j].call \in 1..n
    <3>1. ASSUME NEW j \in run PROVE p[j].call \in 1..n
      <4>1. j - k \in 1..n /\ k + (j - k) = j
        BY <2>5
      <4>2. p[k + (j - k)].call = j - k
        BY <2>3, <4>1
      <4>3. QED
        BY <4>1, <4>2
    <3>2. QED
      BY <3>1
  <2>8. \A c \in 1..n : \E j \in run : p[j].call = c
    <3>1. ASSUME NEW c \in 1..n PROVE \E j \in run : p[j].call = c
      BY <2>3, <2>4
    <3>2. QED
      BY <3>1
  <2> HIDE DEF run
  <2>9. {p[j].call : j \in run} = 1..n
    BY <2>7, <2>8
  <2>10. QED
    BY <2>6, <2>9 DEF run, n
<1>4. QED
  BY <1>2, <1>3 DEF VerifyInvariant

\* No request breaks the tool-answer invariant of project.rs: what is about to be
\* sent has, after every response, exactly the answers to its calls.
THEOREM RequestsWellFormedAlways == Spec => []RequestsWellFormed
<1>1. ASSUME IInv PROVE RequestsWellFormed
  <2>1. SUFFICES ASSUME pc = "request" PROVE VerifyInvariant(Projection(messages))
    BY DEF RequestsWellFormed
  <2>2. messages \in Seq(Turn) /\ Answered(messages)
    BY <1>1, <2>1 DEF IInv, TypeOK
  <2>3. QED
    BY <2>2, ProjectionVerified
<1>2. QED
  BY <1>1, Invariance, PTL
=============================================================================
