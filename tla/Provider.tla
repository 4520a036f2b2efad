------------------------------ MODULE Provider ------------------------------
(***************************************************************************)
(* The provider client: rc-proto's ChatClient (retries, gzip fallback, DLR *)
(* or JSON), its EventStream (SseDecoder, ToolCallAccumulator,             *)
(* StreamFuser), and rc-core's ChatModel, which consumes the stream and    *)
(* replays a request whose stream died before saying anything.             *)
(*                                                                         *)
(* A line of the body is one item of a chunk; a chunk with several items   *)
(* is several lines of one frame.  Tool arguments are fragments: "open"    *)
(* then "close" is valid JSON, "open" alone is JSON that repair completes, *)
(* anything else is beyond repair.  A text delta is "text", "blank" (white *)
(* space), or one of the tags "think" and "unthink" that enclose reasoning *)
(* put into the text.  Delays are not modelled.                            *)
(***************************************************************************)
EXTENDS Integers, Sequences, SequencesExt

CONSTANTS
  MaxRetries,      \* RetryOpts.max_retries
  MaxZero,         \* MAX_ZERO_SEMANTIC_STREAM_RETRIES
  Lines,           \* the lines a server sends
  MaxLines,        \* bound on the lines of one response
  MaxCompletions   \* bound on the requests of one client

\* A call's index counts from 1 here, and no server says what StreamFuser says
\* itself when the body ends without a finish.
ASSUME ProviderAssumption ==
  /\ MaxRetries \in Nat /\ MaxZero \in Nat
  /\ MaxLines \in Nat /\ MaxCompletions \in Nat
  /\ \A l \in Lines : /\ l.kind = "tool" => l.i \in Nat \ {0}
                      /\ l.kind = "finish" => l.reason # "stream-ended"

VARIABLES
  gzip,      \* gzip_request: requests are compressed
  dlr,       \* "off", "prefer" or "required" before the probe, "ready" after it
  calls,     \* completions started
  phase,     \* "idle", "send", "stream", "done"
  mode,      \* "stream" or "complete" (the non-streaming round trip)
  enc,       \* this body is compressed
  attempt,   \* retries of this body
  carried,   \* retries of the compressed body it replaced, and the swap
  total, zero, reported,  \* ChatModel::complete's counters
  posts,     \* requests that reached the provider in this completion
  buf,       \* SseDecoder.buf: the line cut by the last frame
  inFrame,   \* feed is looping over a frame
  acc,       \* ToolCallAccumulator.slots
  finished,  \* StreamFuser.finished
  pending,   \* EventStream.pending
  ended,     \* EventStream.done
  semantic, resp,  \* consume_stream's accumulators
  said,      \* the lines of this response
  stale,     \* events an abandoned attempt had already shown to the host
  result

sendVars == <<enc, attempt, carried>>
modelVars == <<total, zero, reported>>
bodyVars == <<buf, inFrame, acc, finished, pending, ended, semantic, resp, said>>
providerVars == <<gzip, dlr, calls, phase, mode, sendVars, modelVars, posts, bodyVars,
          stale, result>>

None == "none"
NoLine == [kind |-> None]
NoResp == [text |-> <<>>, reasoning |-> <<>>, calls |-> <<>>,
           finish |-> "stop", usage |-> FALSE]
Result(error, retries) == [error |-> error, retries |-> retries, resp |-> NoResp]

\* EventStream::new
FreshStream ==
  /\ buf' = NoLine /\ inFrame' = FALSE /\ acc' = <<>> /\ finished' = FALSE
  /\ pending' = <<>> /\ ended' = FALSE /\ semantic' = FALSE /\ resp' = NoResp
  /\ said' = <<>>

ProviderInit ==
  /\ gzip \in BOOLEAN
  /\ dlr \in {"off", "prefer", "required"}
  /\ calls = 0 /\ phase = "idle" /\ mode = "stream"
  /\ enc = FALSE /\ attempt = 0 /\ carried = 0
  /\ total = 0 /\ zero = 0 /\ reported = 0 /\ posts = 0
  /\ buf = NoLine /\ inFrame = FALSE /\ acc = <<>> /\ finished = FALSE
  /\ pending = <<>> /\ ended = FALSE /\ semantic = FALSE /\ resp = NoResp
  /\ said = <<>>
  /\ stale = {} /\ result = Result(None, 0)

-----------------------------------------------------------------------------
(* Sending: send_model_request, encode_and_send, send_with_retry           *)

Begin(m) ==
  /\ phase \in {"idle", "done"} /\ calls < MaxCompletions
  /\ calls' = calls + 1 /\ phase' = "send" /\ mode' = m
  /\ enc' = gzip /\ attempt' = 0 /\ carried' = 0
  /\ total' = 0 /\ zero' = 0 /\ reported' = 0 /\ posts' = 0
  /\ FreshStream
  /\ stale' = {} /\ result' = Result(None, 0)
  /\ UNCHANGED <<gzip, dlr>>

Fail(error, retries) ==
  /\ phase' = "done" /\ result' = Result(error, retries)

\* 2xx: the non-streaming caller parses the body at once, the streaming one
\* adds the wire retries to its total and reports them.
Accepted(retries) ==
  \/ /\ mode = "complete"
     /\ \E e \in {None, "empty-choices", "http"} : Fail(e, retries)
     /\ UNCHANGED <<modelVars, bodyVars>>
  \/ /\ mode = "stream"
     /\ phase' = "stream" /\ FreshStream
     /\ total' = total + retries
     /\ reported' = total'
     /\ UNCHANGED <<zero, result>>

\* The sidecar answers for the request, or (Prefer, before the first success)
\* the probe fails and this client speaks JSON for good.
SendDlr ==
  /\ phase = "send" /\ dlr # "off"
  /\ \/ /\ dlr = "prefer" /\ dlr' = "off"
        /\ UNCHANGED <<phase, result, modelVars, bodyVars, posts>>
     \/ /\ dlr' = dlr /\ Fail("dlr", total)
        /\ UNCHANGED <<modelVars, bodyVars, posts>>
     \/ /\ dlr' = "ready" /\ posts' = posts + 1
        /\ \/ Accepted(0)
           \/ Fail("status", total) /\ UNCHANGED <<modelVars, bodyVars>>
  /\ UNCHANGED <<gzip, calls, mode, sendVars, stale>>

\* A body that cannot be reopened from its spool, or a session id that is not a
\* header value.
SendLocalError ==
  /\ phase = "send" /\ dlr = "off"
  /\ Fail("local", total + carried + attempt)
  /\ UNCHANGED <<gzip, dlr, calls, mode, sendVars, modelVars, posts, bodyVars, stale>>

\* is_transient_status_body, is_transient_transport: busy, or never connected.
Transient == {"busy", "no-router", "connect"}
Outcomes == Transient \cup {"ok", "timeout", "status", "gzip-unsupported"}

\* encode_and_send counts the compressed body's retries, and the swap.
SwapRetries == attempt + 1

Post(o) ==
  /\ phase = "send" /\ dlr = "off"
  /\ posts' = posts + 1
  /\ \/ /\ o = "ok" /\ Accepted(carried + attempt)
        /\ UNCHANGED <<gzip, sendVars>>
     \/ /\ o \in Transient /\ attempt < MaxRetries
        /\ attempt' = attempt + 1
        /\ UNCHANGED <<gzip, enc, carried, phase, result, modelVars, bodyVars>>
     \/ /\ o = "gzip-unsupported" /\ enc
        /\ gzip' = FALSE /\ enc' = FALSE
        /\ carried' = SwapRetries /\ attempt' = 0
        /\ UNCHANGED <<phase, result, modelVars, bodyVars>>
     \/ /\ o # "ok"
        /\ ~(o \in Transient /\ attempt < MaxRetries)
        /\ ~(o = "gzip-unsupported" /\ enc)
        /\ Fail(IF o \in {"connect", "timeout"} THEN "http" ELSE "status",
                total + carried + attempt)
        /\ UNCHANGED <<gzip, sendVars, modelVars, bodyVars>>
  /\ UNCHANGED <<dlr, calls, mode, stale>>

-----------------------------------------------------------------------------
(* The stream fuser.  State and events of one parsed line.                 *)

Valid(args) == args \in {<<>>, <<"open", "close">>}
Repairable(args) == args = <<"open">>

\* Mutant of finalize_one: repaired arguments are trusted on any finish.
finalize_trusting(args, confirmed) ==
  [ok |-> Valid(args) \/ Repairable(args), args |-> args]

finalize_one(args, confirmed) ==
  [ok |-> Valid(args) \/ (Repairable(args) /\ confirmed), args |-> args]

\* ToolCallAccumulator::apply; a skipped index leaves an empty slot.
Accumulate(slots, i, frag) ==
  LET wide == [k \in 1..(IF i > Len(slots) THEN i ELSE Len(slots)) |->
                 IF k <= Len(slots) THEN slots[k] ELSE <<>>]
  IN  [wide EXCEPT ![i] = Append(@, frag)]

TextKinds == {"text", "blank", "think", "unthink"}
Event(kind, value) == [kind |-> kind, value |-> value]

\* flush: once, the calls in index order, then the finish.
Flush(slots, reason) ==
  [i \in DOMAIN slots |->
     Event("call", finalize_one(slots[i], reason = "tool_calls"))]
    \o <<Event("finish", reason)>>

\* StreamFuser::apply: [acc, finished, out].
Apply(line) ==
  CASE line.kind \in TextKinds \cup {"reasoning", "usage"} ->
         [acc |-> acc, finished |-> finished, out |-> <<Event(line.kind, None)>>]
    [] line.kind = "tool" ->
         [acc |-> Accumulate(acc, line.i, line.frag), finished |-> finished,
          out |-> <<Event("progress", None)>>]
    [] line.kind = "finish" /\ ~finished ->
         [acc |-> <<>>, finished |-> TRUE, out |-> Flush(acc, line.reason)]
    [] OTHER ->
         [acc |-> acc, finished |-> finished, out |-> <<>>]

Fuse(line) ==
  LET a == Apply(line)
  IN  /\ acc' = a.acc /\ finished' = a.finished
      /\ pending' = pending \o a.out

-----------------------------------------------------------------------------
(* EventStream::poll_next and consume_stream                               *)

Streaming == phase = "stream"
Polling == Streaming /\ ~inFrame /\ pending = <<>> /\ ~ended
idleVars == <<gzip, dlr, calls, mode, sendVars, posts>>

\* The identical request is sent again, after a pause.
Replay ==
  /\ zero' = zero + 1
  /\ total' = total + 1 /\ reported' = total'
  /\ phase' = "send" /\ enc' = gzip /\ attempt' = 0 /\ carried' = 0
  /\ stale' = stale \cup Range(resp.text) \cup Range(resp.reasoning)
                    \cup (IF semantic THEN {"semantic"} ELSE {})
  /\ FreshStream /\ UNCHANGED result

\* StreamAttemptError: replayed when it is a transport failure before semantic
\* output and replays are left.
AttemptFails(error) ==
  /\ \/ /\ ~semantic /\ error \in {"http", "idle"} /\ zero < MaxZero
        /\ Replay
     \/ /\ ~(~semantic /\ error \in {"http", "idle"} /\ zero < MaxZero)
        /\ Fail(error, total)
        /\ UNCHANGED <<modelVars, sendVars, bodyVars, stale>>
  /\ UNCHANGED <<gzip, dlr, calls, mode, posts>>

FrameBegin ==
  /\ Polling /\ Len(said) < MaxLines
  /\ inFrame' = TRUE
  /\ UNCHANGED <<idleVars, phase, modelVars, buf, acc, finished, pending, ended,
                 semantic, resp, said, stale, result>>

\* A complete line of the frame: the one the last frame cut comes first.  A line
\* that does not parse fails the stream at once; what is pending is not delivered.
FrameLine(line) ==
  /\ Streaming /\ inFrame /\ Len(said) < MaxLines
  /\ buf \in {NoLine, line}
  /\ \/ line.kind = "bad" /\ AttemptFails("json")
     \/ /\ line.kind # "bad"
        /\ buf' = NoLine /\ Fuse(line) /\ said' = Append(said, line)
        /\ UNCHANGED <<idleVars, phase, modelVars, inFrame, ended, semantic, resp,
                       stale, result>>

\* The frame ends, possibly inside a line.  One that held no model event still
\* proves that the body moves.
FrameEnd(cut) ==
  /\ Streaming /\ inFrame
  /\ IF buf = NoLine THEN cut \in Lines \cup {NoLine} ELSE cut = buf
  /\ inFrame' = FALSE /\ buf' = cut
  /\ pending' = IF pending = <<>> THEN <<Event("activity", None)>> ELSE pending
  /\ UNCHANGED <<idleVars, phase, modelVars, acc, finished, ended, semantic, resp,
                 said, stale, result>>

\* The body ends.  A cut line is parsed as it stands: it lacked only its newline,
\* or some of its data, or even its field name.
BodyEnd(tail) ==
  /\ Polling
  /\ \/ tail = "broken" /\ buf # NoLine /\ AttemptFails("json")
     \/ /\ tail \in {"ignored", "whole"} /\ (buf = NoLine => tail = "ignored")
        /\ tail = "whole" => buf.kind # "bad"
        /\ LET a == IF tail = "whole" THEN Apply(buf)
                    ELSE [acc |-> acc, finished |-> finished, out |-> <<>>]
           IN  /\ pending' = a.out \o (IF a.finished THEN <<>>
                                       ELSE Flush(a.acc, "stream-ended"))
               /\ acc' = IF a.finished THEN a.acc ELSE <<>>
        /\ said' = IF tail = "whole" THEN Append(said, buf) ELSE said
        /\ finished' = TRUE /\ ended' = TRUE /\ buf' = NoLine
        /\ UNCHANGED <<idleVars, phase, modelVars, inFrame, semantic, resp, stale,
                       result>>

BodyError == Polling /\ AttemptFails("http")
IdleTimeout == Polling /\ AttemptFails("idle")

\* Mutant of Semantic: only a finished call counts.
SemanticCalls(e) == e.kind = "call"

\* Events that could have been shown or run.
Semantic(e) == e.kind \in TextKinds \cup {"reasoning", "progress", "call"}

\* The consumer takes one event, shows it and adds it to the response.
Deliver ==
  /\ Streaming /\ ~inFrame /\ pending # <<>>
  /\ LET e == Head(pending)
     IN  /\ semantic' = (semantic \/ Semantic(e))
         /\ resp' =
              CASE e.kind \in TextKinds ->
                     [resp EXCEPT !.text = Append(@, e.kind)]
                [] e.kind = "reasoning" ->
                     [resp EXCEPT !.reasoning = Append(@, e.kind)]
                [] e.kind = "call" -> [resp EXCEPT !.calls = Append(@, e.value)]
                [] e.kind = "finish" -> [resp EXCEPT !.finish = e.value]
                [] e.kind = "usage" -> [resp EXCEPT !.usage = TRUE]
                [] OTHER -> resp
  /\ pending' = Tail(pending)
  /\ UNCHANGED <<idleVars, phase, modelVars, buf, inFrame, acc, finished, ended,
                 said, stale, result>>

\* strip_reasoning_tag: Inside(text)[n] holds when a <think> is open after n deltas.
\* A delta with the same on both sides is kept, as text or as reasoning; one that
\* opens or closes is a tag, and is dropped.
Inside(text) ==
  LET in[n \in 0..Len(text)] ==
        IF n = 0 THEN FALSE
        ELSE IF in[n - 1] THEN text[n] # "unthink" ELSE text[n] = "think"
  IN  in
Places(text, thought) ==
  {n \in DOMAIN text : Inside(text)[n - 1] = thought /\ Inside(text)[n] = thought}
Part(text, thought) ==
  LET at == SetToSortSeq(Places(text, thought), <) IN [k \in DOMAIN at |-> text[at[k]]]
AllBlank(text, thought) == \A n \in Places(text, thought) : text[n] = "blank"

\* The response handed on: text without the tags, what they enclosed put after the
\* reasoning unless it is white space.
Stripped(r) ==
  [r EXCEPT !.text = Part(r.text, FALSE),
            !.reasoning = IF AllBlank(r.text, TRUE) THEN @ ELSE @ \o Part(r.text, TRUE)]

\* is_empty_stream_end: no finish, and nothing but white space in or out of the tags.
EmptyStreamEnd ==
  /\ resp.finish = "stream-ended" /\ resp.calls = <<>>
  /\ AllBlank(resp.text, FALSE) /\ AllBlank(resp.text, TRUE)
  /\ "reasoning" \notin Range(resp.reasoning)

StreamEnd ==
  /\ Streaming /\ ended /\ pending = <<>>
  /\ \/ EmptyStreamEnd /\ zero < MaxZero /\ Replay
     \/ /\ ~(EmptyStreamEnd /\ zero < MaxZero)
        /\ phase' = "done"
        /\ result' = [error |-> None, retries |-> total, resp |-> Stripped(resp)]
        /\ UNCHANGED <<modelVars, sendVars, bodyVars, stale>>
  /\ UNCHANGED <<gzip, dlr, calls, mode, posts>>

ProviderNext ==
  \/ \E m \in {"stream", "complete"} : Begin(m)
  \/ SendDlr \/ SendLocalError
  \/ \E o \in Outcomes : Post(o)
  \/ FrameBegin \/ BodyError \/ IdleTimeout \/ Deliver \/ StreamEnd
  \/ \E l \in Lines : FrameLine(l)
  \/ \E c \in Lines \cup {NoLine} : FrameEnd(c)
  \/ \E t \in {"whole", "broken", "ignored"} : BodyEnd(t)

ProviderSpec == ProviderInit /\ [][ProviderNext]_providerVars

-----------------------------------------------------------------------------
(* Properties                                                              *)

\* What a response says by definition: the lines before the first finish.
FinishAt == SelectInSeq(said, LAMBDA l : l.kind = "finish")
Before == IF FinishAt = 0 THEN said ELSE SubSeq(said, 1, FinishAt)
Reason == IF FinishAt = 0 THEN "stream-ended" ELSE said[FinishAt].reason
FragsOf(lines, i) ==
  LET own[n \in 0..Len(lines)] ==
        IF n = 0 THEN <<>>
        ELSE IF lines[n].kind = "tool" /\ lines[n].i = i
             THEN Append(own[n - 1], lines[n].frag) ELSE own[n - 1]
  IN  own[Len(lines)]
Frags(i) == FragsOf(Before, i)
Indices == {Before[k].i : k \in {k \in DOMAIN Before : Before[k].kind = "tool"}}

\* However the body was cut into frames, an accepted response holds, in index
\* order, exactly the calls whose fragments came before the finish, each with all
\* of its fragments, and one is runnable only if its arguments are complete or the
\* model said that it was done calling (StreamFuser, ToolCallAccumulator).
CallsAsSent ==
  phase = "done" /\ result.error = None /\ mode = "stream" =>
    LET got == result.resp.calls
    IN  /\ result.resp.finish = Reason
        /\ Indices \subseteq DOMAIN got
        /\ \A i \in DOMAIN got :
             /\ got[i].args = Frags(i)
             /\ got[i].ok <=> \/ Frags(i) \in {<<>>, <<"open", "close">>}
                              \/ Frags(i) = <<"open">> /\ Reason = "tool_calls"

\* A request is sent again only if the attempts before it showed the host nothing
\* but white space and <think> tags around nothing else: on_text shows the tags as
\* they come, and they are stripped before the response is found empty.  No word,
\* reasoning or tool call of an abandoned response is ever followed by a second
\* response to the same request, nor a closing tag that closed nothing.
ReplayIsInvisible ==
  /\ stale \subseteq {"blank", "think", "unthink", "semantic"}
  /\ "semantic" \in stale => "blank" \in stale \/ "think" \in stale
  /\ "unthink" \in stale => "think" \in stale

\* The retries a completion reports, with its answer or its error, are the
\* requests it really made beyond the first, over wire retries, the uncompressed
\* second try and replays; and they are bounded.
RetriesTold ==
  phase = "done" /\ posts > 0 =>
    /\ result.retries = posts - 1 \/ result.error \in {"local", "dlr"}
    /\ result.error = None /\ mode = "stream" => reported = result.retries
    /\ posts <= (MaxZero + 2) * (MaxRetries + 1)

\* Replays are sound: the agent cannot see that one happened, except in the count
\* it is told, which is the requests really made.
ReplaySound == ReplayIsInvisible /\ RetriesTold
=============================================================================
