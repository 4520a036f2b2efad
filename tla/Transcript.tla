----------------------------- MODULE Transcript -----------------------------
(* What rc-tui draws (App::apply in app.rs, ViewState in view.rs): rows of      *)
(* text, live tool calls that own a range of rows until they end, thoughts and  *)
(* failed calls folded into one row that a click opens, the scroll, and the     *)
(* text selected with the mouse.  Blocks and selections are row indices, so     *)
(* every insertion and removal reindexes the blocks.                            *)
(*                                                                              *)
(* Abstracted: a row is its owner (a serial number) and its part; an answer is  *)
(* one row, a thought's body Body rows, an edit preview two, a result one; a    *)
(* note wraps into two rows of the screen, every other row fits in one.         *)
EXTENDS Integers, Sequences, FiniteSets, SequencesExt, FiniteSetsExt

CONSTANTS Calls,       \* ids of tool calls
          Edits,       \* those that come with an edit preview
          Body,        \* rows of a thought
          Height,      \* rows of the viewport (area_height)
          Histories,   \* the histories a session may be resumed with
          MaxOwners    \* bound: things shown

\* the turns of a session file, by how they are shown
ASSUME ScreenAssumption ==
  /\ Body \in Nat /\ Height \in Nat \ {0}
  /\ Histories \subseteq Seq({"user", "answer", "thought", "failed", "ok"})

VARIABLES v,           \* ViewState and App.live_tools
          scroll,      \* follow and scroll_top
          frame,       \* visible_transcript_rows of the last draw, <<>> until it is drawn
          sel,         \* transcript_selection, and the rows picked when it was made (ghost)
          said         \* ghost: answers and prompts shown since the last clear
screenVars == <<v, scroll, frame, sel, said>>

Row(own, part) == [own |-> own, part |-> part]
Rows(own, part, n) == [i \in 1 .. n |-> Row(own, part)]
splice(s, start, len, new) ==
  SubSeq(s, 1, start - 1) \o new \o SubSeq(s, start + len, Len(s))

\* an empty map of live calls
NoLive == [c \in {} |-> [start |-> 0, len |-> 0, own |-> 0]]

-----------------------------------------------------------------------------
(* Rows and blocks (view.rs)                                                    *)
\* Mutant of shift: the row just after a removed range does not move
shift_after(bs, threshold, delta) ==
  {IF b.row > threshold THEN [b EXCEPT !.row = @ + delta] ELSE b : b \in bs}

\* shift_summary_indices_at_or_after
shift(bs, threshold, delta) ==
  {IF b.row >= threshold THEN [b EXCEPT !.row = @ + delta] ELSE b : b \in bs}

PushBlock(w, rows) == [w EXCEPT !.rows = @ \o rows]
Block(own, kind, row, len) == [own |-> own, kind |-> kind, row |-> row, len |-> len, open |-> FALSE]

flush_text(w) ==
  LET sum == IF w.thought = 0 THEN <<>> ELSE <<Row(w.thought, "sum")>>
      gap == IF w.thought # 0 /\ w.text # 0 THEN <<Row(0, "blank")>> ELSE <<>>
      ans == IF w.text = 0 THEN <<>> ELSE <<Row(w.text, "text")>>
  IN [w EXCEPT !.rows = @ \o sum \o gap \o ans,
               !.blocks = @ \cup {Block(w.thought, "thought", Len(w.rows) + 1, Body) :
                                  x \in {y \in {w.thought} : y # 0}},
               !.text = 0, !.thought = 0]

replace_with_tool_block(w, own, start, len) ==
  [w EXCEPT !.rows = splice(@, start, len, <<Row(own, "sum")>>),
            !.blocks = shift(@, start + len, 1 - len) \cup {Block(own, "tool", start, len + 1)}]

remove_transcript_range(w, start, len) ==
  [w EXCEPT !.rows = splice(@, start, len, <<>>), !.blocks = shift(@, start + len, -len)]

push_tool_block(w) ==
  [w EXCEPT !.rows = Append(@, Row(w.next, "sum")),
            !.blocks = @ \cup {Block(w.next, "tool", Len(w.rows) + 1, 1)},
            !.next = @ + 1]

toggle(w, b) ==
  LET body == Rows(b.own, "body", b.len)
      rows == IF b.open THEN splice(w.rows, b.row + 1, b.len, <<>>)
                        ELSE splice(w.rows, b.row + 1, 0, body)
      others == IF b.open THEN shift(w.blocks \ {b}, b.row + 1 + b.len, -b.len)
                          ELSE shift(w.blocks \ {b}, b.row + 1, b.len)
  IN [w EXCEPT !.rows = rows, !.blocks = others \cup {[b EXCEPT !.open = ~@]}]

clear_transcript(w) == [w EXCEPT !.rows = <<>>, !.blocks = {}]

-----------------------------------------------------------------------------
(* Live calls (app.rs)                                                          *)
\* the calls whose rows come after a removed range move up
reindex(live, end, removed) ==
  [c \in DOMAIN live |-> IF live[c].start >= end THEN [live[c] EXCEPT !.start = @ - removed]
                                                 ELSE live[c]]

collapse_tool_call(w, id, ok) ==
  IF id \notin DOMAIN w.live THEN IF ok THEN w ELSE push_tool_block(w)
  ELSE LET b == w.live[id]
           removed == IF ok THEN b.len ELSE b.len - 1
           rest == [c \in DOMAIN w.live \ {id} |-> w.live[c]]
           gone == [w EXCEPT !.live = reindex(rest, b.start + b.len, removed)]
       IN IF ok THEN remove_transcript_range(gone, b.start, b.len)
          ELSE replace_with_tool_block(gone, b.own, b.start, b.len)

\* every call still live, the last rows first
collapse_unfinished(w) ==
  LET n == Cardinality(DOMAIN w.live)
      lowest(live) == CHOOSE c \in DOMAIN live : \A d \in DOMAIN live : live[d].start <= live[c].start
      folded[k \in 0 .. n] ==
        IF k = 0 THEN w ELSE collapse_tool_call(folded[k - 1], lowest(folded[k - 1].live), FALSE)
  IN folded[n]

\* restore_history: the turns of a resumed session; a thought and a failed call come folded,
\* a successful call stays hidden
restore_turn(w, k) ==
  CASE k = "user" -> [PushBlock(w, <<Row(w.next, "text")>>) EXCEPT !.next = @ + 1]
    [] k = "answer" -> flush_text([w EXCEPT !.text = w.next, !.next = @ + 1])
    [] k = "thought" -> flush_text([w EXCEPT !.thought = w.next, !.text = w.next + 1, !.next = @ + 2])
    [] k = "failed" -> push_tool_block(w)
    [] OTHER -> w
NewView == [rows |-> <<>>, blocks |-> {}, live |-> NoLive, text |-> 0, thought |-> 0,
            running |-> 0, busy |-> FALSE, started |-> FALSE, next |-> 1]
restore_history(h) ==
  LET shown[n \in 0 .. Len(h)] == IF n = 0 THEN NewView ELSE restore_turn(shown[n - 1], h[n])
  IN shown[Len(h)]

reset_turn(w) == [w EXCEPT !.busy = FALSE, !.started = FALSE, !.running = 0, !.thought = 0]

finish_turn(w) ==
  LET gap == IF w.rows # <<>> /\ Last(w.rows).part # "blank" THEN <<Row(0, "blank")>> ELSE <<>>
  IN IF w.started THEN PushBlock(reset_turn(w), gap \o <<Row(0, "divider")>>) ELSE reset_turn(w)

-----------------------------------------------------------------------------
(* Events                                                                       *)
NoSel == [on |-> FALSE, anchor |-> <<0, 0>>, head |-> <<0, 0>>, copy |-> FALSE,
          picked |-> <<>>, calm |-> TRUE]
\* the owners of the rows that tell a prompt or an answer
Texts(rows) ==
  LET told[n \in 0 .. Len(rows)] ==
        IF n = 0 THEN <<>>
        ELSE IF rows[n].part = "text" THEN Append(told[n - 1], rows[n].own) ELSE told[n - 1]
  IN told[Len(rows)]

ScreenInit ==
  /\ \E h \in Histories : v = restore_history(h)
  /\ scroll = [follow |-> TRUE, top |-> 0] /\ frame = <<>> /\ sel = NoSel
  /\ said = Texts(v.rows)

Room == v.next <= MaxOwners

\* the loop drains every event, then draws, then reads one input
Undrawn == frame' = <<>>
Show(w) == v' = w /\ Undrawn /\ UNCHANGED <<scroll, sel, said>>

\* rows move, under a selection too
Moves(w) ==
  /\ v' = w /\ Undrawn /\ UNCHANGED <<scroll, said>>
  /\ sel' = [sel EXCEPT !.calm = @ /\ ~sel.on]

\* Text and Reasoning: a delta opens or extends the answer or the thought being streamed
Text ==
  /\ Room /\ v.busy
  /\ v' = IF v.text = 0 THEN [v EXCEPT !.text = v.next, !.next = @ + 1] ELSE v
  /\ said' = IF v.text = 0 THEN Append(said, v.next) ELSE said
  /\ Undrawn /\ UNCHANGED <<scroll, sel>>

Reasoning ==
  /\ Room /\ v.busy
  /\ IF v.thought # 0 THEN Show(v)
     ELSE IF v.text = 0 THEN Show([v EXCEPT !.thought = v.next, !.next = @ + 1])
     ELSE Moves([v EXCEPT !.thought = v.next, !.next = @ + 1])   \* it is put above the answer

\* a call, with its edit preview; an id that is still live is folded first
ToolStart(id) ==
  /\ Room /\ v.busy
  /\ LET f == flush_text(v)
         w == IF id \in DOMAIN f.live
              THEN [collapse_tool_call(f, id, FALSE) EXCEPT !.running = IF @ > 0 THEN @ - 1 ELSE 0]
              ELSE f
         rows == Rows(w.next, "call", IF id \in Edits THEN 3 ELSE 1)
     IN Moves([PushBlock(w, rows) EXCEPT
                !.live = [c \in DOMAIN w.live \cup {id} |->
                            IF c = id THEN [start |-> Len(w.rows) + 1, len |-> Len(rows),
                                            own |-> w.next] ELSE w.live[c]],
                !.running = @ + 1, !.next = @ + 1])

ToolEnd(id, ok) ==
  /\ Room /\ v.busy
  /\ LET w == collapse_tool_call(flush_text(v), id, ok)
         n == IF w.running > 0 THEN w.running - 1 ELSE 0
     IN Moves([w EXCEPT !.running = n])

\* an artifact's diff, a retry, a notice, a permission question
Notice ==
  /\ Room
  /\ Show(PushBlock([flush_text(v) EXCEPT !.next = @ + 1], <<Row(v.next, "note")>>))

\* Outcome, Error or Idle
TurnOver ==
  /\ v.busy
  /\ Moves(finish_turn(collapse_unfinished(flush_text(v))))

\* the echo of a prompt when its turn begins: at Enter, or at Ready for a queued one
TurnBegins ==
  /\ Room /\ ~v.busy
  /\ v' = [PushBlock(v, <<Row(v.next, "text")>>) EXCEPT
             !.next = @ + 1, !.busy = TRUE, !.started = TRUE, !.running = 0]
  /\ said' = Append(said, v.next)
  /\ Undrawn /\ UNCHANGED <<scroll, sel>>

\* /clear and /compact, typed between turns
Clear ==
  /\ ~v.busy /\ v.rows # <<>>
  /\ v' = [reset_turn(clear_transcript(v)) EXCEPT !.text = 0, !.live = NoLive]
  /\ said' = <<>> /\ sel' = NoSel
  /\ Undrawn /\ UNCHANGED scroll

-----------------------------------------------------------------------------
(* The frame, clicks, selections and scrolling                                  *)
\* what is being streamed, laid out as flush_text will leave it
parse_live(w) ==
  (IF w.thought = 0 THEN <<>> ELSE <<Row(w.thought, "sum")>>)
  \o (IF w.thought # 0 /\ w.text # 0 THEN <<Row(0, "blank")>> ELSE <<>>)
  \o (IF w.text = 0 THEN <<>> ELSE <<Row(w.text, "text")>>)

Lines == v.rows \o (IF v.text # 0 \/ v.thought # 0 THEN parse_live(v)
                    ELSE IF v.busy THEN <<Row(0, "spinner")>> ELSE <<>>)
total == Len(Lines)
max_top == IF total > Height THEN total - Height ELSE 0
current_top == IF scroll.follow \/ scroll.top > max_top THEN max_top ELSE scroll.top

\* rows lo .. hi, those that exist
Part(q, lo, hi) ==
  IF lo > Len(q) THEN <<>> ELSE SubSeq(q, lo, IF hi < Len(q) THEN hi ELSE Len(q))

\* the rows of the screen as <<line, part of the line>>: Height lines from the top one on,
\* wrapped; a pinned view drops what is too much at its top, a held one at its bottom
draw_transcript ==
  LET shown == Part(Lines, current_top + 1, current_top + Height)
      phys == FlattenSeq([i \in DOMAIN shown |->
                [k \in 1 .. (IF shown[i].part = "note" THEN 2 ELSE 1) |-> <<current_top + i, k>>]])
      skip == IF scroll.follow /\ Len(phys) > Height THEN Len(phys) - Height ELSE 0
  IN Part(phys, skip + 1, skip + Height)

\* apply_transcript_selection: the lines of the range, read from the rows as they are now
Between(a, b) ==
  LET lo == IF a[1] <= b[1] THEN a[1] ELSE b[1]
      hi == IF a[1] <= b[1] THEN b[1] ELSE a[1]
  IN Part(Lines, lo, hi)

\* flush_copy after the draw
Draw ==
  /\ frame = <<>> /\ draw_transcript # <<>>
  /\ frame' = draw_transcript
  /\ sel' = IF sel.copy THEN NoSel ELSE sel
  /\ UNCHANGED <<v, scroll, said>>

\* the button goes down on a row; what moves while it is down selects
Down(i) ==
  /\ ~sel.copy
  /\ sel' = [NoSel EXCEPT !.on = TRUE, !.anchor = frame[i], !.head = frame[i],
                          !.picked = Between(frame[i], frame[i])]
  /\ Undrawn /\ UNCHANGED <<v, scroll, said>>

HeadAt(p) == [sel EXCEPT !.head = p, !.picked = Between(sel.anchor, p)]

Drag(i) ==
  /\ sel.on /\ ~sel.copy /\ frame[i] # sel.head
  /\ sel' = HeadAt(frame[i])
  /\ Undrawn /\ UNCHANGED <<v, scroll, said>>

\* toggle_expandable_at: not while a call is live; a thought holds the top row still,
\* a failed call comes to the top
Click(b) ==
  /\ v' = toggle(v, b)
  /\ scroll' = [follow |-> FALSE,
                top |-> IF b.kind = "thought" THEN current_top ELSE b.row - 1]

\* the button comes up: on the row it went down on it was a click, else a copy, made
\* after the next draw
Up(i, moved) ==
  /\ sel.on /\ ~sel.copy
  /\ LET clicked == frame[i] = sel.anchor /\ ~moved
         hit == {b \in v.blocks : b.row = frame[i][1]}
     IN IF ~clicked THEN sel' = [HeadAt(frame[i]) EXCEPT !.copy = TRUE] /\ UNCHANGED <<v, scroll>>
        ELSE /\ sel' = NoSel
             /\ IF v.live = NoLive /\ hit # {} THEN Click(CHOOSE b \in hit : TRUE)
                ELSE UNCHANGED <<v, scroll>>
  /\ Undrawn /\ UNCHANGED said

\* any key drops the selection
Key ==
  /\ sel.on /\ ~sel.copy
  /\ sel' = NoSel /\ Undrawn /\ UNCHANGED <<v, scroll, said>>

\* the wheel, the arrows, the page keys: the bottom pins the view again, and a drag is
\* extended to the edge of the view
scroll_by(d) ==
  LET to == IF current_top + d < 0 THEN 0 ELSE current_top + d
      top == IF to >= max_top THEN max_top ELSE to
      edge == IF d < 0 THEN top + 1 ELSE IF top + Height < total THEN top + Height ELSE total
  IN /\ scroll' = IF to >= max_top THEN [follow |-> TRUE, top |-> 0]
                                   ELSE [follow |-> FALSE, top |-> to]
     /\ sel' = IF sel.on /\ ~sel.copy THEN HeadAt(<<edge, IF d < 0 THEN 1 ELSE 2>>) ELSE sel
     /\ Undrawn /\ UNCHANGED <<v, said>>

ScreenNext ==
  \/ Text \/ Reasoning \/ Notice \/ TurnOver \/ TurnBegins \/ Clear
  \/ \E id \in Calls : ToolStart(id) \/ (\E ok \in BOOLEAN : ToolEnd(id, ok))
  \/ Draw
  \/ \E i \in DOMAIN frame : Down(i) \/ Drag(i) \/ (\E b \in BOOLEAN : Up(i, b))
  \/ frame # <<>> /\ (Key \/ \E d \in {-1, 1} : scroll_by(d))

ScreenSpec == ScreenInit /\ [][ScreenNext]_screenVars

-----------------------------------------------------------------------------
\* Every folded thought and failed call is found at its own row, an open one is followed
\* by exactly its own body, every live call owns exactly its rows, and the prompts and
\* answers stay whole and in order, whatever parallel calls end in which order around
\* them (the indices that app.rs and view.rs shift by hand).
BlocksOnTheirRows ==
  /\ \A b \in v.blocks :
       /\ b.row \in DOMAIN v.rows /\ v.rows[b.row] = Row(b.own, "sum")
       /\ Cardinality({i \in DOMAIN v.rows : v.rows[i] = Row(b.own, "body")})
            = IF b.open THEN b.len ELSE 0
       /\ b.open => SubSeq(v.rows, b.row + 1, b.row + b.len) = Rows(b.own, "body", b.len)
  /\ \A id \in DOMAIN v.live : LET l == v.live[id] IN
       {i \in DOMAIN v.rows : v.rows[i] = Row(l.own, "call")} = l.start .. l.start + l.len - 1
  /\ said = Texts(v.rows) \o (IF v.text = 0 THEN <<>> ELSE <<v.text>>)

\* What is copied is what was under the drag: while no call ends and no thought is put
\* above the answer, a selection of transcript
\* rows keeps naming the rows the user saw, whatever is streamed, flushed, appended or
\* scrolled past before the copy is made (parse_live and flush_text lay out alike).
Harvested == Between(sel.anchor, sel.head)
HarvestsPicked ==
  \A k \in DOMAIN sel.picked :
    sel.picked[k].part = "spinner" \/ (k \in DOMAIN Harvested /\ Harvested[k] = sel.picked[k])
CopiesWhatWasPicked == sel.on /\ sel.calm => HarvestsPicked

\* Both, of one screen: what is on a row, and what a selection of rows copies.
ScreenSound == BlocksOnTheirRows /\ CopiesWhatWasPicked

\* "line indices are stable while a user is browsing because new content is appended below
\* them" (TranscriptPoint): the same without the condition on calls.
SelectionStable == sel.on => HarvestsPicked

=============================================================================
