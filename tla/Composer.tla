------------------------------ MODULE Composer ------------------------------
(* rc-tui's composer (app.rs): what a key does to the draft, the submit staged  *)
(* for the paste window, the prompts queued behind a turn, the history browsed  *)
(* with Alt+arrows, an open permission question, and what reaches the runtime.  *)
(*                                                                              *)
(* Abstracted: a draft is a sequence of typed things: a positive number is a    *)
(* character, numbered as typed, 0 a newline, Command a whole slash command.  A *)
(* burst is what arrives without a pause as long as the paste window.  The      *)
(* runtime takes prompts in order, as Runtime has it.  Left out: completion     *)
(* menus, which only rewrite the draft, and words that quit.                    *)
EXTENDS Integers, Sequences, FiniteSets, SequencesExt

CONSTANTS MaxChars,    \* bound: characters typed
          MaxBursts,   \* bound: pauses
          MaxDraft,    \* bound: length of a draft with a rescued newline
          MaxFull,     \* bound: times the action channel is full
          PastedTabs   \* a Tab may be part of pasted text

Command == -1

VARIABLES app,         \* the App: draft, staged submit, history, queue mirror, busy, ask
          channel,     \* prompts sent and not yet started; whether a turn runs; room
          ghost        \* what was typed in which burst, sent, deleted or taken by an ask
composerVars == <<app, channel, ghost>>

ComposerInit ==
  /\ app = [draft |-> <<>>, staged |-> <<>>, hist |-> <<>>, pos |-> 0, stash |-> <<>>,
          queued |-> <<>>, armed |-> FALSE, busy |-> FALSE, ask |-> FALSE]
  /\ channel = [waiting |-> <<>>, running |-> FALSE, full |-> FALSE, filled |-> 0]
  /\ ghost = [burst |-> 1, of |-> <<>>, sent |-> {}, deleted |-> {}]

Typed == Len(ghost.of)
Ids(t) == {i \in Range(t) : i > 0}

\* push_history: not twice in a row
push_history(h, t) == IF h # <<>> /\ Last(h) = t THEN h ELSE Append(h, t)
record_prompt(a, t) == [a EXCEPT !.hist = push_history(@, t), !.pos = 0, !.stash = <<>>]

\* a step of the host: the App after it, the prompt it sends (<<>> for none), what it deletes
Step(a, sent, deleted) ==
  /\ app' = a
  /\ channel' = IF sent = <<>> \/ channel.full THEN channel
                ELSE [channel EXCEPT !.waiting = Append(@, sent)]
  /\ ghost' = [ghost EXCEPT !.sent = IF sent = <<>> \/ channel.full THEN @ ELSE @ \cup {sent},
                            !.deleted = @ \cup deleted]

\* submit_prompt: with no room in the channel the prompt is dropped
submit_prompt(a, t) ==
  IF channel.full THEN a ELSE [record_prompt(a, t) EXCEPT !.busy = TRUE]

\* Mutant of continues: a newline after a staged line does not continue the paste
continues_char(key) == key = "char"

\* keys that can continue an unbracketed paste
continues(key) == key \in {"char", "enter"}

\* resolve_staged_submit inside the window: the line and its newline return to the draft
Rescued(a) ==
  IF a.staged = <<>> THEN a
  ELSE [a EXCEPT !.draft = a.staged \o <<0>> \o @, !.staged = <<>>]

\* resolve_pending_submit before a key: a key that continues rescues the staged line,
\* any other key sends it; the key then acts on what is left
Resolved(key) ==
  IF app.staged = <<>> THEN app
  ELSE IF continues(key) THEN Rescued(app)
  ELSE submit_prompt([app EXCEPT !.staged = <<>>], app.staged)
SentBy(key) == IF app.staged = <<>> \/ continues(key) THEN <<>> ELSE app.staged

\* flush_pending_submit_if_due: the window is over
Flush ==
  /\ app.staged # <<>> /\ ghost.burst < MaxBursts
  /\ app' = submit_prompt([app EXCEPT !.staged = <<>>], app.staged)
  /\ channel' = IF channel.full THEN channel ELSE [channel EXCEPT !.waiting = Append(@, app.staged)]
  /\ ghost' = [ghost EXCEPT !.burst = @ + 1,
                            !.sent = IF channel.full THEN @ ELSE @ \cup {app.staged}]

\* a character: an open ask takes it (and y, s, a or n answers), else the draft grows
Char(answers) ==
  /\ Typed < MaxChars
  /\ LET a == Resolved("char")
         id == Typed + 1
     IN /\ app' = IF app.ask THEN [a EXCEPT !.ask = ~answers] ELSE [a EXCEPT !.draft = Append(@, id)]
        /\ ghost' = [ghost EXCEPT !.of = Append(@, ghost.burst),
                                  !.deleted = IF app.ask THEN @ \cup {id} ELSE @]
        /\ ~app.ask => ~answers
  /\ UNCHANGED channel

\* a whole slash command, typed on an empty line
TypeCommand ==
  /\ ~app.ask /\ app.draft = <<>> /\ app.staged = <<>>
  /\ Step([app EXCEPT !.draft = <<Command>>], <<>>, {})

\* Enter: a command runs, a draft is staged, and nothing is taken during a turn
Enter ==
  /\ ~app.ask
  /\ LET a == Resolved("enter")
     IN /\ a.draft # <<>> /\ Len(a.draft) <= MaxDraft
        /\ Step(IF a.busy THEN a
                ELSE IF a.draft = <<Command>> THEN [a EXCEPT !.draft = <<>>]
                ELSE [a EXCEPT !.staged = a.draft, !.draft = <<>>], SentBy("enter"), {})

\* handle_paste: a bracketed paste lands in the draft, behind an ask too
Paste ==
  /\ Typed + 2 <= MaxChars
  /\ LET a == Rescued(app)
     IN app' = [a EXCEPT !.draft = @ \o <<Typed + 1, 0, Typed + 2>>, !.pos = 0]
  /\ ghost' = [ghost EXCEPT !.of = @ \o <<ghost.burst, ghost.burst>>]
  /\ UNCHANGED channel

\* keys below are presses, not pasted text: they end the burst, but for a pasted Tab
Press(a, sent, deleted) ==
  /\ ghost.burst < MaxBursts
  /\ app' = a
  /\ channel' = IF sent = <<>> \/ channel.full THEN channel
                ELSE [channel EXCEPT !.waiting = Append(@, sent)]
  /\ ghost' = [ghost EXCEPT !.burst = @ + 1,
                            !.sent = IF sent = <<>> \/ channel.full THEN @ ELSE @ \cup {sent},
                            !.deleted = @ \cup deleted]

\* Tab during a turn queues the draft (queue_composer)
Tab ==
  /\ ~app.ask
  /\ LET a == Resolved("tab")
         sent == SentBy("tab")
         queue == a.busy /\ a.draft # <<>> /\ ~channel.full
         b == IF queue THEN [a EXCEPT !.draft = <<>>, !.pos = 0, !.stash = <<>>,
                                      !.queued = Append(@, a.draft)] ELSE a
     IN /\ sent # <<>> \/ queue
        /\ sent = <<>> \/ ~queue        \* a staged line leaves an empty draft
        /\ IF PastedTabs THEN Step(b, IF queue THEN a.draft ELSE sent, {})
                         ELSE Press(b, IF queue THEN a.draft ELSE sent, {})

\* esc_action, in its order; an ask with no turn behind it stays
Esc ==
  LET a == Resolved("esc")
      sent == SentBy("esc")
  IN \/ a.busy /\ a.queued # <<>> /\ ~a.armed /\ Press([a EXCEPT !.armed = TRUE, !.ask = FALSE], sent, {})
     \/ a.busy /\ (a.queued = <<>> \/ a.armed)
        /\ Press([a EXCEPT !.armed = FALSE, !.ask = FALSE], sent, {})
     \/ ~a.busy /\ ~a.ask /\ a.pos # 0
        /\ Press([a EXCEPT !.pos = 0, !.draft = a.stash, !.stash = <<>>], sent, Ids(a.draft))
     \/ ~a.busy /\ ~a.ask /\ a.pos = 0 /\ a.draft # <<>>
        /\ Press([a EXCEPT !.draft = <<>>], sent, Ids(a.draft))

\* Backspace, and Ctrl+W, Ctrl+U or Cmd+Backspace, which take more
Delete ==
  /\ ~app.ask
  /\ LET a == Resolved("delete")
     IN \E n \in {1, Len(a.draft)} :
          /\ a.draft # <<>>
          /\ Press([a EXCEPT !.draft = SubSeq(@, 1, Len(@) - n)], SentBy("delete"),
                   Ids(SubSeq(a.draft, Len(a.draft) - n + 1, Len(a.draft))))

\* history_prev, history_next (browse_history); pos is 1 .. Len(hist), 0 for the live draft
Prev ==
  /\ ~app.ask
  /\ LET a == Resolved("up")
         to == IF a.pos = 0 THEN Len(a.hist) ELSE IF a.pos > 1 THEN a.pos - 1 ELSE 1
     IN /\ a.hist # <<>>
        /\ Press([a EXCEPT !.stash = IF a.pos = 0 THEN a.draft ELSE @, !.pos = to,
                           !.draft = a.hist[to]], SentBy("up"), {})
Forward ==
  /\ ~app.ask
  /\ LET a == Resolved("down")
     IN /\ a.pos # 0
        /\ Press(IF a.pos = Len(a.hist) THEN [a EXCEPT !.pos = 0, !.draft = a.stash]
                 ELSE [a EXCEPT !.pos = @ + 1, !.draft = a.hist[a.pos + 1]], SentBy("down"), {})

\* an open ask ignores other keys, after they resolved what was staged
AskKey ==
  /\ app.ask /\ app.staged # <<>>
  /\ \/ Len(app.staged) < MaxDraft /\ Step(Resolved("enter"), SentBy("enter"), {})
     \/ Press(Resolved("tab"), SentBy("tab"), {})

\* the user pauses longer than the window
Pause ==
  /\ app.staged = <<>> /\ ghost.burst < MaxBursts
  /\ ghost' = [ghost EXCEPT !.burst = @ + 1]
  /\ UNCHANGED <<app, channel>>

-----------------------------------------------------------------------------
(* The runtime's side                                                           *)
\* Ready: a queued prompt is echoed when its turn begins
TurnReady ==
  /\ ~channel.running /\ channel.waiting # <<>>
  /\ channel' = [channel EXCEPT !.waiting = Tail(@), !.running = TRUE]
  /\ app' = IF ~app.busy /\ app.queued # <<>>
            THEN [record_prompt(app, Head(app.queued)) EXCEPT !.queued = Tail(@), !.busy = TRUE,
                                                              !.armed = FALSE]
            ELSE [app EXCEPT !.busy = TRUE]
  /\ UNCHANGED ghost

\* Outcome and Idle; a question still open was answered by the cancellation
TurnIdle ==
  /\ channel.running
  /\ channel' = [channel EXCEPT !.running = FALSE]
  /\ app' = [app EXCEPT !.busy = FALSE, !.ask = FALSE]
  /\ UNCHANGED ghost

Ask == channel.running /\ ~app.ask /\ app' = [app EXCEPT !.ask = TRUE] /\ UNCHANGED <<channel, ghost>>

Fill ==
  /\ channel.full \/ channel.filled < MaxFull
  /\ channel' = [channel EXCEPT !.full = ~@, !.filled = IF channel.full THEN @ ELSE @ + 1]
  /\ UNCHANGED <<app, ghost>>

ComposerNext ==
  \/ Flush \/ TypeCommand \/ Enter \/ Paste \/ Tab \/ Esc \/ Delete \/ Prev \/ Forward
  \/ AskKey \/ Pause
  \/ TurnReady \/ TurnIdle \/ Ask \/ Fill
  \/ \E b \in BOOLEAN : Char(b)
ComposerSpec == ComposerInit /\ [][ComposerNext]_composerVars

-----------------------------------------------------------------------------
\* Text pasted without brackets stays one prompt: once a line of a burst has been sent, the
\* rest of that burst was sent with it, in order, unless the user deleted it or a permission
\* question took it (PASTE_RESCUE_WINDOW, resolve_staged_submit), whatever turns begin, end
\* or ask meanwhile.
PasteStaysWhole ==
  \A t \in ghost.sent :
    /\ \A i \in Ids(t), j \in 1 .. Typed :
         ghost.of[i] = ghost.of[j] => j \in Ids(t) \cup ghost.deleted
    /\ \A i, j \in DOMAIN t : i < j /\ t[i] > 0 /\ t[j] > 0 => t[i] < t[j]

\* "Entering history from the live composer stashes the in-progress draft so Alt+Down past
\* the newest restores it" (app.rs, history_prev): only the user's own keys take it away;
\* no event of the runtime does.
StashSurvives ==
  [][channel'.running # channel.running /\ app.stash # <<>> => app'.stash = app.stash]_composerVars

=============================================================================
