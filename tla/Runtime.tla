------------------------------ MODULE Runtime ------------------------------
(***************************************************************************)
(* rc-rt: the terminal host, the action pump and the driver, joined by     *)
(* bounded channels.                                                       *)
(*                                                                         *)
(*   host --actions--> pump --cmds--> driver (AgentLoop::run)              *)
(*                      ^ ----feedback----'  |                             *)
(*   host <-----------------events-----------'                             *)
(*                                                                         *)
(* The pump owns the cancel token of the active turn and the queue of      *)
(* follow-ups; the driver owns the session; PendingAsks is shared.  The    *)
(* host is rc-tui's App as far as it talks to the runtime: busy, the open  *)
(* ask, the mode shown, and its mirror of the queue.                       *)
(*                                                                         *)
(* Abstracted: prompts are numbers, and a turn is known by its prompt (the *)
(* code numbers turns); a turn is AgentLoop seen from outside: it may ask, *)
(* it ends, and it stops soon after its token fires.  Rewind, Compact and  *)
(* SetGoal differ in what they write to the session, so they are one       *)
(* command, "edit".  Notices are left out of the events: the host only     *)
(* prints them.                                                            *)
(***************************************************************************)
EXTENDS Integers, Sequences, SequencesExt, FiniteSets

CONSTANTS
  ActionCap, DriverCap, FeedbackCap,  \* 64, 16 and 4 in Runtime::new
  MaxPrompts,   \* bound on the prompts typed
  MaxInputs,    \* bound on Shift+Tab presses, slash commands and watchdog quits together
  MaxCancels,   \* bound on Esc presses
  MaxAsks,      \* bound on permission asks
  HasTimeout,   \* turns have a turn_timeout
  Watchdog      \* the resource monitor may ask to quit

ASSUME RuntimeAssumption ==
  /\ ActionCap \in Nat \ {0} /\ DriverCap \in Nat \ {0} /\ FeedbackCap \in Nat \ {0}
  /\ MaxPrompts \in Nat /\ MaxInputs \in Nat
  /\ MaxCancels \in Nat /\ MaxAsks \in Nat
  /\ HasTimeout \in BOOLEAN /\ Watchdog \in BOOLEAN

VARIABLES
  actions, cmds, feedback, events,  \* the four channels
  pump,        \* "recv", "send" (awaiting room in cmds), "gone"
  out,         \* the command being sent
  active,      \* the pump's active turn, 0 for none
  queued,      \* the pump's follow-ups
  fired,       \* turns whose token is cancelled
  driver,      \* "recv", "run", "ask", "report", "idle", "gone"
  turn,        \* the driver's turn, 0 for none
  pending,     \* PendingAsks.map: asks that can still be answered
  next_id,     \* PendingAsks.next_id
  reply,       \* what came over the oneshot of the current ask
  engineMode,  \* mode of the permission engine
  sessionMode, \* Session.mode
  host,        \* "live", "quit" (left the loop), "joining", "gone"
  busy, viewMode, openAsk, staged, mirror, shown,  \* rc-tui's view
  used,        \* what is spent of each bound
  accepted,    \* prompts the pump took, in order
  ran          \* prompts the driver ran, in order

channels == <<actions, cmds, feedback, events>>
pumpVars == <<pump, out, active, queued, fired, accepted>>
driverVars == <<driver, turn, sessionMode, ran>>
askVars == <<pending, next_id, reply>>
view == <<busy, viewMode, openAsk, staged, mirror, shown>>
hostVars == <<host, view, used>>
vars == <<channels, pumpVars, driverVars, askVars, engineMode, hostVars>>

Modes == 0..4
cycle_mode(m) == (m + 1) % 5

\* Actions, commands and events: a tag, a number (prompt, mode or ask) and a
\* word; "how" is the answer of an ask, or what the host knew when it submitted.
Msg(tag, n) == [tag |-> tag, n |-> n, how |-> "none"]
MsgHow(tag, n, how) == [tag |-> tag, n |-> n, how |-> how]

Init ==
  /\ actions = <<>> /\ cmds = <<>> /\ feedback = <<>> /\ events = <<>>
  /\ pump = "recv" /\ out = Msg("none", 0) /\ active = 0 /\ queued = <<>> /\ fired = {}
  /\ driver = "recv" /\ turn = 0
  /\ pending = {} /\ next_id = 1 /\ reply = "none"
  /\ engineMode = 0 /\ sessionMode = 0
  /\ host = "live" /\ busy = FALSE /\ viewMode = 0 /\ openAsk = 0 /\ staged = 0
  /\ mirror = <<>> /\ shown = 0
  /\ used = [prompts |-> 0, inputs |-> 0, cancels |-> 0,
             watchdog |-> FALSE, idle |-> TRUE]
  /\ accepted = <<>> /\ ran = <<>>

-----------------------------------------------------------------------------
(* The host                                                                *)

\* try_action: try_send fails on a full queue and on a pump that has gone.
Accepts == Len(actions) < ActionCap /\ pump # "gone"
action(m) == actions' = IF Accepts THEN Append(actions, m) ELSE actions

Emit(e) == events' = Append(events, e)

\* Keys reach the composer only when no ask is open and nothing is staged.
Composing == host = "live" /\ openAsk = 0 /\ staged = 0

\* Enter stages the draft for the paste window ...
HostEnter ==
  /\ Composing /\ ~busy
  /\ used.prompts < MaxPrompts
  /\ used' = [used EXCEPT !.prompts = @ + 1]
  /\ staged' = used'.prompts
  /\ UNCHANGED <<channels, pumpVars, driverVars, askVars, engineMode,
                 host, busy, viewMode, openAsk, mirror, shown>>

\* ... and it is submitted later, whatever happened in between.
HostSubmit ==
  /\ host = "live" /\ staged # 0
  /\ staged' = 0
  /\ action(MsgHow("submit", staged, IF used.idle THEN "idle" ELSE "none"))
  /\ IF Accepts THEN busy' = TRUE /\ shown' = staged ELSE UNCHANGED <<busy, shown>>
  /\ UNCHANGED <<cmds, feedback, events, pumpVars, driverVars, askVars, engineMode,
                 host, viewMode, openAsk, mirror, used>>

\* Tab while a turn runs.
HostQueue ==
  /\ Composing /\ busy
  /\ used.prompts < MaxPrompts
  /\ used' = [used EXCEPT !.prompts = @ + 1]
  /\ action(Msg("queue", used'.prompts))
  /\ mirror' = IF Accepts THEN Append(mirror, used'.prompts) ELSE mirror
  /\ UNCHANGED <<cmds, feedback, events, pumpVars, driverVars, askVars, engineMode,
                 host, busy, viewMode, openAsk, staged, shown>>

\* Esc while a turn runs, also from an open ask, or at the end of a tool call.
HostCancel ==
  /\ host = "live" /\ busy /\ staged = 0
  /\ used.cancels < MaxCancels
  /\ used' = [used EXCEPT !.cancels = @ + 1]
  /\ action(Msg("cancel", shown))
  /\ openAsk' = 0
  /\ UNCHANGED <<cmds, feedback, events, pumpVars, driverVars, askVars, engineMode,
                 host, busy, viewMode, staged, mirror, shown>>

\* Shift+Tab: the view changes at once.
HostToggle ==
  /\ Composing
  /\ used.inputs < MaxInputs
  /\ used' = [used EXCEPT !.inputs = @ + 1]
  /\ viewMode' = cycle_mode(viewMode)
  /\ action(Msg("mode", viewMode'))
  /\ UNCHANGED <<cmds, feedback, events, pumpVars, driverVars, askVars, engineMode,
                 host, busy, openAsk, staged, mirror, shown>>

HostAnswer(how) ==
  /\ host = "live" /\ openAsk # 0 /\ staged = 0
  /\ action(MsgHow("answer", openAsk, how))
  /\ openAsk' = 0
  /\ UNCHANGED <<cmds, feedback, events, pumpVars, driverVars, askVars, engineMode,
                 host, busy, viewMode, staged, mirror, shown, used>>

\* A slash command: /rewind, /compact or /goal <x> (edit), or /goal (show).
HostCommand(c) ==
  /\ Composing /\ ~busy
  /\ used.inputs < MaxInputs
  /\ used' = [used EXCEPT !.inputs = @ + 1]
  /\ action(Msg(c, 0))
  /\ UNCHANGED <<cmds, feedback, events, pumpVars, driverVars, askVars, engineMode, host, view>>

\* Ctrl+C: a Quit if there is room, and out of the loop ...
HostQuit ==
  /\ host = "live"
  /\ host' = "quit"
  /\ action(Msg("quit", 0))
  /\ UNCHANGED <<cmds, feedback, events, pumpVars, driverVars, askVars, engineMode, view, used>>

\* ... into shutdown_blocking, whose blocking_send waits for room.
HostShutdown ==
  /\ host = "quit"
  /\ Accepts \/ pump = "gone"
  /\ action(Msg("quit", 0))
  /\ host' = "joining"
  /\ UNCHANGED <<cmds, feedback, events, pumpVars, driverVars, askVars, engineMode, view, used>>

\* Both tasks finished, or the grace period is over and they are aborted.
HostJoined ==
  /\ host = "joining"
  /\ host' = "gone"
  /\ pump' = "gone" /\ driver' = "gone"
  /\ UNCHANGED <<channels, out, active, queued, fired, accepted, turn, sessionMode, ran,
                 askVars, engineMode, view, used>>

\* The resource monitor's Quit.
WatchdogQuit ==
  /\ Watchdog /\ ~used.watchdog /\ used.inputs < MaxInputs /\ host = "live"
  /\ used' = [used EXCEPT !.watchdog = TRUE, !.inputs = @ + 1]
  /\ action(Msg("quit", 0))
  /\ UNCHANGED <<cmds, feedback, events, pumpVars, driverVars, askVars, engineMode, host, view>>

\* App::apply.
HostApply ==
  /\ host = "live" /\ events # <<>>
  /\ events' = Tail(events)
  /\ LET e == Head(events)
         unqueue == e.tag = "ready" /\ ~busy /\ mirror # <<>>
     IN  /\ busy' = CASE e.tag = "ready" -> TRUE
                      [] e.tag \in {"outcome", "idle"} -> FALSE
                      [] OTHER -> busy
         /\ shown' = IF unqueue THEN Head(mirror) ELSE shown
         /\ mirror' = IF unqueue THEN Tail(mirror) ELSE mirror
         /\ openAsk' = CASE e.tag = "ask" -> e.n
                         [] e.tag = "decision" -> 0
                         [] OTHER -> openAsk
         /\ viewMode' = IF e.tag = "mode" THEN e.n ELSE viewMode
         /\ used' = [used EXCEPT !.idle = CASE e.tag = "idle" -> TRUE
                                            [] e.tag \in {"ready", "outcome"} -> FALSE
                                            [] OTHER -> @]
  /\ UNCHANGED <<actions, cmds, feedback, pumpVars, driverVars, askVars, engineMode, host, staged>>

-----------------------------------------------------------------------------
(* The pump.  Its select is biased to the driver's feedback.               *)

HasFeedback == active # 0 /\ feedback # <<>>

\* start_turn: the token is fresh, and active is set once the command is sent.
start_turn(p) == pump' = "send" /\ out' = Msg("run", p)

\* Mutant of PumpFeedback: a follow-up stays in the queue when it is started.
PumpFeedbackRepeats ==
  /\ pump = "recv" /\ HasFeedback
  /\ feedback' = Tail(feedback)
  /\ IF Head(feedback) = active
       THEN /\ active' = 0
            /\ IF queued # <<>> THEN start_turn(Head(queued)) ELSE UNCHANGED <<pump, out>>
       ELSE UNCHANGED <<active, pump, out>>
  /\ UNCHANGED <<actions, cmds, events, queued, fired, accepted, driverVars, askVars, engineMode,
                 hostVars>>

PumpFeedback ==
  /\ pump = "recv" /\ HasFeedback
  /\ feedback' = Tail(feedback)
  /\ IF Head(feedback) = active
       THEN /\ active' = 0
            /\ IF queued # <<>>
                 THEN start_turn(Head(queued)) /\ queued' = Tail(queued)
                 ELSE UNCHANGED <<pump, out, queued>>
       ELSE UNCHANGED <<active, pump, out, queued>>
  /\ UNCHANGED <<actions, cmds, events, fired, accepted, driverVars, askVars, engineMode, hostVars>>

\* The next action, of one of the given kinds.
Take(tags) ==
  /\ pump = "recv" /\ ~HasFeedback
  /\ actions # <<>> /\ Head(actions).tag \in tags
  /\ actions' = Tail(actions)
  /\ UNCHANGED <<feedback, driverVars, hostVars>>

\* A second Submit is ignored, with a notice; a Queue waits.
PumpPrompt ==
  /\ Take({"submit", "queue"})
  /\ LET p == Head(actions).n
     IN  \/ /\ active = 0
            /\ start_turn(p)
            /\ accepted' = Append(accepted, p)
            /\ UNCHANGED queued
         \/ /\ active # 0 /\ Head(actions).tag = "queue"
            /\ queued' = Append(queued, p)
            /\ accepted' = Append(accepted, p)
            /\ UNCHANGED <<pump, out>>
         \/ /\ active # 0 /\ Head(actions).tag = "submit"
            /\ UNCHANGED <<pump, out, queued, accepted>>
  /\ UNCHANGED <<cmds, events, active, fired, askVars, engineMode>>

\* Mutant of drain_cancel: the asks are forgotten without an answer.
DrainSilently == pending' = {} /\ UNCHANGED <<reply, next_id>>

\* drain_cancel: whoever waits is denied.
drain_cancel ==
  /\ pending' = {}
  /\ reply' = IF driver = "ask" /\ next_id - 1 \in pending THEN "deny" ELSE reply
  /\ UNCHANGED next_id

\* Mutant of FireToken: the token of the active turn is not cancelled.
FireNothing == UNCHANGED fired

FireToken == fired' = IF active # 0 THEN fired \cup {active} ELSE fired

PumpCancel ==
  /\ Take({"cancel"})
  /\ FireToken
  /\ drain_cancel
  /\ UNCHANGED <<cmds, events, pump, out, active, queued, accepted, engineMode>>

\* The engine first, then the host, then the session by way of the driver.
PumpMode ==
  /\ Take({"mode"})
  /\ engineMode' = Head(actions).n
  /\ Emit(Msg("mode", Head(actions).n))
  /\ pump' = "send" /\ out' = Msg("mode", Head(actions).n)
  /\ UNCHANGED <<cmds, active, queued, fired, accepted, askVars>>

\* resolve: the ask's oneshot, if the ask is still in the map.
PumpAnswer ==
  /\ Take({"answer"})
  /\ pending' = pending \ {Head(actions).n}
  /\ reply' = IF driver = "ask" /\ Head(actions).n = next_id - 1 /\ Head(actions).n \in pending
                THEN Head(actions).how ELSE reply
  /\ UNCHANGED <<cmds, events, pump, out, active, queued, fired, accepted, next_id, engineMode>>

\* Edits are refused while a turn is active; /goal alone is not.
PumpCommand ==
  /\ Take({"edit", "show"})
  /\ IF Head(actions).tag = "edit" /\ active # 0
       THEN UNCHANGED <<pump, out>>
       ELSE pump' = "send" /\ out' = Msg(Head(actions).tag, 0)
  /\ UNCHANGED <<cmds, events, active, queued, fired, accepted, askVars, engineMode>>

PumpQuit ==
  /\ Take({"quit"})
  /\ FireToken /\ active' = 0
  /\ drain_cancel
  /\ pump' = "gone"
  /\ UNCHANGED <<cmds, events, out, queued, accepted, engineMode>>

\* driver_tx.send(..).await: nothing else is looked at while cmds is full.
PumpSend ==
  /\ pump = "send" /\ Len(cmds) < DriverCap
  /\ cmds' = Append(cmds, out)
  /\ active' = IF out.tag = "run" THEN out.n ELSE active
  /\ pump' = "recv" /\ out' = Msg("none", 0)
  /\ UNCHANGED <<actions, feedback, events, queued, fired, accepted, driverVars, askVars,
                 engineMode, hostVars>>

-----------------------------------------------------------------------------
(* The driver                                                              *)

DriverRun ==
  /\ driver = "recv" /\ cmds # <<>> /\ Head(cmds).tag = "run"
  /\ cmds' = Tail(cmds)
  /\ Emit(Msg("ready", 0))
  /\ driver' = "run" /\ turn' = Head(cmds).n
  /\ ran' = Append(ran, Head(cmds).n)
  /\ UNCHANGED <<actions, feedback, pumpVars, sessionMode, askVars, engineMode, hostVars>>

DriverMode ==
  /\ driver = "recv" /\ cmds # <<>> /\ Head(cmds).tag = "mode"
  /\ cmds' = Tail(cmds)
  /\ sessionMode' = Head(cmds).n
  /\ UNCHANGED <<actions, feedback, events, pumpVars, driver, turn, ran, askVars, engineMode,
                 hostVars>>

\* The session is written or read, and an Idle tells the host.
DriverCommand ==
  /\ driver = "recv" /\ cmds # <<>> /\ Head(cmds).tag \in {"edit", "show"}
  /\ cmds' = Tail(cmds)
  /\ Emit(Msg("idle", 0))
  /\ UNCHANGED <<actions, feedback, pumpVars, driverVars, askVars, engineMode, hostVars>>

\* RuntimePrompter::ask.
TurnAsks ==
  /\ driver = "run"
  /\ next_id <= MaxAsks
  /\ next_id' = next_id + 1
  /\ pending' = pending \cup {next_id}
  /\ reply' = "none"
  /\ Emit(Msg("ask", next_id))
  /\ driver' = "ask"
  /\ UNCHANGED <<actions, cmds, feedback, pumpVars, turn, sessionMode, ran, engineMode, hostVars>>

TurnAnswered ==
  /\ driver = "ask" /\ reply # "none"
  /\ Emit(Msg("decision", next_id - 1))
  /\ driver' = "run"
  /\ UNCHANGED <<actions, cmds, feedback, pumpVars, turn, sessionMode, ran, askVars, engineMode,
                 hostVars>>

\* run returns: by itself, or because its token fired or its time is up, in
\* which case the future of an ask is dropped where it stands.
TurnEnds ==
  /\ driver = "run"
  /\ Emit(Msg("outcome", 0))
  /\ driver' = "report"
  /\ UNCHANGED <<actions, cmds, feedback, pumpVars, turn, sessionMode, ran, askVars, engineMode,
                 hostVars>>

TurnStops ==
  /\ driver \in {"run", "ask"}
  /\ turn \in fired \/ HasTimeout
  /\ Emit(Msg("outcome", 0))
  /\ driver' = "report"
  /\ UNCHANGED <<actions, cmds, feedback, pumpVars, turn, sessionMode, ran, askVars, engineMode,
                 hostVars>>

\* TurnFinished before Idle.  Nobody hears it once the pump has gone.
DriverReport ==
  /\ driver = "report"
  /\ \/ pump = "gone" /\ UNCHANGED feedback
     \/ pump # "gone" /\ Len(feedback) < FeedbackCap /\ feedback' = Append(feedback, turn)
  /\ driver' = "idle"
  /\ UNCHANGED <<actions, cmds, events, pumpVars, turn, sessionMode, ran, askVars, engineMode,
                 hostVars>>

DriverIdle ==
  /\ driver = "idle"
  /\ Emit(Msg("idle", 0))
  /\ driver' = "recv" /\ turn' = 0
  /\ UNCHANGED <<actions, cmds, feedback, pumpVars, sessionMode, ran, askVars, engineMode, hostVars>>

\* recv gives None when the pump has gone and its commands are done.
DriverExit ==
  /\ driver = "recv" /\ cmds = <<>> /\ pump = "gone"
  /\ driver' = "gone"
  /\ UNCHANGED <<channels, pumpVars, turn, sessionMode, ran, askVars, engineMode, hostVars>>

Over == host = "gone" /\ UNCHANGED vars

Host ==
  \/ HostEnter \/ HostSubmit \/ HostQueue \/ HostCancel \/ HostToggle
  \/ \E how \in {"allow", "deny"} : HostAnswer(how)
  \/ \E c \in {"edit", "show"} : HostCommand(c)
  \/ HostQuit \/ HostShutdown \/ HostJoined \/ WatchdogQuit \/ HostApply

Pump ==
  \/ PumpFeedback \/ PumpPrompt \/ PumpCancel \/ PumpMode \/ PumpAnswer \/ PumpCommand
  \/ PumpQuit \/ PumpSend

\* What the driver does without waiting for the model, a tool or an answer.
Driver ==
  \/ DriverRun \/ DriverMode \/ DriverCommand \/ DriverReport \/ DriverIdle \/ DriverExit
  \/ TurnAnswered
Turn == TurnAsks \/ TurnEnds

Next == Host \/ Pump \/ Driver \/ Turn \/ TurnStops \/ Over

Spec == Init /\ [][Next]_vars

\* Tasks are polled, the terminal loop runs, and a turn whose token fired ends
\* (CancelEndsTurn of AgentLoop).  A turn need not end by itself, nor a user
\* answer or quit.
FairSpec ==
  /\ Spec
  /\ WF_vars(Pump) /\ WF_vars(Driver)
  /\ WF_vars(TurnStops /\ turn \in fired)
  /\ WF_vars(HostApply) /\ WF_vars(HostSubmit)
  /\ WF_vars(HostShutdown) /\ WF_vars(HostJoined)

-----------------------------------------------------------------------------
(* Properties                                                              *)

Message(tags, ns) == [tag : tags, n : ns, how : {"none", "idle", "allow", "deny"}]

\* Type invariant; the channels stay within their capacity.
TypeOK ==
  /\ actions \in Seq(Message({"submit", "queue", "cancel", "mode", "answer", "edit", "show",
                              "quit"}, Nat)) /\ Len(actions) <= ActionCap
  /\ cmds \in Seq(Message({"run", "mode", "edit", "show"}, Nat)) /\ Len(cmds) <= DriverCap
  /\ feedback \in Seq(1..MaxPrompts) /\ Len(feedback) <= FeedbackCap
  /\ pump \in {"recv", "send", "gone"}
  /\ active \in 0..MaxPrompts /\ turn \in 0..MaxPrompts /\ fired \subseteq 1..MaxPrompts
  /\ queued \in Seq(1..MaxPrompts) /\ mirror \in Seq(1..MaxPrompts)
  /\ driver \in {"recv", "run", "ask", "report", "idle", "gone"}
  /\ next_id \in 1..(MaxAsks + 1) /\ pending \subseteq 1..MaxAsks
  /\ reply \in {"none", "allow", "deny"}
  /\ {engineMode, sessionMode, viewMode} \subseteq Modes
  /\ host \in {"live", "quit", "joining", "gone"} /\ busy \in BOOLEAN
  /\ openAsk \in 0..MaxAsks /\ staged \in 0..MaxPrompts /\ shown \in 0..MaxPrompts

\* Where the runs are that the pump sent and the driver has not taken.
Runs == {i \in DOMAIN cmds : cmds[i].tag = "run"}

\* The token the pump holds is the running turn's: a Cancel it takes reaches
\* the turn that runs, and there is never a second one to reach.
TokenReachesTurn ==
  pump # "gone" /\ driver # "gone" =>
    /\ driver \in {"run", "ask", "report"} => active = turn /\ Runs = {}
    /\ \A i \in Runs : cmds[i].n = active
    /\ (pump = "send" /\ out.tag = "run") => driver \in {"recv", "idle"} /\ Runs = {}

\* Every prompt the pump took runs once, in the order they were taken, across
\* finished and cancelled turns; the rest are waiting, at most one of them with
\* the driver.
SentRun == IF Runs = {} THEN <<>> ELSE <<cmds[CHOOSE i \in Runs : TRUE].n>>
Sending == IF out.tag = "run" THEN <<out.n>> ELSE <<>>
AcceptedRunInOrder ==
  /\ \A i, j \in Runs : i = j
  /\ accepted = ran \o SentRun \o Sending \o queued

\* The session's mode is the engine's once the mode changes on their way to the
\* driver arrive, the last of them at the latest, so what is persisted is what is
\* enforced.
ModesSent == {i \in DOMAIN Append(cmds, out) : Append(cmds, out)[i].tag = "mode"}
ModeFollowsEngine ==
  /\ ModesSent = {} => engineMode = sessionMode
  /\ \A i \in ModesSent :
       (\A j \in ModesSent : j <= i) => Append(cmds, out)[i].n = engineMode

\* Pump and driver never wait for each other: the feedback channel has room
\* whenever the driver reports.
NoMutualWait == driver = "report" /\ pump # "gone" => Len(feedback) < FeedbackCap

\* An ask that waits can be answered, or has been.
AskAnswerable == driver = "ask" => (next_id - 1 \in pending) # (reply # "none")

\* The driver is in step with the pump: the pump's token is the running turn's,
\* the prompts it took run once and in order, and the mode it put in force is the
\* one that is persisted.
DriverInStep == TokenReachesTurn /\ AcceptedRunInOrder /\ ModeFollowsEngine

\* Nobody is stranded: a driver that reports finds room, and an ask that waits
\* can still be answered, after timeouts, cancels and late answers.
NobodyStranded == NoMutualWait /\ AskAnswerable

\* A Cancel that was accepted while a turn runs ends that turn.
CancelIsServed ==
  (driver \in {"run", "ask"} /\ \E i \in DOMAIN actions : actions[i].tag = "cancel")
    ~> driver \notin {"run", "ask"}

\* Leaving the terminal loop ends: shutdown_blocking comes back.
ShutdownReturns == host = "quit" ~> host = "gone"

\* The host is served unless the pump waits for ever for room in the driver's
\* channel: a Cancel accepted during a turn ends that turn, and shutdown_blocking
\* comes back, whatever else was typed, asked and answered.
HostIsServed == <>[](pump = "send") \/ (CancelIsServed /\ ShutdownReturns)

\* "At most one ask is ever pending" (prompter.rs).
AtMostOneAskPending == Cardinality(pending) <= 1

\* An action the pump may take in this state.
CanTake(tag) == pump = "recv" /\ ~HasFeedback /\ actions # <<>> /\ Head(actions).tag = tag

\* "Idle: the runtime is ready for the next submit" (event.rs): a prompt
\* submitted by a host that has read Idle is not ignored.
IdleMeansReady == CanTake("submit") /\ Head(actions).how = "idle" => active = 0

\* "Cancel the in-flight turn" (action.rs): the one the host showed, not the
\* follow-up that took its place.
CancelHitsTurnShown == CanTake("cancel") => active \in {0, Head(actions).n}
=============================================================================
