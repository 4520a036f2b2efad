--------------------------- MODULE RuntimeProofs ---------------------------
(***************************************************************************)
(* Safety of the runtime for every capacity of its channels and any number *)
(* of prompts, asks and inputs: pump and driver stay in step, and nobody   *)
(* waits for something that cannot come.  And of the composer that feeds   *)
(* it prompts, for any keys, bursts and turns.                             *)
(***************************************************************************)
EXTENDS Runtime, Composer, SequenceTheorems, FiniteSetTheorems, WellFoundedInduction, TLAPS

-----------------------------------------------------------------------------
(* The messages on each channel, more precisely than Message says.         *)

Prompts == 1..MaxPrompts

ActionMsg ==
  {m \in Message({"submit", "queue", "cancel", "mode", "answer", "edit", "show", "quit"}, Nat) :
     /\ m.tag \in {"submit", "queue"} => m.n \in Prompts
     /\ m.tag = "mode" => m.n \in Modes
     /\ m.tag = "answer" => m.how \in {"allow", "deny"}}

CmdMsg ==
  {m \in Message({"run", "mode", "edit", "show"}, Nat) :
     /\ m.tag = "run" => m.n \in Prompts
     /\ m.tag = "mode" => m.n \in Modes}

EventMsg ==
  {m \in Message({"ready", "outcome", "idle", "ask", "decision", "mode"}, Nat) :
     /\ m.tag = "ask" => m.n \in 1..MaxAsks
     /\ m.tag = "mode" => m.n \in Modes}

NoCmd == Msg("none", 0)

ChannelTypes ==
  /\ actions \in Seq(ActionMsg) /\ Len(actions) <= ActionCap
  /\ cmds \in Seq(CmdMsg) /\ Len(cmds) <= DriverCap
  /\ feedback \in Seq(Prompts) /\ Len(feedback) <= FeedbackCap
  /\ events \in Seq(EventMsg)

PumpTypes ==
  /\ pump \in {"recv", "send", "gone"} /\ out \in CmdMsg \cup {NoCmd}
  /\ active \in 0..MaxPrompts /\ fired \subseteq Prompts
  /\ queued \in Seq(Prompts) /\ accepted \in Seq(Prompts)

DriverTypes ==
  /\ driver \in {"recv", "run", "ask", "report", "idle", "gone"}
  /\ turn \in 0..MaxPrompts /\ ran \in Seq(Prompts)
  /\ next_id \in 1..(MaxAsks + 1) /\ pending \subseteq 1..MaxAsks
  /\ reply \in {"none", "allow", "deny"}
  /\ engineMode \in Modes /\ sessionMode \in Modes

UsedType ==
  [prompts : 0..MaxPrompts, inputs : Nat, cancels : Nat, watchdog : BOOLEAN, idle : BOOLEAN]

HostTypes ==
  /\ host \in {"live", "quit", "joining", "gone"} /\ busy \in BOOLEAN
  /\ viewMode \in Modes /\ openAsk \in 0..MaxAsks
  /\ staged \in 0..MaxPrompts /\ shown \in 0..MaxPrompts /\ mirror \in Seq(Prompts)
  /\ used \in UsedType

Types == ChannelTypes /\ PumpTypes /\ DriverTypes /\ HostTypes

-----------------------------------------------------------------------------
(* The inductive invariant.  While the pump lives, the turn it holds the   *)
(* token of is in exactly one place: on its way to the driver, in the      *)
(* driver, or on its way back as feedback.                                 *)

OnItsWay == driver \in {"recv", "idle"} /\ feedback = <<>> /\ \E i \in Runs : cmds[i].n = active
InDriver == driver \in {"run", "ask", "report"} /\ turn = active /\ feedback = <<>> /\ Runs = {}
ComingBack == driver \in {"recv", "idle"} /\ feedback = <<active>> /\ Runs = {}

InStep ==
  pump # "gone" =>
    /\ driver # "gone"
    /\ pump = "recv" => out = NoCmd
    /\ pump = "send" => out \in CmdMsg
    /\ active = 0 => driver \in {"recv", "idle"} /\ feedback = <<>> /\ Runs = {}
    /\ active # 0 => out.tag # "run" /\ (OnItsWay \/ InDriver \/ ComingBack)
    /\ active = 0 /\ out.tag # "run" => queued = <<>>

IInv == Types /\ InStep /\ AcceptedRunInOrder /\ ModeFollowsEngine /\ AskAnswerable

-----------------------------------------------------------------------------
(* Sequences.                                                              *)

LEMMA Appended ==
  ASSUME NEW S, NEW s \in Seq(S), NEW x \in S
  PROVE  /\ Append(s, x) \in Seq(S) /\ Len(Append(s, x)) = Len(s) + 1 /\ Len(s) \in Nat
         /\ DOMAIN Append(s, x) = 1..(Len(s) + 1) /\ DOMAIN s = 1..Len(s)
         /\ Append(s, x)[Len(s) + 1] = x
         /\ \A i \in 1..Len(s) : Append(s, x)[i] = s[i]
BY AppendProperties

LEMMA Popped ==
  ASSUME NEW S, NEW s \in Seq(S), s # <<>>
  PROVE  /\ Head(s) \in S /\ Head(s) = s[1] /\ Tail(s) \in Seq(S)
         /\ Len(s) \in Nat \ {0} /\ Len(Tail(s)) = Len(s) - 1
         /\ DOMAIN s = 1..Len(s) /\ DOMAIN Tail(s) = 1..(Len(s) - 1)
         /\ \A i \in 1..(Len(s) - 1) : Tail(s)[i] = s[i + 1]
BY HeadTailProperties

-----------------------------------------------------------------------------
(* Types.                                                                  *)

LEMMA InitIInv == Init => IInv
<1> SUFFICES ASSUME Init PROVE IInv
  OBVIOUS
<1> USE DEF Init
<1>1. Types
  <2>1. ChannelTypes
    BY RuntimeAssumption, EmptySeq DEF ChannelTypes
  <2>2. PumpTypes
    BY RuntimeAssumption, EmptySeq DEF PumpTypes, NoCmd
  <2>3. DriverTypes
    BY RuntimeAssumption, EmptySeq DEF DriverTypes, Modes
  <2>4. HostTypes
    <3>1. used \in UsedType
      <4>1. 0 \in 0..MaxPrompts /\ 0 \in Nat
        BY RuntimeAssumption
      <4>2. QED
        BY <4>1, Zenon DEF UsedType
    <3>2. busy \in BOOLEAN
      BY Zenon
    <3>3. QED
      BY <3>1, <3>2, RuntimeAssumption, EmptySeq DEF HostTypes, Modes
  <2>5. QED
    BY <2>1, <2>2, <2>3, <2>4 DEF Types
<1>2. Runs = {} /\ ModesSent = {}
  BY DEF Runs, ModesSent, Msg
<1>3. InStep
  BY <1>2 DEF InStep, NoCmd, Msg
<1>4. AcceptedRunInOrder
  BY <1>2 DEF AcceptedRunInOrder, SentRun, Sending, Msg
<1>5. ModeFollowsEngine /\ AskAnswerable
  BY <1>2 DEF ModeFollowsEngine, AskAnswerable
<1>6. QED
  BY <1>1, <1>3, <1>4, <1>5 DEF IInv

\* What the host's and the driver's sends leave on their channels.
LEMMA ActionSent ==
  ASSUME ChannelTypes, NEW m \in ActionMsg, action(m)
  PROVE  actions' \in Seq(ActionMsg) /\ Len(actions') <= ActionCap
<1>1. CASE Accepts
  BY <1>1, Appended, RuntimeAssumption DEF ChannelTypes, action, Accepts
<1>2. CASE ~Accepts
  BY <1>2 DEF ChannelTypes, action
<1>3. QED
  BY <1>1, <1>2

LEMMA Emitted ==
  ASSUME ChannelTypes, NEW e \in EventMsg, Emit(e)
  PROVE  events' \in Seq(EventMsg)
BY Appended DEF ChannelTypes, Emit

\* A host's step that only sends an action and changes the view.
LEMMA HostSends ==
  ASSUME Types, NEW m \in ActionMsg, action(m), HostTypes',
         UNCHANGED <<cmds, feedback, events, pumpVars, driverVars, askVars, engineMode>>
  PROVE  Types'
<1>1. ChannelTypes'
  BY ActionSent DEF Types, ChannelTypes
<1>2. PumpTypes' /\ DriverTypes'
  BY DEF Types, PumpTypes, DriverTypes, pumpVars, driverVars, askVars
<1>3. QED
  BY <1>1, <1>2 DEF Types

\* What a host's step spends.
LEMMA Spent ==
  ASSUME NEW u \in UsedType
  PROVE  /\ u.prompts < MaxPrompts => [u EXCEPT !.prompts = @ + 1] \in UsedType
         /\ [u EXCEPT !.inputs = @ + 1] \in UsedType /\ [u EXCEPT !.cancels = @ + 1] \in UsedType
         /\ [u EXCEPT !.watchdog = TRUE, !.inputs = @ + 1] \in UsedType
<1>1. /\ u.prompts \in 0..MaxPrompts /\ u.inputs \in Nat /\ u.cancels \in Nat
      /\ u.watchdog \in BOOLEAN /\ u.idle \in BOOLEAN
  BY Zenon DEF UsedType
<1>2. u.inputs + 1 \in Nat /\ u.cancels + 1 \in Nat /\ TRUE \in BOOLEAN
  BY <1>1
<1>3. u.prompts < MaxPrompts => u.prompts + 1 \in 0..MaxPrompts
  BY <1>1, RuntimeAssumption
<1>4. QED
  BY <1>1, <1>2, <1>3, Zenon DEF UsedType

LEMMA HostTyped == Types /\ Host => Types'
<1> SUFFICES ASSUME Types, Host PROVE Types'
  OBVIOUS
<1> USE RuntimeAssumption
<1>0. /\ ChannelTypes /\ PumpTypes /\ DriverTypes /\ HostTypes
  BY DEF Types
<1>1. CASE HostEnter
  <2>1. HostTypes'
    <3>1. used' \in UsedType
      BY <1>0, <1>1, Spent DEF HostTypes, HostEnter
    <3>2. used'.prompts \in 0..MaxPrompts
      BY <3>1 DEF UsedType
    <3>3. QED
      BY <1>0, <1>1, <3>1, <3>2 DEF HostTypes, HostEnter
  <2>2. QED
    BY <1>0, <1>1, <2>1 DEF Types, HostEnter, ChannelTypes, PumpTypes, DriverTypes, channels, pumpVars, driverVars, askVars
<1>2. CASE HostSubmit
  <2>1. MsgHow("submit", staged, IF used.idle THEN "idle" ELSE "none") \in ActionMsg
    BY <1>0, <1>2 DEF HostTypes, HostSubmit, ActionMsg, UsedType, Message, MsgHow, Prompts
  <2>2. HostTypes'
    <3>1. busy' \in BOOLEAN /\ shown' \in 0..MaxPrompts
      <4>1. CASE Accepts
        BY <1>0, <1>2, <4>1 DEF HostTypes, HostSubmit
      <4>2. CASE ~Accepts
        BY <1>0, <1>2, <4>2 DEF HostTypes, HostSubmit
      <4>3. QED
        BY <4>1, <4>2
    <3>2. QED
      BY <1>0, <1>2, <3>1 DEF HostTypes, HostSubmit
  <2>3. QED
    BY <1>2, <2>1, <2>2, HostSends DEF HostSubmit
<1>3. CASE HostQueue
  <2>1. Msg("queue", used'.prompts) \in ActionMsg /\ used'.prompts \in Prompts
    BY <1>0, <1>3, SMTT(60) DEF HostTypes, HostQueue, ActionMsg, UsedType, Message, Msg, Prompts
  <2>2. HostTypes'
    <3>1. mirror' \in Seq(Prompts)
      BY <1>0, <1>3, <2>1, Appended DEF HostTypes, HostQueue
    <3>2. used' \in UsedType
      BY <1>0, <1>3, Spent DEF HostTypes, HostQueue
    <3>3. QED
      BY <1>0, <1>3, <3>1, <3>2 DEF HostTypes, HostQueue
  <2>3. QED
    BY <1>3, <2>1, <2>2, HostSends DEF HostQueue
<1>4. CASE HostCancel
  <2>1. Msg("cancel", shown) \in ActionMsg
    BY <1>0, <1>4 DEF HostTypes, HostCancel, ActionMsg, Message, Msg, Prompts
  <2>2. HostTypes'
    BY <1>0, <1>4, SMTT(60) DEF HostTypes, HostCancel, UsedType
  <2>3. QED
    BY <1>4, <2>1, <2>2, HostSends DEF HostCancel
<1>5. CASE HostToggle
  <2>0. viewMode' \in Modes
    BY <1>0, <1>5 DEF HostTypes, HostToggle, cycle_mode, Modes
  <2>1. Msg("mode", viewMode') \in ActionMsg
    BY <2>0 DEF ActionMsg, Message, Msg, Modes
  <2>2. HostTypes'
    BY <1>0, <1>5, <2>0, SMTT(60) DEF HostTypes, HostToggle, UsedType
  <2>3. QED
    BY <1>5, <2>1, <2>2, HostSends DEF HostToggle
<1>6. ASSUME NEW how \in {"allow", "deny"}, HostAnswer(how) PROVE Types'
  <2>1. MsgHow("answer", openAsk, how) \in ActionMsg
    BY <1>0, <1>6 DEF HostTypes, ActionMsg, Message, MsgHow
  <2>2. HostTypes'
    BY <1>0, <1>6 DEF HostTypes, HostAnswer
  <2>3. QED
    BY <1>6, <2>1, <2>2, HostSends DEF HostAnswer
<1>7. ASSUME NEW c \in {"edit", "show"}, HostCommand(c) PROVE Types'
  <2>1. Msg(c, 0) \in ActionMsg
    BY <1>7 DEF ActionMsg, Message, Msg
  <2>2. HostTypes'
    <3>1. used' \in UsedType
      BY <1>0, <1>7, SMTT(60) DEF HostTypes, HostCommand, UsedType
    <3>2. QED
      BY <1>0, <1>7, <3>1 DEF HostTypes, HostCommand, view
  <2>3. QED
    BY <1>7, <2>1, <2>2, HostSends DEF HostCommand
<1>8. Msg("quit", 0) \in ActionMsg
  BY DEF ActionMsg, Message, Msg
<1>9. CASE HostQuit
  <2>1. HostTypes'
    BY <1>0, <1>9 DEF HostTypes, HostQuit, view
  <2>2. QED
    BY <1>8, <1>9, <2>1, HostSends DEF HostQuit
<1>10. CASE HostShutdown
  <2>1. HostTypes'
    BY <1>0, <1>10 DEF HostTypes, HostShutdown, view
  <2>2. QED
    BY <1>8, <1>10, <2>1, HostSends DEF HostShutdown
<1>11. CASE HostJoined
  BY <1>0, <1>11 DEF Types, HostJoined, ChannelTypes, PumpTypes, DriverTypes, HostTypes, channels, askVars, view
<1>12. CASE WatchdogQuit
  <2>1. HostTypes'
    <3>1. used' \in UsedType
      BY <1>0, <1>12, Spent DEF HostTypes, WatchdogQuit
    <3>2. QED
      BY <1>0, <1>12, <3>1 DEF HostTypes, WatchdogQuit, view
  <2>2. QED
    BY <1>8, <1>12, <2>1, HostSends DEF WatchdogQuit
<1>13. CASE HostApply
  <2>1. Head(events) \in EventMsg /\ events' \in Seq(EventMsg)
    BY <1>0, <1>13, Popped DEF HostApply, ChannelTypes
  <2>2. HostTypes'
    <3>1. mirror # <<>> => Head(mirror) \in Prompts /\ Tail(mirror) \in Seq(Prompts)
      BY <1>0, Popped DEF HostTypes
    <3>2. shown' \in 0..MaxPrompts /\ mirror' \in Seq(Prompts)
      <4>1. \/ shown' = shown /\ mirror' = mirror
            \/ mirror # <<>> /\ shown' = Head(mirror) /\ mirror' = Tail(mirror)
        BY <1>13 DEF HostApply
      <4>2. mirror \in Seq(Prompts) /\ shown \in 0..MaxPrompts /\ Prompts \subseteq 0..MaxPrompts
        BY <1>0 DEF HostTypes, Prompts
      <4>3. QED
        BY <3>1, <4>1, <4>2
    <3>3. openAsk' \in 0..MaxAsks /\ viewMode' \in Modes
      <4>1. /\ openAsk' \in {0, openAsk} \/ (Head(events).tag = "ask" /\ openAsk' = Head(events).n)
            /\ viewMode' = viewMode \/ (Head(events).tag = "mode" /\ viewMode' = Head(events).n)
        BY <1>13 DEF HostApply
      <4>2. QED
        BY <1>0, <2>1, <4>1 DEF HostTypes, EventMsg
    <3>4. busy' \in BOOLEAN
      BY <1>0, <1>13 DEF HostTypes, HostApply
    <3>5. used' \in UsedType
      BY <1>0, <1>13 DEF HostTypes, HostApply, UsedType
    <3>6. QED
      BY <1>0, <1>13, <3>2, <3>3, <3>4, <3>5 DEF HostTypes, HostApply
  <2>3. QED
    BY <1>0, <1>13, <2>1, <2>2 DEF Types, HostApply, ChannelTypes, PumpTypes, DriverTypes, pumpVars, driverVars, askVars
<1>14. QED
  BY <1>1, <1>2, <1>3, <1>4, <1>5, <1>6, <1>7, <1>9, <1>10, <1>11, <1>12, <1>13 DEF Host

\* The action the pump takes, and the channel without it.
LEMMA Taken ==
  ASSUME Types, NEW tags, Take(tags)
  PROVE  /\ Head(actions) \in ActionMsg /\ Head(actions).tag \in tags
         /\ actions' \in Seq(ActionMsg) /\ Len(actions') <= ActionCap
         /\ HostTypes'
<1>1. actions # <<>> /\ actions' = Tail(actions) /\ Head(actions).tag \in tags
  BY DEF Take
<1>2. Head(actions) \in ActionMsg /\ actions' \in Seq(ActionMsg) /\ Len(actions') = Len(actions) - 1
      /\ Len(actions) \in Nat
  BY <1>1, Popped DEF Types, ChannelTypes
<1>3. HostTypes'
  BY DEF Types, HostTypes, Take, hostVars, view
<1>4. QED
  BY <1>1, <1>2, <1>3, RuntimeAssumption DEF Types, ChannelTypes

LEMMA PumpTyped == Types /\ InStep /\ Pump => Types'
<1> SUFFICES ASSUME Types, InStep, Pump PROVE Types'
  OBVIOUS
<1> USE RuntimeAssumption
<1>0. /\ ChannelTypes /\ PumpTypes /\ DriverTypes /\ HostTypes
  BY DEF Types
<1>1. CASE PumpFeedback
  <2>1. feedback' \in Seq(Prompts) /\ Len(feedback') <= FeedbackCap
    BY <1>0, <1>1, Popped DEF PumpFeedback, HasFeedback, ChannelTypes
  <2>2. queued # <<>> => Head(queued) \in Prompts /\ Tail(queued) \in Seq(Prompts)
    BY <1>0, Popped DEF PumpTypes
  <2>3. PumpTypes'
    <3>1. /\ active' \in {0, active}
          /\ \/ pump' = pump /\ out' = out /\ queued' = queued
             \/ /\ queued # <<>> /\ pump' = "send" /\ out' = Msg("run", Head(queued))
                /\ queued' = Tail(queued)
      BY <1>1 DEF PumpFeedback, start_turn
    <3>2. queued # <<>> => Msg("run", Head(queued)) \in CmdMsg
      BY <2>2 DEF Msg, CmdMsg, Message, Prompts
    <3>3. active' \in 0..MaxPrompts /\ fired' \subseteq Prompts /\ accepted' \in Seq(Prompts)
      BY <1>0, <1>1, <3>1 DEF PumpTypes, PumpFeedback
    <3>4. CASE pump' = pump /\ out' = out /\ queued' = queued
      BY <1>0, <3>3, <3>4 DEF PumpTypes, NoCmd
    <3>5. CASE queued # <<>> /\ pump' = "send" /\ out' = Msg("run", Head(queued)) /\ queued' = Tail(queued)
      BY <2>2, <3>2, <3>3, <3>5 DEF PumpTypes
    <3>6. QED
      BY <3>1, <3>4, <3>5
  <2>4. QED
    BY <1>0, <1>1, <2>1, <2>3 DEF PumpFeedback, Types, ChannelTypes, DriverTypes, HostTypes,
       driverVars, askVars, hostVars, view
<1>2. CASE PumpPrompt
  <2>1. /\ Head(actions) \in ActionMsg /\ Head(actions).tag \in {"submit", "queue"}
        /\ actions' \in Seq(ActionMsg) /\ Len(actions') <= ActionCap /\ HostTypes'
    BY <1>2, Taken, Zenon DEF PumpPrompt
  <2>2. Head(actions).n \in Prompts
    BY <2>1 DEF ActionMsg
  <2>3. Msg("run", Head(actions).n) \in CmdMsg
    BY <2>2 DEF Msg, CmdMsg, Message, Prompts
  <2>4. Append(accepted, Head(actions).n) \in Seq(Prompts) /\ Append(queued, Head(actions).n) \in Seq(Prompts)
    BY <1>0, <2>2, Appended DEF PumpTypes
  <2>5. PumpTypes'
    BY <1>0, <1>2, <2>3, <2>4 DEF PumpPrompt, PumpTypes, start_turn
  <2>6. QED
    BY <1>0, <1>2, <2>1, <2>5 DEF PumpPrompt, Take, Types, ChannelTypes, DriverTypes, driverVars, askVars
<1>3. CASE PumpCancel
  <2>1. /\ actions' \in Seq(ActionMsg) /\ Len(actions') <= ActionCap /\ HostTypes'
    BY <1>3, Taken, Zenon DEF PumpCancel
  <2>2. PumpTypes'
    BY <1>0, <1>3 DEF PumpCancel, FireToken, PumpTypes, Prompts
  <2>3. DriverTypes'
    BY <1>0, <1>3 DEF PumpCancel, drain_cancel, Take, DriverTypes, driverVars
  <2>4. QED
    BY <1>0, <1>3, <2>1, <2>2, <2>3 DEF PumpCancel, Take, Types, ChannelTypes
<1>4. CASE PumpMode
  <2>1. /\ Head(actions) \in ActionMsg /\ Head(actions).tag \in {"mode"}
        /\ actions' \in Seq(ActionMsg) /\ Len(actions') <= ActionCap /\ HostTypes'
    BY <1>4, Taken, Zenon DEF PumpMode
  <2>2. Head(actions).n \in Modes
    BY <2>1 DEF ActionMsg
  <2>3. Msg("mode", Head(actions).n) \in CmdMsg /\ Msg("mode", Head(actions).n) \in EventMsg
    BY <2>2 DEF Msg, CmdMsg, EventMsg, Message, Modes
  <2>4. events' \in Seq(EventMsg)
    BY <1>0, <1>4, <2>3, Emitted DEF PumpMode
  <2>5. PumpTypes' /\ DriverTypes'
    BY <1>0, <1>4, <2>2, <2>3 DEF PumpMode, Take, PumpTypes, DriverTypes, driverVars, askVars
  <2>6. QED
    BY <1>0, <1>4, <2>1, <2>4, <2>5 DEF PumpMode, Take, Types, ChannelTypes
<1>5. CASE PumpAnswer
  <2>1. /\ Head(actions) \in ActionMsg /\ Head(actions).tag \in {"answer"}
        /\ actions' \in Seq(ActionMsg) /\ Len(actions') <= ActionCap /\ HostTypes'
    BY <1>5, Taken, Zenon DEF PumpAnswer
  <2>2. Head(actions).how \in {"allow", "deny"}
    BY <2>1 DEF ActionMsg
  <2>3. DriverTypes'
    BY <1>0, <1>5, <2>2 DEF PumpAnswer, Take, DriverTypes, driverVars
  <2>4. QED
    BY <1>0, <1>5, <2>1, <2>3 DEF PumpAnswer, Take, Types, ChannelTypes, PumpTypes
<1>6. CASE PumpCommand
  <2>1. /\ Head(actions) \in ActionMsg /\ Head(actions).tag \in {"edit", "show"}
        /\ actions' \in Seq(ActionMsg) /\ Len(actions') <= ActionCap /\ HostTypes'
    BY <1>6, Taken, Zenon DEF PumpCommand
  <2>2. Msg(Head(actions).tag, 0) \in CmdMsg
    BY <2>1 DEF Msg, CmdMsg, Message
  <2>3. PumpTypes'
    BY <1>0, <1>6, <2>2 DEF PumpCommand, PumpTypes
  <2>4. QED
    BY <1>0, <1>6, <2>1, <2>3 DEF PumpCommand, Take, Types, ChannelTypes, DriverTypes, driverVars, askVars
<1>7. CASE PumpQuit
  <2>1. /\ actions' \in Seq(ActionMsg) /\ Len(actions') <= ActionCap /\ HostTypes'
    BY <1>7, Taken, Zenon DEF PumpQuit
  <2>2. PumpTypes'
    BY <1>0, <1>7 DEF PumpQuit, FireToken, PumpTypes, Prompts
  <2>3. DriverTypes'
    BY <1>0, <1>7 DEF PumpQuit, drain_cancel, Take, DriverTypes, driverVars
  <2>4. QED
    BY <1>0, <1>7, <2>1, <2>2, <2>3 DEF PumpQuit, Take, Types, ChannelTypes
<1>8. CASE PumpSend
  <2>1. out \in CmdMsg
    BY <1>8 DEF PumpSend, InStep
  <2>2. cmds' \in Seq(CmdMsg) /\ Len(cmds') <= DriverCap
    BY <1>0, <1>8, <2>1, Appended DEF PumpSend, ChannelTypes
  <2>3. PumpTypes'
    BY <1>0, <1>8, <2>1 DEF PumpSend, PumpTypes, CmdMsg, Prompts, NoCmd
  <2>4. QED
    BY <1>0, <1>8, <2>2, <2>3 DEF PumpSend, Types, ChannelTypes, DriverTypes, HostTypes,
       driverVars, askVars, hostVars, view
<1>9. QED
  BY <1>1, <1>2, <1>3, <1>4, <1>5, <1>6, <1>7, <1>8 DEF Pump

\* The command the driver takes, and the channel without it.
LEMMA Received ==
  ASSUME ChannelTypes, cmds # <<>>, cmds' = Tail(cmds)
  PROVE  Head(cmds) \in CmdMsg /\ cmds' \in Seq(CmdMsg) /\ Len(cmds') <= DriverCap
BY Popped, RuntimeAssumption DEF ChannelTypes

LEMMA DriverTyped == Types /\ InStep /\ (Driver \/ Turn \/ TurnStops) => Types'
<1> SUFFICES ASSUME Types, InStep, Driver \/ Turn \/ TurnStops PROVE Types'
  OBVIOUS
<1> USE RuntimeAssumption
<1>0. /\ ChannelTypes /\ PumpTypes /\ DriverTypes /\ HostTypes
  BY DEF Types
<1>e. /\ Msg("ready", 0) \in EventMsg /\ Msg("idle", 0) \in EventMsg /\ Msg("outcome", 0) \in EventMsg
      /\ \A n \in Nat : Msg("decision", n) \in EventMsg
      /\ \A n \in 1..MaxAsks : Msg("ask", n) \in EventMsg
  BY DEF Msg, EventMsg, Message
<1>1. CASE DriverRun
  <2>1. Head(cmds) \in CmdMsg /\ cmds' \in Seq(CmdMsg) /\ Len(cmds') <= DriverCap
    BY <1>0, <1>1, Received DEF DriverRun
  <2>2. Head(cmds).n \in Prompts
    BY <1>1, <2>1 DEF DriverRun, CmdMsg
  <2>3. events' \in Seq(EventMsg)
    BY <1>0, <1>1, <1>e, Emitted DEF DriverRun
  <2>4. DriverTypes'
    BY <1>0, <1>1, <2>2, Appended DEF DriverRun, DriverTypes, askVars, Prompts
  <2>5. QED
    BY <1>0, <1>1, <2>1, <2>3, <2>4 DEF DriverRun, Types, ChannelTypes, PumpTypes, HostTypes,
       pumpVars, hostVars, view
<1>2. CASE DriverMode
  <2>1. Head(cmds) \in CmdMsg /\ cmds' \in Seq(CmdMsg) /\ Len(cmds') <= DriverCap
    BY <1>0, <1>2, Received DEF DriverMode
  <2>2. DriverTypes'
    BY <1>0, <1>2, <2>1 DEF DriverMode, DriverTypes, CmdMsg, askVars
  <2>3. QED
    BY <1>0, <1>2, <2>1, <2>2 DEF DriverMode, Types, ChannelTypes, PumpTypes, HostTypes,
       pumpVars, hostVars, view
<1>3. CASE DriverCommand
  <2>1. Head(cmds) \in CmdMsg /\ cmds' \in Seq(CmdMsg) /\ Len(cmds') <= DriverCap
    BY <1>0, <1>3, Received DEF DriverCommand
  <2>2. events' \in Seq(EventMsg)
    BY <1>0, <1>3, <1>e, Emitted DEF DriverCommand
  <2>3. QED
    BY <1>0, <1>3, <2>1, <2>2 DEF DriverCommand, Types, ChannelTypes, PumpTypes, DriverTypes, HostTypes,
       pumpVars, driverVars, askVars, hostVars, view
<1>4. CASE DriverReport
  <2>1. feedback' \in Seq(Prompts) /\ Len(feedback') <= FeedbackCap
    <3>1. CASE feedback' = feedback
      BY <1>0, <3>1 DEF ChannelTypes
    <3>2. CASE pump # "gone" /\ Len(feedback) < FeedbackCap /\ feedback' = Append(feedback, turn)
      <4>1. turn \in Prompts
        BY <1>0, <1>4, <3>2 DEF DriverReport, InStep, OnItsWay, InDriver, ComingBack, PumpTypes, Prompts
      <4>2. QED
        BY <1>0, <3>2, <4>1, Appended DEF ChannelTypes
    <3>3. QED
      BY <1>4, <3>1, <3>2 DEF DriverReport
  <2>2. QED
    BY <1>0, <1>4, <2>1 DEF DriverReport, Types, ChannelTypes, PumpTypes, DriverTypes, HostTypes,
       pumpVars, askVars, hostVars, view
<1>5. CASE DriverIdle
  <2>1. events' \in Seq(EventMsg)
    BY <1>0, <1>5, <1>e, Emitted DEF DriverIdle
  <2>2. QED
    BY <1>0, <1>5, <2>1 DEF DriverIdle, Types, ChannelTypes, PumpTypes, DriverTypes, HostTypes,
       pumpVars, askVars, hostVars, view
<1>6. CASE DriverExit
  BY <1>0, <1>6 DEF DriverExit, Types, ChannelTypes, PumpTypes, DriverTypes, HostTypes,
     channels, pumpVars, askVars, hostVars, view
<1>7. CASE TurnAsks
  <2>1. next_id \in 1..MaxAsks
    BY <1>0, <1>7 DEF TurnAsks, DriverTypes
  <2>2. events' \in Seq(EventMsg)
    BY <1>0, <1>7, <1>e, <2>1, Emitted DEF TurnAsks
  <2>3. DriverTypes'
    BY <1>0, <1>7, <2>1 DEF TurnAsks, DriverTypes
  <2>4. QED
    BY <1>0, <1>7, <2>2, <2>3 DEF TurnAsks, Types, ChannelTypes, PumpTypes, HostTypes,
       pumpVars, hostVars, view
<1>8. CASE TurnAnswered
  <2>1. next_id - 1 \in Nat
    BY <1>0 DEF DriverTypes
  <2>2. events' \in Seq(EventMsg)
    BY <1>0, <1>8, <1>e, <2>1, Emitted DEF TurnAnswered
  <2>3. QED
    BY <1>0, <1>8, <2>2 DEF TurnAnswered, Types, ChannelTypes, PumpTypes, DriverTypes, HostTypes,
       pumpVars, askVars, hostVars, view
<1>9. CASE TurnEnds \/ TurnStops
  <2>1. events' \in Seq(EventMsg)
    BY <1>0, <1>9, <1>e, Emitted DEF TurnEnds, TurnStops
  <2>2. QED
    BY <1>0, <1>9, <2>1 DEF TurnEnds, TurnStops, Types, ChannelTypes, PumpTypes, DriverTypes, HostTypes,
       pumpVars, askVars, hostVars, view
<1>10. QED
  BY <1>1, <1>2, <1>3, <1>4, <1>5, <1>6, <1>7, <1>8, <1>9 DEF Driver, Turn

LEMMA TypesKept == Types /\ InStep /\ [Next]_vars => Types'
<1> SUFFICES ASSUME Types, InStep, [Next]_vars PROVE Types'
  OBVIOUS
<1>1. CASE UNCHANGED vars
  BY <1>1 DEF Types, ChannelTypes, PumpTypes, DriverTypes, HostTypes,
     vars, channels, pumpVars, driverVars, askVars, hostVars, view
<1>2. CASE Over
  BY <1>1, <1>2 DEF Over
<1>3. QED
  BY <1>1, <1>2, HostTyped, PumpTyped, DriverTyped DEF Next
-----------------------------------------------------------------------------
(* The commands on their way to the driver.                                *)

\* The variables that only the pump and the driver write.
Core == <<cmds, feedback, pump, out, active, queued, accepted, driver, turn, sessionMode, ran,
          pending, next_id, reply, engineMode>>

LEMMA HostFrame == Host => HostJoined \/ UNCHANGED Core
<1> SUFFICES ASSUME Host, ~HostJoined PROVE UNCHANGED Core
  OBVIOUS
<1> USE DEF Core, channels, pumpVars, driverVars, askVars
<1>1. CASE HostEnter \/ HostSubmit \/ HostQueue \/ HostCancel \/ HostToggle
  BY <1>1 DEF HostEnter, HostSubmit, HostQueue, HostCancel, HostToggle
<1>2. CASE \E how \in {"allow", "deny"} : HostAnswer(how)
  BY <1>2 DEF HostAnswer
<1>3. CASE \E c \in {"edit", "show"} : HostCommand(c)
  BY <1>3 DEF HostCommand
<1>4. CASE HostQuit \/ HostShutdown \/ WatchdogQuit \/ HostApply
  BY <1>4 DEF HostQuit, HostShutdown, WatchdogQuit, HostApply
<1>5. QED
  BY <1>1, <1>2, <1>3, <1>4 DEF Host

OneRun == \A i, j \in Runs : i = j

LEMMA SentRunIs == OneRun => \A i \in Runs : SentRun = <<cmds[i].n>>
<1> SUFFICES ASSUME OneRun, NEW i \in Runs PROVE SentRun = <<cmds[i].n>>
  OBVIOUS
<1>1. (CHOOSE k \in Runs : TRUE) = i
  BY DEF OneRun
<1>2. QED
  BY <1>1 DEF SentRun

\* A command the pump sends.
LEMMA RunSent ==
  ASSUME ChannelTypes, OneRun, NEW m \in CmdMsg, cmds' = Append(cmds, m),
         m.tag = "run" => Runs = {}
  PROVE  /\ OneRun'
         /\ m.tag = "run" => SentRun' = <<m.n>> /\ \E i \in Runs' : cmds'[i].n = m.n
         /\ m.tag # "run" => /\ SentRun' = SentRun /\ Runs' = Runs
                             /\ \A i \in Runs : cmds'[i] = cmds[i]
<1>1. /\ cmds \in Seq(CmdMsg) /\ Len(cmds) \in Nat
      /\ DOMAIN cmds' = 1..(Len(cmds) + 1) /\ DOMAIN cmds = 1..Len(cmds)
      /\ cmds'[Len(cmds) + 1] = m /\ \A i \in 1..Len(cmds) : cmds'[i] = cmds[i]
  BY Appended DEF ChannelTypes
<1>2. CASE m.tag = "run"
  <2>1. Runs' = {Len(cmds) + 1}
    BY <1>1, <1>2 DEF Runs
  <2>2. OneRun'
    BY <2>1 DEF OneRun
  <2>3. SentRun' = <<m.n>>
    BY <1>1, <2>1 DEF SentRun
  <2>4. QED
    BY <1>1, <1>2, <2>1, <2>2, <2>3
<1>3. CASE m.tag # "run"
  <2>1. Runs' = Runs /\ \A i \in Runs : cmds'[i] = cmds[i]
    BY <1>1, <1>3 DEF Runs
  <2>2. OneRun'
    BY <2>1 DEF OneRun
  <2>3. SentRun' = SentRun
    <3>1. CASE Runs = {}
      BY <2>1, <3>1 DEF SentRun
    <3>2. ASSUME NEW i \in Runs PROVE SentRun' = SentRun
      <4>1. SentRun = <<cmds[i].n>>
        BY SentRunIs
      <4>2. (CHOOSE k \in Runs' : TRUE) = i
        BY <2>1, <2>2 DEF OneRun
      <4>3. SentRun' = <<cmds'[i].n>>
        BY <2>1, <4>2 DEF SentRun
      <4>4. QED
        BY <2>1, <4>1, <4>3
    <3>3. QED
      BY <3>1, <3>2
  <2>4. QED
    BY <1>3, <2>1, <2>2, <2>3
<1>4. QED
  BY <1>2, <1>3

\* A command the driver takes.
LEMMA RunTaken ==
  ASSUME ChannelTypes, OneRun, cmds # <<>>, cmds' = Tail(cmds)
  PROVE  /\ OneRun'
         /\ Head(cmds).tag = "run" => /\ SentRun = <<Head(cmds).n>> /\ SentRun' = <<>>
                                      /\ Runs # {} /\ Runs' = {} /\ 1 \in Runs /\ Head(cmds) = cmds[1]
         /\ Head(cmds).tag # "run" => /\ SentRun' = SentRun /\ (Runs = {} <=> Runs' = {})
                                      /\ \A i \in Runs : i - 1 \in Runs' /\ cmds'[i - 1] = cmds[i]
<1>1. /\ Head(cmds) = cmds[1] /\ Len(cmds) \in Nat \ {0}
      /\ DOMAIN cmds = 1..Len(cmds) /\ DOMAIN cmds' = 1..(Len(cmds) - 1)
      /\ \A i \in 1..(Len(cmds) - 1) : cmds'[i] = cmds[i + 1]
  BY Popped DEF ChannelTypes
<1>2. \A i \in Runs' : i + 1 \in Runs /\ cmds'[i] = cmds[i + 1] /\ i \in Nat /\ i # 0
  BY <1>1 DEF Runs
<1>3. OneRun'
  <2> SUFFICES ASSUME NEW i \in Runs', NEW j \in Runs' PROVE i = j
    BY DEF OneRun
  <2>1. i + 1 = j + 1 /\ i \in Nat /\ j \in Nat
    BY <1>2 DEF OneRun
  <2>2. QED
    BY <2>1
<1>4. CASE Head(cmds).tag = "run"
  <2>1. 1 \in Runs
    BY <1>1, <1>4 DEF Runs
  <2>2. Runs' = {}
    BY <1>2, <2>1 DEF OneRun
  <2>3. SentRun = <<Head(cmds).n>>
    BY <1>1, <2>1, SentRunIs
  <2>4. SentRun' = <<>>
    BY <2>2 DEF SentRun
  <2>5. QED
    BY <1>1, <1>3, <1>4, <2>1, <2>2, <2>3, <2>4
<1>5. CASE Head(cmds).tag # "run"
  <2>1. \A i \in Runs : i - 1 \in Runs' /\ cmds'[i - 1] = cmds[i]
    BY <1>1, <1>5 DEF Runs
  <2>2. Runs = {} <=> Runs' = {}
    BY <1>2, <2>1
  <2>3. SentRun' = SentRun
    <3>1. CASE Runs = {}
      BY <2>2, <3>1 DEF SentRun
    <3>2. ASSUME NEW i \in Runs PROVE SentRun' = SentRun
      <4>1. SentRun = <<cmds[i].n>>
        BY SentRunIs
      <4>2. (CHOOSE k \in Runs' : TRUE) = i - 1
        BY <1>3, <2>1 DEF OneRun
      <4>3. SentRun' = <<cmds'[i - 1].n>>
        BY <2>1, <4>2 DEF SentRun
      <4>4. QED
        BY <2>1, <4>1, <4>3
    <3>3. QED
      BY <3>1, <3>2
  <2>4. QED
    BY <1>3, <1>5, <2>1, <2>2, <2>3
<1>6. QED
  BY <1>4, <1>5

-----------------------------------------------------------------------------
(* Pump and driver stay in step.                                           *)

LEMMA InStepFrame ==
  ASSUME InStep, UNCHANGED <<cmds, feedback, pump, out, active, queued, driver, turn>>
  PROVE  InStep'
<1>1. Runs' = Runs
  BY DEF Runs
<1>2. QED
  BY <1>1 DEF InStep, OnItsWay, InDriver, ComingBack

LEMMA PumpInStep == Types /\ InStep /\ OneRun /\ Pump => InStep'
<1> SUFFICES ASSUME Types, InStep, OneRun, Pump PROVE InStep'
  OBVIOUS
<1> USE DEF driverVars, Take, NoCmd
<1>0. /\ ChannelTypes /\ PumpTypes /\ DriverTypes
  BY DEF Types
<1>1. CASE PumpFeedback
  <2>1. /\ ComingBack /\ active # 0 /\ feedback = <<active>> /\ out = NoCmd /\ Runs = {} /\ Runs' = {}
        /\ driver \in {"recv", "idle"} /\ driver' = driver
    BY <1>0, <1>1 DEF PumpFeedback, HasFeedback, InStep, OnItsWay, InDriver, ComingBack, Runs
  <2>2. Head(feedback) = active /\ feedback' = <<>> /\ active' = 0
    BY <1>1, <2>1 DEF PumpFeedback
  <2>3. CASE queued # <<>>
    <3>1. Head(queued) \in Prompts
      BY <1>0, <2>3, Popped DEF PumpTypes
    <3>2. pump' = "send" /\ out' = Msg("run", Head(queued)) /\ out' \in CmdMsg /\ out'.tag = "run"
      BY <1>1, <2>2, <2>3, <3>1 DEF PumpFeedback, start_turn, Msg, CmdMsg, Message, Prompts
    <3>3. QED
      BY <2>1, <2>2, <3>2 DEF InStep
  <2>4. CASE queued = <<>>
    <3>1. pump' = "recv" /\ out' = NoCmd /\ queued' = <<>>
      BY <1>1, <2>1, <2>2, <2>4 DEF PumpFeedback
    <3>2. QED
      BY <2>1, <2>2, <3>1 DEF InStep
  <2>5. QED
    BY <2>3, <2>4
<1>2. CASE PumpPrompt
  <2>1. /\ Head(actions) \in ActionMsg /\ Head(actions).tag \in {"submit", "queue"}
    BY <1>2, Taken, Zenon DEF PumpPrompt
  <2>2. Msg("run", Head(actions).n) \in CmdMsg /\ Msg("run", Head(actions).n).tag = "run"
    BY <2>1 DEF ActionMsg, Msg, CmdMsg, Message, Prompts
  <2>3. Runs' = Runs /\ UNCHANGED <<cmds, feedback, active, driver, turn>> /\ pump = "recv" /\ out = NoCmd
    BY <1>2 DEF PumpPrompt, Runs, InStep
  <2>4. CASE active = 0
    <3>1. pump' = "send" /\ out' = Msg("run", Head(actions).n)
      BY <1>2, <2>4 DEF PumpPrompt, start_turn
    <3>2. QED
      BY <2>2, <2>3, <2>4, <3>1 DEF InStep
  <2>5. CASE active # 0
    <3>1. UNCHANGED <<pump, out>>
      BY <1>2, <2>5 DEF PumpPrompt
    <3>2. QED
      BY <2>3, <2>5, <3>1 DEF InStep, OnItsWay, InDriver, ComingBack
  <2>6. QED
    BY <2>4, <2>5
<1>3. CASE PumpCancel
  BY <1>3, InStepFrame DEF PumpCancel
<1>4. CASE PumpMode
  <2>1. /\ Head(actions) \in ActionMsg /\ Head(actions).tag \in {"mode"}
    BY <1>4, Taken, Zenon DEF PumpMode
  <2>2. Msg("mode", Head(actions).n) \in CmdMsg /\ Msg("mode", Head(actions).n).tag = "mode"
    BY <2>1 DEF ActionMsg, Msg, CmdMsg, Message, Modes
  <2>3. /\ Runs' = Runs /\ UNCHANGED <<cmds, feedback, active, driver, turn, queued>>
        /\ pump = "recv" /\ out = NoCmd /\ pump' = "send" /\ out' = Msg("mode", Head(actions).n)
    BY <1>4 DEF PumpMode, Runs, InStep
  <2>4. QED
    BY <2>2, <2>3 DEF InStep, OnItsWay, InDriver, ComingBack, Msg
<1>5. CASE PumpAnswer
  BY <1>5, InStepFrame DEF PumpAnswer
<1>6. CASE PumpCommand
  <2>1. /\ Head(actions) \in ActionMsg /\ Head(actions).tag \in {"edit", "show"}
    BY <1>6, Taken, Zenon DEF PumpCommand
  <2>2. Msg(Head(actions).tag, 0) \in CmdMsg /\ Msg(Head(actions).tag, 0).tag # "run"
    BY <2>1 DEF Msg, CmdMsg, Message
  <2>3. /\ Runs' = Runs /\ UNCHANGED <<cmds, feedback, active, driver, turn, queued>>
        /\ pump = "recv" /\ out = NoCmd
        /\ UNCHANGED <<pump, out>> \/ (pump' = "send" /\ out' = Msg(Head(actions).tag, 0))
    BY <1>6 DEF PumpCommand, Runs, InStep
  <2>4. QED
    BY <2>2, <2>3 DEF InStep, OnItsWay, InDriver, ComingBack, Msg
<1>7. CASE PumpQuit
  BY <1>7 DEF PumpQuit, InStep
<1>8. CASE PumpSend
  <2>1. /\ out \in CmdMsg /\ cmds' = Append(cmds, out) /\ pump = "send" /\ pump' = "recv" /\ out' = NoCmd
        /\ out'.tag # "run"
        /\ UNCHANGED <<feedback, queued, driver, turn>>
    BY <1>8 DEF PumpSend, InStep, Msg
  <2>2. CASE out.tag = "run"
    <3>1. active = 0 /\ driver \in {"recv", "idle"} /\ feedback = <<>> /\ Runs = {}
      BY <2>1, <2>2 DEF InStep
    <3>2. \E i \in Runs' : cmds'[i].n = out.n
      BY <1>0, <2>1, <2>2, <3>1, RunSent
    <3>3. active' = out.n /\ out.n \in Prompts
      BY <1>8, <2>1, <2>2 DEF PumpSend, CmdMsg
    <3>4. active' # 0 /\ OnItsWay'
      <4>1. active' # 0
        BY <3>3, RuntimeAssumption DEF Prompts
      <4>2. \E i \in Runs' : cmds'[i].n = active'
        BY <3>2, <3>3
      <4>3. driver' \in {"recv", "idle"} /\ feedback' = <<>>
        BY <2>1, <3>1
      <4>4. QED
        BY <4>1, <4>2, <4>3, Zenon DEF OnItsWay
    <3>5. driver' # "gone"
      BY <2>1, <3>1
    <3>6. QED
      BY <2>1, <3>4, <3>5 DEF InStep
  <2>3. CASE out.tag # "run"
    <3>1. Runs' = Runs /\ \A i \in Runs : cmds'[i] = cmds[i]
      BY <1>0, <2>1, <2>3, RunSent
    <3>2. active' = active
      BY <1>8, <2>3 DEF PumpSend
    <3>3. QED
      BY <2>1, <2>3, <3>1, <3>2 DEF InStep, OnItsWay, InDriver, ComingBack
  <2>4. QED
    BY <2>2, <2>3
<1>9. QED
  BY <1>1, <1>2, <1>3, <1>4, <1>5, <1>6, <1>7, <1>8 DEF Pump

LEMMA DriverInStepKept == Types /\ InStep /\ OneRun /\ (Driver \/ Turn \/ TurnStops) => InStep'
<1> SUFFICES ASSUME Types, InStep, OneRun, Driver \/ Turn \/ TurnStops PROVE InStep'
  OBVIOUS
<1> USE DEF pumpVars
<1>0. /\ ChannelTypes /\ PumpTypes /\ DriverTypes
  BY DEF Types
<1>1. CASE DriverRun
  <2>1. Head(cmds).tag = "run" /\ 1 \in Runs /\ Runs' = {} /\ Head(cmds) = cmds[1]
    BY <1>0, <1>1, RunTaken DEF DriverRun
  <2>2. /\ driver = "recv" /\ driver' = "run" /\ turn' = Head(cmds).n
        /\ UNCHANGED <<feedback, pump, out, active, queued>>
    BY <1>1 DEF DriverRun
  <2>3. CASE pump # "gone"
    <3>1. active # 0 /\ OnItsWay
      BY <2>1, <2>2, <2>3 DEF InStep, InDriver, ComingBack
    <3>2. turn' = active /\ feedback = <<>>
      BY <2>1, <2>2, <3>1 DEF OnItsWay, OneRun
    <3>3. InDriver'
      BY <2>1, <2>2, <3>2 DEF InDriver
    <3>4. QED
      BY <2>2, <2>3, <3>1, <3>3 DEF InStep
  <2>4. QED
    BY <2>2, <2>3 DEF InStep
<1>2. CASE DriverMode \/ DriverCommand
  <2>1. /\ cmds # <<>> /\ cmds' = Tail(cmds) /\ Head(cmds).tag # "run"
        /\ UNCHANGED <<feedback, pump, out, active, queued, driver, turn>>
    BY <1>2 DEF DriverMode, DriverCommand, driverVars
  <2>2. (Runs = {} <=> Runs' = {}) /\ \A k \in Runs : k - 1 \in Runs' /\ cmds'[k - 1] = cmds[k]
    BY <1>0, <2>1, RunTaken
  <2>3. OnItsWay => OnItsWay'
    <3>1. SUFFICES ASSUME OnItsWay, NEW k \in Runs, cmds[k].n = active PROVE OnItsWay'
      BY DEF OnItsWay
    <3>2. k - 1 \in Runs' /\ cmds'[k - 1].n = active'
      BY <2>1, <2>2, <3>1
    <3>3. QED
      BY <2>1, <3>1, <3>2 DEF OnItsWay
  <2>4. (InDriver => InDriver') /\ (ComingBack => ComingBack')
    BY <2>1, <2>2 DEF InDriver, ComingBack
  <2>5. QED
    BY <2>1, <2>2, <2>3, <2>4 DEF InStep
<1>3. CASE DriverReport
  <2>1. /\ driver = "report" /\ driver' = "idle" /\ Runs' = Runs
        /\ UNCHANGED <<cmds, pump, out, active, queued, turn>>
    BY <1>3 DEF DriverReport, Runs
  <2>2. CASE pump # "gone"
    <3>1. active # 0 /\ InDriver
      BY <2>1, <2>2 DEF InStep, OnItsWay, ComingBack
    <3>2. feedback' = <<active>>
      BY <1>3, <2>2, <3>1 DEF DriverReport, InDriver
    <3>3. ComingBack'
      BY <2>1, <3>1, <3>2 DEF ComingBack, InDriver
    <3>4. QED
      BY <2>1, <2>2, <3>1, <3>3 DEF InStep
  <2>3. QED
    BY <2>1, <2>2 DEF InStep
<1>4. CASE DriverIdle
  <2>1. /\ driver = "idle" /\ driver' = "recv" /\ Runs' = Runs
        /\ UNCHANGED <<cmds, feedback, pump, out, active, queued>>
    BY <1>4 DEF DriverIdle, Runs
  <2>2. QED
    BY <2>1 DEF InStep, OnItsWay, InDriver, ComingBack
<1>5. CASE DriverExit
  BY <1>5 DEF DriverExit, InStep
<1>6. CASE TurnAsks \/ TurnAnswered \/ TurnEnds \/ TurnStops
  <2>1. /\ driver \in {"run", "ask"} /\ driver' \in {"run", "ask", "report"} /\ Runs' = Runs
        /\ UNCHANGED <<cmds, feedback, pump, out, active, queued, turn>>
    BY <1>6 DEF TurnAsks, TurnAnswered, TurnEnds, TurnStops, Runs
  <2>2. QED
    BY <2>1 DEF InStep, OnItsWay, InDriver, ComingBack
<1>7. QED
  BY <1>1, <1>2, <1>3, <1>4, <1>5, <1>6 DEF Driver, Turn

LEMMA InStepKept == Types /\ InStep /\ OneRun /\ [Next]_vars => InStep'
<1> SUFFICES ASSUME Types, InStep, OneRun, [Next]_vars PROVE InStep'
  OBVIOUS
<1>1. CASE UNCHANGED vars \/ Over
  BY <1>1, InStepFrame DEF Over, vars, channels, pumpVars, driverVars
<1>2. CASE Host
  <2>1. CASE HostJoined
    BY <2>1 DEF HostJoined, InStep
  <2>2. CASE UNCHANGED Core
    BY <2>2, InStepFrame DEF Core
  <2>3. QED
    BY <1>2, <2>1, <2>2, HostFrame
<1>3. QED
  BY <1>1, <1>2, PumpInStep, DriverInStepKept DEF Next

-----------------------------------------------------------------------------
(* Prompts run once and in order.                                          *)

LEMMA OrderFrame ==
  ASSUME AcceptedRunInOrder, UNCHANGED <<cmds, out, queued, accepted, ran>>
  PROVE  AcceptedRunInOrder'
<1>1. Runs' = Runs
  BY DEF Runs
<1>2. SentRun' = SentRun /\ Sending' = Sending
  BY <1>1 DEF SentRun, Sending
<1>3. QED
  BY <1>1, <1>2 DEF AcceptedRunInOrder

LEMMA OrderTyped ==
  Types => SentRun \in Seq(Prompts) /\ Sending \in Seq(Prompts) /\ queued \in Seq(Prompts) /\ ran \in Seq(Prompts)
<1> SUFFICES ASSUME Types PROVE SentRun \in Seq(Prompts) /\ Sending \in Seq(Prompts) /\ queued \in Seq(Prompts) /\ ran \in Seq(Prompts)
  OBVIOUS
<1>1. SentRun \in Seq(Prompts)
  <2>1. CASE Runs = {}
    BY <2>1, EmptySeq DEF SentRun
  <2>2. CASE Runs # {}
    <3>1. \A i \in Runs : cmds[i].n \in Prompts
      BY ElementOfSeq DEF Runs, Types, ChannelTypes, CmdMsg
    <3>2. SentRun = <<cmds[CHOOSE i \in Runs : TRUE].n>> /\ (CHOOSE i \in Runs : TRUE) \in Runs
      BY <2>2 DEF SentRun
    <3>3. QED
      BY <3>1, <3>2
  <2>3. QED
    BY <2>1, <2>2
<1>2. Sending \in Seq(Prompts)
  BY DEF Sending, Types, PumpTypes, CmdMsg, NoCmd, Msg
<1>3. QED
  BY <1>1, <1>2 DEF Types, PumpTypes, DriverTypes

\* The pump keeps the order: what it takes goes to the end, what it starts comes
\* from the front.
LEMMA PumpOrder == Types /\ InStep /\ AcceptedRunInOrder /\ Pump => AcceptedRunInOrder'
<1> SUFFICES ASSUME Types, InStep, AcceptedRunInOrder, Pump PROVE AcceptedRunInOrder'
  OBVIOUS
<1> USE DEF driverVars, Take
<1>0. /\ ChannelTypes /\ PumpTypes /\ OneRun /\ accepted = ran \o SentRun \o Sending \o queued
  BY DEF Types, AcceptedRunInOrder, OneRun
<1>t. SentRun \in Seq(Prompts) /\ Sending \in Seq(Prompts) /\ queued \in Seq(Prompts) /\ ran \in Seq(Prompts)
  BY OrderTyped
<1>n. out = NoCmd => Sending = <<>>
  BY DEF Sending, NoCmd, Msg
<1>1. ASSUME UNCHANGED <<cmds, ran>> PROVE SentRun' = SentRun /\ OneRun'
  BY <1>0, <1>1 DEF SentRun, OneRun, Runs
<1>2. CASE PumpFeedback
  <2>1. pump = "recv" /\ out = NoCmd /\ UNCHANGED <<cmds, ran, accepted>>
    BY <1>2 DEF PumpFeedback, InStep
  <2>2. CASE UNCHANGED <<out, queued>>
    BY <2>1, <2>2, OrderFrame
  <2>3. CASE ~UNCHANGED <<out, queued>>
    <3>1. queued # <<>> /\ out' = Msg("run", Head(queued)) /\ queued' = Tail(queued)
      BY <1>2, <2>3 DEF PumpFeedback, start_turn
    <3>2. Sending' = <<Head(queued)>> /\ Head(queued) \in Prompts
      BY <1>t, <3>1, Popped DEF Sending, Msg
    <3>3. ran \o SentRun \o <<>> \o queued = ran \o SentRun \o <<Head(queued)>> \o Tail(queued)
      BY <1>t, <3>1, HeadTailProperties
    <3>4. accepted' = ran' \o SentRun' \o Sending' \o queued'
      BY <1>0, <1>1, <1>n, <2>1, <3>1, <3>2, <3>3
    <3>5. QED
      BY <1>1, <2>1, <3>4 DEF AcceptedRunInOrder, OneRun
  <2>4. QED
    BY <2>2, <2>3
<1>3. CASE PumpPrompt
  <2>1. Head(actions) \in ActionMsg /\ Head(actions).tag \in {"submit", "queue"}
    BY <1>3, Taken, Zenon DEF PumpPrompt
  <2>2. Head(actions).n \in Prompts
    BY <2>1 DEF ActionMsg
  <2>3. pump = "recv" /\ out = NoCmd /\ out.tag # "run" /\ UNCHANGED <<cmds, ran>>
    BY <1>3 DEF PumpPrompt, InStep, NoCmd, Msg
  <2>4. CASE active = 0
    <3>1. /\ out' = Msg("run", Head(actions).n) /\ queued' = queued
          /\ accepted' = Append(accepted, Head(actions).n)
      BY <1>3, <2>4 DEF PumpPrompt, start_turn
    <3>2. queued = <<>> /\ Sending = <<>> /\ Sending' = <<Head(actions).n>>
      BY <1>n, <2>3, <2>4, <3>1 DEF InStep, Sending, Msg
    <3>3. accepted' = ran \o SentRun \o <<Head(actions).n>> \o <<>>
      BY <1>0, <1>t, <2>2, <3>1, <3>2
    <3>4. QED
      BY <1>1, <2>3, <3>1, <3>2, <3>3 DEF AcceptedRunInOrder, OneRun
  <2>5. CASE active # 0
    <3>1. CASE UNCHANGED <<out, queued, accepted>>
      BY <2>3, <3>1, OrderFrame
    <3>2. CASE out' = out /\ queued' = Append(queued, Head(actions).n) /\ accepted' = Append(accepted, Head(actions).n)
      <4>1. accepted' = ran \o SentRun \o Sending \o Append(queued, Head(actions).n)
        BY <1>0, <1>t, <2>2, <3>2, SMTT(60)
      <4>2. Sending' = Sending
        BY <3>2 DEF Sending
      <4>3. QED
        BY <1>1, <2>3, <3>2, <4>1, <4>2 DEF AcceptedRunInOrder, OneRun
    <3>3. QED
      BY <1>3, <2>5, <3>1, <3>2 DEF PumpPrompt
  <2>6. QED
    BY <2>4, <2>5
<1>4. CASE PumpCancel \/ PumpAnswer \/ PumpQuit
  BY <1>4, OrderFrame DEF PumpCancel, PumpAnswer, PumpQuit
<1>5. CASE PumpMode \/ PumpCommand
  <2>1. pump = "recv" /\ out = NoCmd /\ UNCHANGED <<cmds, ran, queued, accepted>>
    BY <1>5 DEF PumpMode, PumpCommand, InStep
  <2>2. out'.tag # "run"
    BY <1>5, <2>1 DEF PumpMode, PumpCommand, Msg, NoCmd
  <2>3. Sending' = <<>> /\ Sending = <<>>
    BY <1>n, <2>1, <2>2 DEF Sending
  <2>4. QED
    BY <1>0, <1>1, <2>1, <2>3 DEF AcceptedRunInOrder, OneRun
<1>6. CASE PumpSend
  <2>1. /\ out \in CmdMsg /\ cmds' = Append(cmds, out) /\ out' = NoCmd /\ UNCHANGED <<queued, ran, accepted>>
        /\ out.tag = "run" => Runs = {}
    BY <1>6 DEF PumpSend, InStep, NoCmd
  <2>2. Sending' = <<>>
    BY <2>1 DEF Sending, NoCmd, Msg
  <2>3. CASE out.tag = "run"
    <3>1. OneRun' /\ SentRun' = <<out.n>> /\ SentRun = <<>> /\ Sending = <<out.n>>
      BY <1>0, <2>1, <2>3, RunSent DEF SentRun, Sending
    <3>2. out.n \in Prompts
      BY <2>1, <2>3 DEF CmdMsg
    <3>3. accepted' = ran \o <<out.n>> \o <<>> \o queued
      BY <1>0, <1>t, <2>1, <3>1, <3>2
    <3>4. QED
      BY <2>1, <2>2, <3>1, <3>3 DEF AcceptedRunInOrder, OneRun
  <2>4. CASE out.tag # "run"
    <3>1. OneRun' /\ SentRun' = SentRun /\ Sending = <<>>
      BY <1>0, <2>1, <2>4, RunSent DEF Sending
    <3>2. QED
      BY <1>0, <2>1, <2>2, <3>1 DEF AcceptedRunInOrder, OneRun
  <2>5. QED
    BY <2>3, <2>4
<1>7. QED
  BY <1>2, <1>3, <1>4, <1>5, <1>6 DEF Pump

LEMMA OrderKept == Types /\ InStep /\ AcceptedRunInOrder /\ [Next]_vars => AcceptedRunInOrder'
<1> SUFFICES ASSUME Types, InStep, AcceptedRunInOrder, [Next]_vars PROVE AcceptedRunInOrder'
  OBVIOUS
<1>0. /\ ChannelTypes /\ OneRun /\ accepted = ran \o SentRun \o Sending \o queued
  BY DEF Types, AcceptedRunInOrder, OneRun
<1>t. SentRun \in Seq(Prompts) /\ Sending \in Seq(Prompts) /\ queued \in Seq(Prompts) /\ ran \in Seq(Prompts)
  BY OrderTyped
<1>1. CASE UNCHANGED vars \/ Over
  BY <1>1, OrderFrame DEF Over, vars, channels, pumpVars, driverVars
<1>2. CASE Host
  <2>1. CASE HostJoined
    BY <2>1, OrderFrame DEF HostJoined, channels
  <2>2. CASE UNCHANGED Core
    BY <2>2, OrderFrame DEF Core
  <2>3. QED
    BY <1>2, <2>1, <2>2, HostFrame
<1>3. CASE DriverRun
  <2>1. /\ cmds # <<>> /\ cmds' = Tail(cmds) /\ Head(cmds).tag = "run" /\ ran' = Append(ran, Head(cmds).n)
        /\ UNCHANGED <<queued, accepted, out>>
    BY <1>3 DEF DriverRun, pumpVars
  <2>2. OneRun' /\ SentRun = <<Head(cmds).n>> /\ SentRun' = <<>>
    BY <1>0, <2>1, RunTaken
  <2>3. Head(cmds).n \in Prompts
    BY <1>0, <2>1, Received DEF CmdMsg
  <2>4. Sending' = Sending
    BY <2>1 DEF Sending
  <2>5. accepted' = Append(ran, Head(cmds).n) \o <<>> \o Sending \o queued
    BY <1>0, <1>t, <2>1, <2>2, <2>3
  <2>6. QED
    BY <2>1, <2>2, <2>4, <2>5 DEF AcceptedRunInOrder, OneRun
<1>4. CASE DriverMode \/ DriverCommand
  <2>1. /\ cmds # <<>> /\ cmds' = Tail(cmds) /\ Head(cmds).tag # "run" /\ UNCHANGED <<ran, queued, accepted, out>>
    BY <1>4 DEF DriverMode, DriverCommand, pumpVars, driverVars
  <2>2. OneRun' /\ SentRun' = SentRun /\ Sending' = Sending
    BY <1>0, <2>1, RunTaken DEF Sending
  <2>3. QED
    BY <1>0, <2>1, <2>2 DEF AcceptedRunInOrder, OneRun
<1>5. CASE DriverReport \/ DriverIdle \/ DriverExit \/ Turn \/ TurnAnswered \/ TurnStops
  BY <1>5, OrderFrame DEF DriverReport, DriverIdle, DriverExit, Turn, TurnAsks, TurnEnds, TurnAnswered,
     TurnStops, channels, pumpVars
<1>6. QED
  BY <1>1, <1>2, <1>3, <1>4, <1>5, PumpOrder DEF Next, Driver

-----------------------------------------------------------------------------
(* The mode that is persisted is the mode that is enforced.                *)

ToDriver == Append(cmds, out)

ToDriverShape ==
  /\ ToDriver \in Seq(CmdMsg \cup {NoCmd}) /\ Len(cmds) \in Nat
  /\ Len(ToDriver) = Len(cmds) + 1 /\ DOMAIN ToDriver = 1..(Len(cmds) + 1)
  /\ ToDriver[Len(cmds) + 1] = out /\ \A i \in 1..Len(cmds) : ToDriver[i] = cmds[i]

LEMMA ToDriverIs == Types => ToDriverShape
<1> SUFFICES ASSUME Types PROVE ToDriverShape
  OBVIOUS
<1>1. cmds \in Seq(CmdMsg \cup {NoCmd}) /\ out \in CmdMsg \cup {NoCmd}
  <2>1. cmds \in Seq(CmdMsg) /\ out \in CmdMsg \cup {NoCmd}
    BY DEF Types, ChannelTypes, PumpTypes
  <2>2. QED
    BY <2>1
<1>2. QED
  BY <1>1, Appended DEF ToDriver, ToDriverShape

\* The modes a step leaves on the way when it changes none of them.
LEMMA ModeFrame ==
  ASSUME ModeFollowsEngine, UNCHANGED <<engineMode, sessionMode>>, ModesSent' = ModesSent,
         \A i \in ModesSent : ToDriver'[i] = ToDriver[i]
  PROVE  ModeFollowsEngine'
BY DEF ModeFollowsEngine, ToDriver

LEMMA ModeSame ==
  ASSUME ModeFollowsEngine, UNCHANGED <<engineMode, sessionMode, cmds, out>>
  PROVE  ModeFollowsEngine'
<1>1. ModesSent' = ModesSent /\ ToDriver' = ToDriver
  BY DEF ModesSent, ToDriver
<1>2. QED
  BY <1>1, ModeFrame

LEMMA PumpModeKept == Types /\ InStep /\ ModeFollowsEngine /\ Pump /\ Types' => ModeFollowsEngine'
<1> SUFFICES ASSUME Types, InStep, ModeFollowsEngine, Pump, Types' PROVE ModeFollowsEngine'
  OBVIOUS
<1> USE DEF driverVars, Take
<1>0. /\ Len(cmds) \in Nat /\ DOMAIN ToDriver = 1..(Len(cmds) + 1)
      /\ ToDriver[Len(cmds) + 1] = out /\ \A i \in 1..Len(cmds) : ToDriver[i] = cmds[i]
  BY ToDriverIs DEF ToDriverShape
<1>s. ToDriverShape'
  BY ToDriverIs, PTL
<1>p. /\ Len(cmds') \in Nat /\ DOMAIN ToDriver' = 1..(Len(cmds') + 1)
      /\ ToDriver'[Len(cmds') + 1] = out' /\ \A i \in 1..Len(cmds') : ToDriver'[i] = cmds'[i]
  BY <1>s DEF ToDriverShape
<1>m. /\ ModesSent = {i \in DOMAIN ToDriver : ToDriver[i].tag = "mode"}
      /\ ModesSent' = {i \in DOMAIN ToDriver' : ToDriver'[i].tag = "mode"}
  BY DEF ModesSent, ToDriver
<1>1. CASE PumpFeedback \/ PumpPrompt \/ PumpCommand
  <2>1. pump = "recv" /\ out = NoCmd /\ UNCHANGED <<cmds, engineMode, sessionMode>>
    BY <1>1 DEF PumpFeedback, PumpPrompt, PumpCommand, InStep
  <2>2. CASE PumpFeedback
    <3>1. out'.tag # "mode" /\ out.tag # "mode"
      BY <2>1, <2>2 DEF PumpFeedback, start_turn, Msg, NoCmd
    <3>2. ModesSent' = ModesSent /\ \A i \in ModesSent : ToDriver'[i] = ToDriver[i]
      BY <1>0, <1>p, <1>m, <2>1, <3>1
    <3>3. QED
      BY <2>1, <3>2, ModeFrame
  <2>3. CASE PumpPrompt
    <3>1. out'.tag # "mode" /\ out.tag # "mode"
      BY <2>1, <2>3 DEF PumpPrompt, start_turn, Msg, NoCmd
    <3>2. ModesSent' = ModesSent /\ \A i \in ModesSent : ToDriver'[i] = ToDriver[i]
      BY <1>0, <1>p, <1>m, <2>1, <3>1
    <3>3. QED
      BY <2>1, <3>2, ModeFrame
  <2>4. CASE PumpCommand
    <3>1. out'.tag # "mode" /\ out.tag # "mode"
      BY <2>1, <2>4 DEF PumpCommand, Msg, NoCmd
    <3>2. ModesSent' = ModesSent /\ \A i \in ModesSent : ToDriver'[i] = ToDriver[i]
      BY <1>0, <1>p, <1>m, <2>1, <3>1
    <3>3. QED
      BY <2>1, <3>2, ModeFrame
  <2>5. QED
    BY <1>1, <2>2, <2>3, <2>4
<1>2. CASE PumpCancel \/ PumpAnswer \/ PumpQuit
  BY <1>2, ModeSame DEF PumpCancel, PumpAnswer, PumpQuit
<1>3. CASE PumpMode
  <2>1. cmds' = cmds /\ engineMode' = Head(actions).n /\ out'.tag = "mode" /\ out'.n = Head(actions).n
    BY <1>3 DEF PumpMode, Msg
  <2>2. Len(cmds) + 1 \in ModesSent' /\ ToDriver'[Len(cmds) + 1].n = engineMode'
    BY <1>0, <1>p, <1>m, <2>1
  <2>3. \A i \in ModesSent' : i <= Len(cmds) + 1 /\ i \in Nat
    BY <1>0, <1>p, <1>m, <2>1
  <2>4. \A i \in ModesSent' : (\A j \in ModesSent' : j <= i) => i = Len(cmds) + 1
    BY <1>0, <2>2, <2>3
  <2>5. QED
    BY <2>2, <2>4 DEF ModeFollowsEngine, ToDriver
<1>4. CASE PumpSend
  <2>1. /\ cmds' = Append(cmds, out) /\ out' = NoCmd /\ UNCHANGED <<engineMode, sessionMode>>
        /\ out'.tag # "mode"
    BY <1>4 DEF PumpSend, NoCmd, Msg
  <2>2. cmds' = ToDriver /\ Len(cmds') = Len(cmds) + 1
    BY <2>1, ToDriverIs DEF ToDriver, ToDriverShape
  <2>3. ModesSent' = ModesSent /\ \A i \in ModesSent : ToDriver'[i] = ToDriver[i]
    BY <1>0, <1>p, <1>m, <2>1, <2>2
  <2>4. QED
    BY <2>1, <2>3, ModeFrame
<1>5. QED
  BY <1>1, <1>2, <1>3, <1>4 DEF Pump

LEMMA ModeKept == Types /\ InStep /\ ModeFollowsEngine /\ [Next]_vars /\ Types' => ModeFollowsEngine'
<1> SUFFICES ASSUME Types, InStep, ModeFollowsEngine, [Next]_vars, Types' PROVE ModeFollowsEngine'
  OBVIOUS
<1>1. CASE UNCHANGED vars \/ Over
  BY <1>1, ModeSame DEF Over, vars, channels, pumpVars, driverVars
<1>2. CASE Host
  <2>1. CASE HostJoined
    BY <2>1, ModeSame DEF HostJoined, channels
  <2>2. CASE UNCHANGED Core
    BY <2>2, ModeSame DEF Core
  <2>3. QED
    BY <1>2, <2>1, <2>2, HostFrame
<1>3. CASE DriverRun \/ DriverMode \/ DriverCommand
  <2>0. /\ Len(cmds) \in Nat /\ DOMAIN ToDriver = 1..(Len(cmds) + 1)
        /\ ToDriver[Len(cmds) + 1] = out /\ \A i \in 1..Len(cmds) : ToDriver[i] = cmds[i]
    BY ToDriverIs DEF ToDriverShape
  <2>s. ToDriverShape'
    BY ToDriverIs, PTL
  <2>p. /\ DOMAIN ToDriver' = 1..(Len(cmds') + 1)
        /\ ToDriver'[Len(cmds') + 1] = out' /\ \A i \in 1..Len(cmds') : ToDriver'[i] = cmds'[i]
    BY <2>s DEF ToDriverShape
  <2>m. /\ ModesSent = {i \in DOMAIN ToDriver : ToDriver[i].tag = "mode"}
        /\ ModesSent' = {i \in DOMAIN ToDriver' : ToDriver'[i].tag = "mode"}
    BY DEF ModesSent, ToDriver
  <2>1. cmds # <<>> /\ cmds' = Tail(cmds) /\ UNCHANGED <<out, engineMode>>
    BY <1>3 DEF DriverRun, DriverMode, DriverCommand, pumpVars
  <2>2. /\ Head(cmds) = cmds[1] /\ Len(cmds) \in Nat \ {0} /\ Len(cmds') = Len(cmds) - 1
        /\ \A i \in 1..(Len(cmds) - 1) : cmds'[i] = cmds[i + 1]
    BY <2>1, Popped DEF Types, ChannelTypes
  <2>3. \A i \in 1..Len(cmds) : ToDriver'[i] = ToDriver[i + 1]
    <3> SUFFICES ASSUME NEW i \in 1..Len(cmds) PROVE ToDriver'[i] = ToDriver[i + 1]
      OBVIOUS
    <3>1. CASE i = Len(cmds)
      <4>1. i = Len(cmds') + 1
        BY <2>2, <3>1
      <4>2. ToDriver'[i] = out' /\ ToDriver[i + 1] = out
        BY <2>0, <2>p, <3>1, <4>1
      <4>3. QED
        BY <2>1, <4>2
    <3>2. CASE i # Len(cmds)
      <4>1. i \in 1..(Len(cmds) - 1) /\ i \in 1..Len(cmds') /\ i + 1 \in 1..Len(cmds)
        BY <2>2, <3>2
      <4>2. ToDriver'[i] = cmds'[i] /\ cmds'[i] = cmds[i + 1] /\ ToDriver[i + 1] = cmds[i + 1]
        BY <2>0, <2>p, <2>2, <4>1
      <4>3. QED
        BY <4>2
    <3>3. QED
      BY <3>1, <3>2
  <2>4. /\ \A i \in ModesSent' : i + 1 \in ModesSent /\ i \in Nat /\ ToDriver'[i] = ToDriver[i + 1]
        /\ \A i \in ModesSent : i # 1 => i - 1 \in ModesSent'
        /\ ModesSent \subseteq Nat
    BY <2>0, <2>p, <2>m, <2>2, <2>3
  <2>5. ASSUME NEW i \in ModesSent', \A j \in ModesSent' : j <= i
        PROVE  ToDriver'[i].n = engineMode'
    <3>1. ASSUME NEW j \in ModesSent PROVE j <= i + 1
      BY <2>4, <2>5, <3>1
    <3>2. ToDriver[i + 1].n = engineMode
      BY <2>4, <2>5, <3>1 DEF ModeFollowsEngine, ToDriver
    <3>3. QED
      BY <2>1, <2>4, <2>5, <3>2
  <2>6. ModesSent' = {} => engineMode' = sessionMode'
    <3> SUFFICES ASSUME ModesSent' = {} PROVE engineMode' = sessionMode'
      OBVIOUS
    <3>1. \A j \in ModesSent : j = 1
      BY <2>4
    <3>2. CASE DriverMode
      <4>1. Head(cmds).tag = "mode" /\ sessionMode' = Head(cmds).n
        BY <3>2 DEF DriverMode
      <4>2. 1 \in ModesSent /\ ToDriver[1] = Head(cmds)
        BY <2>0, <2>m, <2>2, <4>1
      <4>3. ToDriver[1].n = engineMode
        BY <3>1, <4>2 DEF ModeFollowsEngine, ToDriver
      <4>4. QED
        BY <2>1, <4>1, <4>2, <4>3
    <3>3. CASE DriverRun \/ DriverCommand
      <4>1. Head(cmds).tag # "mode" /\ sessionMode' = sessionMode
        BY <3>3 DEF DriverRun, DriverCommand, driverVars
      <4>2. ModesSent = {}
        <5>1. 1 \notin ModesSent
          BY <2>0, <2>m, <2>2, <4>1
        <5>2. QED
          BY <3>1, <5>1
      <4>3. QED
        BY <2>1, <4>1, <4>2 DEF ModeFollowsEngine
    <3>4. QED
      BY <1>3, <3>2, <3>3
  <2>7. QED
    BY <2>5, <2>6 DEF ModeFollowsEngine, ToDriver
<1>4. CASE DriverReport \/ DriverIdle \/ DriverExit \/ Turn \/ TurnAnswered \/ TurnStops
  BY <1>4, ModeSame DEF DriverReport, DriverIdle, DriverExit, Turn, TurnAsks, TurnEnds, TurnAnswered,
     TurnStops, channels, pumpVars
<1>5. QED
  BY <1>1, <1>2, <1>3, <1>4, PumpModeKept DEF Next, Driver

-----------------------------------------------------------------------------
(* An ask that waits can be answered.                                      *)

LEMMA AskKept == Types /\ AskAnswerable /\ [Next]_vars => AskAnswerable'
<1> SUFFICES ASSUME Types, AskAnswerable, [Next]_vars PROVE AskAnswerable'
  OBVIOUS
<1> DEFINE Open == driver = "ask" => (next_id - 1 \in pending <=> reply = "none")
<1>0. Open /\ next_id \in Nat
  BY RuntimeAssumption DEF AskAnswerable, Types, DriverTypes
<1>1. SUFFICES Open'
  BY <1>1 DEF AskAnswerable
<1> HIDE DEF AskAnswerable
<1>2. CASE UNCHANGED <<driver, pending, next_id, reply>>
  BY <1>0, <1>2
<1>3. CASE PumpCancel \/ PumpQuit
  <2>1. /\ driver' = driver /\ next_id' = next_id /\ pending' = {}
        /\ reply' = IF driver = "ask" /\ next_id - 1 \in pending THEN "deny" ELSE reply
    BY <1>3 DEF PumpCancel, PumpQuit, drain_cancel, Take, driverVars
  <2>2. QED
    BY <1>0, <2>1
<1>4. CASE PumpAnswer
  <2>1. Head(actions) \in ActionMsg /\ Head(actions).tag \in {"answer"}
    BY <1>4, Taken, Zenon DEF PumpAnswer
  <2>2. Head(actions).how # "none"
    BY <2>1 DEF ActionMsg
  <2>3. /\ driver' = driver /\ next_id' = next_id /\ pending' = pending \ {Head(actions).n}
        /\ reply' = IF driver = "ask" /\ Head(actions).n = next_id - 1 /\ Head(actions).n \in pending
                      THEN Head(actions).how ELSE reply
    BY <1>4 DEF PumpAnswer, Take, driverVars
  <2>4. QED
    BY <1>0, <2>2, <2>3
<1>5. CASE TurnAsks
  <2>1. next_id' = next_id + 1 /\ pending' = pending \cup {next_id} /\ reply' = "none"
    BY <1>5 DEF TurnAsks
  <2>2. QED
    BY <1>0, <2>1
<1>6. CASE HostJoined \/ DriverRun \/ TurnAnswered \/ TurnEnds \/ TurnStops \/ DriverReport \/ DriverIdle
           \/ DriverExit
  <2>1. driver' # "ask"
    BY <1>6 DEF HostJoined, DriverRun, TurnAnswered, TurnEnds, TurnStops, DriverReport, DriverIdle, DriverExit
  <2>2. QED
    BY <2>1
<1>7. CASE PumpFeedback \/ PumpPrompt \/ PumpMode \/ PumpCommand \/ PumpSend \/ DriverMode \/ DriverCommand
  BY <1>2, <1>7 DEF PumpFeedback, PumpPrompt, PumpMode, PumpCommand, PumpSend, DriverMode, DriverCommand,
     Take, driverVars, askVars
<1>8. CASE Host
  BY <1>2, <1>6, <1>8, HostFrame DEF Core
<1>9. CASE UNCHANGED vars \/ Over
  BY <1>2, <1>9 DEF Over, vars, driverVars, askVars
<1>10. QED
  BY <1>3, <1>4, <1>5, <1>6, <1>7, <1>8, <1>9 DEF Next, Pump, Driver, Turn

-----------------------------------------------------------------------------
(* The theorems.                                                           *)

LEMMA IInvKept == IInv /\ [Next]_vars => IInv'
<1> SUFFICES ASSUME IInv, [Next]_vars PROVE IInv'
  OBVIOUS
<1>0. Types /\ InStep /\ AcceptedRunInOrder /\ ModeFollowsEngine /\ AskAnswerable /\ OneRun
  BY DEF IInv, AcceptedRunInOrder, OneRun
<1>1. Types'
  BY <1>0, TypesKept
<1>2. InStep'
  BY <1>0, InStepKept
<1>3. AcceptedRunInOrder'
  BY <1>0, OrderKept
<1>4. ModeFollowsEngine'
  BY <1>0, <1>1, ModeKept
<1>5. AskAnswerable'
  BY <1>0, AskKept
<1>6. QED
  BY <1>1, <1>2, <1>3, <1>4, <1>5 DEF IInv

LEMMA IInvHolds == Spec => []IInv
<1>1. Init => IInv
  BY InitIInv
<1>2. IInv /\ [Next]_vars => IInv'
  BY IInvKept
<1>3. QED
  BY <1>1, <1>2, PTL DEF Spec

\* No channel ever holds more than its capacity, and every variable has its type:
\* actions, commands and feedback stay within 64, 16 and 4 whatever those are.
THEOREM TypeCorrect == Spec => []TypeOK
<1>1. Types => TypeOK
  <2> SUFFICES ASSUME Types PROVE TypeOK
    OBVIOUS
  <2>1. actions \in Seq(Message({"submit", "queue", "cancel", "mode", "answer", "edit", "show", "quit"}, Nat))
    BY DEF Types, ChannelTypes, ActionMsg
  <2>2. cmds \in Seq(Message({"run", "mode", "edit", "show"}, Nat))
    BY DEF Types, ChannelTypes, CmdMsg
  <2>3. {engineMode, sessionMode, viewMode} \subseteq Modes
    BY DEF Types, DriverTypes, HostTypes
  <2>4. busy \in BOOLEAN
    BY DEF Types, HostTypes
  <2>5. QED
    BY <2>1, <2>2, <2>3, <2>4 DEF Types, TypeOK, ChannelTypes, PumpTypes, DriverTypes, HostTypes, Prompts
<1>2. IInv => Types
  BY DEF IInv
<1>3. QED
  BY <1>1, <1>2, IInvHolds, PTL

\* The driver is in step with the pump (pump.rs, runtime.rs): the cancel token the
\* pump holds is the running turn's, accepted prompts run once and in order, and
\* the mode in force is the one that gets persisted.
THEOREM InStepAlways == Spec => []DriverInStep
<1>1. IInv => DriverInStep
  <2> SUFFICES ASSUME IInv PROVE DriverInStep
    OBVIOUS
  <2>1. TokenReachesTurn
    <3> SUFFICES ASSUME pump # "gone", driver # "gone"
                 PROVE  /\ driver \in {"run", "ask", "report"} => active = turn /\ Runs = {}
                        /\ \A i \in Runs : cmds[i].n = active
                        /\ (pump = "send" /\ out.tag = "run") => driver \in {"recv", "idle"} /\ Runs = {}
      BY DEF TokenReachesTurn
    <3>1. InStep /\ \A i, j \in Runs : i = j
      BY DEF IInv, AcceptedRunInOrder
    <3>2. CASE active = 0
      BY <3>1, <3>2 DEF InStep
    <3>3. CASE active # 0
      BY <3>1, <3>3 DEF InStep, OnItsWay, InDriver, ComingBack
    <3>4. QED
      BY <3>2, <3>3
  <2>2. QED
    BY <2>1 DEF IInv, DriverInStep
<1>2. QED
  BY <1>1, IInvHolds, PTL

\* Nobody waits for what cannot come: the feedback channel has room whenever the
\* driver reports, and an ask that waits is answered or still in the map.
THEOREM NobodyStrandedAlways == Spec => []NobodyStranded
<1>1. IInv => NobodyStranded
  <2> SUFFICES ASSUME IInv PROVE NobodyStranded
    OBVIOUS
  <2>1. ASSUME driver = "report", pump # "gone" PROVE Len(feedback) < FeedbackCap
    <3>1. feedback = <<>>
      BY <2>1 DEF IInv, InStep, OnItsWay, InDriver, ComingBack
    <3>2. QED
      BY <3>1, RuntimeAssumption
  <2>2. QED
    BY <2>1 DEF IInv, NobodyStranded, NoMutualWait
<1>2. QED
  BY <1>1, IInvHolds, PTL

-----------------------------------------------------------------------------
(* The composer.  A text is fine, for the bursts f of the characters typed *)
(* so far and the deleted ones D, when it names characters that were       *)
(* typed, in their order, and with one of a burst all the others that were *)
(* not deleted; it is old when the burst b in progress has none of its own *)
(* in it.                                                                  *)

Whole(t, f, D) == \A i \in Ids(t), j \in 1..Len(f) : f[i] = f[j] => j \in Ids(t) \cup D
Rises(t) == \A i, j \in 1..Len(t) : i < j /\ t[i] > 0 /\ t[j] > 0 => t[i] < t[j]
Fine(t, f, D) == Ids(t) \subseteq 1..Len(f) /\ Rises(t) /\ Whole(t, f, D)
Old(t, f, b) == \A i \in Ids(t) : f[i] < b

LEMMA IdsNone == Ids(<<>>) = {}
BY DEF Ids, Range

LEMMA IdsAppend ==
  ASSUME NEW t, t \in Seq(Int), NEW x \in Int
  PROVE  Ids(Append(t, x)) = Ids(t) \cup (IF x > 0 THEN {x} ELSE {})
<1>1. PICK q : q = Append(t, x)
  OBVIOUS
<1>2. q \in Seq(Int) /\ Len(q) = Len(t) + 1 /\ q[Len(t) + 1] = x /\ Len(t) \in Nat /\ \A i \in 1..Len(t) : q[i] = t[i]
  BY <1>1, AppendProperties
<1>3. DOMAIN q = 1..Len(t) + 1 /\ DOMAIN t = 1..Len(t)
  BY <1>2
<1>4. Range(q) = Range(t) \cup {x}
  <2>1. ASSUME NEW y \in Range(q) PROVE y \in Range(t) \cup {x}
    <3>1. PICK i \in 1..Len(t) + 1 : y = q[i]
      BY <1>3, <2>1 DEF Range
    <3>2. CASE i = Len(t) + 1
      BY <1>2, <3>1, <3>2
    <3>3. CASE i # Len(t) + 1
      <4>1. i \in 1..Len(t)
        BY <1>2, <3>3
      <4>2. QED
        BY <1>2, <1>3, <3>1, <4>1 DEF Range
    <3>4. QED
      BY <3>2, <3>3
  <2>2. ASSUME NEW y \in Range(t) PROVE y \in Range(q)
    <3>1. PICK i \in 1..Len(t) : y = t[i]
      BY <1>3, <2>2 DEF Range
    <3>2. i \in 1..Len(t) + 1 /\ q[i] = y
      BY <1>2, <3>1
    <3>3. QED
      BY <1>3, <3>2 DEF Range
  <2>3. x \in Range(q)
    <3>1. Len(t) + 1 \in 1..Len(t) + 1
      BY <1>2
    <3>2. QED
      BY <1>2, <1>3, <3>1 DEF Range
  <2>4. QED
    BY <2>1, <2>2, <2>3
<1>5. QED
  BY <1>1, <1>4 DEF Ids

LEMMA RisesAppend ==
  ASSUME NEW t, t \in Seq(Int), NEW x \in Int, Rises(t), x > 0 => \A i \in Ids(t) : i < x
  PROVE  Rises(Append(t, x))
<1>1. PICK q : q = Append(t, x)
  OBVIOUS
<1>2. PICK L \in Nat : L = Len(t)
  OBVIOUS
<1>3. q \in Seq(Int) /\ Len(q) = L + 1 /\ q[L + 1] = x /\ \A i \in 1..L : q[i] = t[i]
  BY <1>1, <1>2, AppendProperties
<1>4. ASSUME NEW i \in 1..L + 1, NEW j \in 1..L + 1, i < j, q[i] > 0, q[j] > 0 PROVE q[i] < q[j]
  <2>1. i \in 1..L /\ q[i] = t[i]
    BY <1>3, <1>4
  <2>2. CASE j = L + 1
    <3>1. t[i] \in Ids(t)
      BY <1>2, <1>4, <2>1 DEF Ids, Range
    <3>2. QED
      BY <1>3, <1>4, <2>1, <2>2, <3>1
  <2>3. CASE j # L + 1
    <3>1. j \in 1..L /\ q[j] = t[j]
      BY <1>3, <2>3
    <3>2. QED
      BY <1>2, <1>4, <2>1, <3>1 DEF Rises
  <2>4. QED
    BY <2>2, <2>3
<1>5. QED
  BY <1>1, <1>3, <1>4 DEF Rises

\* A newline, or a command, adds no character.
LEMMA FineMark ==
  ASSUME NEW t, t \in Seq(Int), NEW f, NEW D, Fine(t, f, D), NEW x \in {0, -1}
  PROVE  Fine(Append(t, x), f, D) /\ Ids(Append(t, x)) = Ids(t)
<1>0. x \in Int /\ ~(x > 0)
  OBVIOUS
<1>1. Ids(Append(t, x)) = Ids(t)
  <2>1. Ids(Append(t, x)) = Ids(t) \cup (IF x > 0 THEN {x} ELSE {})
    BY <1>0, IdsAppend
  <2>2. QED
    BY <1>0, <2>1
<1>2. Rises(Append(t, x))
  BY <1>0, RisesAppend DEF Fine
<1>3. QED
  BY <1>1, <1>2 DEF Fine, Whole

\* A character of the burst in progress, after all of it that was not deleted.
LEMMA FineTyping ==
  ASSUME NEW t, t \in Seq(Int), NEW f, f \in Seq(Nat), NEW D, NEW b \in Nat, Fine(t, f, D),
         \A j \in 1..Len(f) : f[j] = b => j \in Ids(t) \cup D
  PROVE  /\ Fine(Append(t, Len(f) + 1), Append(f, b), D)
         /\ \A j \in 1..Len(Append(f, b)) : Append(f, b)[j] = b => j \in Ids(Append(t, Len(f) + 1)) \cup D
<1>1. PICK L \in Nat : L = Len(f)
  OBVIOUS
<1>2. PICK g : g = Append(f, b)
  OBVIOUS
<1>3. g \in Seq(Nat) /\ Len(g) = L + 1 /\ g[L + 1] = b /\ \A i \in 1..L : g[i] = f[i]
  BY <1>1, <1>2, AppendProperties
<1>4. PICK q : q = Append(t, L + 1)
  OBVIOUS
<1>5. Ids(q) = Ids(t) \cup {L + 1}
  BY <1>1, <1>4, IdsAppend
<1>6. Ids(t) \subseteq 1..L
  BY <1>1 DEF Fine
<1>7. Rises(q)
  <2>1. \A i \in Ids(t) : i < L + 1
    BY <1>6
  <2>2. QED
    BY <1>4, <2>1, RisesAppend DEF Fine
<1>8. Ids(q) \subseteq 1..L + 1
  BY <1>5, <1>6
<1>9. ASSUME NEW j \in 1..L + 1, g[j] = b PROVE j \in Ids(q) \cup D
  <2>1. CASE j = L + 1
    BY <1>5, <2>1
  <2>2. CASE j # L + 1
    <3>1. j \in 1..L /\ f[j] = b
      BY <1>3, <1>9, <2>2
    <3>2. QED
      BY <1>1, <1>5, <3>1
  <2>3. QED
    BY <2>1, <2>2
<1>10. ASSUME NEW i \in Ids(q), NEW j \in 1..L + 1, g[i] = g[j] PROVE j \in Ids(q) \cup D
  <2>1. CASE i = L + 1
    BY <1>3, <1>9, <1>10, <2>1
  <2>2. CASE i # L + 1
    <3>1. i \in Ids(t) /\ i \in 1..L
      BY <1>5, <1>6, <2>2
    <3>2. CASE j = L + 1
      BY <1>5, <3>2
    <3>3. CASE j # L + 1
      <4>1. j \in 1..L /\ f[i] = f[j]
        BY <1>3, <1>10, <3>1, <3>3
      <4>2. j \in Ids(t) \cup D
        BY <1>1, <3>1, <4>1 DEF Fine, Whole
      <4>3. QED
        BY <1>5, <4>2
    <3>4. QED
      BY <3>2, <3>3
  <2>3. QED
    BY <2>1, <2>2
<1>11. Fine(q, g, D)
  BY <1>3, <1>7, <1>8, <1>10 DEF Fine, Whole
<1>12. QED
  BY <1>1, <1>2, <1>3, <1>4, <1>9, <1>11

\* A character of the burst in progress leaves an old text fine and old.
LEMMA FineOld ==
  ASSUME NEW t, NEW f, f \in Seq(Nat), NEW D, NEW b \in Nat, Fine(t, f, D), Old(t, f, b)
  PROVE  Fine(t, Append(f, b), D) /\ Old(t, Append(f, b), b)
<1>1. PICK L \in Nat : L = Len(f)
  OBVIOUS
<1>2. PICK g : g = Append(f, b)
  OBVIOUS
<1>3. g \in Seq(Nat) /\ Len(g) = L + 1 /\ g[L + 1] = b /\ \A i \in 1..L : g[i] = f[i]
  BY <1>1, <1>2, AppendProperties
<1>4. ASSUME NEW i \in Ids(t) PROVE i \in 1..L /\ g[i] = f[i] /\ g[i] < b /\ g[i] \in Nat
  <2>1. i \in 1..L /\ f[i] < b
    BY <1>1 DEF Fine, Old
  <2>2. f[i] \in Nat
    BY <1>1, <2>1, ElementOfSeq
  <2>3. QED
    BY <1>3, <2>1, <2>2
<1>5. ASSUME NEW i \in Ids(t), NEW j \in 1..L + 1, g[i] = g[j] PROVE j \in Ids(t) \cup D
  <2>1. j # L + 1
    BY <1>3, <1>4, <1>5
  <2>2. j \in 1..L /\ f[i] = f[j]
    BY <1>3, <1>4, <1>5, <2>1
  <2>3. QED
    BY <1>1, <2>2 DEF Fine, Whole
<1>6. Ids(t) \subseteq 1..L + 1
  BY <1>4
<1>7. Fine(t, g, D)
  BY <1>3, <1>5, <1>6 DEF Fine, Whole
<1>8. QED
  BY <1>2, <1>4, <1>7 DEF Old

LEMMA FineMore ==
  ASSUME NEW t, NEW f, NEW D, NEW E, D \subseteq E, Fine(t, f, D) PROVE Fine(t, f, E)
BY DEF Fine, Whole

LEMMA FineNone == ASSUME NEW f, NEW D, NEW b PROVE Fine(<<>>, f, D) /\ Old(<<>>, f, b)
BY IdsNone DEF Fine, Whole, Old, Rises

\* What a deletion takes off the end is deleted.
LEMMA FineCut ==
  ASSUME NEW t, t \in Seq(Int), NEW f, NEW D, Fine(t, f, D), NEW n \in 0..Len(t)
  PROVE  Fine(SubSeq(t, 1, n), f, D \cup Ids(SubSeq(t, n + 1, Len(t))))
<1>1. PICK L \in Nat : L = Len(t) /\ DOMAIN t = 1..L /\ n \in 0..L
  OBVIOUS
<1>2. PICK a : a = SubSeq(t, 1, n)
  OBVIOUS
<1>3. a \in Seq(Int) /\ Len(a) = n /\ DOMAIN a = 1..n /\ \A i \in 1..n : a[i] = t[i]
  BY <1>1, <1>2
<1>4. PICK c : c = SubSeq(t, n + 1, L)
  OBVIOUS
<1>5. c \in Seq(Int) /\ Len(c) = L - n /\ DOMAIN c = 1..L - n /\ \A i \in 1..L - n : c[i] = t[n + i]
  BY <1>1, <1>4
<1>6. Ids(a) \subseteq Ids(t)
  <2>1. ASSUME NEW y \in Ids(a) PROVE y \in Ids(t)
    <3>1. PICK i \in 1..n : y = a[i] /\ y > 0
      BY <1>3, <2>1 DEF Ids, Range
    <3>2. i \in 1..L /\ y = t[i]
      BY <1>1, <1>3, <3>1
    <3>3. QED
      BY <1>1, <3>1, <3>2 DEF Ids, Range
  <2>2. QED
    BY <2>1
<1>7. Ids(t) \subseteq Ids(a) \cup Ids(c)
  <2>1. ASSUME NEW y \in Ids(t) PROVE y \in Ids(a) \cup Ids(c)
    <3>1. PICK i \in 1..L : y = t[i] /\ y > 0
      BY <1>1, <2>1 DEF Ids, Range
    <3>2. CASE i <= n
      <4>1. i \in 1..n /\ y = a[i]
        BY <1>3, <3>1, <3>2
      <4>2. QED
        BY <1>3, <3>1, <4>1 DEF Ids, Range
    <3>3. CASE ~(i <= n)
      <4>1. PICK k \in 1..L - n : i = n + k
        <5>1. i - n \in 1..L - n /\ i = n + (i - n)
          BY <1>1, <3>3
        <5>2. QED
          BY <5>1
      <4>2. y = c[k]
        BY <1>5, <3>1, <4>1
      <4>3. QED
        BY <1>5, <3>1, <4>1, <4>2 DEF Ids, Range
    <3>4. QED
      BY <3>2, <3>3
  <2>2. QED
    BY <2>1
<1>8. Rises(a)
  <2>1. ASSUME NEW i \in 1..n, NEW j \in 1..n, i < j, a[i] > 0, a[j] > 0 PROVE a[i] < a[j]
    <3>1. i \in 1..L /\ j \in 1..L /\ a[i] = t[i] /\ a[j] = t[j]
      BY <1>1, <1>3
    <3>2. QED
      BY <1>1, <2>1, <3>1 DEF Fine, Rises
  <2>2. QED
    BY <1>3, <2>1 DEF Rises
<1>9. Whole(a, f, D \cup Ids(c))
  BY <1>6, <1>7 DEF Fine, Whole
<1>10. Ids(a) \subseteq 1..Len(f)
  BY <1>6 DEF Fine
<1>11. QED
  BY <1>1, <1>2, <1>4, <1>8, <1>9, <1>10 DEF Fine

FineTexts(f, D) == {t \in Seq(Int) : Fine(t, f, D)}
OldTexts(f, D, b) == {t \in FineTexts(f, D) : Old(t, f, b)}

\* The App with drafts of F, and with O behind it: what it may send, recall or repeat.
AppRecords(F, O) ==
  [draft : F, staged : F, hist : Seq(O), pos : Nat, stash : O, queued : Seq(O),
   armed : BOOLEAN, busy : BOOLEAN, ask : BOOLEAN]
AppFits(a, F, O) ==
  /\ a \in AppRecords(F, O)
  /\ a.pos <= Len(a.hist)
  /\ a.staged # <<>> => a.draft = <<>>

\* What was typed of the burst in progress is in front of the user, or deleted.
AtHand(a, f, b, D) == \A j \in 1..Len(f) : f[j] = b => j \in Ids(a.draft) \cup Ids(a.staged) \cup D

GhostTypes ==
  /\ ghost = [burst |-> ghost.burst, of |-> ghost.of, sent |-> ghost.sent, deleted |-> ghost.deleted]
  /\ ghost.burst \in Nat
  /\ ghost.of \in Seq(Nat)
  /\ \A j \in 1..Len(ghost.of) : ghost.of[j] <= ghost.burst
ComposerInv ==
  /\ GhostTypes
  /\ AppFits(app, FineTexts(ghost.of, ghost.deleted), OldTexts(ghost.of, ghost.deleted, ghost.burst))
  /\ ghost.sent \subseteq OldTexts(ghost.of, ghost.deleted, ghost.burst)
  /\ AtHand(app, ghost.of, ghost.burst, ghost.deleted)

LEMMA SeqOfMore == ASSUME NEW S, NEW T, S \subseteq T, NEW q \in Seq(S) PROVE q \in Seq(T)
<1>1. Len(q) \in Nat /\ q = [i \in 1..Len(q) |-> q[i]] /\ \A i \in 1..Len(q) : q[i] \in T
  OBVIOUS
<1>2. QED
  BY <1>1, IsASeq

LEMMA FitsMore ==
  ASSUME NEW F, NEW O, NEW G, NEW P, F \subseteq G, O \subseteq P, NEW a, AppFits(a, F, O)
  PROVE  AppFits(a, G, P)
<1>1. a \in AppRecords(F, O)
  BY DEF AppFits
<1>2. a.hist \in Seq(P) /\ a.queued \in Seq(P)
  BY <1>1, SeqOfMore DEF AppRecords
<1>3. a \in AppRecords(G, P)
  BY <1>1, <1>2 DEF AppRecords
<1>4. QED
  BY <1>3 DEF AppFits

LEMMA FitsWider == ASSUME NEW F, NEW G, F \subseteq G, NEW a, AppFits(a, F, F) PROVE AppFits(a, G, G)
BY FitsMore

LEMMA TextsMore ==
  ASSUME NEW f, NEW D, NEW E, D \subseteq E
  PROVE  FineTexts(f, D) \subseteq FineTexts(f, E)
BY FineMore DEF FineTexts

\* When the burst ends every text is old.
LEMMA TextsLater ==
  ASSUME NEW f, f \in Seq(Nat), NEW D, NEW b \in Nat, \A j \in 1..Len(f) : f[j] <= b
  PROVE  FineTexts(f, D) = OldTexts(f, D, b + 1)
<1>1. ASSUME NEW t \in FineTexts(f, D), NEW i \in Ids(t) PROVE f[i] < b + 1
  <2>1. i \in 1..Len(f)
    BY <1>1 DEF FineTexts, Fine
  <2>2. f[i] \in Nat /\ f[i] <= b
    BY <2>1, ElementOfSeq
  <2>3. QED
    BY <2>2
<1>2. QED
  BY <1>1 DEF OldTexts, Old

LEMMA TextsTyped ==
  ASSUME NEW f, f \in Seq(Nat), NEW D, NEW b \in Nat
  PROVE  OldTexts(f, D, b) \subseteq OldTexts(Append(f, b), D, b)
BY FineOld DEF OldTexts, FineTexts

LEMMA TextsNone ==
  ASSUME NEW f, NEW D, NEW b PROVE <<>> \in OldTexts(f, D, b) /\ OldTexts(f, D, b) \subseteq FineTexts(f, D)
BY FineNone DEF OldTexts, FineTexts

\* A key that ends the burst, or the end of the window: the new App need only be fine.
LEMMA BurstEnds ==
  ASSUME ComposerInv, NEW E, ghost.deleted \subseteq E, NEW S,
         S \subseteq ghost.sent \cup FineTexts(ghost.of, E),
         ghost' = [ghost EXCEPT !.burst = @ + 1, !.sent = S, !.deleted = E],
         AppFits(app', FineTexts(ghost.of, E), FineTexts(ghost.of, E))
  PROVE  ComposerInv'
<1>1. PICK b, f, D : b = ghost.burst /\ f = ghost.of /\ D = ghost.deleted /\ b \in Nat /\ f \in Seq(Nat)
  BY DEF ComposerInv, GhostTypes
<1>2. \A j \in 1..Len(f) : f[j] <= b /\ f[j] \in Nat
  BY <1>1, ElementOfSeq DEF ComposerInv, GhostTypes
<1>3. ghost'.burst = b + 1 /\ ghost'.of = f /\ ghost'.sent = S /\ ghost'.deleted = E
      /\ ghost' = [burst |-> b + 1, of |-> f, sent |-> S, deleted |-> E]
  BY <1>1 DEF ComposerInv, GhostTypes
<1>4. FineTexts(f, E) = OldTexts(f, E, b + 1)
  BY <1>1, <1>2, TextsLater
<1>5. \A j \in 1..Len(f) : f[j] <= b + 1 /\ f[j] # b + 1
  <2>1. PICK k \in Nat : k = b
    BY <1>1
  <2>2. QED
    BY <1>2, <2>1
<1>6. GhostTypes'
  <2>1. (ghost = [burst |-> ghost.burst, of |-> ghost.of, sent |-> ghost.sent, deleted |-> ghost.deleted])'
    BY <1>3, Zenon
  <2>2. ghost'.burst \in Nat /\ ghost'.of \in Seq(Nat)
    BY <1>1, <1>3
  <2>3. \A j \in 1..Len(ghost'.of) : ghost'.of[j] <= ghost'.burst
    BY <1>3, <1>5
  <2>4. QED
    BY <2>1, <2>2, <2>3 DEF GhostTypes
<1>7. S \subseteq OldTexts(f, E, b + 1)
  <2>1. ghost.sent \subseteq FineTexts(f, D)
    BY <1>1 DEF ComposerInv, OldTexts
  <2>2. FineTexts(f, D) \subseteq FineTexts(f, E)
    BY <1>1, TextsMore
  <2>3. QED
    BY <1>1, <1>4, <2>1, <2>2
<1>8. AppFits(app', FineTexts(f, E), OldTexts(f, E, b + 1))
  BY <1>1, <1>4
<1>9. AtHand(app', f, b + 1, E)
  BY <1>5 DEF AtHand
<1>10. QED
  BY <1>3, <1>6, <1>7, <1>8, <1>9 DEF ComposerInv

LEMMA PressInv ==
  ASSUME ComposerInv, NEW a, NEW t, NEW X, t \in FineTexts(ghost.of, ghost.deleted), Press(a, t, X),
         AppFits(a, FineTexts(ghost.of, ghost.deleted \cup X), FineTexts(ghost.of, ghost.deleted \cup X))
  PROVE  ComposerInv'
<1>1. PICK E : E = ghost.deleted \cup X
  OBVIOUS
<1>2. PICK S : S = IF t = <<>> \/ channel.full THEN ghost.sent ELSE ghost.sent \cup {t}
  OBVIOUS
<1>3. ghost' = [ghost EXCEPT !.burst = @ + 1, !.sent = S, !.deleted = E] /\ app' = a
  BY <1>1, <1>2 DEF Press, ComposerInv, GhostTypes
<1>4. ghost.deleted \subseteq E
  BY <1>1
<1>5. t \in FineTexts(ghost.of, E)
  BY <1>4, TextsMore
<1>6. S \subseteq ghost.sent \cup FineTexts(ghost.of, E)
  BY <1>2, <1>5
<1>7. QED
  BY <1>1, <1>3, <1>4, <1>6, BurstEnds

LEMMA PushFits ==
  ASSUME NEW O, NEW h \in Seq(O), NEW t \in O
  PROVE  push_history(h, t) \in Seq(O) /\ Len(h) <= Len(push_history(h, t))
<1>1. Append(h, t) \in Seq(O) /\ Len(Append(h, t)) = Len(h) + 1 /\ Len(h) \in Nat
  OBVIOUS
<1>2. push_history(h, t) = h \/ push_history(h, t) = Append(h, t)
  BY Zenon DEF push_history
<1>3. QED
  BY <1>1, <1>2

LEMMA RecordFits ==
  ASSUME NEW F, NEW O, <<>> \in O, NEW a, AppFits(a, F, O), NEW t \in O
  PROVE  /\ AppFits(record_prompt(a, t), F, O)
         /\ record_prompt(a, t).draft = a.draft /\ record_prompt(a, t).staged = a.staged
         /\ record_prompt(a, t).queued = a.queued
<1>1. a \in AppRecords(F, O)
  BY DEF AppFits
<1>2. PICK h \in Seq(O) : h = push_history(a.hist, t)
  BY <1>1, PushFits DEF AppRecords
<1>3. record_prompt(a, t) = [a EXCEPT !.hist = h, !.pos = 0, !.stash = <<>>]
  BY <1>2 DEF record_prompt
<1>4. 0 <= Len(h)
  BY <1>2
<1>5. PICK c : c = [a EXCEPT !.hist = h, !.pos = 0, !.stash = <<>>]
  OBVIOUS
<1>6. c \in AppRecords(F, O)
  BY <1>1, <1>5 DEF AppRecords
<1>7. c.hist = h /\ c.pos = 0 /\ c.draft = a.draft /\ c.staged = a.staged /\ c.queued = a.queued
  BY <1>1, <1>5 DEF AppRecords
<1>8. AppFits(c, F, O)
  BY <1>4, <1>6, <1>7 DEF AppFits
<1>9. QED
  BY <1>3, <1>5, <1>7, <1>8

LEMMA SubmitFits ==
  ASSUME NEW F, NEW O, <<>> \in O, NEW a, AppFits(a, F, O), NEW t \in O
  PROVE  /\ AppFits(submit_prompt(a, t), F, O)
         /\ submit_prompt(a, t).draft = a.draft /\ submit_prompt(a, t).staged = a.staged
<1>1. PICK c : c = record_prompt(a, t)
  OBVIOUS
<1>2. AppFits(c, F, O) /\ c.draft = a.draft /\ c.staged = a.staged
  BY <1>1, RecordFits
<1>3. AppFits([c EXCEPT !.busy = TRUE], F, O) /\ [c EXCEPT !.busy = TRUE].draft = a.draft
      /\ [c EXCEPT !.busy = TRUE].staged = a.staged
  BY <1>2 DEF AppFits, AppRecords
<1>4. QED
  BY <1>1, <1>3 DEF submit_prompt

\* A rescued line is in the draft again, with its newline.
LEMMA RescuedFits ==
  ASSUME ComposerInv, NEW F, NEW O, F = FineTexts(ghost.of, ghost.deleted),
         O = OldTexts(ghost.of, ghost.deleted, ghost.burst)
  PROVE  /\ AppFits(Rescued(app), F, O)
         /\ Rescued(app).staged = <<>>
         /\ AtHand(Rescued(app), ghost.of, ghost.burst, ghost.deleted)
         /\ Rescued(app).ask = app.ask
<1>1. AppFits(app, F, O) /\ AtHand(app, ghost.of, ghost.burst, ghost.deleted)
  BY DEF ComposerInv
<1>2. CASE app.staged = <<>>
  BY <1>1, <1>2 DEF Rescued
<1>3. CASE app.staged # <<>>
  <2>1. PICK t : t = app.staged /\ t \in F /\ app.draft = <<>>
    BY <1>1, <1>3 DEF AppFits, AppRecords
  <2>2. t \in Seq(Int) /\ Fine(t, ghost.of, ghost.deleted)
    BY <2>1 DEF FineTexts
  <2>3. PICK q : q = Append(t, 0)
    OBVIOUS
  <2>4. q \in Seq(Int) /\ Fine(q, ghost.of, ghost.deleted) /\ Ids(q) = Ids(t)
    BY <2>2, <2>3, FineMark
  <2>5. t \o <<0>> \o <<>> = q
    BY <2>2, <2>3
  <2>6. PICK c : c = [app EXCEPT !.draft = q, !.staged = <<>>]
    OBVIOUS
  <2>7. Rescued(app) = c
    BY <1>3, <2>1, <2>5, <2>6 DEF Rescued
  <2>8. q \in F /\ <<>> \in F
    BY <2>4, TextsNone DEF FineTexts, OldTexts
  <2>9. AppFits(c, F, O) /\ c.draft = q /\ c.staged = <<>> /\ c.ask = app.ask
    BY <1>1, <2>6, <2>8 DEF AppFits, AppRecords
  <2>10. AtHand(c, ghost.of, ghost.burst, ghost.deleted)
    BY <1>1, <2>1, <2>4, <2>9, IdsNone DEF AtHand
  <2>11. QED
    BY <2>7, <2>9, <2>10
<1>4. QED
  BY <1>2, <1>3

\* Before a key that cannot continue a paste, the staged line is sent.
LEMMA ResolvedFits ==
  ASSUME ComposerInv, NEW key, ~continues(key), NEW F, F = FineTexts(ghost.of, ghost.deleted)
  PROVE  AppFits(Resolved(key), F, F) /\ Resolved(key).staged = <<>> /\ SentBy(key) \in F
<1>1. <<>> \in F
  BY TextsNone
<1>2. AppFits(app, F, F)
  <2>1. PICK O : O = OldTexts(ghost.of, ghost.deleted, ghost.burst) /\ O \subseteq F
    BY TextsNone
  <2>2. AppFits(app, F, O)
    BY <2>1 DEF ComposerInv
  <2>3. QED
    BY <2>1, <2>2, FitsMore
<1>3. CASE app.staged = <<>>
  BY <1>1, <1>2, <1>3 DEF Resolved, SentBy
<1>4. CASE app.staged # <<>>
  <2>1. PICK t \in F : t = app.staged
    BY <1>2 DEF AppFits, AppRecords
  <2>2. PICK c : c = [app EXCEPT !.staged = <<>>]
    OBVIOUS
  <2>3. AppFits(c, F, F) /\ c.staged = <<>>
    BY <1>1, <1>2, <2>2 DEF AppFits, AppRecords
  <2>4. Resolved(key) = submit_prompt(c, t) /\ SentBy(key) = t
    BY <1>4, <2>1, <2>2, Zenon DEF Resolved, SentBy
  <2>5. QED
    BY <1>1, <2>3, <2>4, SubmitFits
<1>5. QED
  BY <1>3, <1>4

LEMMA ResolvedContinues ==
  ASSUME NEW key, continues(key) PROVE Resolved(key) = Rescued(app) /\ SentBy(key) = <<>>
BY Zenon DEF Resolved, SentBy, Rescued

LEMMA WhichContinue ==
  /\ continues("char") /\ continues("enter")
  /\ ~continues("tab") /\ ~continues("esc") /\ ~continues("delete") /\ ~continues("up")
  /\ ~continues("down")
<1>1. continues("char") /\ continues("enter")
  BY DEF continues
<1>2. ~continues("tab") /\ ~continues("esc")
  BY DEF continues
<1>3. ~continues("delete") /\ ~continues("up") /\ ~continues("down")
  BY DEF continues
<1>4. QED
  BY <1>1, <1>2, <1>3

LEMMA ComposerInitInv == ComposerInit => ComposerInv
<1>1. SUFFICES ASSUME ComposerInit PROVE ComposerInv
  OBVIOUS
<1>2. ghost = [burst |-> 1, of |-> <<>>, sent |-> {}, deleted |-> {}]
      /\ ghost.burst = 1 /\ ghost.of = <<>> /\ ghost.sent = {} /\ ghost.deleted = {}
  BY <1>1 DEF ComposerInit
<1>3. PICK F, O : F = FineTexts(<<>>, {}) /\ O = OldTexts(<<>>, {}, 1) /\ <<>> \in O /\ <<>> \in F
  BY TextsNone
<1>4. <<>> \in Seq(O) /\ Len(<<>>) = 0 /\ <<>> \in Seq(Nat)
  OBVIOUS
<1>5. app \in AppRecords(F, O) /\ app.pos = 0 /\ app.hist = <<>> /\ app.staged = <<>>
  BY <1>1, <1>3, <1>4 DEF ComposerInit, AppRecords
<1>6. AppFits(app, F, O)
  BY <1>4, <1>5 DEF AppFits
<1>7. GhostTypes
  <2>1. ghost = [burst |-> ghost.burst, of |-> ghost.of, sent |-> ghost.sent, deleted |-> ghost.deleted]
    BY <1>2, Zenon
  <2>2. QED
    BY <1>2, <1>4, <2>1 DEF GhostTypes
<1>8. AtHand(app, <<>>, 1, {})
  BY <1>4 DEF AtHand
<1>9. QED
  BY <1>2, <1>3, <1>6, <1>7, <1>8 DEF ComposerInv

LEMMA FlushInv == ASSUME ComposerInv, Flush PROVE ComposerInv'
<1>1. PICK F, D : D = ghost.deleted /\ F = FineTexts(ghost.of, D)
  OBVIOUS
<1>2. AppFits(Resolved("tab"), F, F) /\ SentBy("tab") \in F
  BY <1>1, ResolvedFits, WhichContinue
<1>3. Resolved("tab") = app' /\ SentBy("tab") = app.staged
  BY WhichContinue, Zenon DEF Flush, Resolved, SentBy
<1>4. PICK S : S = IF channel.full THEN ghost.sent ELSE ghost.sent \cup {app.staged}
  OBVIOUS
<1>5. S \subseteq ghost.sent \cup F
  BY <1>2, <1>3, <1>4
<1>6. ghost' = [ghost EXCEPT !.burst = @ + 1, !.sent = S, !.deleted = D]
  BY <1>1, <1>4 DEF Flush, ComposerInv, GhostTypes
<1>7. QED
  BY <1>1, <1>2, <1>3, <1>5, <1>6, BurstEnds

LEMMA PauseInv == ASSUME ComposerInv, Pause PROVE ComposerInv'
<1>1. PICK F, D, S : D = ghost.deleted /\ F = FineTexts(ghost.of, D) /\ S = ghost.sent
  OBVIOUS
<1>2. AppFits(Resolved("tab"), F, F)
  BY <1>1, ResolvedFits, WhichContinue
<1>3. Resolved("tab") = app'
  BY DEF Pause, Resolved
<1>4. ghost' = [ghost EXCEPT !.burst = @ + 1, !.sent = S, !.deleted = D]
  BY <1>1 DEF Pause, ComposerInv, GhostTypes
<1>5. QED
  BY <1>1, <1>2, <1>3, <1>4, BurstEnds

LEMMA TabInv == ASSUME ComposerInv, ~PastedTabs, Tab PROVE ComposerInv'
<1>1. PICK F, a, t : F = FineTexts(ghost.of, ghost.deleted) /\ a = Resolved("tab") /\ t = SentBy("tab")
  OBVIOUS
<1>2. AppFits(a, F, F) /\ t \in F /\ a.staged = <<>> /\ <<>> \in F
  BY <1>1, ResolvedFits, WhichContinue, TextsNone
<1>3. ghost.deleted \cup {} = ghost.deleted
  OBVIOUS
<1>4. a \in AppRecords(F, F) /\ a.draft \in F
  BY <1>2 DEF AppFits, AppRecords
<1>5. PICK c : c = [a EXCEPT !.draft = <<>>, !.pos = 0, !.stash = <<>>, !.queued = Append(@, a.draft)]
  OBVIOUS
<1>6. AppFits(c, F, F)
  <2>0. a.queued \in Seq(F)
    BY <1>4 DEF AppRecords
  <2>1. PICK q \in Seq(F) : q = Append(a.queued, a.draft)
    <3>1. Append(a.queued, a.draft) \in Seq(F)
      BY <1>4, <2>0
    <3>2. QED
      BY <3>1, Zenon
  <2>2. c = [a EXCEPT !.draft = <<>>, !.pos = 0, !.stash = <<>>, !.queued = q]
    BY <1>4, <1>5, <2>1 DEF AppRecords
  <2>3. c \in AppRecords(F, F) /\ c.pos = 0 /\ c.staged = <<>> /\ c.hist = a.hist
    BY <1>2, <1>4, <2>2 DEF AppRecords
  <2>4. Len(a.hist) >= 0
    BY <1>4 DEF AppRecords
  <2>5. QED
    BY <2>3, <2>4 DEF AppFits
<1>7. Press(c, a.draft, {}) \/ Press(a, t, {})
  BY <1>1, <1>5, Zenon DEF Tab
<1>8. CASE Press(c, a.draft, {})
  BY <1>1, <1>3, <1>4, <1>6, <1>8, PressInv
<1>9. CASE Press(a, t, {})
  BY <1>1, <1>2, <1>3, <1>9, PressInv
<1>10. QED
  BY <1>7, <1>8, <1>9

\* Esc and Delete take text away; what they leave is fine with what they took deleted.
LEMMA TakenAway ==
  ASSUME ComposerInv, NEW F, F = FineTexts(ghost.of, ghost.deleted), NEW a, AppFits(a, F, F), NEW t \in F,
         NEW X, NEW d \in FineTexts(ghost.of, ghost.deleted \cup X), NEW c,
         a.staged = <<>>, c \in {[a EXCEPT !.draft = d], [a EXCEPT !.draft = d, !.pos = 0, !.stash = <<>>]},
         Press(c, t, X)
  PROVE  ComposerInv'
<1>1. PICK G : G = FineTexts(ghost.of, ghost.deleted \cup X) /\ F \subseteq G /\ <<>> \in G /\ d \in G
  <2>1. FineTexts(ghost.of, ghost.deleted) \subseteq FineTexts(ghost.of, ghost.deleted \cup X)
    BY TextsMore
  <2>2. <<>> \in FineTexts(ghost.of, ghost.deleted \cup X)
    BY TextsNone
  <2>3. QED
    BY <2>1, <2>2
<1>2. AppFits(a, G, G)
  <2>1. F \subseteq G
    BY <1>1
  <2>2. QED
    BY <2>1, FitsWider
<1>3. Len(a.hist) >= 0
  BY <1>2 DEF AppFits, AppRecords
<1>4. AppFits([a EXCEPT !.draft = d], G, G)
  BY <1>1, <1>2 DEF AppFits, AppRecords
<1>5. AppFits([a EXCEPT !.draft = d, !.pos = 0, !.stash = <<>>], G, G)
  <2>1. PICK e : e = [a EXCEPT !.draft = d, !.pos = 0, !.stash = <<>>]
    OBVIOUS
  <2>2. a \in AppRecords(G, G)
    BY <1>2 DEF AppFits
  <2>3. e \in AppRecords(G, G) /\ e.pos = 0 /\ e.staged = <<>> /\ e.hist = a.hist
    BY <1>1, <2>1, <2>2 DEF AppRecords
  <2>4. QED
    BY <1>3, <2>1, <2>3 DEF AppFits
<1>6. AppFits(c, G, G)
  BY <1>4, <1>5
<1>7. QED
  BY <1>1, <1>6, PressInv

LEMMA EscInv == ASSUME ComposerInv, Esc PROVE ComposerInv'
<1>1. PICK F, a, t : F = FineTexts(ghost.of, ghost.deleted) /\ a = Resolved("esc") /\ t = SentBy("esc")
  OBVIOUS
<1>2. AppFits(a, F, F) /\ t \in F /\ a.staged = <<>> /\ <<>> \in F
  BY <1>1, ResolvedFits, WhichContinue, TextsNone
<1>3. ghost.deleted \cup {} = ghost.deleted
  OBVIOUS
<1>4. ASSUME NEW x \in BOOLEAN PROVE AppFits([a EXCEPT !.armed = x, !.ask = FALSE], F, F)
  BY <1>2 DEF AppFits, AppRecords
<1>5. PICK X : X = Ids(a.draft)
  OBVIOUS
<1>6. a.stash \in FineTexts(ghost.of, ghost.deleted \cup X) /\ <<>> \in FineTexts(ghost.of, ghost.deleted \cup X)
  <2>1. a.stash \in F
    BY <1>2 DEF AppFits, AppRecords
  <2>2. F \subseteq FineTexts(ghost.of, ghost.deleted \cup X)
    BY <1>1, TextsMore
  <2>3. QED
    BY <1>2, <2>1, <2>2
<1>7. CASE Press([a EXCEPT !.armed = TRUE, !.ask = FALSE], t, {})
  BY <1>1, <1>2, <1>3, <1>4, <1>7, PressInv
<1>8. CASE Press([a EXCEPT !.armed = FALSE, !.ask = FALSE], t, {})
  BY <1>1, <1>2, <1>3, <1>4, <1>8, PressInv
<1>9. CASE Press([a EXCEPT !.pos = 0, !.draft = a.stash, !.stash = <<>>], t, X)
  <2>1. PICK d : d = a.stash /\ d \in FineTexts(ghost.of, ghost.deleted \cup X)
    BY <1>6
  <2>2. PICK c : c = [a EXCEPT !.draft = d, !.pos = 0, !.stash = <<>>]
    OBVIOUS
  <2>3. c = [a EXCEPT !.pos = 0, !.draft = a.stash, !.stash = <<>>]
    BY <1>2, <2>1, <2>2 DEF AppFits, AppRecords
  <2>4. Press(c, t, X)
    BY <1>9, <2>3
  <2>5. QED
    BY <1>1, <1>2, <2>1, <2>2, <2>4, TakenAway
<1>10. CASE Press([a EXCEPT !.draft = <<>>], t, X)
  <2>1. PICK c : c = [a EXCEPT !.draft = <<>>]
    OBVIOUS
  <2>2. QED
    BY <1>1, <1>2, <1>6, <1>10, <2>1, TakenAway
<1>11. QED
  BY <1>1, <1>5, <1>7, <1>8, <1>9, <1>10 DEF Esc

LEMMA DeleteInv == ASSUME ComposerInv, Delete PROVE ComposerInv'
<1>1. PICK F, a, t : F = FineTexts(ghost.of, ghost.deleted) /\ a = Resolved("delete") /\ t = SentBy("delete")
  OBVIOUS
<1>2. AppFits(a, F, F) /\ t \in F /\ a.staged = <<>> /\ <<>> \in F
  BY <1>1, ResolvedFits, WhichContinue, TextsNone
<1>3. PICK d : d = a.draft /\ d \in Seq(Int) /\ Fine(d, ghost.of, ghost.deleted)
  BY <1>1, <1>2 DEF AppFits, AppRecords, FineTexts
<1>4. PICK n \in {1, Len(d)} :
        /\ d # <<>>
        /\ Press([a EXCEPT !.draft = SubSeq(@, 1, Len(@) - n)], t,
                 Ids(SubSeq(d, Len(d) - n + 1, Len(d))))
  BY <1>1, <1>3 DEF Delete
<1>5. PICK k \in 0..Len(d) : k = Len(d) - n
  <2>1. Len(d) \in Nat /\ Len(d) # 0
    BY <1>3, <1>4
  <2>2. Len(d) - n \in 0..Len(d)
    BY <1>4, <2>1
  <2>3. QED
    BY <2>2
<1>6. PICK X : X = Ids(SubSeq(d, k + 1, Len(d)))
  OBVIOUS
<1>7. PICK e : e = SubSeq(d, 1, k)
  OBVIOUS
<1>8. e \in Seq(Int) /\ Fine(e, ghost.of, ghost.deleted \cup X)
  <2>1. e \in Seq(Int)
    BY <1>3, <1>5, <1>7
  <2>2. QED
    BY <1>3, <1>6, <1>7, <2>1, FineCut
<1>9. e \in FineTexts(ghost.of, ghost.deleted \cup X)
  BY <1>8 DEF FineTexts
<1>10. PICK c : c = [a EXCEPT !.draft = e]
  OBVIOUS
<1>11. Press(c, t, X)
  <2>1. c = [a EXCEPT !.draft = SubSeq(@, 1, Len(@) - n)]
    BY <1>2, <1>3, <1>5, <1>7, <1>10 DEF AppFits, AppRecords
  <2>2. X = Ids(SubSeq(d, Len(d) - n + 1, Len(d)))
    BY <1>5, <1>6
  <2>3. QED
    BY <1>4, <2>1, <2>2
<1>12. QED
  BY <1>1, <1>2, <1>9, <1>10, <1>11, TakenAway

LEMMA PrevInv == ASSUME ComposerInv, Prev PROVE ComposerInv'
<1>1. PICK F, a, t : F = FineTexts(ghost.of, ghost.deleted) /\ a = Resolved("up") /\ t = SentBy("up")
  OBVIOUS
<1>2. AppFits(a, F, F) /\ t \in F /\ a.staged = <<>> /\ ghost.deleted \cup {} = ghost.deleted
  BY <1>1, ResolvedFits, WhichContinue
<1>3. PICK k : k = IF a.pos = 0 THEN Len(a.hist) ELSE IF a.pos > 1 THEN a.pos - 1 ELSE 1
  OBVIOUS
<1>4. PICK y : y = IF a.pos = 0 THEN a.draft ELSE a.stash
  OBVIOUS
<1>5. PICK c : c = [a EXCEPT !.stash = y, !.pos = k, !.draft = a.hist[k]]
  OBVIOUS
<1>6. a \in AppRecords(F, F) /\ a.hist \in Seq(F) /\ Len(a.hist) \in Nat /\ a.pos \in Nat /\ a.pos <= Len(a.hist)
  BY <1>2 DEF AppFits, AppRecords
<1>7. a.hist # <<>> /\ Press(c, t, {})
  <2>1. c = [a EXCEPT !.stash = IF a.pos = 0 THEN a.draft ELSE @, !.pos = k, !.draft = a.hist[k]]
    BY <1>4, <1>5, <1>6 DEF AppRecords
  <2>2. QED
    BY <1>1, <1>3, <2>1 DEF Prev
<1>8. k \in 1..Len(a.hist)
  <2>1. Len(a.hist) # 0
    BY <1>6, <1>7
  <2>2. QED
    BY <1>3, <1>6, <2>1
<1>9. a.hist[k] \in F /\ y \in F
  <2>1. a.hist[k] \in F
    BY <1>6, <1>8, ElementOfSeq
  <2>2. QED
    BY <1>4, <1>6, <2>1 DEF AppRecords
<1>10. c \in AppRecords(F, F) /\ c.staged = <<>> /\ c.pos = k /\ c.hist = a.hist
  <2>1. PICK x \in F : x = a.hist[k]
    BY <1>9
  <2>2. k \in Nat /\ c = [a EXCEPT !.stash = y, !.pos = k, !.draft = x]
    BY <1>5, <1>8, <2>1
  <2>3. QED
    BY <1>2, <1>6, <1>9, <2>2 DEF AppRecords
<1>11. AppFits(c, F, F)
  BY <1>8, <1>10 DEF AppFits
<1>12. QED
  BY <1>1, <1>2, <1>7, <1>11, PressInv

LEMMA ForwardInv == ASSUME ComposerInv, Forward PROVE ComposerInv'
<1>1. PICK F, a, t : F = FineTexts(ghost.of, ghost.deleted) /\ a = Resolved("down") /\ t = SentBy("down")
  OBVIOUS
<1>2. AppFits(a, F, F) /\ t \in F /\ a.staged = <<>> /\ ghost.deleted \cup {} = ghost.deleted
  BY <1>1, ResolvedFits, WhichContinue
<1>3. a \in AppRecords(F, F) /\ a.hist \in Seq(F) /\ Len(a.hist) \in Nat /\ a.pos \in Nat /\ a.pos <= Len(a.hist)
      /\ a.stash \in F
  BY <1>2 DEF AppFits, AppRecords
<1>4. CASE a.pos = Len(a.hist)
  <2>1. PICK c : c = [a EXCEPT !.pos = 0, !.draft = a.stash]
    OBVIOUS
  <2>2. Press(c, t, {})
    BY <1>1, <1>4, <2>1 DEF Forward
  <2>3. c \in AppRecords(F, F) /\ c.staged = <<>> /\ c.pos = 0 /\ c.hist = a.hist
    BY <1>2, <1>3, <2>1 DEF AppRecords
  <2>4. AppFits(c, F, F)
    BY <1>3, <2>3 DEF AppFits
  <2>5. QED
    BY <1>1, <1>2, <2>2, <2>4, PressInv
<1>5. CASE a.pos # Len(a.hist)
  <2>1. PICK k : k = a.pos + 1
    OBVIOUS
  <2>2. PICK c : c = [a EXCEPT !.pos = k, !.draft = a.hist[k]]
    OBVIOUS
  <2>3. c = [a EXCEPT !.pos = @ + 1, !.draft = a.hist[a.pos + 1]]
    BY <1>3, <2>1, <2>2 DEF AppRecords
  <2>4. Press(c, t, {})
    BY <1>1, <1>5, <2>3 DEF Forward
  <2>5. k \in 1..Len(a.hist)
    BY <1>3, <1>5, <2>1
  <2>6. a.hist[k] \in F
    BY <1>3, <2>5, ElementOfSeq
  <2>7. c \in AppRecords(F, F) /\ c.staged = <<>> /\ c.pos = k /\ c.hist = a.hist
    <3>1. PICK x \in F : x = a.hist[k]
      BY <2>6
    <3>2. k \in Nat /\ c = [a EXCEPT !.pos = k, !.draft = x]
      BY <2>2, <2>5, <3>1
    <3>3. QED
      BY <1>2, <1>3, <3>2 DEF AppRecords
  <2>8. AppFits(c, F, F)
    BY <2>5, <2>7 DEF AppFits
  <2>9. QED
    BY <1>1, <1>2, <2>4, <2>8, PressInv
<1>6. QED
  BY <1>4, <1>5

\* Steps within the burst.
LEMMA BurstGoesOn ==
  ASSUME ComposerInv, ghost' = ghost,
         AppFits(app', FineTexts(ghost.of, ghost.deleted), OldTexts(ghost.of, ghost.deleted, ghost.burst)),
         AtHand(app', ghost.of, ghost.burst, ghost.deleted)
  PROVE  ComposerInv'
<1>1. GhostTypes'
  BY DEF ComposerInv, GhostTypes
<1>2. QED
  BY <1>1 DEF ComposerInv

LEMMA StepInv ==
  ASSUME ComposerInv, NEW a, Step(a, <<>>, {}),
         AppFits(a, FineTexts(ghost.of, ghost.deleted), OldTexts(ghost.of, ghost.deleted, ghost.burst)),
         AtHand(a, ghost.of, ghost.burst, ghost.deleted)
  PROVE  ComposerInv'
<1>1. ghost' = [ghost EXCEPT !.sent = @, !.deleted = @ \cup {}] /\ app' = a
  BY DEF Step
<1>2. ghost' = ghost
  BY <1>1 DEF ComposerInv, GhostTypes
<1>3. QED
  BY <1>1, <1>2, BurstGoesOn

LEMMA CommandFine == ASSUME NEW f, NEW D PROVE <<Command>> \in FineTexts(f, D) /\ Ids(<<Command>>) = {}
<1>1. <<Command>> = Append(<<>>, -1) /\ <<>> \in Seq(Int) /\ -1 \in {0, -1}
  BY DEF Command
<1>2. Fine(Append(<<>>, -1), f, D) /\ Ids(Append(<<>>, -1)) = Ids(<<>>)
  BY <1>1, FineNone, FineMark
<1>3. Append(<<>>, -1) \in Seq(Int)
  BY <1>1
<1>4. QED
  BY <1>1, <1>2, <1>3, IdsNone DEF FineTexts

LEMMA CommandInv == ASSUME ComposerInv, TypeCommand PROVE ComposerInv'
<1>1. PICK F, O : F = FineTexts(ghost.of, ghost.deleted) /\ O = OldTexts(ghost.of, ghost.deleted, ghost.burst)
  OBVIOUS
<1>2. PICK x \in F : x = <<Command>> /\ Ids(x) = {}
  BY <1>1, CommandFine
<1>3. PICK a : a = [app EXCEPT !.draft = x]
  OBVIOUS
<1>4. AppFits(app, F, O) /\ AtHand(app, ghost.of, ghost.burst, ghost.deleted) /\ app.draft = <<>> /\ app.staged = <<>>
  BY <1>1 DEF ComposerInv, TypeCommand
<1>5. AppFits(a, F, O) /\ a.draft = x /\ a.staged = <<>>
  BY <1>2, <1>3, <1>4 DEF AppFits, AppRecords
<1>6. AtHand(a, ghost.of, ghost.burst, ghost.deleted)
  BY <1>2, <1>4, <1>5, IdsNone DEF AtHand
<1>7. Step(a, <<>>, {})
  BY <1>2, <1>3 DEF TypeCommand
<1>8. QED
  BY <1>1, <1>5, <1>6, <1>7, StepInv

LEMMA EnterInv == ASSUME ComposerInv, Enter PROVE ComposerInv'
<1>1. PICK F, O : F = FineTexts(ghost.of, ghost.deleted) /\ O = OldTexts(ghost.of, ghost.deleted, ghost.burst)
  OBVIOUS
<1>2. PICK a : a = Rescued(app)
  OBVIOUS
<1>3. AppFits(a, F, O) /\ a.staged = <<>> /\ AtHand(a, ghost.of, ghost.burst, ghost.deleted) /\ <<>> \in F
  BY <1>1, <1>2, RescuedFits, TextsNone
<1>4. Resolved("enter") = a /\ SentBy("enter") = <<>>
  BY <1>2, ResolvedContinues, WhichContinue
<1>5. CASE Step(a, <<>>, {})
  BY <1>1, <1>3, <1>5, StepInv
<1>6. CASE Step([a EXCEPT !.draft = <<>>], <<>>, {}) /\ a.draft = <<Command>>
  <2>1. PICK c : c = [a EXCEPT !.draft = <<>>]
    OBVIOUS
  <2>2. AppFits(c, F, O) /\ c.draft = <<>> /\ c.staged = <<>>
    BY <1>3, <2>1 DEF AppFits, AppRecords
  <2>3. Ids(a.draft) = {}
    BY <1>6, CommandFine
  <2>4. AtHand(c, ghost.of, ghost.burst, ghost.deleted)
    BY <1>3, <2>2, <2>3, IdsNone DEF AtHand
  <2>5. Step(c, <<>>, {})
    BY <1>6, <2>1
  <2>6. QED
    BY <1>1, <2>2, <2>4, <2>5, StepInv
<1>7. CASE Step([a EXCEPT !.staged = a.draft, !.draft = <<>>], <<>>, {})
  <2>1. PICK x \in F : x = a.draft
    BY <1>3 DEF AppFits, AppRecords
  <2>2. PICK c : c = [a EXCEPT !.staged = x, !.draft = <<>>]
    OBVIOUS
  <2>3. AppFits(c, F, O) /\ c.draft = <<>> /\ c.staged = x
    BY <1>3, <2>1, <2>2 DEF AppFits, AppRecords
  <2>4. AtHand(c, ghost.of, ghost.burst, ghost.deleted)
    BY <1>3, <2>1, <2>3, IdsNone DEF AtHand
  <2>5. Step(c, <<>>, {})
    BY <1>7, <2>1, <2>2
  <2>6. QED
    BY <1>1, <2>3, <2>4, <2>5, StepInv
<1>8. QED
  BY <1>4, <1>5, <1>6, <1>7, Zenon DEF Enter

LEMMA AskKeyInv == ASSUME ComposerInv, AskKey PROVE ComposerInv'
<1>1. PICK F, O : F = FineTexts(ghost.of, ghost.deleted) /\ O = OldTexts(ghost.of, ghost.deleted, ghost.burst)
  OBVIOUS
<1>2. CASE Step(Resolved("enter"), SentBy("enter"), {})
  <2>1. PICK a : a = Rescued(app)
    OBVIOUS
  <2>2. AppFits(a, F, O) /\ AtHand(a, ghost.of, ghost.burst, ghost.deleted)
    BY <1>1, <2>1, RescuedFits
  <2>3. Step(a, <<>>, {})
    BY <1>2, <2>1, ResolvedContinues, WhichContinue
  <2>4. QED
    BY <1>1, <2>2, <2>3, StepInv
<1>3. CASE Press(Resolved("tab"), SentBy("tab"), {})
  <2>1. PICK a, t : a = Resolved("tab") /\ t = SentBy("tab")
    OBVIOUS
  <2>2. AppFits(a, F, F) /\ t \in F /\ ghost.deleted \cup {} = ghost.deleted
    BY <1>1, <2>1, ResolvedFits, WhichContinue
  <2>3. QED
    BY <1>1, <1>3, <2>1, <2>2, PressInv
<1>4. QED
  BY <1>2, <1>3 DEF AskKey

LEMMA TurnsInv == ASSUME ComposerInv, TurnReady \/ TurnIdle \/ Ask \/ Fill PROVE ComposerInv'
<1>1. PICK F, O : F = FineTexts(ghost.of, ghost.deleted) /\ O = OldTexts(ghost.of, ghost.deleted, ghost.burst)
                  /\ <<>> \in O
  BY TextsNone
<1>2. AppFits(app, F, O) /\ AtHand(app, ghost.of, ghost.burst, ghost.deleted)
  BY <1>1 DEF ComposerInv
<1>3. ghost' = ghost
  BY DEF TurnReady, TurnIdle, Ask, Fill
<1>4. ASSUME NEW c, AppFits(c, F, O), c.draft = app.draft, c.staged = app.staged, app' = c PROVE ComposerInv'
  <2>1. AtHand(c, ghost.of, ghost.burst, ghost.deleted)
    BY <1>2, <1>4 DEF AtHand
  <2>2. QED
    BY <1>1, <1>3, <1>4, <2>1, BurstGoesOn
<1>5. CASE TurnIdle \/ Ask \/ Fill
  <2>1. PICK c : c = app'
    OBVIOUS
  <2>2. c = [app EXCEPT !.busy = FALSE, !.ask = FALSE] \/ c = [app EXCEPT !.ask = TRUE] \/ c = app
    BY <1>5, <2>1 DEF TurnIdle, Ask, Fill
  <2>3. AppFits(c, F, O) /\ c.draft = app.draft /\ c.staged = app.staged
    BY <1>2, <2>2 DEF AppFits, AppRecords
  <2>4. QED
    BY <1>4, <2>1, <2>3
<1>6. CASE TurnReady
  <2>1. CASE app.queued # <<>> /\ app' = [record_prompt(app, Head(app.queued)) EXCEPT !.queued = Tail(@), !.busy = TRUE, !.armed = FALSE]
    <3>1. PICK q : q = app.queued /\ q \in Seq(O) /\ q # <<>>
      BY <1>2, <2>1 DEF AppFits, AppRecords
    <3>2. PICK h, r : h = Head(q) /\ r = Tail(q) /\ h \in O /\ r \in Seq(O)
      <4>1. Head(q) \in O /\ Tail(q) \in Seq(O)
        BY <3>1
      <4>2. QED
        BY <4>1, Zenon
    <3>3. PICK e : e = record_prompt(app, h)
      OBVIOUS
    <3>4. AppFits(e, F, O) /\ e.draft = app.draft /\ e.staged = app.staged /\ e.queued = q
      BY <1>1, <1>2, <3>1, <3>2, <3>3, RecordFits
    <3>5. PICK c : c = [e EXCEPT !.queued = r, !.busy = TRUE, !.armed = FALSE]
      OBVIOUS
    <3>6. e \in AppRecords(F, O)
      BY <3>4 DEF AppFits
    <3>7. app' = c
      BY <2>1, <3>1, <3>2, <3>3, <3>4, <3>5, <3>6 DEF AppRecords
    <3>8. c \in AppRecords(F, O) /\ c.draft = e.draft /\ c.staged = e.staged /\ c.pos = e.pos /\ c.hist = e.hist
      BY <3>2, <3>5, <3>6 DEF AppRecords
    <3>9. AppFits(c, F, O) /\ c.draft = app.draft /\ c.staged = app.staged
      BY <3>4, <3>8 DEF AppFits
    <3>10. QED
      BY <1>4, <3>7, <3>9
  <2>2. CASE app' = [app EXCEPT !.busy = TRUE]
    <3>1. PICK c : c = [app EXCEPT !.busy = TRUE]
      OBVIOUS
    <3>2. AppFits(c, F, O) /\ c.draft = app.draft /\ c.staged = app.staged
      BY <1>2, <3>1 DEF AppFits, AppRecords
    <3>3. QED
      BY <1>4, <2>2, <3>1, <3>2
  <2>3. QED
    BY <1>6, <2>1, <2>2 DEF TurnReady
<1>7. QED
  BY <1>5, <1>6

LEMMA BurstsGrow ==
  ASSUME NEW f, f \in Seq(Nat), NEW b \in Nat, \A j \in 1..Len(f) : f[j] <= b
  PROVE  /\ Append(f, b) \in Seq(Nat) /\ Len(Append(f, b)) = Len(f) + 1
         /\ \A j \in 1..Len(Append(f, b)) : Append(f, b)[j] <= b
<1>1. PICK L \in Nat : L = Len(f)
  OBVIOUS
<1>2. PICK g : g = Append(f, b)
  OBVIOUS
<1>3. g \in Seq(Nat) /\ Len(g) = L + 1 /\ g[L + 1] = b /\ \A i \in 1..L : g[i] = f[i]
  BY <1>1, <1>2, AppendProperties
<1>4. ASSUME NEW j \in 1..L + 1 PROVE g[j] <= b
  <2>1. CASE j = L + 1
    BY <1>3, <2>1
  <2>2. CASE j # L + 1
    <3>1. j \in 1..L
      BY <2>2
    <3>2. QED
      BY <1>1, <1>3, <3>1
  <2>3. QED
    BY <2>1, <2>2
<1>5. QED
  BY <1>1, <1>2, <1>3, <1>4

\* A character typed or pasted after the draft.
LEMMA OneTyped ==
  ASSUME NEW f, f \in Seq(Nat), NEW D, NEW b \in Nat, NEW a, a.staged = <<>>, AtHand(a, f, b, D),
         AppFits(a, FineTexts(f, D), OldTexts(f, D, b)), NEW c,
         c = [a EXCEPT !.draft = Append(@, Len(f) + 1)]
  PROVE  /\ AppFits(c, FineTexts(Append(f, b), D), OldTexts(Append(f, b), D, b))
         /\ c.staged = <<>> /\ c.draft = Append(a.draft, Len(f) + 1) /\ c.ask = a.ask
         /\ AtHand(c, Append(f, b), b, D)
<1>1. PICK g : g = Append(f, b)
  OBVIOUS
<1>2. PICK F, O, G, P : F = FineTexts(f, D) /\ O = OldTexts(f, D, b) /\ G = FineTexts(g, D) /\ P = OldTexts(g, D, b)
  OBVIOUS
<1>3. a \in AppRecords(F, O) /\ a.pos <= Len(a.hist)
  BY <1>2 DEF AppFits
<1>4. PICK t : t = a.draft /\ t \in Seq(Int) /\ Fine(t, f, D)
  <2>1. a.draft \in F
    BY <1>3 DEF AppRecords
  <2>2. QED
    BY <1>2, <2>1 DEF FineTexts
<1>5. \A j \in 1..Len(f) : f[j] = b => j \in Ids(t) \cup D
  BY <1>4, IdsNone DEF AtHand
<1>6. PICK q : q = Append(t, Len(f) + 1)
  OBVIOUS
<1>7. q \in Seq(Int) /\ Fine(q, g, D) /\ \A j \in 1..Len(g) : g[j] = b => j \in Ids(q) \cup D
  <2>1. Len(f) + 1 \in Int
    OBVIOUS
  <2>2. q \in Seq(Int)
    BY <1>4, <1>6, <2>1
  <2>3. QED
    BY <1>1, <1>4, <1>5, <1>6, <2>2, FineTyping
<1>8. q \in G /\ <<>> \in G
  BY <1>2, <1>7, TextsNone DEF FineTexts
<1>9. O \subseteq P
  BY <1>1, <1>2, TextsTyped
<1>10. a.hist \in Seq(P) /\ a.queued \in Seq(P) /\ a.stash \in P
  <2>1. a.hist \in Seq(O) /\ a.queued \in Seq(O) /\ a.stash \in O
    BY <1>3 DEF AppRecords
  <2>2. QED
    BY <1>9, <2>1, SeqOfMore
<1>11. c = [a EXCEPT !.draft = q]
  BY <1>3, <1>4, <1>6 DEF AppRecords
<1>12. c.staged = <<>> /\ c.draft = q /\ c.pos = a.pos /\ c.hist = a.hist /\ c.stash = a.stash
       /\ c.queued = a.queued /\ c.ask = a.ask
  BY <1>3, <1>11 DEF AppRecords
<1>13. c \in AppRecords(G, P)
  BY <1>3, <1>8, <1>10, <1>11, <1>12 DEF AppRecords
<1>14. AppFits(c, G, P)
  BY <1>3, <1>12, <1>13 DEF AppFits
<1>15. AtHand(c, g, b, D)
  BY <1>7, <1>12, IdsNone DEF AtHand
<1>16. QED
  BY <1>1, <1>2, <1>4, <1>6, <1>12, <1>14, <1>15

\* A newline within the pasted text.
LEMMA OneMark ==
  ASSUME NEW f, NEW D, NEW b, NEW a, a.staged = <<>>, AtHand(a, f, b, D),
         AppFits(a, FineTexts(f, D), OldTexts(f, D, b)), NEW c,
         c = [a EXCEPT !.draft = Append(@, 0)]
  PROVE  /\ AppFits(c, FineTexts(f, D), OldTexts(f, D, b))
         /\ c.staged = <<>> /\ c.draft = Append(a.draft, 0) /\ c.ask = a.ask /\ AtHand(c, f, b, D)
<1>1. PICK F, O : F = FineTexts(f, D) /\ O = OldTexts(f, D, b)
  OBVIOUS
<1>2. a \in AppRecords(F, O) /\ a.pos <= Len(a.hist)
  BY <1>1 DEF AppFits
<1>3. PICK t : t = a.draft /\ t \in Seq(Int) /\ Fine(t, f, D)
  <2>1. a.draft \in F
    BY <1>2 DEF AppRecords
  <2>2. QED
    BY <1>1, <2>1 DEF FineTexts
<1>4. PICK q : q = Append(t, 0)
  OBVIOUS
<1>5. q \in Seq(Int) /\ Fine(q, f, D) /\ Ids(q) = Ids(t)
  BY <1>3, <1>4, FineMark
<1>6. q \in F
  BY <1>1, <1>5 DEF FineTexts
<1>7. c = [a EXCEPT !.draft = q]
  BY <1>2, <1>3, <1>4 DEF AppRecords
<1>8. c \in AppRecords(F, O) /\ c.staged = <<>> /\ c.draft = q /\ c.pos = a.pos /\ c.hist = a.hist /\ c.ask = a.ask
  BY <1>2, <1>6, <1>7 DEF AppRecords
<1>9. AppFits(c, F, O)
  BY <1>2, <1>8 DEF AppFits
<1>10. AtHand(c, f, b, D)
  BY <1>3, <1>5, <1>8 DEF AtHand
<1>11. QED
  BY <1>1, <1>3, <1>4, <1>8, <1>9, <1>10

\* A character taken by an open question counts as deleted.
LEMMA FineTaken ==
  ASSUME NEW t, NEW f, f \in Seq(Nat), NEW D, NEW b \in Nat, Fine(t, f, D)
  PROVE  /\ Fine(t, Append(f, b), D \cup {Len(f) + 1})
         /\ Old(t, f, b) => Old(t, Append(f, b), b)
<1>1. PICK L \in Nat : L = Len(f)
  OBVIOUS
<1>2. PICK g : g = Append(f, b)
  OBVIOUS
<1>3. g \in Seq(Nat) /\ Len(g) = L + 1 /\ g[L + 1] = b /\ \A i \in 1..L : g[i] = f[i]
  BY <1>1, <1>2, AppendProperties
<1>4. Ids(t) \subseteq 1..L
  BY <1>1 DEF Fine
<1>5. ASSUME NEW i \in Ids(t), NEW j \in 1..L + 1, g[i] = g[j] PROVE j \in Ids(t) \cup D \cup {L + 1}
  <2>1. CASE j = L + 1
    BY <2>1
  <2>2. CASE j # L + 1
    <3>1. i \in 1..L /\ j \in 1..L
      BY <1>4, <2>2
    <3>2. f[i] = f[j]
      BY <1>3, <1>5, <3>1
    <3>3. QED
      BY <1>1, <3>1, <3>2 DEF Fine, Whole
  <2>3. QED
    BY <2>1, <2>2
<1>6. Ids(t) \subseteq 1..L + 1
  BY <1>4
<1>7. Whole(t, g, D \cup {L + 1})
  BY <1>3, <1>5 DEF Whole
<1>8. Fine(t, g, D \cup {L + 1})
  BY <1>3, <1>6, <1>7 DEF Fine
<1>9. Old(t, f, b) => Old(t, g, b)
  BY <1>3, <1>4 DEF Old
<1>10. QED
  BY <1>1, <1>2, <1>8, <1>9

\* The ghosts of a longer burst.
LEMMA BurstLengthens ==
  ASSUME ComposerInv, NEW g, NEW E, g \in Seq(Nat), \A j \in 1..Len(g) : g[j] <= ghost.burst,
         ghost' = [ghost EXCEPT !.of = g, !.deleted = E],
         OldTexts(ghost.of, ghost.deleted, ghost.burst) \subseteq OldTexts(g, E, ghost.burst),
         AppFits(app', FineTexts(g, E), OldTexts(g, E, ghost.burst)),
         AtHand(app', g, ghost.burst, E)
  PROVE  ComposerInv'
<1>1. PICK b, S : b = ghost.burst /\ S = ghost.sent
  OBVIOUS
<1>2. ghost' = [burst |-> b, of |-> g, sent |-> S, deleted |-> E]
      /\ ghost'.burst = b /\ ghost'.of = g /\ ghost'.sent = S /\ ghost'.deleted = E
  BY <1>1 DEF ComposerInv, GhostTypes
<1>3. GhostTypes'
  <2>1. (ghost = [burst |-> ghost.burst, of |-> ghost.of, sent |-> ghost.sent, deleted |-> ghost.deleted])'
    BY <1>2, Zenon
  <2>2. ghost'.burst \in Nat /\ ghost'.of \in Seq(Nat)
    BY <1>1, <1>2 DEF ComposerInv, GhostTypes
  <2>3. \A j \in 1..Len(ghost'.of) : ghost'.of[j] <= ghost'.burst
    BY <1>1, <1>2
  <2>4. QED
    BY <2>1, <2>2, <2>3 DEF GhostTypes
<1>4. S \subseteq OldTexts(g, E, b)
  BY <1>1 DEF ComposerInv
<1>5. QED
  BY <1>1, <1>2, <1>3, <1>4 DEF ComposerInv

LEMMA TwoMore ==
  ASSUME NEW t, t \in Seq(Int), NEW x \in Int, NEW y \in Int
  PROVE  t \o <<x, y>> = Append(Append(t, x), y)
<1>1. PICK L \in Nat : L = Len(t)
  OBVIOUS
<1>2. PICK p, q, r : p = t \o <<x, y>> /\ q = Append(t, x) /\ r = Append(q, y)
  OBVIOUS
<1>3. p \in Seq(Int) /\ Len(p) = L + 2 /\ p[L + 1] = x /\ p[L + 2] = y /\ \A i \in 1..L : p[i] = t[i]
  BY <1>1, <1>2
<1>4. q \in Seq(Int) /\ Len(q) = L + 1 /\ q[L + 1] = x /\ \A i \in 1..L : q[i] = t[i]
  BY <1>1, <1>2, AppendProperties
<1>5. r \in Seq(Int) /\ Len(r) = L + 2 /\ r[L + 2] = y /\ \A i \in 1..L + 1 : r[i] = q[i]
  BY <1>2, <1>4, AppendProperties
<1>6. ASSUME NEW i \in 1..L + 2 PROVE p[i] = r[i]
  <2>1. i \in 1..L \/ i = L + 1 \/ i = L + 2
    OBVIOUS
  <2>2. CASE i \in 1..L
    <3>1. i \in 1..L + 1
      BY <2>2
    <3>2. QED
      BY <1>3, <1>4, <1>5, <2>2, <3>1
  <2>3. CASE i = L + 1
    BY <1>3, <1>4, <1>5, <2>3
  <2>4. CASE i = L + 2
    BY <1>3, <1>5, <2>4
  <2>5. QED
    BY <2>1, <2>2, <2>3, <2>4
<1>7. p = r
  BY <1>3, <1>5, <1>6, SeqEqual
<1>8. QED
  BY <1>2, <1>7

LEMMA ThreeMore ==
  ASSUME NEW t, t \in Seq(Int), NEW x \in Int, NEW y \in Int, NEW z \in Int
  PROVE  t \o <<x, y, z>> = Append(Append(Append(t, x), y), z)
<1>1. PICK p, q, r : p = t \o <<x, y, z>> /\ q = Append(t, x) /\ r = q \o <<y, z>>
  OBVIOUS
<1>2. PICK L \in Nat : L = Len(t)
  OBVIOUS
<1>3. /\ p \in Seq(Int) /\ Len(p) = L + 3 /\ p[L + 1] = x /\ p[L + 2] = y /\ p[L + 3] = z
      /\ \A i \in 1..L : p[i] = t[i]
  BY <1>1, <1>2
<1>4. q \in Seq(Int) /\ Len(q) = L + 1 /\ q[L + 1] = x /\ \A i \in 1..L : q[i] = t[i]
  BY <1>1, <1>2, AppendProperties
<1>5. r \in Seq(Int) /\ Len(r) = L + 3 /\ r[L + 2] = y /\ r[L + 3] = z /\ \A i \in 1..L + 1 : r[i] = q[i]
  <2>0. q \in Seq(Int) /\ r = q \o <<y, z>>
    BY <1>1, <1>4
  <2>1. PICK K \in Nat : K = Len(q)
    BY <1>4
  <2>2. r \in Seq(Int) /\ Len(r) = K + 2 /\ r[K + 1] = y /\ r[K + 2] = z /\ \A i \in 1..K : r[i] = q[i]
    BY <2>0, <2>1
  <2>3. K = L + 1 /\ K + 2 = L + 3 /\ K + 1 = L + 2
    BY <1>4, <2>1
  <2>4. QED
    BY <2>2, <2>3
<1>6. ASSUME NEW i \in 1..L + 3 PROVE p[i] = r[i]
  <2>1. i \in 1..L \/ i = L + 1 \/ i = L + 2 \/ i = L + 3
    OBVIOUS
  <2>2. CASE i \in 1..L
    <3>1. i \in 1..L + 1
      BY <2>2
    <3>2. QED
      BY <1>3, <1>4, <1>5, <2>2, <3>1
  <2>3. CASE i = L + 1
    BY <1>3, <1>4, <1>5, <2>3
  <2>4. CASE i = L + 2 \/ i = L + 3
    BY <1>3, <1>5, <2>4
  <2>5. QED
    BY <2>1, <2>2, <2>3, <2>4
<1>7. p = r
  BY <1>3, <1>5, <1>6, SeqEqual
<1>8. r = Append(Append(q, y), z)
  BY <1>1, <1>4, TwoMore
<1>9. QED
  BY <1>1, <1>7, <1>8

LEMMA PasteInv == ASSUME ComposerInv, Paste PROVE ComposerInv'
<1>1. PICK f, b, D : f = ghost.of /\ b = ghost.burst /\ D = ghost.deleted /\ f \in Seq(Nat) /\ b \in Nat
                       /\ \A j \in 1..Len(f) : f[j] <= b
  BY DEF ComposerInv, GhostTypes
<1>2. PICK a : a = Rescued(app)
  OBVIOUS
<1>3. a.staged = <<>> /\ AtHand(a, f, b, D) /\ AppFits(a, FineTexts(f, D), OldTexts(f, D, b))
  BY <1>1, <1>2, RescuedFits
<1>4. PICK L \in Nat : L = Len(f)
  BY <1>1
<1>5. PICK g : g = Append(f, b)
  OBVIOUS
<1>6. g \in Seq(Nat) /\ Len(g) = L + 1 /\ \A j \in 1..Len(g) : g[j] <= b
  BY <1>1, <1>4, <1>5, BurstsGrow
<1>7. PICK h : h = Append(g, b)
  OBVIOUS
<1>8. h \in Seq(Nat) /\ \A j \in 1..Len(h) : h[j] <= b
  BY <1>1, <1>6, <1>7, BurstsGrow
<1>9. PICK c : c = [a EXCEPT !.draft = Append(@, L + 1)]
  OBVIOUS
<1>10. /\ AppFits(c, FineTexts(g, D), OldTexts(g, D, b))
       /\ c.staged = <<>> /\ c.draft = Append(a.draft, L + 1) /\ AtHand(c, g, b, D)
  <2>1. c = [a EXCEPT !.draft = Append(@, Len(f) + 1)]
    BY <1>4, <1>9
  <2>2. AppFits(c, FineTexts(g, D), OldTexts(g, D, b)) /\ AtHand(c, g, b, D)
    BY <1>1, <1>3, <1>5, <2>1, OneTyped
  <2>3. c.staged = <<>> /\ c.draft = Append(a.draft, Len(f) + 1)
    BY <1>1, <1>3, <2>1, OneTyped
  <2>4. QED
    BY <1>4, <2>2, <2>3
<1>11. PICK d : d = [c EXCEPT !.draft = Append(@, 0)]
  OBVIOUS
<1>12. /\ AppFits(d, FineTexts(g, D), OldTexts(g, D, b))
       /\ d.staged = <<>> /\ d.draft = Append(c.draft, 0) /\ AtHand(d, g, b, D)
  <2>1. AppFits(d, FineTexts(g, D), OldTexts(g, D, b)) /\ AtHand(d, g, b, D)
    BY <1>10, <1>11, OneMark
  <2>2. d.staged = <<>> /\ d.draft = Append(c.draft, 0)
    BY <1>10, <1>11, OneMark
  <2>3. QED
    BY <2>1, <2>2
<1>13. PICK e : e = [d EXCEPT !.draft = Append(@, L + 2)]
  OBVIOUS
<1>14. /\ AppFits(e, FineTexts(h, D), OldTexts(h, D, b))
       /\ e.staged = <<>> /\ e.draft = Append(d.draft, L + 2) /\ AtHand(e, h, b, D)
  <2>1. Len(g) + 1 = L + 2
    BY <1>6
  <2>2. e = [d EXCEPT !.draft = Append(@, Len(g) + 1)]
    BY <1>13, <2>1
  <2>3. AppFits(e, FineTexts(h, D), OldTexts(h, D, b)) /\ AtHand(e, h, b, D)
    BY <1>1, <1>6, <1>7, <1>12, <2>2, OneTyped
  <2>4. e.staged = <<>> /\ e.draft = Append(d.draft, Len(g) + 1)
    BY <1>1, <1>6, <1>12, <2>2, OneTyped
  <2>5. QED
    BY <2>1, <2>3, <2>4
<1>15. PICK t : t = a.draft /\ t \in Seq(Int)
  BY <1>3 DEF AppFits, AppRecords, FineTexts
<1>16. t \o <<L + 1, 0, L + 2>> = Append(Append(Append(t, L + 1), 0), L + 2)
  <2>1. PICK x \in Int, y \in Int, w \in Int : x = L + 1 /\ y = 0 /\ w = L + 2
    OBVIOUS
  <2>2. t \o <<x, y, w>> = Append(Append(Append(t, x), y), w)
    <3>1. t \in Seq(Int)
      BY <1>15
    <3>2. QED
      BY <3>1, ThreeMore
  <2>3. QED
    BY <2>1, <2>2
<1>17. PICK z : z = [e EXCEPT !.pos = 0]
  OBVIOUS
<1>18. app' = z
  <2>1. app' = [a EXCEPT !.draft = @ \o <<L + 1, 0, L + 2>>, !.pos = 0]
    BY <1>1, <1>2, <1>4, Zenon DEF Paste, Typed
  <2>2. PICK x : x = t \o <<L + 1, 0, L + 2>> /\ x = e.draft
    BY <1>10, <1>12, <1>14, <1>15, <1>16
  <2>3. a \in [draft : FineTexts(f, D), staged : FineTexts(f, D), hist : Seq(OldTexts(f, D, b)), pos : Nat,
               stash : OldTexts(f, D, b), queued : Seq(OldTexts(f, D, b)),
               armed : BOOLEAN, busy : BOOLEAN, ask : BOOLEAN]
    BY <1>3 DEF AppFits, AppRecords
  <2>4. c = [a EXCEPT !.draft = c.draft] /\ d = [a EXCEPT !.draft = d.draft] /\ e = [a EXCEPT !.draft = x]
    BY <1>9, <1>11, <1>13, <2>2, <2>3
  <2>5. QED
    BY <1>15, <1>17, <2>1, <2>2, <2>3, <2>4
<1>19. AppFits(z, FineTexts(h, D), OldTexts(h, D, b)) /\ AtHand(z, h, b, D)
  <2>1. e \in AppRecords(FineTexts(h, D), OldTexts(h, D, b)) /\ Len(e.hist) >= 0
    BY <1>14 DEF AppFits, AppRecords
  <2>2. z \in AppRecords(FineTexts(h, D), OldTexts(h, D, b)) /\ z.pos = 0 /\ z.hist = e.hist
        /\ z.draft = e.draft /\ z.staged = e.staged
    BY <1>17, <2>1 DEF AppRecords
  <2>3. QED
    BY <1>14, <2>1, <2>2 DEF AppFits, AtHand
<1>20. OldTexts(f, D, b) \subseteq OldTexts(h, D, b)
  <2>1. OldTexts(f, D, b) \subseteq OldTexts(g, D, b)
    BY <1>1, <1>5, TextsTyped
  <2>2. OldTexts(g, D, b) \subseteq OldTexts(h, D, b)
    BY <1>1, <1>6, <1>7, TextsTyped
  <2>3. QED
    BY <2>1, <2>2
<1>21. ghost' = [ghost EXCEPT !.of = h, !.deleted = D]
  <2>1. f \o <<b, b>> = h
    BY <1>1, <1>5, <1>7, TwoMore
  <2>2. QED
    BY <1>1, <2>1 DEF Paste, ComposerInv, GhostTypes
<1>22. QED
  BY <1>1, <1>8, <1>18, <1>19, <1>20, <1>21, BurstLengthens

LEMMA CharInv == ASSUME ComposerInv, NEW answers \in BOOLEAN, Char(answers) PROVE ComposerInv'
<1>1. PICK f, b, D : f = ghost.of /\ b = ghost.burst /\ D = ghost.deleted /\ f \in Seq(Nat) /\ b \in Nat
                       /\ \A j \in 1..Len(f) : f[j] <= b
  BY DEF ComposerInv, GhostTypes
<1>2. PICK a : a = Rescued(app)
  OBVIOUS
<1>3. /\ a.staged = <<>> /\ AtHand(a, f, b, D) /\ AppFits(a, FineTexts(f, D), OldTexts(f, D, b))
      /\ Resolved("char") = a
  BY <1>1, <1>2, RescuedFits, ResolvedContinues, WhichContinue
<1>4. PICK L \in Nat : L = Len(f)
  BY <1>1
<1>5. PICK g : g = Append(f, b)
  OBVIOUS
<1>6. g \in Seq(Nat) /\ Len(g) = L + 1 /\ \A j \in 1..Len(g) : g[j] <= b
  BY <1>1, <1>4, <1>5, BurstsGrow
<1>7. CASE ~app.ask
  <2>1. PICK c : c = [a EXCEPT !.draft = Append(@, L + 1)]
    OBVIOUS
  <2>2. AppFits(c, FineTexts(g, D), OldTexts(g, D, b)) /\ AtHand(c, g, b, D)
    BY <1>1, <1>3, <1>4, <1>5, <2>1, OneTyped
  <2>3. app' = c
    BY <1>1, <1>3, <1>4, <1>7, <2>1 DEF Char, Typed
  <2>4. ghost' = [ghost EXCEPT !.of = g, !.deleted = D]
    BY <1>1, <1>5, <1>7 DEF Char, ComposerInv, GhostTypes
  <2>5. OldTexts(f, D, b) \subseteq OldTexts(g, D, b)
    BY <1>1, <1>5, TextsTyped
  <2>6. QED
    BY <1>1, <1>6, <2>2, <2>3, <2>4, <2>5, BurstLengthens
<1>8. CASE app.ask
  <2>1. PICK c, E : c = [a EXCEPT !.ask = ~answers] /\ E = D \cup {L + 1}
    OBVIOUS
  <2>2. app' = c
    BY <1>3, <1>8, <2>1 DEF Char
  <2>3. ghost' = [ghost EXCEPT !.of = g, !.deleted = E]
    BY <1>1, <1>4, <1>5, <1>8, <2>1 DEF Char, Typed
  <2>4. FineTexts(f, D) \subseteq FineTexts(g, E)
    BY <1>1, <1>4, <1>5, <2>1, FineTaken DEF FineTexts
  <2>5. OldTexts(f, D, b) \subseteq OldTexts(g, E, b)
    BY <1>1, <1>4, <1>5, <2>1, FineTaken DEF OldTexts, FineTexts
  <2>6. AppFits(a, FineTexts(g, E), OldTexts(g, E, b))
    BY <1>3, <2>4, <2>5, FitsMore
  <2>7. AppFits(c, FineTexts(g, E), OldTexts(g, E, b)) /\ c.draft = a.draft /\ c.staged = <<>>
    BY <1>3, <2>1, <2>6 DEF AppFits, AppRecords
  <2>8. ASSUME NEW j \in 1..L + 1, g[j] = b PROVE j \in Ids(c.draft) \cup Ids(c.staged) \cup E
    <3>1. CASE j = L + 1
      BY <2>1, <3>1
    <3>2. CASE j # L + 1
      <4>1. j \in 1..L
        BY <3>2
      <4>2. f[j] = b
        BY <1>1, <1>4, <1>5, <2>8, <4>1, AppendProperties
      <4>3. QED
        BY <1>3, <1>4, <2>1, <2>7, <4>1, <4>2, IdsNone DEF AtHand
    <3>3. QED
      BY <3>1, <3>2
  <2>9. AtHand(c, g, b, E)
    BY <1>6, <2>8 DEF AtHand
  <2>10. QED
    BY <1>1, <1>6, <2>2, <2>3, <2>5, <2>7, <2>9, BurstLengthens
<1>9. QED
  BY <1>7, <1>8

LEMMA ComposerNextInv ==
  ASSUME ~PastedTabs, ComposerInv, [ComposerNext]_composerVars PROVE ComposerInv'
<1>1. CASE UNCHANGED composerVars
  BY <1>1 DEF composerVars, ComposerInv, GhostTypes
<1>2. CASE ComposerNext
  BY <1>2, FlushInv, CommandInv, EnterInv, PasteInv, TabInv, EscInv, DeleteInv, PrevInv, ForwardInv, AskKeyInv,
     PauseInv, TurnsInv, CharInv DEF ComposerNext
<1>3. QED
  BY <1>1, <1>2

LEMMA ComposerInvWhole == ComposerInv => PasteStaysWhole
<1>1. SUFFICES ASSUME ComposerInv, NEW t \in ghost.sent
      PROVE /\ \A i \in Ids(t), j \in 1 .. Typed :
                 ghost.of[i] = ghost.of[j] => j \in Ids(t) \cup ghost.deleted
            /\ \A i, j \in DOMAIN t : i < j /\ t[i] > 0 /\ t[j] > 0 => t[i] < t[j]
  BY Zenon DEF PasteStaysWhole
<1>2. t \in Seq(Int) /\ Fine(t, ghost.of, ghost.deleted)
  BY <1>1 DEF ComposerInv, OldTexts, FineTexts
<1>3. QED
  BY <1>2 DEF Fine, Whole, Rises, Typed

(* Whatever is typed, staged, queued, recalled, deleted and asked, and whatever turns     *)
(* begin and end meanwhile: a prompt that reached the runtime has, with any character of  *)
(* a burst, every other one of the burst that the user did not delete, in typing order.   *)
(* A Tab within the pasted text is excluded: it queues the line before the paste is over. *)
THEOREM PasteStaysWholeAlways == ~PastedTabs => (ComposerSpec => []PasteStaysWhole)
<1>1. SUFFICES ASSUME ~PastedTabs PROVE ComposerSpec => []PasteStaysWhole
  OBVIOUS
<1>2. ComposerInv /\ [ComposerNext]_composerVars => ComposerInv'
  BY <1>1, ComposerNextInv
<1>3. QED
  BY <1>2, ComposerInitInv, ComposerInvWhole, PTL DEF ComposerSpec
=============================================================================
