------------------------------- MODULE MCHost -------------------------------
(***************************************************************************)
(* The programs around the agent loop and the files they keep, for TLC.    *)
(* The parts share no state: a behaviour is one of the session log, of the *)
(* launcher, of a headless run's artifacts, of the settings page, of the   *)
(* transcript, of the composer or of an answer's layout, chosen at the     *)
(* start; the other parts rest in one initial state.                       *)
(***************************************************************************)
EXTENDS SessionLog, Launcher, Headless, Settings, Transcript, Composer, Layout

VARIABLE part
hostVars == <<part, logVars, launchVars, headVars, setVars, screenVars, composerVars, layoutVars>>

Init ==
  /\ part \in {"log", "launcher", "headless", "settings", "transcript", "composer", "layout"}
  /\ LogInit /\ ComposerInit
  /\ LaunchInit /\ (part # "launcher" => /\ order = <<>> /\ keys.env = Nil /\ keys.file = Nil
                                         /\ default = "default")
  /\ HeadInit   /\ older = {"journal", "report", "trajectory"}
  /\ SetInit    /\ (part # "settings" => {user, project, env} = {Blank} /\ flag = Unset)
  /\ ScreenInit /\ (part # "transcript" => v = restore_history(<<"failed">>))
  /\ LayoutInit /\ (part # "layout" => viewport = 11)

Next ==
  /\ part' = part
  /\ \/ part = "log" /\ LogNext /\ UNCHANGED <<launchVars, headVars, setVars, screenVars, composerVars, layoutVars>>
     \/ part = "launcher" /\ LaunchNext /\ UNCHANGED <<logVars, headVars, setVars, screenVars, composerVars, layoutVars>>
     \/ part = "headless" /\ HeadNext /\ UNCHANGED <<logVars, launchVars, setVars, screenVars, composerVars, layoutVars>>
     \/ part = "settings" /\ SetNext /\ UNCHANGED <<logVars, launchVars, headVars, screenVars, composerVars, layoutVars>>
     \/ part = "transcript" /\ ScreenNext /\ UNCHANGED <<logVars, launchVars, headVars, setVars, composerVars, layoutVars>>
     \/ part = "composer" /\ ComposerNext /\ UNCHANGED <<logVars, launchVars, headVars, setVars, screenVars, layoutVars>>
     \/ part = "layout" /\ LayoutNext
        /\ UNCHANGED <<logVars, launchVars, headVars, setVars, screenVars, composerVars>>

Spec == Init /\ [][Next]_hostVars

-----------------------------------------------------------------------------
(* Transcript: sessions restored with one folded block and with several    *)
(* turns.                                                                  *)
SomeHistories == {<<"failed">>, <<"thought", "failed", "ok">>}

(* Launcher: three of the five modes of cycle_mode.                        *)
MCCycle == [m \in {"default", "plan", "auto"} |->
              CASE m = "default" -> "plan" [] m = "plan" -> "auto" [] m = "auto" -> "default"]

(* Headless: a resumed session that has been billed and whose earlier run  *)
(* left its artifacts at the same paths.                                   *)
Asked == [kind |-> "user", calls |-> {}, id |-> "none", usage |-> 0]
Answered == [kind |-> "assistant", calls |-> {}, id |-> "none", usage |-> 1]
MCEarlier == {<<Asked, Answered>>}

(* Settings: layers that are blank, no JSON, mistyped in a key the page    *)
(* edits or not, or set the keys that interact; a permissions block with   *)
(* and without a mode.                                                     *)
MCModes == <<"ask", "default", "plan">>
MCLayers ==
  {Blank, [Blank EXCEPT !.bad = "file"], [Blank EXCEPT !.model = "m2"],
   [Blank EXCEPT !.bad = "model", !.dlr_url = "set"], [Blank EXCEPT !.bad = "permissions"],
   [Blank EXCEPT !.bad = "other", !.perms = TRUE, !.mode = "ask"],
   [Blank EXCEPT !.base = "custom", !.perms = TRUE],
   [Blank EXCEPT !.perms = TRUE, !.mode = "plan", !.transport = "dlr"],
   [Blank EXCEPT !.dlr_url = "set", !.roster = <<<<"m1", "m1", "m2">>>>],
   [Blank EXCEPT !.dlr_enabled = "false", !.base = "custom"]}

(* Layout: a table of two columns, a short and a long one, with rows that  *)
(* have too few and too many cells; widths at which it fits, is narrowed,  *)
(* and cannot be; prose with a double blank and a wide glyph; two fences.  *)
Md(k, c) == [kind |-> k, cells |-> c]
Long == <<"a", "s", "a", "a", "a", "a", "a", "a", "a", "a">>
MCLines ==
  {Md("row", <<<<"a", "a">>, Long>>), Md("row", <<<<"a">>, <<>>, <<"a">>>>),
   Md("row", <<<<"a", "w", "a">>>>), Md("rule", <<<<"-">>, <<"-">>>>),
   Md("text", <<<<"a", "a", "a", "s", "s", "a", "w", "a", "a", "a", "s">>>>),
   Md("fence", <<<<"~">>>>), Md("fence", <<<<"^">>>>), Md("fence", <<<<"^", "a">>>>)}
=============================================================================
