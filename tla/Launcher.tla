------------------------------ MODULE Launcher ------------------------------
(* The interactive session loop of rc-cli main.rs: which session a launch opens,  *)
(* what /menu hands back (resume another session, start one, reload this one),    *)
(* and what is rebuilt around the session each time: its store, the permission    *)
(* mode in its three places, the API key of the client.  A mode change passes     *)
(* from the TUI's status bar through the pump, which sets the engine, to the      *)
(* driver, which notes it in the session between two turns.                       *)
EXTENDS Naturals, Sequences, FiniteSets, SequencesExt

CONSTANTS SessionIds,          \* session ids, in the order fresh_session_id hands them out
          AgentModes,   \* permission modes
          DefaultModes, \* what settings.default_mode may resolve to
          Cycle,        \* cycle_mode: the mode that follows each
          Keys,         \* API keys
          ActionsCap,   \* room in the runtime's action channel (64)
          DriverCap,    \* room in the driver's command channel (16)
          MaxSteps      \* bound: things the user does

Nil == "nil"
ASSUME LaunchAssumption ==
  /\ IsFiniteSet(SessionIds)
  /\ "default" \in AgentModes /\ DefaultModes \subseteq AgentModes
  /\ {Nil, "run"} \cap AgentModes = {} /\ Cycle \in [AgentModes -> AgentModes]

VARIABLES files,     \* files[id]: <<>> or <<[mode, notes, turns]>>, the session file
          order,     \* the writes to session files, newest last: an id's last one is its mtime
          cur,       \* the running session: id, resumed, header mode, turns, mode
          engine, bar,         \* the mode the engine enforces and the status bar shows
          listing,   \* what /menu listed when it was opened, <<>> while it is closed
          keys,      \* env: the variable, file: ~/.sc/key, live: the client's, typed: in this process
          default,   \* settings.permissions.default_mode
          loop,      \* "start", "tui", "leaving" (shutdown_blocking), "closed" or "error"
          outcome,   \* what the TUI leaves with
          acts, cmds, \* the action and the command channel: modes, and "run" for a prompt
          held,      \* what the pump has taken and is sending to the driver
          changed,   \* ModeChanged events the TUI has not drained
          turning,   \* the driver is in a turn
          stale,     \* the bar shows a mode whose action was refused (history)
          chose,     \* chose[id]: the mode the user last asked for there (history)
          steps
rtVars == <<acts, cmds, held, changed, turning, stale>>
launchVars == <<files, order, cur, engine, bar, listing, keys, default, loop, outcome, rtVars, chose, steps>>

NoSession == [id |-> Nil, resumed |-> FALSE, header |-> Nil, turns |-> 0, mode |-> Nil]
NoOutcome == [do |-> "none", id |-> Nil]

\* the key a launch resolves: the variable, else the file, else the one typed at first run
resolve_api_key == IF keys.env # Nil THEN keys.env ELSE keys.file

LaunchInit ==
  /\ files \in [SessionIds -> {<<>>, <<[mode |-> CHOOSE m \in AgentModes : TRUE, notes |-> <<>>, turns |-> 1]>>}]
  /\ LET kept == {i \in SessionIds : files[i] # <<>>}
     IN order \in {w \in [1 .. Cardinality(kept) -> kept] : \A i, j \in DOMAIN w : w[i] = w[j] => i = j}
  /\ cur = NoSession /\ engine = Nil /\ bar = Nil /\ listing = <<>>
  /\ \E e, f \in Keys \cup {Nil} : keys = [env |-> e, file |-> f, live |-> Nil, typed |-> Nil]
  /\ default \in DefaultModes /\ loop = "start" /\ outcome = NoOutcome
  /\ acts = <<>> /\ cmds = <<>> /\ held = Nil /\ changed = <<>> /\ turning = FALSE /\ stale = FALSE
  /\ chose = [i \in SessionIds |-> IF files[i] = <<>> THEN Nil ELSE files[i][1].mode] /\ steps = 0

-----------------------------------------------------------------------------
(* rc_session::load, latest, list; reconcile_mode                               *)
LoadedMode(f) == IF f.notes = <<>> THEN f.mode ELSE Last(f.notes)
LoadedSession(id) ==
  [id |-> id, resumed |-> TRUE, header |-> Nil, turns |-> files[id][1].turns,
   mode |-> LoadedMode(files[id][1])]
Fresh(id) == [id |-> id, resumed |-> FALSE, header |-> Nil, turns |-> 0, mode |-> "default"]
latest == IF order = <<>> THEN Nil ELSE Last(order)
Unused == {i \in SessionIds : files[i] = <<>> /\ i # cur.id /\ chose[i] = Nil}

\* a new runtime
Restarted ==
  acts' = <<>> /\ cmds' = <<>> /\ held' = Nil /\ changed' = <<>> /\ turning' = FALSE /\ stale' = FALSE

\* Mutant of EnterSession: a resumed session takes the configured default too
EnterDefault(s, left) ==
  /\ cur' = [s EXCEPT !.mode = default, !.header = IF s.resumed THEN Nil ELSE default]
  /\ engine' = default /\ bar' = default
  /\ chose' = [left EXCEPT ![s.id] = IF @ = Nil THEN default ELSE @]
  /\ loop' = "tui" /\ Restarted

\* the session's own mode wins when it was resumed, the configured default otherwise; the
\* header of a new store is serialized after that
EnterSession(s, left) ==
  LET m == IF s.resumed THEN s.mode ELSE default IN
  /\ cur' = [s EXCEPT !.mode = m, !.header = IF s.resumed THEN Nil ELSE m]
  /\ engine' = m /\ bar' = m
  /\ chose' = [left EXCEPT ![s.id] = IF @ = Nil THEN m ELSE @]
  /\ loop' = "tui" /\ Restarted

Fails ==
  /\ loop' = "error" /\ cur' = NoSession /\ Restarted /\ UNCHANGED <<engine, bar, chose>>

\* a bare launch, --resume and --continue; without any key an interactive one asks and saves
Launch(how) ==
  /\ loop = "start"
  /\ \/ resolve_api_key # Nil /\ keys' = [keys EXCEPT !.live = resolve_api_key]
     \/ \E k \in Keys : /\ resolve_api_key = Nil
                        /\ keys' = [keys EXCEPT !.live = k, !.file = k, !.typed = k]
  /\ CASE how = "fresh" -> IF Unused = {} THEN Fails ELSE EnterSession(Fresh(CHOOSE i \in Unused : TRUE), chose)
       [] how = "continue" -> IF latest = Nil THEN Fails ELSE EnterSession(LoadedSession(latest), chose)
       [] OTHER -> IF files[how] = <<>> THEN Fails ELSE EnterSession(LoadedSession(how), chose)
  /\ UNCHANGED <<files, order, listing, default, outcome, steps>>

-----------------------------------------------------------------------------
(* The user in the TUI                                                          *)
LaunchStep == loop = "tui" /\ steps < MaxSteps /\ steps' = steps + 1

\* a prompt; while a turn is on its way the composer queues it instead
Submit ==
  /\ LaunchStep /\ listing = <<>> /\ ~turning /\ "run" \notin Range(acts) \cup Range(cmds) \cup {held}
  /\ Len(acts) < ActionsCap /\ acts' = Append(acts, "run")
  /\ UNCHANGED <<files, order, cur, engine, bar, listing, keys, default, loop, outcome, cmds, held, changed,
                 turning, stale, chose>>

\* Shift+Tab and /mode: the bar at once, "optimistic", even when the action is refused
SetMode ==
  /\ LaunchStep /\ listing = <<>>
  /\ bar' = Cycle[bar]
  /\ IF Len(acts) < ActionsCap
     THEN acts' = Append(acts, Cycle[bar]) /\ chose' = [chose EXCEPT ![cur.id] = Cycle[bar]] /\ UNCHANGED stale
     ELSE stale' = TRUE /\ UNCHANGED <<acts, chose>>
  /\ UNCHANGED <<files, order, cur, engine, listing, keys, default, loop, outcome, cmds, held, changed, turning>>

\* drain_events: "ModeChanged confirms"
DrainEvents ==
  /\ loop = "tui" /\ changed # <<>>
  /\ bar' = Last(changed) /\ changed' = <<>> /\ stale' = FALSE
  /\ UNCHANGED <<files, order, cur, engine, listing, keys, default, loop, outcome, acts, cmds, held, turning,
                 chose, steps>>

\* /menu: list() reads the directory once, header-only files left out
OpenMenu ==
  /\ loop = "tui" /\ listing = <<>>
  /\ listing' = <<Range(order)>>
  /\ UNCHANGED <<files, order, cur, engine, bar, keys, default, loop, outcome, rtVars, chose, steps>>

CloseMenu ==
  /\ loop = "tui" /\ listing # <<>> /\ listing' = <<>>
  /\ UNCHANGED <<files, order, cur, engine, bar, keys, default, loop, outcome, rtVars, chose, steps>>

\* leave_with: the TUI ends with an outcome and shuts the runtime down
Leave(do, id) ==
  /\ loop' = "leaving" /\ outcome' = [do |-> do, id |-> id] /\ listing' = <<>>
  /\ UNCHANGED <<files, order, cur, engine, bar, default, rtVars, chose>>

\* Outcome::Resume and Outcome::NewIn
ResumeSession(id) ==
  /\ LaunchStep /\ listing # <<>> /\ id \in listing[1]
  /\ Leave("resume", id) /\ UNCHANGED keys
NewIn == LaunchStep /\ listing # <<>> /\ Unused # {} /\ Leave("new", Nil) /\ UNCHANGED keys

\* commit_api_key, and the DLR switch: both leave with Reload
SaveKey(k) ==
  /\ LaunchStep /\ listing # <<>>
  /\ keys' = [keys EXCEPT !.file = k, !.typed = k] /\ Leave("reload", Nil)
ToggleTransport == LaunchStep /\ listing # <<>> /\ Leave("reload", Nil) /\ UNCHANGED keys

Quit == loop = "tui" /\ Leave("quit", Nil) /\ UNCHANGED <<keys, steps>>

-----------------------------------------------------------------------------
(* The runtime, which goes on while the TUI waits for it to shut down           *)
InRuntime == loop \in {"tui", "leaving"}

\* pump_task: the engine and the event first, then the driver when it has room
PumpTakes ==
  /\ InRuntime /\ held = Nil /\ acts # <<>>
  /\ acts' = Tail(acts) /\ held' = Head(acts)
  /\ IF Head(acts) = "run" THEN UNCHANGED <<engine, changed>>
     ELSE engine' = Head(acts) /\ changed' = Append(changed, Head(acts))
  /\ UNCHANGED <<files, order, cur, bar, listing, keys, default, loop, outcome, cmds, turning, stale, chose, steps>>

PumpSends ==
  /\ InRuntime /\ held # Nil /\ Len(cmds) < DriverCap
  /\ cmds' = Append(cmds, held) /\ held' = Nil
  /\ UNCHANGED <<files, order, cur, engine, bar, listing, keys, default, loop, outcome, acts, changed, turning,
                 stale, chose, steps>>

\* append_turn: the first one creates the file, with the header serialized at the start
Append1(f) ==
  /\ files' = [files EXCEPT ![cur.id] = <<f>>]
  /\ order' = Append(order, cur.id)
FileNow == IF files[cur.id] = <<>> THEN [mode |-> cur.header, notes |-> <<>>, turns |-> 0]
           ELSE files[cur.id][1]

\* driver_task between turns: SetMode is a note, unless the session has the mode; Run a turn
DriverSetsMode ==
  /\ InRuntime /\ ~turning /\ cmds # <<>> /\ Head(cmds) # "run"
  /\ cmds' = Tail(cmds)
  /\ IF Head(cmds) = cur.mode THEN UNCHANGED <<files, order, cur>>
     ELSE /\ Append1([FileNow EXCEPT !.notes = Append(@, Head(cmds))])
          /\ cur' = [cur EXCEPT !.mode = Head(cmds)]
  /\ UNCHANGED <<engine, bar, listing, keys, default, loop, outcome, acts, held, changed, turning, stale, chose, steps>>

DriverRuns ==
  /\ InRuntime /\ ~turning /\ cmds # <<>> /\ Head(cmds) = "run"
  /\ cmds' = Tail(cmds) /\ turning' = TRUE
  /\ UNCHANGED <<files, order, cur, engine, bar, listing, keys, default, loop, outcome, acts, held, changed, stale,
                 chose, steps>>

TurnEnds ==
  /\ InRuntime /\ turning
  /\ turning' = FALSE /\ Append1([FileNow EXCEPT !.turns = @ + 1])
  /\ cur' = [cur EXCEPT !.turns = @ + 1]
  /\ UNCHANGED <<engine, bar, listing, keys, default, loop, outcome, acts, cmds, held, changed, stale, chose, steps>>

-----------------------------------------------------------------------------
(* The next turn of main's loop                                                 *)
\* Reload adopts the saved key and reopens the session from its file
Rebuild(left) ==
  /\ CASE outcome.do = "quit" ->
            loop' = "closed" /\ Restarted /\ chose' = left /\ UNCHANGED <<cur, engine, bar, keys>>
       [] outcome.do = "resume" -> EnterSession(LoadedSession(outcome.id), left) /\ UNCHANGED keys
       [] outcome.do = "new" -> EnterSession(Fresh(CHOOSE i \in Unused : TRUE), left) /\ UNCHANGED keys
       [] outcome.do = "reload" ->
            /\ keys' = [keys EXCEPT !.live = IF keys.file # Nil THEN keys.file ELSE @]
            /\ IF files[cur.id] = <<>> THEN Fails ELSE EnterSession(LoadedSession(cur.id), left)
  /\ outcome' = NoOutcome
  /\ UNCHANGED <<files, order, listing, default, steps>>

Drained == acts = <<>> /\ held = Nil /\ cmds = <<>> /\ ~turning

\* shutdown_blocking: pump and driver finish what was accepted before the Quit, or are
\* aborted after five seconds, and what they had not done is lost
ShutDown == loop = "leaving" /\ Drained /\ Rebuild(chose)
Aborted == loop = "leaving" /\ ~Drained /\ Rebuild([chose EXCEPT ![cur.id] = cur.mode])

LaunchNext ==
  \/ \E how \in {"fresh", "continue"} \cup SessionIds : Launch(how)
  \/ Submit \/ SetMode \/ DrainEvents \/ OpenMenu \/ CloseMenu \/ NewIn \/ ToggleTransport \/ Quit
  \/ \E id \in SessionIds : ResumeSession(id)
  \/ \E k \in Keys : SaveKey(k)
  \/ PumpTakes \/ PumpSends \/ DriverSetsMode \/ DriverRuns \/ TurnEnds
  \/ ShutDown \/ Aborted
LaunchSpec == LaunchInit /\ [][LaunchNext]_launchVars

-----------------------------------------------------------------------------
\* no mode change is on its way to the engine or to the session
ModesSettled == (Range(acts) \cup Range(cmds) \cup {held}) \cap AgentModes = {}

(* Whatever turns, prompts and further changes a mode change crosses on its way from the  *)
(* status bar through the pump to the driver, once it has arrived the engine enforces     *)
(* what the session records and the user last asked for, and once its event is drained    *)
(* the bar shows it, unless a later change was refused for want of room; and a session    *)
(* entered again, by --resume, --continue, /menu or a reload, is in the mode it was left  *)
(* in, or in the one the driver had got to when the shutdown aborted it.                  *)
ModesAgree ==
  loop = "tui" /\ ModesSettled =>
    /\ engine = cur.mode /\ chose[cur.id] = cur.mode
    /\ changed = <<>> /\ ~stale => bar = cur.mode

(* A reload reopens "the same session from its own file, which already holds every turn": *)
(* it never ends the program.                                                             *)
ReloadReopens ==
  [][loop = "leaving" /\ loop' # "leaving" /\ outcome.do = "reload" => loop' = "tui"]_launchVars

(* "An explicit env var beats a file, so a ... invocation is never quietly overridden by  *)
(* whatever was last saved": the client's key is the one typed into this process, else    *)
(* the one the launch resolved.                                                           *)
KeyIsMeant ==
  loop = "tui" => keys.live = IF keys.typed # Nil THEN keys.typed ELSE resolve_api_key
=============================================================================
