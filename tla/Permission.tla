----------------------------- MODULE Permission -----------------------------
(***************************************************************************)
(* rc-perm's PermissionEngine and BypassChecker, as authorize_call of      *)
(* rc-core uses them: a check allows, denies or asks; an answer may add a  *)
(* session grant; the pump switches the mode at any time, also while the   *)
(* paths of a ReadMany are being checked one by one.                       *)
(*                                                                         *)
(* A path is a model of what globs tell apart; a command is what           *)
(* parse_bash makes of it.                                                 *)
(***************************************************************************)
EXTENDS Integers, Sequences, SequencesExt, FiniteSets

CONSTANTS
  Paths,      \* file paths
  Sub,        \* sub-commands: non-empty sequences of shell tokens
  RuleChoice, \* rules that may be configured
  MaxSubs,    \* bound on the sub-commands of a command
  MaxRules,   \* bound on the configured rules
  MaxGrants   \* bound on the session grants

ASSUME PermissionAssumption ==
  /\ MaxSubs \in Nat /\ MaxRules \in Nat /\ MaxGrants \in Nat
  /\ \A s \in Sub : s # <<>> /\ s \in Seq(Range(s))

Modes == {"default", "acceptEdits", "plan", "ask", "auto"}
Mcp == {"mcp__s__t", "mcp__s__u"}
Tools == {"Read", "Write", "ReadMany", "Bash"} \cup Mcp
Server == [t \in Tools |-> IF t \in Mcp THEN "mcp__s" ELSE t]

\* A rule names a tool, or all tools of an MCP server, and is bare or has a
\* specifier: the paths its glob matches, or the tokens of a command prefix.
Bare(tool) == [tool |-> tool, bare |-> TRUE, globs |-> {}, prefix |-> <<>>, wild |-> TRUE]
Glob(tool, S) == [Bare(tool) EXCEPT !.bare = FALSE, !.globs = S]
Prefix(p, wild) == [Bare("Bash") EXCEPT !.bare = FALSE, !.prefix = p, !.wild = wild]

-----------------------------------------------------------------------------
(* Calls                                                                   *)

\* What parse_bash makes of a command; opaque: nothing, because of a
\* substitution, eval or unbalanced quotes.  marked: it contains an always-ask
\* marker; fatal: a catastrophic pattern.  first: how its first word, up to
\* white space, reads as a rule: the token the command begins with ("token"),
\* a word with a separator or half a quote in it, which equals no token
\* ("other"), a comment sign, which shlex drops ("comment"), or no word ("").
Command ==
  {c \in [subs : SeqOf(Sub, MaxSubs), opaque : BOOLEAN, marked : BOOLEAN,
          fatal : BOOLEAN, first : {"token", "other", "comment", ""}] :
     /\ c.opaque => c.subs = <<>> /\ c.first # ""
     /\ c.first = "token" => c.subs # <<>>
     /\ c.first = "" => c.subs = <<>> /\ ~c.marked /\ ~c.fatal}

\* A call: its tool, its path or paths, its command.  given: the arguments
\* hold the command or the list of paths; a model may leave them out.
NoCommand == [subs |-> <<>>, opaque |-> FALSE, marked |-> FALSE, fatal |-> FALSE, first |-> ""]
Call(tool, paths, cmd, given) == [tool |-> tool, paths |-> paths, cmd |-> cmd, given |-> given]
Read(p) == Call("Read", <<p>>, NoCommand, TRUE)
Calls ==
  {Read(p) : p \in Paths}
    \cup {Call("Write", <<p>>, NoCommand, TRUE) : p \in Paths}
    \cup {Call("ReadMany", ps, NoCommand, TRUE) : ps \in SeqOf(Paths, 2)}
    \cup {Call(t, <<>>, NoCommand, FALSE) : t \in Tools}
    \cup {Call("Bash", <<>>, c, TRUE) : c \in Command}

VARIABLES
  checker,   \* "engine", or "bypass" for --dangerously-skip-permissions
  deny, allow, ask,  \* PermissionEngine's rules
  mode,      \* PermissionEngine.mode
  grants,    \* Session.perm_grants
  pc,        \* "idle", "reads" (inside a ReadMany), "ask" (the prompter waits), "run"
  call,      \* the call being authorized or run
  todo,      \* paths of the ReadMany still to check
  held       \* ghost: modes in force since the check of a ReadMany began

rules == <<checker, deny, allow, ask>>
vars == <<rules, mode, grants, pc, call, todo, held>>

-----------------------------------------------------------------------------
(* Matching                                                                *)

is_mcp(tool) == tool \in Mcp \cup {"mcp__s"}
is_mutating(tool) == tool \in {"Write", "Bash"} \/ is_mcp(tool)

\* A rule named after a server covers all its tools.
rule_covers(r, tool) == r.tool \in {tool, Server[tool]}

\* A specifier needs the call's one path; a ReadMany has none of its own.
path_matches(r, c) == r.bare \/ (c.tool # "ReadMany" /\ \E p \in Range(c.paths) : p \in r.globs)
Matches(r, c) == rule_covers(r, c.tool) /\ path_matches(r, c)

rule_matches(r, sub) ==
  IF r.wild THEN IsPrefix(r.prefix, sub) ELSE sub = r.prefix

\* bash_specs: only rules with a specifier; a bare rule is looked for apart.
bash_specs(S) == {r \in S : r.tool = "Bash" /\ ~r.bare}
BareBash(S) == \E r \in S : r.tool = "Bash" /\ r.bare
Hits(S, c) == \E i \in DOMAIN c.subs : \E r \in bash_specs(S) : rule_matches(r, c.subs[i])
\* Mutant of CoversAll: one matching sub-command is enough.
CoversSome(S, c) ==
  \E i \in DOMAIN c.subs : BareBash(S) \/ \E r \in bash_specs(S) : rule_matches(r, c.subs[i])

CoversAll(S, c) ==
  /\ c.subs # <<>>
  /\ \A i \in DOMAIN c.subs : BareBash(S) \/ \E r \in bash_specs(S) : rule_matches(r, c.subs[i])

-----------------------------------------------------------------------------
(* Decisions                                                               *)

mode_default(tool, m) ==
  CASE m = "default" -> IF is_mutating(tool) THEN "ask" ELSE "allow"
    [] m = "acceptEdits" -> IF tool = "Bash" \/ is_mcp(tool) THEN "ask" ELSE "allow"
    [] m = "plan" -> IF is_mutating(tool) THEN "deny" ELSE "allow"
    [] m = "ask" -> "ask"
    [] m = "auto" -> "allow"

bash_check(c, g, m) ==
  IF c.fatal THEN "deny"
  ELSE IF m = "auto" THEN "allow"
  ELSE IF c.opaque THEN "ask"
  ELSE IF CoversAll(g, c) THEN "allow"
  ELSE IF c.marked THEN "ask"
  ELSE IF Hits(deny, c) THEN "deny"
  ELSE IF CoversAll(allow, c) THEN "allow"
  ELSE IF Hits(ask, c) THEN "ask"
  ELSE mode_default("Bash", m)

\* What rules and grants say of a tool other than Bash, or "none".
RuleDecision(c, g, m) ==
  IF \E r \in g : Matches(r, c) THEN "allow"
  ELSE IF m = "auto" THEN "allow"
  ELSE IF \E r \in deny : Matches(r, c) THEN "deny"
  ELSE IF \E r \in allow : Matches(r, c) THEN "allow"
  ELSE IF \E r \in ask : Matches(r, c) THEN "ask"
  ELSE "none"

\* PermissionEngine::check, but for the paths of a ReadMany.
check_one(c, g, m) ==
  IF c.tool = "Bash" THEN IF c.given THEN bash_check(c.cmd, g, m) ELSE "ask"
  ELSE IF RuleDecision(c, g, m) # "none" THEN RuleDecision(c, g, m)
  ELSE mode_default(c.tool, m)

\* No rule settles the ReadMany: its paths are checked as reads.
ByPath(c, g, m) == c.tool = "ReadMany" /\ c.given /\ RuleDecision(c, g, m) = "none"

engine_check(c, g, m) ==
  IF ByPath(c, g, m)
    THEN LET refused == {i \in DOMAIN c.paths : check_one(Read(c.paths[i]), g, m) # "allow"}
         IN  IF refused = {} THEN "allow" ELSE check_one(Read(c.paths[Min(refused)]), g, m)
    ELSE check_one(c, g, m)

bypass_check(c) == IF c.tool = "Bash" /\ c.cmd.fatal THEN "deny" ELSE "allow"

\* The whole check, in one mode.
check(c, g, m) == IF checker = "bypass" THEN bypass_check(c) ELSE engine_check(c, g, m)

-----------------------------------------------------------------------------
(* Authorizing calls                                                       *)

NoCall == Call("none", <<>>, NoCommand, FALSE)

Init ==
  /\ \/ /\ checker = "engine"
        /\ deny \in SUBSET RuleChoice /\ allow \in SUBSET RuleChoice /\ ask \in SUBSET RuleChoice
        /\ Cardinality(deny) + Cardinality(allow) + Cardinality(ask) <= MaxRules
     \/ checker = "bypass" /\ deny = {} /\ allow = {} /\ ask = {}
  /\ mode \in Modes
  /\ grants = {}
  /\ pc = "idle" /\ call = NoCall /\ todo = <<>> /\ held = {}

Idle == pc' = "idle" /\ call' = NoCall /\ todo' = <<>> /\ held' = {}

\* authorize_call acts on a decision.
Decide(c, d) ==
  \/ d = "deny" /\ Idle
  \/ /\ d \in {"allow", "ask"}
     /\ pc' = IF d = "allow" THEN "run" ELSE "ask"
     /\ call' = c /\ todo' = <<>> /\ held' = {}

\* check is called.  A ReadMany that no rule settles goes through its paths.
Check(c) ==
  /\ pc = "idle"
  /\ IF checker = "engine" /\ ByPath(c, grants, mode)
       THEN pc' = "reads" /\ call' = c /\ todo' = c.paths /\ held' = {mode}
       ELSE Decide(c, check(c, grants, mode))
  /\ UNCHANGED <<rules, mode, grants>>

\* Mutant of CheckRead: the first allowed path ends the loop.
CheckReadOnce ==
  /\ pc = "reads" /\ todo # <<>>
  /\ LET d == check_one(Read(Head(todo)), grants, mode)
     IN  IF d = "allow" THEN todo' = <<>> /\ UNCHANGED <<pc, call, held>>
         ELSE Decide(call, d)
  /\ UNCHANGED <<rules, mode, grants>>

\* The recursive check of one path, which loads the mode anew.
CheckRead ==
  /\ pc = "reads" /\ todo # <<>>
  /\ LET d == check_one(Read(Head(todo)), grants, mode)
     IN  IF d = "allow" THEN todo' = Tail(todo) /\ UNCHANGED <<pc, call, held>>
         ELSE Decide(call, d)
  /\ UNCHANGED <<rules, mode, grants>>

\* All paths are allowed.
ReadsAllowed ==
  /\ pc = "reads" /\ todo = <<>>
  /\ Decide(call, "allow")
  /\ UNCHANGED <<rules, mode, grants>>

\* Mutant of suggested_rule: the rule of a tool of a server covers the server.
suggested_server(c) ==
  CASE c.tool # "Bash" \/ c.cmd.first = "" -> Bare(Server[c.tool])
    [] c.cmd.first = "token" -> Prefix(<<c.cmd.subs[1][1]>>, TRUE)
    [] c.cmd.first = "comment" -> Prefix(<<>>, TRUE)
    [] c.cmd.first = "other" -> Prefix(<<"other">>, TRUE)

\* The first word of a command, or the whole tool.
suggested_rule(c) ==
  CASE c.tool # "Bash" \/ c.cmd.first = "" -> Bare(c.tool)
    [] c.cmd.first = "token" -> Prefix(<<c.cmd.subs[1][1]>>, TRUE)
    [] c.cmd.first = "comment" -> Prefix(<<>>, TRUE)
    [] c.cmd.first = "other" -> Prefix(<<"other">>, TRUE)

\* The user denies, or the turn is stopped, or allows the call once.
AnswerOnce(yes) ==
  /\ pc = "ask"
  /\ Decide(call, IF yes THEN "allow" ELSE "deny")
  /\ UNCHANGED <<rules, mode, grants>>

\* Session and Always: the suggested rule becomes a grant of the session.
AnswerSession ==
  /\ pc = "ask" /\ Cardinality(grants) < MaxGrants
  /\ Decide(call, "allow")
  /\ grants' = grants \cup {suggested_rule(call)}
  /\ UNCHANGED <<rules, mode>>

\* The tool returns.
Done == pc = "run" /\ Idle /\ UNCHANGED <<rules, mode, grants>>

\* The pump swaps the mode; nothing is locked.
set_mode(m) ==
  /\ m # mode
  /\ mode' = m
  /\ held' = IF pc = "reads" THEN held \cup {m} ELSE held
  /\ UNCHANGED <<rules, grants, pc, call, todo>>

Next ==
  \/ \E c \in Calls : Check(c)
  \/ CheckRead
  \/ ReadsAllowed
  \/ \E yes \in BOOLEAN : AnswerOnce(yes)
  \/ AnswerSession
  \/ Done
  \/ \E m \in Modes : set_mode(m)

Spec == Init /\ [][Next]_vars

-----------------------------------------------------------------------------
(* Properties                                                              *)

\* The type invariant.
TypeOK ==
  /\ checker \in {"engine", "bypass"}
  /\ deny \subseteq RuleChoice /\ allow \subseteq RuleChoice /\ ask \subseteq RuleChoice
  /\ mode \in Modes /\ held \subseteq Modes
  /\ grants \subseteq {suggested_rule(c) : c \in Calls}
  /\ Cardinality(grants) <= MaxGrants
  /\ pc \in {"idle", "reads", "ask", "run"}
  /\ call \in IF pc = "idle" THEN {NoCall} ELSE Calls
  /\ todo \in IF pc = "reads" THEN {SubSeq(call.paths, i, Len(call.paths)) : i \in 1..Len(call.paths) + 1}
                ELSE {<<>>}

\* A catastrophic command never runs: not in auto mode, not with the bypass
\* checker, not by a rule, a grant or the user's answer (bash_check,
\* BypassChecker::check: the raw command is looked at before anything else).
FatalNeverRuns == pc = "run" => ~call.cmd.fatal

\* A command the engine allows outside auto mode could be run piece by piece:
\* each sub-command alone is allowed by the same rules and grants, also one
\* that carries the command's always-ask marker (bash_check, rule_matches).
EveryPartAllowed ==
  checker = "engine" /\ mode # "auto" /\ pc = "idle" =>
    \A c \in Command : bash_check(c, grants, mode) = "allow" =>
      \A i \in DOMAIN c.subs, first \in {"token", "other"} :
        bash_check([c EXCEPT !.subs = <<c.subs[i]>>, !.first = first], grants, mode) = "allow"

\* "Don't ask again" widens and stays in its tool: if it changes the decision
\* on any call, the call is of the tool that was asked about, or a ReadMany
\* after a Read, and is now allowed (suggested_rule, rule_covers, check).
GrantStaysInTool ==
  [][grants' # grants =>
       \A c \in Calls : check(c, grants, mode) # check(c, grants', mode) =>
         /\ check(c, grants', mode) = "allow"
         /\ c.tool = call.tool \/ (call.tool = "Read" /\ c.tool = "ReadMany")]_vars

\* "Don't ask again" settles the call it was given for, whatever the mode is
\* switched to; of commands, those that parse_bash understands and whose
\* sub-commands all begin with the first word (suggested_rule, bash_check).
GrantSettles ==
  [][grants' # grants =>
       \/ /\ call.tool = "Bash"
          /\ \/ call.cmd.opaque \/ call.cmd.subs = <<>> \/ call.cmd.first = "other"
             \/ \E i \in DOMAIN call.cmd.subs : call.cmd.subs[i][1] # call.cmd.subs[1][1]
       \/ \A m \in Modes : check(call, grants', m) = "allow"]_vars

\* A grant reaches what the user meant: it settles the call it was given for and
\* opens no other tool (remember_allow, suggested_rule).
GrantsScoped == GrantStaysInTool /\ GrantSettles

\* Switching the mode while the paths of a ReadMany are checked one by one
\* lets no path through that no single mode would: a ReadMany that the engine
\* allows is allowed whole in one of the modes that were in force meanwhile
\* (PermissionEngine::check loads the mode again for every path).
BatchAllowedInOneMode ==
  pc = "reads" /\ todo = <<>> => \E m \in held : engine_check(call, grants, m) = "allow"

\* README.md:741 says of rules that `deny: [tool names]` means "return a denied
\* result, no ask"; bash_specs drops a rule without a specifier.
DeniedToolNeverAsked == pc = "ask" => Bare(call.tool) \notin deny
=============================================================================
