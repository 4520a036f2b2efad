-------------------------- MODULE PermissionProofs --------------------------
(***************************************************************************)
(* Safety of authorization for every set of paths, sub-commands and rules, *)
(* and any number of rules and grants.                                     *)
(***************************************************************************)
EXTENDS Permission, SequenceTheorems, TLAPS

-----------------------------------------------------------------------------
(* Calls                                                                   *)

\* Only a Bash call carries a command; a list of paths is one of Paths.
LEMMA CallShape ==
  ASSUME NEW c \in Calls
  PROVE  /\ c.tool \in Tools
         /\ c.tool # "Bash" => ~c.cmd.fatal
         /\ ~c.given => ~c.cmd.fatal
         /\ c.tool = "ReadMany" /\ c.given => c.paths \in Seq(Paths)
<1>1. CASE \E p \in Paths : c = Read(p)
  <2>1. PICK p \in Paths : c = Read(p)
    BY <1>1
  <2> QED
    BY <2>1 DEF Read, Call, NoCommand, Tools, Mcp
<1>2. CASE \E p \in Paths : c = Call("Write", <<p>>, NoCommand, TRUE)
  <2>1. PICK p \in Paths : c = Call("Write", <<p>>, NoCommand, TRUE)
    BY <1>2
  <2> QED
    BY <2>1 DEF Call, NoCommand, Tools, Mcp
<1>3. CASE \E ps \in SeqOf(Paths, 2) : c = Call("ReadMany", ps, NoCommand, TRUE)
  <2>1. PICK ps \in SeqOf(Paths, 2) : c = Call("ReadMany", ps, NoCommand, TRUE)
    BY <1>3
  <2>2. PICK n \in 0..2 : ps \in [1..n -> Paths]
    BY DEF SeqOf
  <2>3. ps \in Seq(Paths)
    BY <2>2
  <2> QED
    BY <2>1, <2>3 DEF Call, NoCommand, Tools, Mcp
<1>4. CASE \E t \in Tools : c = Call(t, <<>>, NoCommand, FALSE)
  <2>1. PICK t \in Tools : c = Call(t, <<>>, NoCommand, FALSE)
    BY <1>4
  <2> QED
    BY <2>1 DEF Call, NoCommand
<1>5. CASE \E d \in Command : c = Call("Bash", <<>>, d, TRUE)
  BY <1>5 DEF Call, Tools, Mcp
<1> QED
  BY <1>1, <1>2, <1>3, <1>4, <1>5 DEF Calls

-----------------------------------------------------------------------------
(* Catastrophic commands                                                   *)

\* A catastrophic command is denied by either checker.
LEMMA FatalDenied ==
  ASSUME NEW c \in Calls, c.cmd.fatal, NEW g, NEW m
  PROVE  check(c, g, m) = "deny" /\ ~ByPath(c, g, m)
BY CallShape DEF check, bypass_check, engine_check, ByPath, check_one, bash_check

\* Whatever is being asked about, checked by path or run is not catastrophic.
NotFatal == pc # "idle" => ~call.cmd.fatal

\* No step authorizes a catastrophic command.
LEMMA NotFatalStep == NotFatal /\ [Next]_vars => NotFatal'
<1> SUFFICES ASSUME NotFatal, [Next]_vars PROVE NotFatal'
  OBVIOUS
<1> USE DEF NotFatal
<1>1. ASSUME NEW c \in Calls, Check(c) PROVE NotFatal'
  <2>1. CASE c.cmd.fatal
    BY <1>1, <2>1, FatalDenied DEF Check, Decide, Idle
  <2>2. CASE ~c.cmd.fatal
    BY <1>1, <2>2 DEF Check, Decide, Idle
  <2> QED
    BY <2>1, <2>2
<1>2. CASE CheckRead
  BY <1>2 DEF CheckRead, Decide, Idle
<1>3. CASE ReadsAllowed
  BY <1>3 DEF ReadsAllowed, Decide, Idle
<1>4. ASSUME NEW yes \in BOOLEAN, AnswerOnce(yes) PROVE NotFatal'
  BY <1>4 DEF AnswerOnce, Decide, Idle
<1>5. CASE AnswerSession
  BY <1>5 DEF AnswerSession, Decide, Idle
<1>6. CASE Done
  BY <1>6 DEF Done, Idle
<1>7. ASSUME NEW m \in Modes, set_mode(m) PROVE NotFatal'
  BY <1>7 DEF set_mode
<1>8. CASE UNCHANGED vars
  BY <1>8 DEF vars
<1> QED
  BY <1>1, <1>2, <1>3, <1>4, <1>5, <1>6, <1>7, <1>8 DEF Next

\* A catastrophic command never runs, whatever the checker, the rules, the
\* grants, the mode and the answers (bash_check, BypassChecker::check).
THEOREM CatastrophicNeverRuns == Spec => []FatalNeverRuns
<1>1. Init => NotFatal
  BY DEF Init, NotFatal
<1>2. NotFatal => FatalNeverRuns
  BY DEF NotFatal, FatalNeverRuns
<1> QED
  BY <1>1, <1>2, NotFatalStep, PTL DEF Spec

-----------------------------------------------------------------------------
(* Commands of several parts                                               *)

\* A sub-command alone is matched by what matches it in the command.
LEMMA PartCovered ==
  ASSUME NEW S, NEW c, NEW d, NEW i \in DOMAIN c.subs, d.subs = <<c.subs[i]>>
  PROVE  /\ CoversAll(S, c) => CoversAll(S, d)
         /\ Hits(S, d) => Hits(S, c)
<1>1. d.subs # <<>> /\ DOMAIN d.subs = {1} /\ d.subs[1] = c.subs[i]
  OBVIOUS
<1> QED
  BY <1>1 DEF CoversAll, Hits

\* Outside auto mode no mode allows a command by default.
LEMMA BashDefault ==
  ASSUME NEW m \in Modes, m # "auto"
  PROVE  mode_default("Bash", m) # "allow"
BY DEF mode_default, Modes, is_mutating, is_mcp, Mcp

\* The decision on a part, given the decision on the whole.
LEMMA PartAllowed ==
  ASSUME NEW m \in Modes, m # "auto", NEW g, NEW c, NEW d, NEW i \in DOMAIN c.subs,
         d.subs = <<c.subs[i]>>,
         d.fatal = c.fatal, d.opaque = c.opaque, d.marked = c.marked,
         bash_check(c, g, m) = "allow"
  PROVE  bash_check(d, g, m) = "allow"
<1>1. ~c.fatal /\ ~c.opaque
  BY DEF bash_check
<1>2. CASE CoversAll(g, c)
  BY <1>1, <1>2, PartCovered DEF bash_check
<1>3. CASE ~CoversAll(g, c)
  <2>1. ~c.marked /\ ~Hits(deny, c) /\ CoversAll(allow, c)
    BY <1>1, <1>3, BashDefault DEF bash_check
  <2> QED
    BY <1>1, <2>1, PartCovered DEF bash_check
<1> QED
  BY <1>2, <1>3

\* Every reachable mode is one of Modes.
LEMMA ModeTyped == Spec => [](mode \in Modes)
<1>1. Init => mode \in Modes
  BY DEF Init
<1>2. mode \in Modes /\ [Next]_vars => (mode \in Modes)'
  BY DEF Next, vars, Check, CheckRead, ReadsAllowed, AnswerOnce, AnswerSession, Done, set_mode
<1> QED
  BY <1>1, <1>2, PTL DEF Spec

\* A command that is allowed outside auto mode has only parts that are allowed
\* alone, for commands of any length and any rules and grants (bash_check).
THEOREM PartsAllowed == Spec => []EveryPartAllowed
<1>1. mode \in Modes => EveryPartAllowed
  <2> SUFFICES ASSUME mode \in Modes, mode # "auto",
                      NEW c \in Command, bash_check(c, grants, mode) = "allow",
                      NEW i \in DOMAIN c.subs, NEW first \in {"token", "other"}
               PROVE  bash_check([c EXCEPT !.subs = <<c.subs[i]>>, !.first = first], grants, mode) = "allow"
    BY DEF EveryPartAllowed
  <2> DEFINE d == [c EXCEPT !.subs = <<c.subs[i]>>, !.first = first]
  <2>1. /\ d.subs = <<c.subs[i]>>
        /\ d.fatal = c.fatal /\ d.opaque = c.opaque /\ d.marked = c.marked
    BY DEF Command
  <2> QED
    BY <2>1, PartAllowed
<1> QED
  BY <1>1, ModeTyped, PTL

-----------------------------------------------------------------------------
(* ReadMany under a changing mode                                          *)

ReadAllowed(p, g, m) == check_one(Read(p), g, m) = "allow"

\* The modes are ordered by what they let through: of two modes one allows
\* every read the other allows.
LEMMA ModesOrdered ==
  ASSUME NEW g, NEW m \in Modes, NEW n \in Modes
  PROVE  \/ \A p : ReadAllowed(p, g, m) => ReadAllowed(p, g, n)
         \/ \A p : ReadAllowed(p, g, n) => ReadAllowed(p, g, m)
<1> DEFINE wide == {"default", "acceptEdits", "plan"}
           By(S, p) == \E r \in S : Matches(r, Read(p))
<1>1. ASSUME NEW p PROVE /\ Read(p).tool = "Read" /\ ~is_mutating("Read") /\ ~is_mcp("Read")
  BY DEF Read, Call, is_mutating, is_mcp, Mcp
<1>2. ASSUME NEW p PROVE ReadAllowed(p, g, "auto")
  BY <1>1 DEF ReadAllowed, check_one, RuleDecision
<1>3. ASSUME NEW p, NEW k \in wide
      PROVE  ReadAllowed(p, g, k) <=> By(g, p) \/ (~By(deny, p) /\ (By(allow, p) \/ ~By(ask, p)))
  BY <1>1, <1>3 DEF ReadAllowed, check_one, RuleDecision, mode_default
<1>4. ASSUME NEW p
      PROVE  ReadAllowed(p, g, "ask") <=> By(g, p) \/ (~By(deny, p) /\ By(allow, p))
  BY <1>1 DEF ReadAllowed, check_one, RuleDecision, mode_default
<1>5. CASE m = "auto" \/ n = "auto"
  BY <1>2, <1>5
<1>6. CASE m = "ask" /\ n \in wide
  BY <1>3, <1>4, <1>6
<1>7. CASE n = "ask" /\ m \in wide
  BY <1>3, <1>4, <1>7
<1>8. CASE m \in wide /\ n \in wide
  BY <1>3, <1>8
<1> QED
  BY <1>5, <1>6, <1>7, <1>8 DEF Modes

\* Outside auto mode, rules and grants do not depend on the mode.
LEMMA RulesIgnoreMode ==
  ASSUME NEW c, NEW g, NEW m, m # "auto", NEW n, n # "auto"
  PROVE  RuleDecision(c, g, m) = RuleDecision(c, g, n)
BY DEF RuleDecision

\* The paths already passed are allowed in one of the modes held, and the
\* paths left are the rest of the call's.
Passed ==
  LET done == Len(call.paths) - Len(todo)
  IN  /\ call.tool = "ReadMany" /\ call.given /\ call.paths \in Seq(Paths)
      /\ todo \in Seq(Paths) /\ done \in Nat
      /\ \A j \in 1..Len(todo) : todo[j] = call.paths[done + j]
      /\ \A m \in Modes \ {"auto"} : RuleDecision(call, grants, m) = "none"
      /\ mode \in held /\ held \subseteq Modes
      /\ \E m \in held : \A i \in 1..done : ReadAllowed(call.paths[i], grants, m)

ReadsInv == mode \in Modes /\ (pc = "reads" => Passed)

\* A check that goes through the paths starts with none passed.
LEMMA CheckStarts ==
  ASSUME ReadsInv, NEW c \in Calls, Check(c)
  PROVE  ReadsInv'
<1> USE DEF ReadsInv
<1>1. CASE checker = "engine" /\ ByPath(c, grants, mode)
  <2>1. /\ c.tool = "ReadMany" /\ c.given /\ c.paths \in Seq(Paths)
        /\ RuleDecision(c, grants, mode) = "none" /\ mode # "auto"
    BY <1>1, CallShape DEF ByPath, RuleDecision
  <2>2. /\ call' = c /\ todo' = c.paths /\ held' = {mode} /\ mode' = mode /\ grants' = grants
        /\ UNCHANGED rules
    BY <1>1 DEF Check
  <2>3. Len(c.paths) \in Nat
    BY <2>1
  <2>4. \A m \in Modes \ {"auto"} : RuleDecision(c, grants, m) = "none"
    BY <2>1, RulesIgnoreMode
  <2>5. \A m \in Modes \ {"auto"} : RuleDecision(c, grants, m)' = RuleDecision(c, grants, m)
    BY <2>2 DEF rules, RuleDecision
  <2>6. 1..(Len(call'.paths) - Len(todo')) = {}
    BY <2>2, <2>3
  <2> QED
    BY <2>1, <2>2, <2>3, <2>4, <2>5, <2>6 DEF Passed
<1>2. CASE ~(checker = "engine" /\ ByPath(c, grants, mode))
  BY <1>2 DEF Check, Decide, Idle
<1> QED
  BY <1>1, <1>2

\* One more path is allowed, in the mode of the moment: the wider of that mode
\* and the one that allowed the others allows all of them.
LEMMA PathPasses ==
  ASSUME ReadsInv, CheckRead
  PROVE  ReadsInv'
<1> USE DEF ReadsInv
<1> DEFINE done == Len(call.paths) - Len(todo)
<1>1. /\ pc = "reads" /\ todo # <<>> /\ Passed
      /\ mode' = mode /\ grants' = grants /\ UNCHANGED rules
  BY DEF CheckRead
<1>2. CASE ReadAllowed(Head(todo), grants, mode)
  <2>1. todo' = Tail(todo) /\ call' = call /\ held' = held
    BY <1>2 DEF CheckRead, ReadAllowed
  <2>2. /\ call.paths \in Seq(Paths) /\ todo \in Seq(Paths) /\ done \in Nat
        /\ \A j \in 1..Len(todo) : todo[j] = call.paths[done + j]
    BY <1>1 DEF Passed
  <2>3. /\ Len(todo) \in Nat \ {0} /\ Head(todo) = todo[1] /\ Tail(todo) \in Seq(Paths)
        /\ Len(Tail(todo)) = Len(todo) - 1
        /\ \A j \in 1..Len(Tail(todo)) : Tail(todo)[j] = todo[j + 1]
    BY <1>1, <2>2
  <2>4. Head(todo) = call.paths[done + 1]
    BY <2>2, <2>3
  <2>5. Len(call.paths) - Len(Tail(todo)) = done + 1
    BY <2>2, <2>3
  <2>6. \A j \in 1..Len(Tail(todo)) : Tail(todo)[j] = call.paths[done + 1 + j]
    <3> SUFFICES ASSUME NEW j \in 1..Len(Tail(todo)) PROVE Tail(todo)[j] = call.paths[done + 1 + j]
      OBVIOUS
    <3> HIDE DEF done
    <3>0. Len(todo) \in Nat /\ done \in Nat /\ j \in 1..(Len(todo) - 1)
      BY <2>2, <2>3
    <3>1. j + 1 \in 1..Len(todo) /\ done + (j + 1) = done + 1 + j
      BY <3>0
    <3> QED
      BY <2>2, <2>3, <3>1
  <2>7. PICK m \in held : \A i \in 1..done : ReadAllowed(call.paths[i], grants, m)
    BY <1>1 DEF Passed
  <2>8. \E n \in held : \A i \in 1..(done + 1) : ReadAllowed(call.paths[i], grants, n)
    <3>1. mode \in held /\ held \subseteq Modes
      BY <1>1 DEF Passed
    <3>2. \A i \in 1..(done + 1) : i \in 1..done \/ i = done + 1
      BY <2>2
    <3>3. ReadAllowed(call.paths[done + 1], grants, mode)
      BY <1>2, <2>4
    <3>4. CASE \A p : ReadAllowed(p, grants, m) => ReadAllowed(p, grants, mode)
      BY <2>7, <3>1, <3>2, <3>3, <3>4
    <3>5. CASE \A p : ReadAllowed(p, grants, mode) => ReadAllowed(p, grants, m)
      BY <2>7, <3>1, <3>2, <3>3, <3>5
    <3> QED
      BY <3>1, <3>4, <3>5, ModesOrdered
  <2>9. /\ \A p, n : ReadAllowed(p, grants, n)' <=> ReadAllowed(p, grants, n)
        /\ \A n : RuleDecision(call, grants, n)' = RuleDecision(call, grants, n)
    BY <1>1, <2>1 DEF ReadAllowed, check_one, bash_check, RuleDecision, rules, Hits, CoversAll
  <2> QED
    BY <1>1, <2>1, <2>2, <2>3, <2>5, <2>6, <2>8, <2>9 DEF Passed
<1>3. CASE ~ReadAllowed(Head(todo), grants, mode)
  BY <1>1, <1>3 DEF CheckRead, ReadAllowed, Decide, Idle
<1> QED
  BY <1>2, <1>3

\* The mode changes: one more is held.
LEMMA ModeChanges ==
  ASSUME ReadsInv, NEW m \in Modes, set_mode(m)
  PROVE  ReadsInv'
<1> USE DEF ReadsInv
<1>1. /\ mode' = m /\ UNCHANGED <<rules, grants, pc, call, todo>>
      /\ pc = "reads" => held' = held \cup {m}
  BY DEF set_mode
<1>2. CASE pc = "reads"
  <2>1. /\ \A p, n : ReadAllowed(p, grants, n)' <=> ReadAllowed(p, grants, n)
        /\ \A n : RuleDecision(call, grants, n)' = RuleDecision(call, grants, n)
    BY <1>1 DEF ReadAllowed, check_one, bash_check, RuleDecision, rules, Hits, CoversAll
  <2> QED
    BY <1>1, <1>2, <2>1 DEF Passed
<1>3. CASE pc # "reads"
  BY <1>1, <1>3
<1> QED
  BY <1>2, <1>3

LEMMA ReadsStep == ReadsInv /\ [Next]_vars => ReadsInv'
<1> SUFFICES ASSUME ReadsInv, [Next]_vars PROVE ReadsInv'
  OBVIOUS
<1>1. CASE ReadsAllowed
  BY <1>1 DEF ReadsInv, ReadsAllowed, Decide
<1>2. ASSUME NEW yes \in BOOLEAN, AnswerOnce(yes) PROVE ReadsInv'
  BY <1>2 DEF ReadsInv, AnswerOnce, Decide, Idle
<1>3. CASE AnswerSession
  BY <1>3 DEF ReadsInv, AnswerSession, Decide
<1>4. CASE Done
  BY <1>4 DEF ReadsInv, Done, Idle
<1>5. CASE UNCHANGED vars
  <2>1. /\ \A p, n : ReadAllowed(p, grants, n)' <=> ReadAllowed(p, grants, n)
        /\ \A n : RuleDecision(call, grants, n)' = RuleDecision(call, grants, n)
    BY <1>5 DEF ReadAllowed, check_one, bash_check, RuleDecision, rules, vars, Hits, CoversAll
  <2> QED
    BY <1>5, <2>1 DEF ReadsInv, Passed, vars
<1> QED
  BY <1>1, <1>2, <1>3, <1>4, <1>5, CheckStarts, PathPasses, ModeChanges DEF Next

\* A ReadMany whose paths were all allowed, each in the mode of its moment, is
\* allowed whole in one of those modes (PermissionEngine::check).
THEOREM BatchNeedsOneMode == Spec => []BatchAllowedInOneMode
<1>1. Init => ReadsInv
  BY DEF Init, ReadsInv
<1>2. ReadsInv => BatchAllowedInOneMode
  <2> SUFFICES ASSUME ReadsInv, pc = "reads", todo = <<>>
               PROVE  \E m \in held : engine_check(call, grants, m) = "allow"
    BY DEF BatchAllowedInOneMode
  <2>1. Passed
    BY DEF ReadsInv
  <2>2. DOMAIN call.paths = 1..(Len(call.paths) - Len(todo))
    BY <2>1 DEF Passed
  <2>3. PICK m \in held : \A i \in DOMAIN call.paths : ReadAllowed(call.paths[i], grants, m)
    BY <2>1, <2>2 DEF Passed
  <2>4. CASE m = "auto"
    BY <2>1, <2>4 DEF Passed, engine_check, ByPath, check_one, RuleDecision
  <2>5. CASE m # "auto"
    <3>1. ByPath(call, grants, m)
      BY <2>1, <2>5 DEF Passed, ByPath
    <3> QED
      BY <2>3, <3>1 DEF engine_check, ReadAllowed
  <2> QED
    BY <2>4, <2>5
<1> QED
  BY <1>1, <1>2, ReadsStep, PTL DEF Spec

-----------------------------------------------------------------------------
(* "Don't ask again"                                                       *)

\* One rule more covers no fewer commands, and only a Bash rule covers more.
LEMMA CoversGrows ==
  ASSUME NEW g, NEW r, NEW c
  PROVE  /\ CoversAll(g, c) => CoversAll(g \cup {r}, c)
         /\ r.tool # "Bash" => (CoversAll(g \cup {r}, c) => CoversAll(g, c))
<1>1. bash_specs(g) \subseteq bash_specs(g \cup {r}) /\ (BareBash(g) => BareBash(g \cup {r}))
  BY DEF bash_specs, BareBash
<1>2. r.tool # "Bash" => bash_specs(g \cup {r}) \subseteq bash_specs(g) /\ (BareBash(g \cup {r}) => BareBash(g))
  BY DEF bash_specs, BareBash
<1> QED
  BY <1>1, <1>2 DEF CoversAll

LEMMA BashWidens ==
  ASSUME NEW g, NEW r, NEW c, NEW m, bash_check(c, g, m) # bash_check(c, g \cup {r}, m)
  PROVE  bash_check(c, g \cup {r}, m) = "allow" /\ r.tool = "Bash"
BY CoversGrows DEF bash_check

LEMMA RuleWidens ==
  ASSUME NEW g, NEW r, NEW c, NEW m, RuleDecision(c, g, m) # RuleDecision(c, g \cup {r}, m)
  PROVE  RuleDecision(c, g \cup {r}, m) = "allow" /\ Matches(r, c)
<1>1. (\E q \in g : Matches(q, c)) => (\E q \in g \cup {r} : Matches(q, c))
  OBVIOUS
<1>2. (\E q \in g \cup {r} : Matches(q, c)) => (\E q \in g : Matches(q, c)) \/ Matches(r, c)
  OBVIOUS
<1> QED
  BY <1>1, <1>2 DEF RuleDecision

\* A rule that names a tool covers that tool alone.
LEMMA CoversItsTool ==
  ASSUME NEW r, r.tool \in Tools, NEW t \in Tools, rule_covers(r, t)
  PROVE  r.tool = t
BY DEF rule_covers, Server, Tools, Mcp

\* A rule more changes a decision to allow, on calls of its tool.
LEMMA OneWidens ==
  ASSUME NEW g, NEW r, r.tool \in Tools, NEW c, c.tool \in Tools, NEW m,
         check_one(c, g, m) # check_one(c, g \cup {r}, m)
  PROVE  check_one(c, g \cup {r}, m) = "allow" /\ r.tool = c.tool
<1>1. CASE c.tool = "Bash"
  BY <1>1, BashWidens DEF check_one
<1>2. CASE c.tool # "Bash"
  <2>1. RuleDecision(c, g, m) # RuleDecision(c, g \cup {r}, m)
    BY <1>2 DEF check_one
  <2>2. RuleDecision(c, g \cup {r}, m) = "allow" /\ Matches(r, c)
    BY <2>1, RuleWidens
  <2>3. r.tool = c.tool
    BY <2>2, CoversItsTool DEF Matches
  <2> QED
    BY <1>2, <2>2, <2>3 DEF check_one
<1> QED
  BY <1>1, <1>2

LEMMA EngineWidens ==
  ASSUME NEW g, NEW r, r.tool \in Tools, r.tool = "Read" => r.bare, NEW c \in Calls, NEW m,
         engine_check(c, g, m) # engine_check(c, g \cup {r}, m)
  PROVE  /\ engine_check(c, g \cup {r}, m) = "allow"
         /\ c.tool = r.tool \/ (r.tool = "Read" /\ c.tool = "ReadMany")
<1> DEFINE h == g \cup {r}
<1>0. c.tool \in Tools /\ \A p : Read(p).tool = "Read" /\ "Read" \in Tools
  BY CallShape DEF Read, Call, Tools
<1>1. CASE ByPath(c, g, m) /\ ByPath(c, h, m)
  <2>1. \A p : check_one(Read(p), g, m) # check_one(Read(p), h, m) => r.tool = "Read"
    <3>1. ASSUME NEW p, check_one(Read(p), g, m) # check_one(Read(p), h, m) PROVE r.tool = "Read"
      BY <1>0, <3>1, OneWidens
    <3> QED
      BY <3>1
  <2>2. CASE r.tool # "Read"
    <3> HIDE DEF h
    <3>1. \A p : check_one(Read(p), g, m) = check_one(Read(p), h, m)
      BY <2>1, <2>2
    <3>2. engine_check(c, g, m) = engine_check(c, h, m)
      BY <1>1, <3>1 DEF engine_check
    <3> QED
      BY <3>2 DEF h
  <2>3. CASE r.tool = "Read"
    <3>1. \A p : check_one(Read(p), h, m) = "allow"
      <4>1. ASSUME NEW p PROVE Matches(r, Read(p))
        BY <1>0, <2>3 DEF Matches, rule_covers, path_matches
      <4>2. ASSUME NEW p PROVE RuleDecision(Read(p), h, m) = "allow"
        BY <4>1 DEF RuleDecision
      <4> HIDE DEF h
      <4>3. "Read" # "Bash" /\ "allow" # "none"
        OBVIOUS
      <4> QED
        BY <1>0, <4>2, <4>3 DEF check_one
    <3> HIDE DEF h
    <3>2. {i \in DOMAIN c.paths : check_one(Read(c.paths[i]), h, m) # "allow"} = {}
      BY <3>1
    <3>3. engine_check(c, h, m) = "allow"
      BY <1>1, <3>2 DEF engine_check
    <3>4. c.tool = "ReadMany"
      BY <1>1 DEF ByPath
    <3> QED
      BY <2>3, <3>3, <3>4 DEF h
  <2> QED
    BY <2>2, <2>3
<1>2. CASE ByPath(c, g, m) # ByPath(c, h, m)
  <2>1. c.tool = "ReadMany" /\ RuleDecision(c, g, m) # RuleDecision(c, h, m)
    BY <1>2 DEF ByPath
  <2>2. RuleDecision(c, h, m) = "allow" /\ Matches(r, c)
    BY <2>1, RuleWidens
  <2>3. r.tool = c.tool
    BY <1>0, <2>2, CoversItsTool DEF Matches
  <2> HIDE DEF h
  <2>4. ~ByPath(c, h, m) /\ check_one(c, h, m) = "allow"
    BY <2>1, <2>2 DEF ByPath, check_one
  <2> QED
    BY <2>3, <2>4 DEF engine_check, h
<1>3. CASE ~ByPath(c, g, m) /\ ~ByPath(c, h, m)
  <2>1. engine_check(c, g, m) = check_one(c, g, m) /\ engine_check(c, h, m) = check_one(c, h, m)
    BY <1>3 DEF engine_check
  <2> QED
    BY <1>0, <2>1, OneWidens
<1>4. ByPath(c, g, m) \in BOOLEAN /\ ByPath(c, h, m) \in BOOLEAN
  BY DEF ByPath
<1> QED
  BY <1>1, <1>2, <1>3, <1>4

\* The command of a call.
LEMMA CommandOf ==
  ASSUME NEW c \in Calls
  PROVE  c.cmd = NoCommand \/ (c.tool = "Bash" /\ c.given /\ c.cmd \in Command)
<1>1. ASSUME NEW p \in Paths, c = Read(p) PROVE c.cmd = NoCommand
  BY <1>1 DEF Read, Call
<1>2. ASSUME NEW p \in Paths, c = Call("Write", <<p>>, NoCommand, TRUE) PROVE c.cmd = NoCommand
  BY <1>2 DEF Call
<1>3. ASSUME NEW ps \in SeqOf(Paths, 2), c = Call("ReadMany", ps, NoCommand, TRUE) PROVE c.cmd = NoCommand
  BY <1>3 DEF Call
<1>4. ASSUME NEW t \in Tools, c = Call(t, <<>>, NoCommand, FALSE) PROVE c.cmd = NoCommand
  BY <1>4 DEF Call
<1>5. ASSUME NEW d \in Command, c = Call("Bash", <<>>, d, TRUE) PROVE c.tool = "Bash" /\ c.given /\ c.cmd \in Command
  BY <1>5 DEF Call
<1> QED
  BY <1>1, <1>2, <1>3, <1>4, <1>5 DEF Calls

LEMMA SuggestedTool ==
  ASSUME NEW c \in Calls
  PROVE  /\ suggested_rule(c).tool = c.tool /\ c.tool \in Tools
         /\ c.tool # "Bash" => suggested_rule(c) = Bare(c.tool) /\ suggested_rule(c).bare
<1>1. c.tool \in Tools
  BY CallShape
<1>2. /\ c.cmd.first \in {"token", "other", "comment", ""}
      /\ c.tool # "Bash" => c.cmd.first = ""
  <2>1. NoCommand.first = "" /\ \A d \in Command : d.first \in {"token", "other", "comment", ""}
    BY DEF NoCommand, Command
  <2> QED
    BY <2>1, CommandOf
<1>3. \A p, w : Prefix(p, w).tool = "Bash"
  BY DEF Prefix, Bare
<1>4. \A t : Bare(t).tool = t /\ Bare(t).bare
  BY DEF Bare
<1>5. CASE c.cmd.first = ""
  <2>1. suggested_rule(c) = Bare(c.tool)
    BY <1>5 DEF suggested_rule
  <2> QED
    BY <1>1, <1>4, <2>1
<1>6. CASE c.cmd.first # ""
  <2>1. c.tool = "Bash"
    BY <1>2, <1>6
  <2>2. \E p : suggested_rule(c) = Prefix(p, TRUE)
    BY <1>2, <1>6, <2>1 DEF suggested_rule
  <2> QED
    BY <1>1, <1>3, <2>1, <2>2
<1> QED
  BY <1>5, <1>6

\* What a command call looks like.
LEMMA CommandShape ==
  ASSUME NEW c \in Calls, c.tool = "Bash", c.cmd.subs # <<>>
  PROVE  /\ c.given /\ c.cmd.first \in {"token", "other", "comment"}
         /\ \A i \in DOMAIN c.cmd.subs : c.cmd.subs[i] \in Sub
<1>1. c.given /\ c.cmd \in Command
  <2>1. NoCommand.subs = <<>>
    BY DEF NoCommand
  <2> QED
    BY <2>1, CommandOf
<1>2. PICK d \in Command : d = c.cmd
  BY <1>1
<1>3. d.first \in {"token", "other", "comment", ""} /\ (d.first = "" => d.subs = <<>>) /\ d.subs \in SeqOf(Sub, MaxSubs)
  BY DEF Command
<1>4. PICK n \in 0..MaxSubs : d.subs \in [1..n -> Sub]
  BY <1>3 DEF SeqOf
<1> QED
  BY <1>1, <1>2, <1>3, <1>4

\* The suggested prefix matches every sub-command that begins with its word.
LEMMA PrefixMatches ==
  ASSUME NEW s \in Sub
  PROVE  rule_matches(Prefix(<<s[1]>>, TRUE), s) /\ rule_matches(Prefix(<<>>, TRUE), s)
<1>1. s # <<>> /\ s \in Seq(Range(s))
  BY PermissionAssumption
<1>2. PICK S : S = Range(s)
  OBVIOUS
<1>3. s \in Seq(S) /\ Len(s) \in Nat /\ Len(s) # 0
  BY <1>1, <1>2
<1>4. 1 \in 1..Len(s) /\ s[1] \in S
  BY <1>3
<1>5. PICK x \in S : x = s[1]
  BY <1>4
<1>6. /\ <<x>> \in Seq(S) /\ Len(<<x>>) = 1 /\ SubSeq(<<x>>, 1, 1) \in Seq(S)
      /\ Len(SubSeq(<<x>>, 1, 1)) = 1 /\ SubSeq(<<x>>, 1, 1)[1] = x
  OBVIOUS
<1>7. SubSeq(s, 1, 1) \in Seq(S) /\ Len(SubSeq(s, 1, 1)) = 1 /\ SubSeq(s, 1, 1)[1] = x
  BY <1>3, <1>4, <1>5
<1>8. IsPrefix(<<x>>, s)
  <2>1. PICK u \in Seq(S) : u = SubSeq(s, 1, 1) /\ Len(u) = 1 /\ u[1] = x
    BY <1>7
  <2>2. PICK v \in Seq(S) : v = SubSeq(<<x>>, 1, 1) /\ Len(v) = 1 /\ v[1] = x
    BY <1>6
  <2>3. \A i \in 1..Len(u) : u[i] = v[i]
    <3>1. \A i \in 1..1 : i = 1
      OBVIOUS
    <3> QED
      BY <2>1, <2>2, <3>1
  <2>4. u = v
    BY <2>1, <2>2, <2>3, SeqEqual
  <2>5. 1 <= Len(s)
    BY <1>3
  <2> QED
    BY <1>6, <2>1, <2>2, <2>4, <2>5 DEF IsPrefix
<1>9. IsPrefix(<<>>, s)
  <2>1. Len(<<>>) = 0 /\ SubSeq(<<>>, 1, 0) = <<>>
    OBVIOUS
  <2>2. SubSeq(s, 1, 0) = <<>>
    BY <1>3
  <2> QED
    BY <1>3, <2>1, <2>2 DEF IsPrefix
<1>10. \A p : Prefix(p, TRUE).wild /\ Prefix(p, TRUE).prefix = p
  BY DEF Prefix, Bare
<1> QED
  BY <1>5, <1>8, <1>9, <1>10 DEF rule_matches

\* What is waited for with the user is a call that either checker asks about.
Asking == pc # "idle" => call \in Calls

LEMMA AskingStep == Asking /\ [Next]_vars => Asking'
<1> SUFFICES ASSUME Asking, [Next]_vars PROVE Asking'
  OBVIOUS
<1> USE DEF Asking
<1>1. ASSUME NEW c \in Calls, Check(c) PROVE Asking'
  BY <1>1 DEF Check, Decide, Idle
<1>2. CASE CheckRead
  BY <1>2 DEF CheckRead, Decide, Idle
<1>3. CASE ReadsAllowed
  BY <1>3 DEF ReadsAllowed, Decide, Idle
<1>4. ASSUME NEW yes \in BOOLEAN, AnswerOnce(yes) PROVE Asking'
  BY <1>4 DEF AnswerOnce, Decide, Idle
<1>5. CASE AnswerSession
  BY <1>5 DEF AnswerSession, Decide, Idle
<1>6. CASE Done
  BY <1>6 DEF Done, Idle
<1>7. ASSUME NEW m \in Modes, set_mode(m) PROVE Asking'
  BY <1>7 DEF set_mode
<1>8. CASE UNCHANGED vars
  BY <1>8 DEF vars
<1> QED
  BY <1>1, <1>2, <1>3, <1>4, <1>5, <1>6, <1>7, <1>8 DEF Next

\* Grants only come from an answer for the session.
LEMMA OnlyAnswerGrants ==
  ASSUME [Next]_vars, grants' # grants
  PROVE  AnswerSession
BY DEF Next, vars, Check, CheckRead, ReadsAllowed, AnswerOnce, Done, set_mode

LEMMA GrantWidens ==
  ASSUME Asking, AnswerSession, NEW c \in Calls, check(c, grants, mode) # check(c, grants', mode)
  PROVE  /\ check(c, grants', mode) = "allow"
         /\ c.tool = call.tool \/ (call.tool = "Read" /\ c.tool = "ReadMany")
<1>1. call \in Calls /\ grants' = grants \cup {suggested_rule(call)}
  BY DEF Asking, AnswerSession
<1>2. PICK r : r = suggested_rule(call)
  OBVIOUS
<1>3. r.tool = call.tool /\ r.tool \in Tools /\ (r.tool = "Read" => r.bare)
  BY <1>1, <1>2, SuggestedTool
<1>4. PICK h : h = grants'
  OBVIOUS
<1>5. checker # "bypass" /\ engine_check(c, grants, mode) # engine_check(c, h, mode)
  BY <1>4 DEF check
<1>6. h = grants \cup {r}
  BY <1>1, <1>2, <1>4
<1>7. engine_check(c, h, mode) = "allow" /\ (c.tool = r.tool \/ (r.tool = "Read" /\ c.tool = "ReadMany"))
  BY <1>3, <1>5, <1>6, EngineWidens
<1> QED
  BY <1>3, <1>4, <1>5, <1>7 DEF check

LEMMA GrantAllows ==
  ASSUME Asking, NotFatal, AnswerSession, NEW m \in Modes,
         ~(/\ call.tool = "Bash"
           /\ \/ call.cmd.opaque \/ call.cmd.subs = <<>> \/ call.cmd.first = "other"
              \/ \E i \in DOMAIN call.cmd.subs : call.cmd.subs[i][1] # call.cmd.subs[1][1])
  PROVE  check(call, grants', m) = "allow"
<1>1. call \in Calls /\ grants' = grants \cup {suggested_rule(call)} /\ ~call.cmd.fatal
  BY DEF Asking, NotFatal, AnswerSession
<1>2. PICK r : r = suggested_rule(call)
  OBVIOUS
<1>3. PICK h : h = grants' /\ r \in h
  BY <1>1, <1>2
<1>4. CASE checker = "bypass"
  BY <1>1, <1>4 DEF check, bypass_check
<1>5. CASE checker # "bypass" /\ call.tool # "Bash"
  <2>1. r.tool = call.tool /\ r.bare
    BY <1>1, <1>2, <1>5, SuggestedTool
  <2>2. Matches(r, call)
    BY <2>1 DEF Matches, rule_covers, path_matches
  <2>3. RuleDecision(call, h, m) = "allow"
    BY <1>3, <2>2 DEF RuleDecision
  <2>4. ~ByPath(call, h, m) /\ check_one(call, h, m) = "allow"
    BY <1>5, <2>3 DEF ByPath, check_one
  <2> QED
    BY <1>3, <1>5, <2>4 DEF check, engine_check
<1>6. CASE checker # "bypass" /\ call.tool = "Bash"
  <2>1. /\ ~call.cmd.opaque /\ call.cmd.subs # <<>> /\ call.cmd.first # "other"
        /\ \A i \in DOMAIN call.cmd.subs : call.cmd.subs[i][1] = call.cmd.subs[1][1]
    BY <1>6
  <2>2. /\ call.given /\ call.cmd.first \in {"token", "comment"}
        /\ \A i \in DOMAIN call.cmd.subs : call.cmd.subs[i] \in Sub
    BY <1>1, <1>6, <2>1, CommandShape
  <2>3. PICK x : x = call.cmd.subs[1][1]
    OBVIOUS
  <2>4. r = Prefix(<<x>>, TRUE) \/ r = Prefix(<<>>, TRUE)
    <3>1. CASE call.cmd.first = "token"
      BY <1>2, <1>6, <2>3, <3>1 DEF suggested_rule
    <3>2. CASE call.cmd.first = "comment"
      BY <1>2, <1>6, <3>2 DEF suggested_rule
    <3> QED
      BY <2>2, <3>1, <3>2
  <2>5. ASSUME NEW i \in DOMAIN call.cmd.subs PROVE rule_matches(r, call.cmd.subs[i])
    <3>1. call.cmd.subs[i] \in Sub /\ call.cmd.subs[i][1] = x
      BY <2>1, <2>2, <2>3
    <3>2. PICK s \in Sub : s = call.cmd.subs[i] /\ s[1] = x
      BY <3>1
    <3>3. rule_matches(r, s)
      BY <2>4, <3>2, PrefixMatches
    <3> QED
      BY <3>2, <3>3
  <2>6. r \in bash_specs(h)
    <3>1. \A p : Prefix(p, TRUE).tool = "Bash" /\ Prefix(p, TRUE).bare = FALSE
      BY DEF Prefix, Bare
    <3> QED
      BY <1>3, <2>4, <3>1 DEF bash_specs
  <2>7. CoversAll(h, call.cmd)
    BY <2>1, <2>5, <2>6 DEF CoversAll
  <2>8. bash_check(call.cmd, h, m) = "allow"
    BY <1>1, <2>1, <2>7 DEF bash_check
  <2>9. ~ByPath(call, h, m) /\ check_one(call, h, m) = "allow"
    BY <1>6, <2>2, <2>8 DEF ByPath, check_one
  <2> QED
    BY <1>3, <1>6, <2>9 DEF check, engine_check
<1> QED
  BY <1>4, <1>5, <1>6

\* "Don't ask again" changes decisions to allow only, on calls of the tool asked
\* about (or a ReadMany after a Read), and settles the call it was given for in
\* every mode (suggested_rule, rule_covers, bash_check, PermissionEngine::check).
THEOREM GrantsReachWhatWasMeant == Spec => GrantsScoped
<1>1. Init => Asking /\ NotFatal
  BY DEF Init, Asking, NotFatal
<1> DEFINE Stays == grants' # grants =>
                      \A c \in Calls : check(c, grants, mode) # check(c, grants', mode) =>
                        /\ check(c, grants', mode) = "allow"
                        /\ c.tool = call.tool \/ (call.tool = "Read" /\ c.tool = "ReadMany")
           Settles == grants' # grants =>
                        \/ /\ call.tool = "Bash"
                           /\ \/ call.cmd.opaque \/ call.cmd.subs = <<>> \/ call.cmd.first = "other"
                              \/ \E i \in DOMAIN call.cmd.subs : call.cmd.subs[i][1] # call.cmd.subs[1][1]
                        \/ \A m \in Modes : check(call, grants', m) = "allow"
<1>2. Asking /\ NotFatal /\ [Next]_vars => [Stays]_vars
  BY OnlyAnswerGrants, GrantWidens
<1>3. Asking /\ NotFatal /\ [Next]_vars => [Settles]_vars
  BY OnlyAnswerGrants, GrantAllows
<1>4. Spec => [](Asking /\ NotFatal)
  BY <1>1, AskingStep, NotFatalStep, PTL DEF Spec
<1>5. Spec => [][Stays]_vars
  BY <1>2, <1>4, PTL DEF Spec
<1>6. Spec => [][Settles]_vars
  BY <1>3, <1>4, PTL DEF Spec
<1> QED
  BY <1>5, <1>6 DEF GrantsScoped, GrantStaysInTool, GrantSettles

=============================================================================
