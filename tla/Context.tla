------------------------------ MODULE Context ------------------------------
(***************************************************************************)
(* What the model is told: rc-ctx builds the system prompt (identity,      *)
(* environment, the AGENTS.md chain) and prepares the turns (the last user *)
(* turn's @file mentions are inlined, long tool results are cut), rc-core  *)
(* projects them to messages from the newest compaction marker on, and the *)
(* runtime's driver writes goals and compaction markers between prompts.   *)
(* Files, AGENTS.md and the git branch belong to the disk and change when  *)
(* they like; a tool may write them or change the directory as well.       *)
(*                                                                         *)
(* A text is a sequence of atoms <<what, which>>, each one unit long: <<"w",  *)
(* n>> is the n-th word said in the conversation, <<"@", 0>> mentions the  *)
(* file, <<"@", 1>> a path that leaves the workspace; the rest are what    *)
(* the code itself adds.  The date and the platform do not change here.    *)
(***************************************************************************)
EXTENDS Integers, SequencesExt

CONSTANTS
  Dirs,          \* the directories a session can be in, 1 being where it starts
  INLINE_CAP,    \* Caps.inline_file, 0 for none
  RESULT_CAP,    \* Caps.tool_result, 0 for none
  CAP_CHARS,     \* what a compaction summary may hold
  MAX_STRING,    \* what one message may hold
  MaxTurns,      \* bound on the turns of the session
  MaxEdits,      \* bound on the changes made to the disk
  Prompts,       \* the shapes of a prompt: sequences over {"w", "@", "out"}
  Results,       \* the lengths of a tool's result, 0 for one that failed
  Goals          \* the goals a user sets, 0 clearing the goal

VARIABLES
  turns,         \* Session.messages
  ctxPhase,      \* "idle", "turn" (the loop's head), "reply" (a request is out)
  root,          \* Session.cwd
  ctxDisk,          \* per directory: the mentioned file, AGENTS.md and the branch
  startup,       \* LazyContextAssembler.inner: the prompt of directory 1, once built
  ctxSent,          \* the last request, and the number of turns it was made from
  words,         \* words said so far
  edits          \* changes made to the disk

ctxVars == <<turns, ctxPhase, root, ctxDisk, startup, ctxSent, words, edits>>

\* A file's contents: a version of one or two units of text, or none.
Documents ==
  [state : {"text"}, ver : 0..MaxEdits, len : 1..2]
    \cup [state : {"missing", "empty", "binary"}, ver : {0}, len : {0}]

-----------------------------------------------------------------------------
\* The environment and the system prompt

render_block(d) == <<<<"cwd", d>>, <<"branch", ctxDisk[d].branch>>>>

\* A missing or blank AGENTS.md is skipped.
load_chain(d) == IF ctxDisk[d].memory = 0 THEN <<>> ELSE <<<<"memory", ctxDisk[d].memory>>>>

build_system_prompt(d) == <<<<"identity", 0>>>> \o render_block(d) \o load_chain(d) \o <<<<"posture", 0>>>>

-----------------------------------------------------------------------------
\* Preparing the turns

over(cap, n) == cap # 0 /\ n > cap

inline_file(atom, f) ==
  CASE atom = <<"@", 1>> \/ f.state = "missing" -> <<>>
    [] atom = <<"@", 0>> /\ f.state \in {"empty", "binary"} -> <<<<f.state, 0>>>>
    [] OTHER ->
       LET body == [i \in 1..f.len |-> <<"file", f.ver>>]
       IN  IF over(INLINE_CAP, f.len)
           THEN SubSeq(body, 1, INLINE_CAP) \o <<<<"cut", f.len - INLINE_CAP>>>>
           ELSE body

\* The token stays and the file's block follows it.
expand_mentions(text, f) ==
  FlattenSeq([i \in 1..Len(text) |->
    IF text[i][1] = "@" THEN <<text[i]>> \o inline_file(text[i], f) ELSE <<text[i]>>])

\* Only a successful result is cut, and marked.
truncate_body(t) ==
  IF t.kind = "tool" /\ t.ok /\ over(RESULT_CAP, Len(t.text))
  THEN [t EXCEPT !.text = SubSeq(@, 1, RESULT_CAP) \o <<<<"cut", Len(@) - RESULT_CAP>>>>]
  ELSE t

prepare_turns(ts, d) ==
  LET last == SelectLastInSeq(ts, LAMBDA t : t.kind = "user")
  IN  [i \in 1..Len(ts) |->
        IF i = last THEN [ts[i] EXCEPT !.text = expand_mentions(@, ctxDisk[d].file)]
        ELSE truncate_body(ts[i])]

-----------------------------------------------------------------------------
\* Projection: rc-core's project_with

Note(why, text) == [kind |-> "note", why |-> why, text |-> text, ok |-> TRUE, calls |-> 0]

active_start(ts) == SelectLastInSeq(ts, LAMBDA t : t.kind = "note" /\ t.why = "compaction")

lastGoal(ts) == SelectLastInSeq(ts, LAMBDA t : t.kind = "note" /\ t.why = "goal")

chunk(text) ==
  [k \in 1..((Len(text) + MAX_STRING - 1) \div MAX_STRING) |->
     SubSeq(text, (k - 1) * MAX_STRING + 1,
            IF k * MAX_STRING > Len(text) THEN Len(text) ELSE k * MAX_STRING)]

\* push_user, and a tool's result: one message, or several of at most MAX_STRING.
push_part(role, text) ==
  IF Len(text) <= MAX_STRING THEN <<[role |-> role, text |-> text]>>
  ELSE [k \in 1..Len(chunk(text)) |-> [role |-> role, text |-> chunk(text)[k]]]

\* An assistant's message is never split; errors and cancellations say nothing.
message(t) ==
  CASE t.kind \in {"user", "note"} -> push_part("user", t.text)
    [] t.kind = "assistant" -> <<[role |-> "assistant", text |-> t.text]>>
    [] t.kind = "tool" -> push_part("tool", t.text)
    [] OTHER -> <<>>

\* Mutant of project_with: the goal is only what the active slice says.
project_slice(ts, system) ==
  <<[role |-> "system", text |-> system]>>
    \o FlattenSeq([i \in 1..(Len(ts) + 1 - (IF active_start(ts) = 0 THEN 1 ELSE active_start(ts))) |->
         message(ts[i - 1 + (IF active_start(ts) = 0 THEN 1 ELSE active_start(ts))])])

\* From the newest compaction marker on; a goal set before it is said again.
project_with(ts, system) ==
  LET start == IF active_start(ts) = 0 THEN 1 ELSE active_start(ts)
      goal == lastGoal(ts)
      again == IF goal # 0 /\ goal < start /\ ts[goal].text # <<<<"goal", 0>>>>
               THEN push_part("user", ts[goal].text) ELSE <<>>
  IN  <<[role |-> "system", text |-> system]>> \o again
        \o FlattenSeq([i \in 1..(Len(ts) + 1 - start) |-> message(ts[i - 1 + start])])

-----------------------------------------------------------------------------
\* Compaction: rc-rt's compaction_summary

\* The entries of a summary, the label counting one; tool results, goals, errors
\* and cancellations give none.
entry(t) ==
  CASE t.kind \in {"user", "note"} /\ t.why # "goal" -> <<<<"label", 0>>>> \o t.text
    [] t.kind = "assistant" /\ t.text # <<>> ->
       <<<<"label", 0>>>> \o t.text \o (IF t.calls > 0 THEN <<<<"tools", 0>>>> ELSE <<>>)
    [] t.kind = "assistant" /\ t.text = <<>> /\ t.calls > 0 -> <<<<"tools", 0>>>>
    [] OTHER -> <<>>

\* The newest entries, until the cap is used up; the one that does not fit gives
\* its last units and ends the walk.
keep(entries) ==
  FoldLeft(LAMBDA acc, e :
             LET remaining == CAP_CHARS - acc.used
             IN  CASE acc.done \/ remaining <= 0 -> [acc EXCEPT !.done = TRUE]
                   [] Len(e) <= remaining ->
                      [acc EXCEPT !.used = @ + Len(e), !.kept = e \o @]
                   [] OTHER ->
                      [acc EXCEPT !.done = TRUE,
                         !.kept = <<<<"elided", 0>>>> \o SubSeq(e, Len(e) - remaining + 1, Len(e)) \o @],
           [used |-> 0, kept |-> <<>>, done |-> FALSE], Reverse(entries)).kept

compaction_summary(ts) ==
  LET start == IF active_start(ts) = 0 THEN 1 ELSE active_start(ts)
      entries == [i \in 1..(Len(ts) + 1 - start) |-> entry(ts[i - 1 + start])]
      kept == keep(SelectSeq(entries, LAMBDA e : e # <<>>))
  IN  IF kept = <<>> THEN <<<<"nothing", 0>>>> ELSE kept

-----------------------------------------------------------------------------
NoRequest == [msgs |-> <<>>, at |-> 0, root |-> 1]

ContextInit ==
  /\ turns = <<>> /\ ctxPhase = "idle" /\ root = 1
  /\ ctxDisk = [d \in Dirs |-> [file |-> [state |-> "text", ver |-> 0, len |-> 1], memory |-> 1, branch |-> 0]]
  /\ startup = <<>>
  /\ ctxSent = NoRequest
  /\ words = 0 /\ edits = 0

Push(ts) == turns' = turns \o ts /\ Len(turns) + Len(ts) <= MaxTurns

\* A prompt: run pushes the user's turn.
Prompt ==
  \E shape \in Prompts :
    LET n(i) == words + Cardinality({j \in 1..i : shape[j] = "w"})
        atom(i) == CASE shape[i] = "w" -> <<"w", n(i)>> [] shape[i] = "@" -> <<"@", 0>>
                     [] OTHER -> <<"@", 1>>
    IN  /\ ctxPhase = "idle"
        /\ Push(<<[kind |-> "user", why |-> "prompt", ok |-> TRUE, calls |-> 0,
                   text |-> [i \in 1..Len(shape) |-> atom(i)]]>>)
        /\ words' = n(Len(shape))
        /\ ctxPhase' = "turn"
        /\ UNCHANGED <<root, ctxDisk, startup, ctxSent, edits>>

\* The loop's head: assemble_for reuses the startup prompt in directory 1, and
\* reads the disk anew in any other directory.
Request ==
  /\ ctxPhase = "turn"
  /\ startup' = IF root = 1 /\ startup = <<>> THEN build_system_prompt(1) ELSE startup
  /\ LET system == IF root = 1 THEN startup' ELSE build_system_prompt(root)
     IN  ctxSent' = [msgs |-> project_with(prepare_turns(turns, root), system),
                  at |-> Len(turns), root |-> root]
  /\ ctxPhase' = "reply"
  /\ UNCHANGED <<turns, root, ctxDisk, words, edits>>

Assistant(n, calls) ==
  [kind |-> "assistant", why |-> "reply", ok |-> TRUE, calls |-> calls,
   text |-> [i \in 1..n |-> <<"w", words + i>>]]

\* The response ends the turn.
Answer ==
  \E n \in {0, 2} :
    /\ ctxPhase = "reply"
    /\ Push(<<Assistant(n, 0)>>)
    /\ words' = words + n
    /\ ctxPhase' = "idle"
    /\ UNCHANGED <<root, ctxDisk, startup, ctxSent, edits>>

\* The response calls a tool, which may write the mentioned file or move.
CallTool ==
  \E n \in 0..1, len \in Results, d \in Dirs, wrote \in BOOLEAN :
    /\ ctxPhase = "reply"
    /\ Push(<<Assistant(n, 1),
              [kind |-> "tool", why |-> "result", ok |-> len > 0, calls |-> 0,
               text |-> IF len = 0 THEN <<<<"failed", 0>>>> ELSE [i \in 1..len |-> <<"t", i>>]]>>)
    /\ words' = words + n
    /\ root' = d
    /\ wrote => edits < MaxEdits
    /\ edits' = IF wrote THEN edits + 1 ELSE edits
    /\ ctxDisk' = IF wrote THEN [ctxDisk EXCEPT ![root].file = [state |-> "text", ver |-> edits + 1, len |-> 1]]
               ELSE ctxDisk
    /\ ctxPhase' = "turn"
    /\ UNCHANGED <<startup, ctxSent>>

\* The request fails or is cancelled.
Fail ==
  \E why \in {"error", "cancelled"} :
    /\ ctxPhase = "reply"
    /\ Push(<<[kind |-> why, why |-> why, ok |-> FALSE, calls |-> 0, text |-> <<>>]>>)
    /\ ctxPhase' = "idle"
    /\ UNCHANGED <<root, ctxDisk, startup, ctxSent, words, edits>>

\* Between prompts the driver compacts, or sets, changes or clears the goal.
Compact ==
  /\ ctxPhase = "idle"
  /\ Push(<<Note("compaction", compaction_summary(turns))>>)
  /\ UNCHANGED <<ctxPhase, root, ctxDisk, startup, ctxSent, words, edits>>

SetGoal ==
  \E g \in Goals :
    /\ ctxPhase = "idle"
    /\ Push(<<Note("goal", <<<<"goal", g>>>>)>>)
    /\ UNCHANGED <<ctxPhase, root, ctxDisk, startup, ctxSent, words, edits>>

\* The user, or another program, changes the file, AGENTS.md or the branch.
EditDisk ==
  \E d \in Dirs :
    /\ edits < MaxEdits /\ edits' = edits + 1
    /\ \/ \E f \in Documents :
            /\ f.state = "text" => f.ver = edits + 1 /\ f.len = 2
            /\ ctxDisk' = [ctxDisk EXCEPT ![d].file = f]
       \/ ctxDisk' = [ctxDisk EXCEPT ![d].memory = 1 - @]
       \/ ctxDisk' = [ctxDisk EXCEPT ![d].branch = 1 - @]
    /\ UNCHANGED <<turns, ctxPhase, root, startup, ctxSent, words>>

ContextNext ==
  Prompt \/ Request \/ Answer \/ CallTool \/ Fail \/ Compact \/ SetGoal \/ EditDisk

ContextSpec == ContextInit /\ [][ContextNext]_ctxVars

-----------------------------------------------------------------------------
\* active_goal: the newest goal note, unless it clears the goal.
active_goal(ts) == IF lastGoal(ts) = 0 THEN 0 ELSE ts[lastGoal(ts)].text[1][2]

Only(what, text) == SelectSeq(text, LAMBDA a : a[1] = what)

Flat(ts) == FlattenSeq([i \in 1..Len(ts) |-> ts[i].text])

\* The conversation's words in the turns from i on, summaries left out.
Thread(i) ==
  Only("w", Flat(SelectSeq(SubSeq(turns, i, Len(turns)), LAMBDA t : t.why # "compaction")))

\* Over any number of compactions, a request tells the conversation without a
\* gap: the words it carries are the newest ones of the session, in order, all
\* that was said since the last compaction marker among them, and the last goal
\* it states is the session's active goal, however old (project_with,
\* compaction_summary).
RequestKeepsTheThread ==
  ctxPhase = "reply" =>
    LET told == Only("w", Flat(ctxSent.msgs))
        goals == Only("goal", Flat(ctxSent.msgs))
    IN  /\ IsSuffix(told, Thread(1))
        /\ IsSuffix(Thread(active_start(turns) + 1), told)
        /\ active_goal(turns) = IF goals = <<>> THEN 0 ELSE Last(goals)[2]

\* While one prompt is worked on in one directory, a request only adds to the
\* one before it: "an older projected turn never changes merely because a later
\* edit/read occurred" (prepare_turns).
OlderTurnsStable ==
  [][(/\ ctxSent' # ctxSent /\ ctxSent.at > 0 /\ ctxSent'.root = ctxSent.root
      /\ \A i \in (ctxSent.at + 1)..Len(turns) : turns[i].kind \in {"assistant", "tool"})
     => IsPrefix(ctxSent.msgs, ctxSent'.msgs)]_ctxVars
=============================================================================
