------------------------------- MODULE Shell --------------------------------
(* A foreground call of the Bash tool (rc-tools bash.rs): the shell and the   *)
(* processes it leaves behind, the bounded capture of its output, the race of *)
(* the drain with the timeout and with cancellation, and the working          *)
(* directory inferred from the command's text.                                *)
EXTENDS Integers, Sequences, SequencesExt

CONSTANTS
  Ops,         \* how the sub-commands tried are joined: "and", "seq", "or", "sub"
  MaxCmds,     \* bound: sub-commands of one command
  Cap,         \* bytes of output retained (FOREGROUND_CAPTURE_BYTES_PER_STREAM)
  MaxOut,      \* bound: bytes a call prints
  MaxChunk,    \* bound: bytes one read returns
  MaxCalls     \* bound: calls made

ASSUME ShellAssumption == Cap \in Nat /\ MaxOut \in Nat /\ MaxChunk \in Nat

VARIABLES
  cwd,      \* ShellState::cwd
  calls,    \* calls made so far
  call,     \* the call under way: "none", "run"; then "ok", "timeout", "dropped", "refused"
  cmd,      \* its sub-commands
  before,   \* the directory it started in
  leader,   \* the shell process: "none", "run", "exit0", "exit1"
  kids,     \* its living descendants
  sent,     \* bytes written to the pipe so far; byte n is the number n
  got,      \* bytes read from it
  capture   \* BoundedCapture

shellVars == <<cwd, calls, call, cmd, before, leader, kids, sent, got, capture>>

(* The workspace is w with the directories w/a and w/a/b; home is outside it.  *)
Exists == {<<"w">>, <<"w", "a">>, <<"w", "a", "b">>, <<"home">>}

\* resolve_target: "~" is absolute, a name is joined, whether or not it exists.
resolve_target(t, d) == IF t = "home" THEN <<"home">> ELSE Append(d, t)

\* resolve_within of rc-perm: the directory exists and lies under a root.
resolve_within(d) == d \in Exists /\ IsPrefix(<<"w">>, d)

(* A sub-command is "cd a", "cd b", "cd ~", "cd -" ("dash"), "pushd a" ("push"), *)
(* "popd" or a program of the user ("make").                                  *)
Target(s) == IF s.do = "push" THEN "a" ELSE s.do

(* infer_cwd: every cd and pushd in turn, whatever joins them, and no popd;    *)
(* "dash" and text the parser gives up on leave the directory alone.          *)
infer_cwd(c, d) ==
  LET to[n \in 0 .. Len(c)] ==
        IF n = 0 THEN d
        ELSE IF c[n].do \in {"make", "popd"} THEN to[n - 1] ELSE resolve_target(Target(c[n]), to[n - 1])
  IN IF (\A i \in DOMAIN c : c[i].do \in {"make", "popd"}) \/ (\E i \in DOMAIN c : c[i].do = "dash")
     THEN [some |-> FALSE, dir |-> d]
     ELSE [some |-> TRUE, dir |-> to[Len(c)]]

(* What the shell itself does with the command (external): `old' is where     *)
(* "cd -" returns to and `stack' what pushd saved; a sub-command in a subshell *)
(* ("sub": a side of a pipe, a job in the background) leaves both alone.      *)
ShellStep(st, s) ==
  LET skip == (s.op = "and" /\ ~st.ok) \/ (s.op = "or" /\ st.ok)
      saved == st.stack # << >>
      to == IF s.do = "dash" THEN st.old
            ELSE IF s.do = "popd" THEN Head(st.stack)
            ELSE resolve_target(Target(s), st.dir)
      stack == IF s.do = "push" THEN <<st.dir>> \o st.stack
               ELSE IF s.do = "popd" THEN Tail(st.stack) ELSE st.stack
  IN IF skip THEN st
     ELSE IF s.do = "make" THEN [st EXCEPT !.ok = s.ok]
     ELSE IF s.do = "popd" /\ ~saved THEN [st EXCEPT !.ok = FALSE]
     ELSE IF to \notin Exists THEN [st EXCEPT !.ok = FALSE]
     ELSE IF s.op = "sub" THEN [st EXCEPT !.ok = TRUE]
     ELSE [dir |-> to, old |-> st.dir, stack |-> stack, ok |-> TRUE]

ShellRun(c, d) ==
  LET st[n \in 0 .. Len(c)] ==
        IF n = 0 THEN [dir |-> d, old |-> d, stack |-> << >>, ok |-> TRUE] ELSE ShellStep(st[n - 1], c[n])
  IN st[Len(c)]

SubCommands ==
  [op : Ops, do : {"a", "b", "home", "dash", "push", "popd"}, ok : {TRUE}]
  \cup [op : Ops, do : {"make"}, ok : BOOLEAN]

(* --- BoundedCapture ------------------------------------------------------- *)
HeadCap == Cap \div 3
EmptyCapture == [head |-> << >>, tail |-> << >>, total |-> 0]

push(c, bytes) ==
  LET take == IF HeadCap - Len(c.head) < Len(bytes) THEN HeadCap - Len(c.head) ELSE Len(bytes)
      tail == c.tail \o SubSeq(bytes, take + 1, Len(bytes))
      excess == Len(tail) - (Cap - HeadCap)
  IN [head |-> c.head \o SubSeq(bytes, 1, take),
      tail |-> IF excess > 0 THEN SubSeq(tail, excess + 1, Len(tail)) ELSE tail,
      total |-> c.total + Len(bytes)]

render(c) == [truncated |-> c.total > Len(c.head) + Len(c.tail), bytes |-> c.head \o c.tail]

(* --- processes ------------------------------------------------------------ *)
\* Mutant of KillGroup: only the shell is killed.
KillLeader(ks) == ks

(* A descendant is "piped" (it inherited the pipes), "silent" (it redirected   *)
(* them) or "escaped" (it has the pipes and called setsid).                    *)
KillGroup(ks) == ks \cap {"escaped"}

Eof == leader \in {"exit0", "exit1"} /\ kids \cap {"piped", "escaped"} = {} /\ got = sent

ShellInit ==
  /\ cwd = <<"w">> /\ before = <<"w">> /\ calls = 0 /\ call = "none" /\ cmd = << >>
  /\ leader = "none" /\ kids = {} /\ sent = 0 /\ got = 0 /\ capture = EmptyCapture

(* The deny-list, a sandbox that cannot be built and a failed spawn end the    *)
(* call before any process exists.                                            *)
Refuse ==
  /\ call # "run" /\ calls < MaxCalls
  /\ calls' = calls + 1 /\ call' = "refused"
  /\ UNCHANGED <<cwd, cmd, before, leader, kids, sent, got, capture>>

Spawn(c) ==
  /\ call # "run" /\ calls < MaxCalls
  /\ calls' = calls + 1 /\ call' = "run" /\ cmd' = c /\ before' = cwd
  /\ leader' = "run" /\ kids' = {} /\ sent' = 0 /\ got' = 0 /\ capture' = EmptyCapture
  /\ UNCHANGED cwd

\* The command's processes (external).
Fork(k) ==
  /\ leader = "run" /\ k \notin kids
  /\ kids' = kids \cup {k}
  /\ UNCHANGED <<cwd, calls, call, cmd, before, leader, sent, got, capture>>

Output ==
  /\ call = "run" /\ sent < MaxOut
  /\ leader = "run" \/ kids \cap {"piped", "escaped"} # {}
  /\ sent' = sent + 1
  /\ UNCHANGED <<cwd, calls, call, cmd, before, leader, kids, got, capture>>

LeaderExit ==
  /\ leader = "run"
  /\ leader' = IF ShellRun(cmd, before).ok THEN "exit0" ELSE "exit1"
  /\ UNCHANGED <<cwd, calls, call, cmd, before, kids, sent, got, capture>>

KidExit(k) ==
  /\ k \in kids
  /\ kids' = kids \ {k}
  /\ UNCHANGED <<cwd, calls, call, cmd, before, leader, sent, got, capture>>

\* drain_bounded: a read returns what is there, at most the buffer.
Drain(n) ==
  /\ call = "run" /\ got + n <= sent
  /\ got' = got + n
  /\ capture' = push(capture, [i \in 1 .. n |-> got + i])
  /\ UNCHANGED <<cwd, calls, call, cmd, before, leader, kids, sent>>

(* Both pipes are at their end and the shell has been waited for: the group is *)
(* killed, and a successful cd inside the roots is kept.                       *)
Finish ==
  /\ call = "run" /\ Eof
  /\ call' = "ok" /\ kids' = KillGroup(kids)
  /\ LET to == infer_cwd(cmd, before) IN
     cwd' = IF leader = "exit0" /\ to.some /\ resolve_within(to.dir) THEN to.dir ELSE cwd
  /\ UNCHANGED <<calls, cmd, before, leader, sent, got, capture>>

\* The timeout: group and shell are killed, what was captured is returned.
Timeout ==
  /\ call = "run"
  /\ call' = "timeout" /\ kids' = KillGroup(kids)
  /\ leader' = IF leader = "run" THEN "exit1" ELSE leader
  /\ UNCHANGED <<cwd, calls, cmd, before, sent, got, capture>>

\* The turn was cancelled: the future is dropped, and its guard kills the group.
DropCall ==
  /\ call = "run"
  /\ call' = "dropped" /\ kids' = KillGroup(kids)
  /\ leader' = IF leader = "run" THEN "exit1" ELSE leader
  /\ UNCHANGED <<cwd, calls, cmd, before, sent, got, capture>>

ShellNext ==
  \/ Refuse \/ (\E n \in 1 .. MaxCmds : \E c \in [1 .. n -> SubCommands] : c[1].op = "and" /\ Spawn(c))
  \/ (\E k \in {"piped", "silent", "escaped"} : Fork(k) \/ KidExit(k))
  \/ Output \/ LeaderExit \/ (\E n \in 1 .. MaxChunk : Drain(n))
  \/ Finish \/ Timeout \/ DropCall

ShellSpec == ShellInit /\ [][ShellNext]_shellVars

(* However a call ends (its pipes close, its time is up, the turn is           *)
(* cancelled), nothing of the process group it created is alive afterwards:    *)
(* only a descendant that made a session of its own survives.                  *)
GroupGone == call # "run" => leader # "run" /\ kids \subseteq {"escaped"}

(* What is reported of the output is an exact prefix and an exact suffix of    *)
(* the bytes read, however the reads cut it, all of it when it fits, and the   *)
(* omission is announced exactly when there is one.                            *)
CaptureExact ==
  LET r == render(capture)
      all == [i \in 1 .. got |-> i]
  IN /\ IsPrefix(capture.head, all) /\ IsSuffix(capture.tail, all)
     /\ r.truncated <=> r.bytes # all
     /\ got <= Cap => r.bytes = all

(* A list joined by && whose directory changes are all forward: cd and pushd. *)
Straight(c) == \A i \in DOMAIN c : c[i].op = "and" /\ c[i].do # "popd"

(* The directory later tools run in is always a directory of the workspace;    *)
(* after a command joined by && that pops nothing it is the one the shell ended *)
(* in, or the one before when the cds cannot be followed ("leave the cwd        *)
(* unchanged rather than guess", bash.rs).                                      *)
CwdFollowsShell ==
  /\ resolve_within(cwd)
  /\ call = "ok" /\ Straight(cmd) => cwd \in {before, ShellRun(cmd, before).dir}

(* A command that is over is settled: nothing of it runs on, its report is exact, and   *)
(* later tools run where it left them.                                                   *)
CommandSettled == GroupGone /\ CaptureExact /\ CwdFollowsShell
=============================================================================
