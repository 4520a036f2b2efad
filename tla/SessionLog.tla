----------------------------- MODULE SessionLog -----------------------------
(***************************************************************************)
(* Session persistence: rc-session's SessionStore and load, and rc-rt's    *)
(* SessionWriter.  Turns pushed by the driver go through an unbounded      *)
(* queue to one writer thread, which appends each as a line and flushes.   *)
(* The process may die between any two bytes; resume loads the file and    *)
(* appends to it.                                                          *)
(*                                                                         *)
(* A turn is its number; record 0 is the header.  A line holds the records *)
(* whose bytes it consists of: more than one when an append continued a    *)
(* line that a dead process had left open.  The conversation is reduced to *)
(* prompts, responses with one tool call, its result, and final answers.   *)
(***************************************************************************)
EXTENDS Integers, Sequences, SequencesExt, FiniteSets

CONSTANTS
  MaxTurns,    \* bound on the turns pushed
  MaxCrashes   \* bound on the crashes

ASSUME LogAssumption == MaxTurns \in Nat /\ MaxCrashes \in Nat

VARIABLES
  file,      \* the lines on disk
  buf,       \* records of the append in progress, the current one first
  stage,     \* how much of the current record is on disk
  lazy,      \* pending_header: the file is created by the first append
  queue,     \* SessionWriter's channel
  messages,  \* Session.messages, in memory
  process,   \* "up", "exiting" (SessionWriterInner::drop), "down"
  next,      \* what the conversation does next: "prompt", "model", "tool"
  log,       \* kinds of all turns ever pushed
  flushed,   \* turns whose append completed
  crashes

disk == <<file, buf, stage, lazy, flushed>>
logVars == <<disk, queue, messages, process, next, log, crashes>>

Ends == {"part", "cut", "whole"}

LogInit ==
  /\ file = <<>> /\ buf = <<>> /\ stage = "none" /\ lazy = TRUE /\ flushed = {}
  /\ queue = <<>> /\ messages = <<>> /\ process = "up" /\ next = "prompt"
  /\ log = <<>> /\ crashes = 0

-----------------------------------------------------------------------------
(* The driver                                                              *)

\* A turn is pushed to the session and handed to the writer.
Push(kind, then) ==
  /\ process = "up" /\ Len(log) < MaxTurns
  /\ log' = Append(log, kind)
  /\ messages' = Append(messages, Len(log'))
  /\ queue' = Append(queue, Len(log'))
  /\ next' = then
  /\ UNCHANGED <<disk, process, crashes>>

Converse ==
  \/ next = "prompt" /\ Push("user", "model")
  \/ next = "model" /\ (Push("call", "tool") \/ Push("final", "prompt"))
  \/ next = "tool" /\ Push("result", "model")

-----------------------------------------------------------------------------
(* The writer thread.  A lazy store writes its header with the first turn. *)

append_turn ==
  /\ process # "down"
  /\ buf = <<>> /\ queue # <<>>
  /\ buf' = (IF lazy THEN <<0>> ELSE <<>>) \o <<Head(queue)>>
  /\ queue' = Tail(queue)
  /\ lazy' = FALSE
  /\ UNCHANGED <<file, stage, flushed, messages, process, next, log, crashes>>

\* A line: its records, how its last one stands ("part", "cut" in the middle of
\* a character, "whole" without newline, "ended"), and whether an earlier one was
\* left cut, which makes the line invalid UTF-8 for good.
Line(recs, end, bad) == [recs |-> recs, end |-> end, bad |-> bad]
Open == file # <<>> /\ Last(file).end # "ended"

\* More of the current record reaches the disk: it continues the open line,
\* which is its own once it has started, or else starts a line.
Put(end) ==
  LET rec == Head(buf)
      old == Last(file)
      line == IF ~Open THEN Line(<<rec>>, end, FALSE)
              ELSE IF stage # "none" THEN [old EXCEPT !.end = end]
              ELSE Line(Append(old.recs, rec), end, old.bad \/ old.end = "cut")
  IN  file' = Append(IF Open THEN Front(file) ELSE file, line)

\* Some of the record, or all of it but the newline.
WritePart(end) ==
  /\ process # "down" /\ buf # <<>>
  /\ \/ stage = "none" /\ end \in {"part", "cut", "whole"}
     \/ stage \in {"part", "cut"} /\ end = "whole"
  /\ Put(end) /\ stage' = end
  /\ UNCHANGED <<buf, lazy, flushed, queue, messages, process, next, log, crashes>>

WriteLine ==
  /\ process # "down" /\ buf # <<>>
  /\ Put("ended") /\ stage' = "none"
  /\ buf' = Tail(buf)
  /\ flushed' = flushed \cup {Head(buf)}
  /\ UNCHANGED <<lazy, queue, messages, process, next, log, crashes>>

-----------------------------------------------------------------------------
(* Leaving and coming back                                                 *)

Crash ==
  /\ process # "down" /\ crashes < MaxCrashes
  /\ crashes' = crashes + 1
  /\ process' = "down"
  /\ buf' = <<>> /\ stage' = "none" /\ queue' = <<>> /\ messages' = <<>>
  /\ UNCHANGED <<file, lazy, flushed, next, log>>

\* A clean exit joins the writer, which empties the queue first.
Exit ==
  /\ process = "up" /\ next = "prompt"
  /\ process' = "exiting"
  /\ UNCHANGED <<disk, queue, messages, next, log, crashes>>

Exited ==
  /\ process = "exiting" /\ queue = <<>> /\ buf = <<>>
  /\ process' = "down"
  /\ UNCHANGED <<disk, queue, messages, next, log, crashes>>

\* load: the header must parse; a turn line that does not is skipped, and a line
\* that is not valid UTF-8 ends the reading.
Readable(line) == ~line.bad /\ line.end # "cut"
Parses(line) == Len(line.recs) = 1 /\ line.end \in {"whole", "ended"}
Loadable == file # <<>> /\ Parses(file[1])
Reached == {i \in DOMAIN file : \A j \in 1..i : Readable(file[j])}
Turn(n) == n > 1 /\ n \in Reached /\ Parses(file[n])
load ==
  LET turns[n \in 0..Len(file)] ==
        IF n = 0 THEN <<>>
        ELSE IF Turn(n) THEN Append(turns[n - 1], file[n].recs[1]) ELSE turns[n - 1]
  IN  turns[Len(file)]

\* Mutant of Resume: the session file is opened as a fresh one.
ResumeTruncates ==
  /\ process = "down" /\ Loadable
  /\ messages' = load
  /\ file' = <<file[1]>> /\ lazy' = FALSE
  /\ process' = "up" /\ next' = "prompt"
  /\ UNCHANGED <<buf, stage, flushed, queue, log, crashes>>

\* --resume: load, then open_append.
Resume ==
  /\ process = "down" /\ Loadable
  /\ messages' = load
  /\ lazy' = FALSE
  /\ process' = "up" /\ next' = "prompt"
  /\ UNCHANGED <<file, buf, stage, flushed, queue, log, crashes>>

\* Nothing to resume: the file was never created, or its header is torn.
Gone == process = "down" /\ ~Loadable /\ UNCHANGED logVars

Full == Len(log) = MaxTurns /\ process = "up" /\ queue = <<>> /\ buf = <<>> /\ UNCHANGED logVars

LogNext ==
  \/ Converse
  \/ append_turn \/ (\E end \in Ends : WritePart(end)) \/ WriteLine
  \/ Crash \/ Exit \/ Exited \/ Resume \/ Gone \/ Full

LogSpec == LogInit /\ [][LogNext]_logVars

-----------------------------------------------------------------------------
(* Properties                                                              *)

Loaded == IF Loadable THEN load ELSE <<>>
Turns == flushed \ {0}

\* Type invariant: the header is the first record and only that, and no line but
\* the last is open.
TypeOK ==
  /\ \A i \in DOMAIN file :
       /\ file[i].recs \in Seq(0..MaxTurns) /\ file[i].recs # <<>>
       /\ file[i].end \in Ends \cup {"ended"} /\ file[i].bad \in BOOLEAN
       /\ file[i].end = "ended" \/ i = Len(file)
       /\ \A k \in DOMAIN file[i].recs : (file[i].recs[k] = 0) <=> (i = 1 /\ k = 1)
  /\ buf \in Seq(0..MaxTurns) /\ queue \in Seq(1..MaxTurns) /\ messages \in Seq(1..MaxTurns)
  /\ stage \in Ends \cup {"none"} /\ lazy \in BOOLEAN
  /\ process \in {"up", "exiting", "down"} /\ next \in {"prompt", "model", "tool"}
  /\ flushed \subseteq 0..MaxTurns /\ crashes \in 0..MaxCrashes

\* However often the process dies and resumes, the file never gives turns back
\* twice, out of order, or that were not pushed.
LoadInOrder ==
  /\ \A i, j \in DOMAIN Loaded : i < j => Loaded[i] < Loaded[j]
  /\ \A i \in DOMAIN Loaded : Loaded[i] \in DOMAIN log

\* While the header line is intact and no line is cut inside a character, a crash
\* costs at most one turn whose append had completed or will complete: every
\* other flushed turn is read back.
LossBounded ==
  (Loadable /\ \A i \in DOMAIN file : ~file[i].bad) =>
    Cardinality(Turns \ Range(Loaded)) <= crashes

\* Until the first crash disk, buffer and queue together are the session in
\* memory, in its order; so a clean exit persists all of it.
NothingMissing ==
  (crashes = 0 /\ Loadable) =>
    /\ \A i \in DOMAIN messages : messages[i] \in Range(Loaded) \cup Range(buf) \cup Range(queue)
    /\ process = "down" => Loaded = messages
    /\ stage = "none" => messages = Loaded \o (IF buf # <<>> /\ Head(buf) = 0 THEN Tail(buf) ELSE buf) \o queue

\* The log survives: what is loaded is in order and told once, a crash at any byte
\* costs at most one completed turn, and without a crash nothing is missing.
LogSurvives == LoadInOrder /\ LossBounded /\ NothingMissing

\* "the file is always a valid prefix up to the last completed turn" (append_turn):
\* a turn whose append completed is loaded.
ValidPrefix == Loadable => Turns \subseteq Range(Loaded)

\* "replay every well-formed turn line ... and skip any truncated/garbled trailing
\* line" (load): a line that parses is loaded whatever stands before it.
ReplaysWellFormed ==
  Loadable =>
    \A i \in 2..Len(file) : Parses(file[i]) => file[i].recs[1] \in Range(Loaded)

\* "a crash mid-conversation leaves a valid, replayable file" (lib.rs): in a
\* resumed session every call is still followed by its answer.
Replayable ==
  process = "up" =>
    \A i \in 1..(Len(messages) - 1) :
      log[messages[i]] = "call" => log[messages[i + 1]] = "result"
=============================================================================
