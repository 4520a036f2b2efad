------------------------------ MODULE Headless ------------------------------
(* A one-shot run, marathon -p (rc-cli main.rs): the sink that saves each turn  *)
(* to the session file and hands it to the checkpoint thread, that thread's     *)
(* journal, report and trajectory, and what is on disk when the process dies.   *)
EXTENDS Naturals, Sequences, FiniteSets, SequencesExt, FiniteSetsExt

CONSTANTS CallIds,     \* ids of tool calls
          Earlier,     \* Earlier: the transcripts a run may resume
          MaxOwn,      \* bound: turns of the run
          MaxFaults    \* bound: failed writes

\* a turn: its kind, the ids it calls or answers, the tokens it was billed
TurnRecords ==
  {[kind |-> "user", calls |-> {}, id |-> "none", usage |-> 0]}
  \cup {[kind |-> "assistant", calls |-> cs, id |-> "none", usage |-> 1] : cs \in SUBSET CallIds}
  \cup {[kind |-> "result", calls |-> {}, id |-> c, usage |-> 0] : c \in CallIds}
  \cup {[kind |-> k, calls |-> {}, id |-> "none", usage |-> 0] : k \in {"error", "cancelled"}}

ASSUME HeadAssumption == Earlier \subseteq Seq(TurnRecords)

VARIABLES session,     \* the agent's session: messages and total usage
          start,       \* InvocationStart: message_count and usage when the run began
          checkpoints,       \* the checkpoint channel
          worker,      \* checkpoint_worker: its session, published, gone
          store,       \* the session file
          journal,     \* <trajectory>.turns.jsonl: open, the entries handed to its writer, how
                       \* many are on disk, hurt: some entry was refused or is incomplete
          report, trajectory,  \* this run's artifacts; <<>> or one published version
          older,       \* the artifacts of an earlier run that still stand at these paths
          run,         \* "running", "finalizing", "returned" or "crashed", with the exit
          hfaults
headVars == <<session, start, checkpoints, worker, store, journal, report, trajectory, older, run, hfaults>>

Billed(ts) ==
  LET sum[n \in 0 .. Len(ts)] == IF n = 0 THEN 0 ELSE sum[n - 1] + ts[n].usage
  IN sum[Len(ts)]

HeadInit ==
  /\ \E ts \in Earlier : session = [messages |-> ts, usage |-> Billed(ts)]
  /\ start = [count |-> Len(session.messages), usage |-> session.usage]
  /\ checkpoints = <<>> /\ worker = [session |-> session, published |-> FALSE, gone |-> FALSE]
  /\ store = session.messages
  /\ journal = [open |-> "no", log |-> <<>>, out |-> 0, hurt |-> FALSE]
  /\ report = <<>> /\ trajectory = <<>> /\ older \in SUBSET {"journal", "report", "trajectory"}
  /\ run = [at |-> "running", outcome |-> "none", ok |-> FALSE] /\ hfaults = 0

-----------------------------------------------------------------------------
(* The artifacts                                                                *)
\* Mutant of view: the resumed transcript is reported too
view_whole(s) == [messages |-> s.messages, usage |-> s.usage]

view(s) ==
  [messages |-> SubSeq(s.messages, start.count + 1, Len(s.messages)),
   usage |-> IF s.usage > start.usage THEN s.usage - start.usage ELSE 0]

CallsMade(ts) == FoldLeft(LAMBDA n, t : n + Cardinality(t.calls), 0, ts)
Requests(ts) == Len(SelectSeq(ts, LAMBDA t : t.kind \in {"assistant", "error"}))

\* the report's figures, with the turns they are drawn from
build_benchmark_report(s, outcome) ==
  [turns |-> s.messages, outcome |-> outcome, usage |-> s.usage,
   calls |-> CallsMade(s.messages), requests |-> Requests(s.messages)]

\* a result that directly follows an assistant's turn, or its results, and answers one of
\* its calls is told with that turn
attached(step, t) ==
  step.turn.kind = "assistant" /\ t.kind = "result" /\ t.id \in step.turn.calls

\* the steps of build_benchmark_trajectory after n turns: an assistant's turn takes its
\* results, any other turn is a step of its own, a stray result an "orphaned" one
build_benchmark_trajectory(s) ==
  LET ts == s.messages
      steps[n \in 0 .. Len(ts)] ==
        IF n = 0 THEN <<>>
        ELSE LET told == steps[n - 1]
             IN IF told # <<>> /\ attached(Last(told), ts[n])
                THEN [told EXCEPT ![Len(told)].results = Append(@, ts[n])]
                ELSE Append(told, [turn |-> ts[n], results |-> <<>>])
  IN steps[Len(ts)]

\* both artifacts are written to a temporary and renamed; a report that cannot be
\* written leaves the trajectory unwritten too. broken: which write fails, if any
publish_checkpoint(s, outcome, broken) ==
  /\ report' = IF broken = "report" THEN report
               ELSE <<build_benchmark_report(s, outcome)>>
  /\ trajectory' = IF broken # "none" THEN trajectory ELSE <<build_benchmark_trajectory(s)>>
  /\ older' = older \ (CASE broken = "none" -> {"report", "trajectory"}
                         [] broken = "trajectory" -> {"report"} [] OTHER -> {})

\* the writes of a step that fail
Faults(failed) == hfaults' = hfaults + Cardinality(failed) /\ hfaults' <= MaxFaults
Failing(write, went) == IF went THEN {} ELSE {write}

-----------------------------------------------------------------------------
(* The run                                                                      *)
Own == SubSeq(session.messages, start.count + 1, Len(session.messages))

\* the agent pushes a turn: on_turn appends to the session file, which may fail with a
\* warning only, then sends it to the checkpoint thread
OnTurn(t, saved) ==
  /\ run.at = "running" /\ Len(Own) < MaxOwn
  /\ Faults(Failing("store", saved))
  /\ session' = [messages |-> Append(session.messages, t), usage |-> session.usage + t.usage]
  /\ store' = IF saved THEN Append(store, t) ELSE store
  /\ checkpoints' = Append(checkpoints, [cmd |-> "turn", turn |-> t])
  /\ UNCHANGED <<start, worker, journal, report, trajectory, older, run>>

\* agent.run returned: finalize sends the whole session and waits for the reply; an error
\* is finalized as Incomplete
Finish(outcome) ==
  /\ run.at = "running"
  /\ run' = [at |-> "finalizing", outcome |-> outcome, ok |-> outcome # "failed"]
  /\ checkpoints' = Append(checkpoints, [cmd |-> "final", session |-> session,
                             outcome |-> IF outcome = "failed" THEN "incomplete" ELSE outcome])
  /\ UNCHANGED <<session, start, worker, store, journal, report, trajectory, older, hfaults>>

-----------------------------------------------------------------------------
(* The checkpoint thread                                                        *)
\* File::create empties an earlier run's journal; when it fails there is none for this run
OpenJournal(made) ==
  /\ run.at # "crashed" /\ journal.open = "no" /\ Faults(Failing("journal", made))
  /\ journal' = [journal EXCEPT !.open = IF made THEN "yes" ELSE "never"]
  /\ older' = IF made THEN older \ {"journal"} ELSE older
  /\ UNCHANGED <<session, start, checkpoints, worker, store, report, trajectory, run>>

\* A turn handed to the journal's BufWriter, whose errors are ignored: "written"; "kept",
\* the flush failed and the rest waits for the next one; "unended", the line break was
\* refused; "torn", serializing failed midway, "lost", at its first byte
JournalForms == [written |-> "whole", kept |-> "whole", unended |-> "unended", torn |-> "torn"]
Entry(t, how) ==
  [turn |-> t, at |-> Len(worker.session.messages) - start.count + 1, form |-> JournalForms[how]]
JournalTurn(t, how) ==
  \/ journal.open = "never" /\ how = "written" /\ UNCHANGED journal
  \/ /\ journal.open = "yes"
     /\ LET log == IF how = "lost" THEN journal.log ELSE Append(journal.log, Entry(t, how))
        IN \E out \in journal.out .. Len(log) :
             /\ how = "written" => out = Len(log)
             /\ journal' = [journal EXCEPT !.log = log, !.out = out, !.hurt = @ \/ how \notin {"written", "kept"}]

\* Turn: journalled, added to the worker's own session; the first one also publishes the
\* artifacts, as incomplete
WorkerTurn(how, broken) ==
  /\ run.at # "crashed" /\ ~worker.gone /\ checkpoints # <<>> /\ Head(checkpoints).cmd = "turn"
  /\ Faults(Failing("line", how = "written") \cup Failing("publish", broken = "none"))
  /\ LET t == Head(checkpoints).turn
         s == [messages |-> Append(worker.session.messages, t),
               usage |-> worker.session.usage + t.usage]
     IN /\ worker' = [worker EXCEPT !.session = s, !.published = TRUE]
        /\ JournalTurn(t, how)
        /\ IF worker.published THEN broken = "none" /\ UNCHANGED <<report, trajectory, older>>
           ELSE publish_checkpoint(view(s), "incomplete", broken)
  /\ checkpoints' = Tail(checkpoints)
  /\ UNCHANGED <<session, start, store, run>>

\* Final: published from the session the agent ended with, what the journal still holds is
\* flushed; the reply carries the result of the first only
WorkerFinal(flushed, broken) ==
  /\ run.at # "crashed" /\ ~worker.gone /\ journal.open # "no"
  /\ checkpoints # <<>> /\ Head(checkpoints).cmd = "final"
  /\ Faults(Failing("flush", flushed) \cup Failing("publish", broken = "none"))
  /\ publish_checkpoint(view(Head(checkpoints).session), Head(checkpoints).outcome, broken)
  /\ \E out \in journal.out .. Len(journal.log) :
       (flushed => out = Len(journal.log)) /\ journal' = [journal EXCEPT !.out = out]
  /\ worker' = [worker EXCEPT !.gone = TRUE] /\ checkpoints' = Tail(checkpoints)
  /\ run' = [run EXCEPT !.at = "returned", !.ok = @ /\ broken = "none"]
  /\ UNCHANGED <<session, start, store>>

\* killed: nothing more is written
Die ==
  /\ run.at \in {"running", "finalizing"}
  /\ run' = [run EXCEPT !.at = "crashed", !.ok = FALSE]
  /\ UNCHANGED <<session, start, checkpoints, worker, store, journal, report, trajectory, older, hfaults>>

HeadNext ==
  \/ \E t \in TurnRecords, saved \in BOOLEAN : OnTurn(t, saved)
  \/ \E outcome \in {"stop", "cancelled", "failed"} : Finish(outcome)
  \/ \E made \in BOOLEAN : OpenJournal(made)
  \/ \E broken \in {"none", "report", "trajectory"} :
       \/ \E how \in (DOMAIN JournalForms) \cup {"lost"} : WorkerTurn(how, broken)
       \/ \E flushed \in BOOLEAN : WorkerFinal(flushed, broken)
  \/ Die
HeadSpec == HeadInit /\ [][HeadNext]_headVars

-----------------------------------------------------------------------------
\* the entries on disk that are a line of their own and so can be read back
ReadableLines ==
  {i \in 1 .. journal.out :
     /\ journal.log[i].form # "torn" /\ (i > 1 => journal.log[i - 1].form = "whole")
     /\ journal.log[i].form = "whole" \/ i = journal.out}

(* Whatever writes failed, a line of the journal that can be read is a turn of this run,  *)
(* in its place in the order; lines that were only flushed late leave no gap, so without  *)
(* a refused write the journal is a beginning of the run, and without any failed write    *)
(* all of it (checkpoint_worker ignores every error of the journal).                      *)
JournalTells ==
  /\ \A i \in ReadableLines : /\ journal.log[i].at \in DOMAIN Own
                              /\ journal.log[i].turn = Own[journal.log[i].at]
  /\ \A i, j \in ReadableLines : i < j => journal.log[i].at < journal.log[j].at
  /\ ~journal.hurt => ReadableLines = 1 .. journal.out /\ \A i \in ReadableLines : journal.log[i].at = i
  /\ run.at = "returned" /\ hfaults = 0 => journal.out = Len(Own)

(* Whenever the process stops, what this run published speaks of this run alone and never *)
(* ahead of it: the report is a beginning of its own turns with exactly their tokens, an  *)
(* unfinished run is marked incomplete, and an exit without an error left the whole run.  *)
(* An earlier run's artifacts stand at these paths only until this run's first turn, or   *)
(* after a write of this one failed (InvocationStart::view, checkpoint_worker, finalize). *)
ArtifactsTellTheRun ==
  /\ report # <<>> =>
       /\ IsPrefix(report[1].turns, Own) /\ report[1].usage = Billed(report[1].turns)
       /\ report[1].outcome = "stop" => run.outcome = "stop"
  /\ run.ok /\ run.at = "returned" =>
       report[1].turns = Own /\ report[1].outcome = run.outcome /\ older \subseteq {"journal"}
  /\ worker.published /\ hfaults = 0 => older = {}

(* The trajectory leaves no turn of the run out and tells none twice: its steps, each    *)
(* followed by its results, are the run's turns in order, and a result stands under the  *)
(* turn that made the call (build_benchmark_trajectory).                                 *)
TrajectoryWhole ==
  trajectory # <<>> =>
    LET told == FlattenSeq([i \in DOMAIN trajectory[1] |->
                              <<trajectory[1][i].turn>> \o trajectory[1][i].results])
    IN /\ IsPrefix(told, Own)
       /\ run.ok /\ run.at = "returned" => told = Own
       /\ \A i \in DOMAIN trajectory[1] : \A r \in Range(trajectory[1][i].results) :
            r.id \in trajectory[1][i].turn.calls

(* Journal, report and trajectory tell the run, whichever of them is read, whenever and  *)
(* however the run ended.                                                                 *)
ArtifactsSound == JournalTells /\ ArtifactsTellTheRun /\ TrajectoryWhole
=============================================================================
