----------------------------- MODULE ToolBatch -----------------------------
(***************************************************************************)
(* One call of execute_batch (rc-core/src/agent.rs): the tool calls of one *)
(* model response are authorized, run and answered.                        *)
(*                                                                         *)
(* Contiguous calls of Parallel tools form a phase: its calls are          *)
(* authorized one by one, the approved ones are spawned as tasks under a   *)
(* semaphore and joined in call order.  A SerialWrite or Exclusive tool,   *)
(* or a name no tool has, is a barrier: authorized and run alone, inside   *)
(* the batch's own future.  Arguments that did not parse are answered up   *)
(* front and published at the end.                                         *)
(*                                                                         *)
(* The turn may end at any await of the batch (user cancel or turn         *)
(* deadline): the future is dropped, its tasks are aborted, and            *)
(* finish_partial_batch answers from the checkpoint.                       *)
(*                                                                         *)
(* Abstracted: arguments and outputs (a result is one of the four          *)
(* ToolResultBody variants), artifacts and durations, the wording of       *)
(* reasons, the permission rules (a check may come out any way).           *)
(***************************************************************************)
EXTENDS Integers, Sequences, FiniteSets

CONSTANTS
  MaxCalls,        \* bound on the calls of one response
  PARALLEL_BOUND,  \* permits of a phase's semaphore
  ToolOutcomes     \* the bodies a tool may return

Bodies == {"ok", "error", "denied", "interrupted"}

ASSUME BatchAssumption ==
  /\ MaxCalls \in Nat
  /\ PARALLEL_BOUND \in Nat \ {0}
  /\ ToolOutcomes \subseteq Bodies
  /\ ToolOutcomes # {}

\* How execute_batch sees a call: the concurrency of its tool, a name the
\* registry does not hold, or arguments the stream decoder could not parse.
Kinds == {"parallel", "barrier", "unknown", "parse_error"}

NONE == "none"

VARIABLES
  items,    \* the calls of the response, by kind
  pc,       \* where the batch's future is
  cursor,   \* the next call to schedule
  toAuth,   \* calls of the current phase or barrier still to authorize
  toSpawn,  \* approved calls of the phase, not yet spawned
  toJoin,   \* spawned tasks of the phase, not yet joined
  task,     \* execution of each call's tool
  results,  \* BatchCheckpoint.results
  emitted,  \* BatchCheckpoint.emitted
  told,     \* on_tool_end notifications, per call
  answers,  \* what the batch hands to the transcript
  cwd,      \* the live shell directory, as the number of `cd`s so far
  ctx,      \* the directory of the last refreshed tool context
  authCwd,  \* the directory each call was authorized against
  asked,    \* calls whose authorization has begun
  stop      \* the turn was cancelled, or its deadline passed

schedule == <<cursor, toAuth, toSpawn, toJoin>>
checkpoint == <<results, emitted>>
place == <<cwd, ctx, authCwd, asked>>
vars == <<items, pc, schedule, task, checkpoint, told, answers, place, stop>>

Calls == 1..Len(items)

\* Indices are scheduled, authorized, spawned and joined in ascending order.
First(S) == CHOOSE i \in S : \A j \in S : i <= j

Running == {i \in Calls : task[i] = "running"}
Finished(i) == task[i] \in ToolOutcomes
Started(i) == task[i] # "idle"

\* The batch's future is suspended here, and only here can it be dropped.
AtAwait == pc \in {"plan", "ask", "spawn", "join", "barrier"}
Closed == pc \in {"returned", "dropped"}

Init ==
  /\ items \in UNION {[1..n -> Kinds] : n \in 0..MaxCalls}
  /\ pc = "plan"
  /\ cursor = 1
  /\ toAuth = {} /\ toSpawn = {} /\ toJoin = {}
  /\ task = [i \in Calls |-> "idle"]
  /\ results = [i \in Calls |-> NONE]
  /\ emitted = {}
  /\ told = [i \in Calls |-> <<>>]
  /\ answers = <<>>
  /\ cwd = 0 /\ ctx = 0
  /\ authCwd = [i \in Calls |-> 0]
  /\ asked = {}
  /\ stop = FALSE

-----------------------------------------------------------------------------

\* emit_tool_completion, mark_batch_emitted and record_batch_result, in one
\* go: there is no await between them.
Complete(i, body) ==
  /\ told' = [told EXCEPT ![i] = Append(@, body)]
  /\ emitted' = emitted \cup {i}
  /\ results' = [results EXCEPT ![i] = body]

\* The first loop of execute_batch: unparsable arguments are answered in the
\* checkpoint, and not yet published.
Plan ==
  /\ pc = "plan"
  /\ pc' = "scan"
  /\ results' = [i \in Calls |->
                   IF items[i] = "parse_error" THEN "error" ELSE results[i]]
  /\ UNCHANGED <<items, schedule, task, emitted, told, answers, place, stop>>

\* Mutant of PhaseEnd: a phase does not stop at a barrier.
PhaseToTheEnd(c) == Len(items) + 1

\* A phase runs from the cursor up to the next barrier.
PhaseEnd(c) ==
  First({k \in c..(Len(items) + 1) :
           k = Len(items) + 1 \/ items[k] \in {"barrier", "unknown"}})

SkipUnscheduled ==
  /\ pc = "scan"
  /\ cursor \in Calls
  /\ items[cursor] = "parse_error"
  /\ cursor' = cursor + 1
  /\ UNCHANGED <<items, pc, toAuth, toSpawn, toJoin, task, checkpoint, told,
                 answers, place, stop>>

BeginPhase ==
  /\ pc = "scan"
  /\ cursor \in Calls
  /\ items[cursor] = "parallel"
  /\ pc' = "auth"
  /\ toAuth' = {k \in cursor..(PhaseEnd(cursor) - 1) : items[k] = "parallel"}
  /\ cursor' = PhaseEnd(cursor)
  /\ ctx' = cwd
  /\ UNCHANGED <<items, toSpawn, toJoin, task, checkpoint, told, answers, cwd,
                 authCwd, asked, stop>>

\* Mutant of BeginBarrier: the tool context is not refreshed for a barrier.
BeginBarrierStale ==
  /\ pc = "scan" /\ cursor \in Calls /\ items[cursor] \in {"barrier", "unknown"}
  /\ pc' = "auth"
  /\ toAuth' = {cursor}
  /\ UNCHANGED <<items, cursor, toSpawn, toJoin, task, checkpoint, told,
                 answers, place, stop>>

BeginBarrier ==
  /\ pc = "scan"
  /\ cursor \in Calls
  /\ items[cursor] \in {"barrier", "unknown"}
  /\ pc' = "auth"
  /\ toAuth' = {cursor}
  /\ ctx' = cwd
  /\ UNCHANGED <<items, cursor, toSpawn, toJoin, task, checkpoint, told,
                 answers, cwd, authCwd, asked, stop>>

-----------------------------------------------------------------------------

\* authorize_call returned None: a parallel call waits for its phase to be
\* spawned, a barrier starts at once, an unknown tool is answered.
Allowed(i) ==
  /\ toAuth' = toAuth \ {i}
  /\ \/ /\ items[i] = "parallel"
        /\ pc' = "auth"
        /\ toSpawn' = toSpawn \cup {i}
        /\ UNCHANGED <<cursor, task, checkpoint, told>>
     \/ /\ items[i] = "barrier"
        /\ pc' = "barrier"
        /\ task' = [task EXCEPT ![i] = "running"]
        /\ UNCHANGED <<cursor, toSpawn, checkpoint, told>>
     \/ /\ items[i] = "unknown"
        /\ pc' = "scan"
        /\ cursor' = cursor + 1
        /\ Complete(i, "error")
        /\ UNCHANGED <<toSpawn, task>>

\* authorize_call returned a denied result, which is final.
Denied(i) ==
  /\ toAuth' = toAuth \ {i}
  /\ Complete(i, "denied")
  /\ IF items[i] = "parallel"
       THEN pc' = "auth" /\ UNCHANGED cursor
       ELSE pc' = "scan" /\ cursor' = cursor + 1
  /\ UNCHANGED <<toSpawn, task>>

\* The permission check of authorize_call: allow, deny, or ask the user.
Authorize ==
  /\ pc = "auth"
  /\ toAuth # {}
  /\ LET i == First(toAuth) IN
       /\ authCwd' = [authCwd EXCEPT ![i] = ctx]
       /\ asked' = asked \cup {i}
       /\ \/ Allowed(i)
          \/ Denied(i)
          \/ pc' = "ask" /\ UNCHANGED <<cursor, toAuth, toSpawn, task, checkpoint, told>>
  /\ UNCHANGED <<items, toJoin, answers, cwd, ctx, stop>>

\* The prompter's answer: once, session or always allow; the rest deny.
Answer ==
  /\ pc = "ask"
  /\ Allowed(First(toAuth)) \/ Denied(First(toAuth))
  /\ UNCHANGED <<items, toJoin, answers, place, stop>>

-----------------------------------------------------------------------------

\* Every call of the phase is authorized; run_parallel_phase refreshes the
\* context again before it spawns.
EndAuth ==
  /\ pc = "auth"
  /\ toAuth = {}
  /\ pc' = "spawn"
  /\ ctx' = cwd
  /\ UNCHANGED <<items, schedule, task, checkpoint, told, answers, cwd, authCwd,
                 asked, stop>>

\* Mutant of Spawn: a permit is held until its task is joined.
SpawnAfterJoin ==
  /\ pc = "spawn" /\ toSpawn # {}
  /\ Cardinality(toJoin) < PARALLEL_BOUND
  /\ LET i == First(toSpawn) IN
       /\ toSpawn' = toSpawn \ {i}
       /\ toJoin' = toJoin \cup {i}
       /\ task' = [task EXCEPT ![i] = "running"]
  /\ UNCHANGED <<items, pc, cursor, toAuth, checkpoint, told, answers, place, stop>>

Spawn ==
  /\ pc = "spawn"
  /\ toSpawn # {}
  /\ Cardinality(Running) < PARALLEL_BOUND
  /\ LET i == First(toSpawn) IN
       /\ toSpawn' = toSpawn \ {i}
       /\ toJoin' = toJoin \cup {i}
       /\ task' = [task EXCEPT ![i] = "running"]
  /\ UNCHANGED <<items, pc, cursor, toAuth, checkpoint, told, answers, place, stop>>

AllSpawned ==
  /\ pc = "spawn"
  /\ toSpawn = {}
  /\ pc' = "join"
  /\ UNCHANGED <<items, schedule, task, checkpoint, told, answers, place, stop>>

\* A spawned task ends (a panic is an error) and gives its permit back.
TaskEnds ==
  /\ \E i \in toJoin, body \in ToolOutcomes :
       /\ task[i] = "running"
       /\ task' = [task EXCEPT ![i] = body]
  /\ ~Closed
  /\ UNCHANGED <<items, pc, schedule, checkpoint, told, answers, place, stop>>

\* Tasks are joined in call order: a finished task behind a slow one waits.
Join ==
  /\ pc = "join"
  /\ toJoin # {}
  /\ LET i == First(toJoin) IN
       /\ Finished(i)
       /\ toJoin' = toJoin \ {i}
       /\ Complete(i, task[i])
  /\ UNCHANGED <<items, pc, cursor, toAuth, toSpawn, task, answers, place, stop>>

AllJoined ==
  /\ pc = "join"
  /\ toJoin = {}
  /\ pc' = "scan"
  /\ UNCHANGED <<items, schedule, task, checkpoint, told, answers, place, stop>>

\* The barrier's tool returns; a shell command may have changed directory.
BarrierEnds ==
  /\ pc = "barrier"
  /\ pc' = "scan"
  /\ cursor' = cursor + 1
  /\ \E body \in ToolOutcomes :
       /\ task' = [task EXCEPT ![cursor] = body]
       /\ Complete(cursor, body)
  /\ cwd' \in {cwd, cwd + 1}
  /\ UNCHANGED <<items, toAuth, toSpawn, toJoin, answers, ctx, authCwd, asked, stop>>

\* Mutant of Publish: calls already published are published again.
PublishAll ==
  /\ pc = "scan" /\ cursor = Len(items) + 1
  /\ pc' = "returned"
  /\ told' = [i \in Calls |-> Append(told[i], results[i])]
  /\ emitted' = Calls
  /\ answers' = results
  /\ UNCHANGED <<items, schedule, task, results, place, stop>>

\* Every call has a result: publish what was not published, return in order.
Publish ==
  /\ pc = "scan"
  /\ cursor = Len(items) + 1
  /\ pc' = "returned"
  /\ told' = [i \in Calls |->
                IF i \in emitted THEN told[i] ELSE Append(told[i], results[i])]
  /\ emitted' = Calls
  /\ answers' = results
  /\ UNCHANGED <<items, schedule, task, results, place, stop>>

-----------------------------------------------------------------------------

\* The user cancels, or the deadline passes.
RequestStop ==
  /\ ~stop
  /\ ~Closed
  /\ stop' = TRUE
  /\ UNCHANGED <<items, pc, schedule, task, checkpoint, told, answers, place>>

\* Mutant of Partial: a partial batch ignores the results it has.
PartialForgets(i) == "interrupted"

\* What finish_partial_batch answers for call i.
Partial(i) == IF results[i] = NONE THEN "interrupted" ELSE results[i]

\* await_turn_budget drops the batch's future.  The barrier's tool is dropped
\* with it.  The handles of the spawned tasks abort them: a suspended task ends
\* at once, one that is being polled goes on to its next await.
Drop ==
  /\ stop
  /\ AtAwait
  /\ pc' = "dropped"
  /\ \E late \in SUBSET (Running \cap toJoin) :
       task' = [i \in Calls |->
                  IF i \in Running \ late THEN "stopped" ELSE task[i]]
  /\ told' = [i \in Calls |->
                IF results[i] # NONE /\ i \in emitted
                  THEN told[i] ELSE Append(told[i], Partial(i))]
  /\ answers' = [i \in Calls |-> Partial(i)]
  /\ UNCHANGED <<items, schedule, checkpoint, place, stop>>

\* An aborted task that was being polled reaches its next await, or its end.
LateTaskStops ==
  /\ pc = "dropped"
  /\ \E i \in Running : task' = [task EXCEPT ![i] = "stopped"]
  /\ UNCHANGED <<items, pc, schedule, checkpoint, told, answers, place, stop>>

Done ==
  /\ Closed /\ Running = {}
  /\ UNCHANGED vars

-----------------------------------------------------------------------------

\* Steps the batch takes by itself, and the steps of tools and of the user.
Internal ==
  \/ Plan \/ SkipUnscheduled \/ BeginPhase \/ BeginBarrier \/ Authorize
  \/ EndAuth \/ Spawn \/ AllSpawned \/ Join \/ AllJoined \/ Publish

Next ==
  \/ Internal \/ Answer \/ TaskEnds \/ BarrierEnds
  \/ RequestStop \/ Drop \/ LateTaskStops \/ Done

Spec == Init /\ [][Next]_vars

\* The runtime polls a ready future and a fired token; nothing makes a tool
\* return or a user answer.
FairSpec == Spec /\ WF_vars(Internal) /\ WF_vars(Drop)

\* Tools that return and a user who answers.
Responsive == WF_vars(Answer) /\ WF_vars(TaskEnds) /\ WF_vars(BarrierEnds)

-----------------------------------------------------------------------------
(* Properties                                                              *)

\* Type invariant.
TypeOK ==
  /\ items \in Seq(Kinds)
  /\ pc \in {"plan", "scan", "auth", "ask", "spawn", "join", "barrier",
             "returned", "dropped"}
  /\ cursor \in 1..(Len(items) + 1)
  /\ toAuth \subseteq Calls /\ toSpawn \subseteq Calls /\ toJoin \subseteq Calls
  /\ task \in [Calls -> {"idle", "running", "stopped"} \cup ToolOutcomes]
  /\ results \in [Calls -> Bodies \cup {NONE}]
  /\ emitted \subseteq Calls /\ asked \subseteq Calls
  /\ told \in [Calls -> Seq(Bodies)]
  /\ answers \in Seq(Bodies)
  /\ cwd \in Nat /\ ctx \in Nat /\ authCwd \in [Calls -> Nat]
  /\ stop \in BOOLEAN

\* However the batch ends - run to the end, cancelled or out of time, at any of
\* its awaits - the host hears one on_tool_end per call, and it carries the very
\* body that goes into the transcript for that call.
AnsweredOnce ==
  /\ \A i \in Calls : Len(told[i]) <= 1
  /\ Closed => /\ Len(answers) = Len(items)
               /\ \A i \in Calls : told[i] = <<answers[i]>>

\* "Preserve the model's effect order": a barrier starts after everything before
\* it is settled, and nothing after a barrier starts before it is settled.
EffectOrder ==
  \A i, j \in Calls :
    (j < i /\ Started(i) /\ "barrier" \in {items[i], items[j]}) => results[j] # NONE

\* A tool runs in the directory its authorization was checked against: no `cd`
\* of an earlier call of the batch comes between check and use.
AuthorizedWhereItRuns ==
  \A i \in Running : ~Closed => authCwd[i] = cwd

\* No tool of the batch runs while the user is being asked.
AskNeverOverlapsRun == pc = "ask" => Running = {}

\* A cancelled or timed-out batch closes even if its tool never returns and the
\* user never answers.
StopEndsBatch == stop ~> Closed

\* With tools that return and a user who answers, every batch closes: a full
\* semaphore and in-order joins never leave it waiting for itself.
BatchCompletes == Responsive => <>Closed

\* A batch is never left hanging: a stop closes it without any cooperation, and
\* with cooperation it closes by itself.
BatchEnds == StopEndsBatch /\ BatchCompletes

\* The batch is what the agent loop relies on.
Contract == INSTANCE BatchContract WITH
  size <- Len(items), open <- ~Closed,
  answers <- answers, told <- told
ContractSpec == Contract!Spec

\* Documented (rc-rt/src/prompter.rs): all permission checks run before any tool.
ChecksPrecedeRuns ==
  (\E i \in Calls : Started(i)) =>
    \A j \in Calls : items[j] = "parse_error" \/ j \in asked

\* Documented (ToolResultBody::render): an interrupted call was interrupted
\* before execution.  The tools' own outcomes are left out.
InterruptedNeverStarted ==
  \A i \in Calls : (Closed /\ results[i] = NONE) => ~Started(i)

\* Documented (AbortOnDropHandle): no tool call is left running when the agent
\* has returned.
NothingRunsAfterReturn == Closed => Running = {}
=============================================================================
