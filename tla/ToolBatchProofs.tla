-------------------------- MODULE ToolBatchProofs --------------------------
(***************************************************************************)
(* Safety of execute_batch for every response, every semaphore bound and   *)
(* every set of tool outcomes.                                             *)
(***************************************************************************)
EXTENDS ToolBatch, WellFoundedInduction, TLAPS

-----------------------------------------------------------------------------
(* The inductive invariant                                                 *)

\* Calls of the current phase or barrier that have no result yet.
Pending == toAuth \cup toSpawn \cup toJoin

\* Which calls may be pending at each place of the batch's future.
SchedInv ==
  /\ pc = "plan" => cursor = 1
  /\ pc \in {"plan", "scan"} => Pending = {}
  /\ pc = "ask" => toAuth # {}
  /\ pc \in {"auth", "ask"} => toJoin = {}
  /\ pc \in {"spawn", "join"} => toAuth = {}
  /\ pc = "join" => toSpawn = {}
  /\ pc = "barrier" => Pending = {} /\ cursor \in Calls /\ items[cursor] = "barrier"
  /\ toAuth \cap toSpawn = {} /\ toSpawn \cap toJoin = {}
  /\ \A i \in Pending :
       \/ items[i] = "parallel" /\ i < cursor
       \/ items[i] \in {"barrier", "unknown"} /\ i = cursor /\ Pending = {i} /\ toAuth = {i}

\* The checkpoint and the host agree, and every call the cursor has passed is
\* pending or settled.
SettledInv ==
  /\ \A i \in emitted : results[i] # NONE /\ told[i] = <<results[i]>>
  /\ \A i \in Calls \ emitted :
       /\ told[i] = <<>>
       /\ results[i] # NONE => items[i] = "parse_error"
       /\ (items[i] = "parse_error" /\ pc # "plan") => results[i] # NONE
  /\ \A i \in Calls : items[i] = "parse_error" => i \notin emitted
  /\ \A i \in Pending : i \notin emitted
  /\ \A i \in Calls : i < cursor => i \in Pending \/ results[i] # NONE
  /\ \A i \in Calls : i >= cursor => i \notin emitted

\* What runs is what is waiting to be joined, or the barrier at the cursor.
ExecInv ==
  /\ \A i \in Running : i \in toJoin \/ (pc = "barrier" /\ i = cursor)
  /\ \A i \in toAuth \cup toSpawn : task[i] = "idle"
  /\ \A i \in Calls : i >= cursor => task[i] = "idle" \/ (pc = "barrier" /\ i = cursor)

\* Nothing changes directory between a check and the run it allows.
CwdInv ==
  /\ pc \in {"auth", "ask"} => ctx = cwd
  /\ \A i \in toSpawn \cup toJoin : authCwd[i] = cwd
  /\ pc = "ask" => authCwd[First(toAuth)] = cwd
  /\ pc = "barrier" => authCwd[cursor] = cwd

IInv ==
  /\ TypeOK
  /\ AnsweredOnce
  /\ EffectOrder
  /\ ~Closed => SchedInv /\ SettledInv /\ ExecInv /\ CwdInv

-----------------------------------------------------------------------------
(* Lemmas                                                                  *)

\* The first member of a nonempty set of calls is its least.
LEMMA FirstIsLeast ==
  ASSUME NEW S, S \subseteq Nat, S # {}
  PROVE  /\ First(S) \in S
         /\ \A j \in S : First(S) <= j
<1> DEFINE Less == {ss \in Nat \X Nat : ss[1] < ss[2]}
<1>1. IsWellFoundedOn(Less, Nat)
  BY NatLessThanWellFounded, Zenon DEF OpToRel
<1> HIDE DEF Less
<1>2. PICK x \in S : \A y \in S : ~(<<y, x>> \in Less)
  BY <1>1, WFMin
<1>3. ASSUME NEW y \in S PROVE x <= y
  <2>1. <<y, x>> \in Nat \X Nat
    OBVIOUS
  <2>2. ~(y < x)
    BY <1>2, <2>1 DEF Less
  <2>3. QED
    BY <2>2
<1>4. QED
  BY <1>3 DEF First

\* Completing a call that was not completed: the host hears of it once.
LEMMA CompleteOnce ==
  ASSUME TypeOK, ~Closed, SettledInv,
         NEW i \in Calls, i \notin emitted, NEW body \in Bodies, Complete(i, body)
  PROVE  /\ told' = [told EXCEPT ![i] = <<body>>]
         /\ told' \in [Calls -> Seq(Bodies)]
         /\ results' \in [Calls -> Bodies \cup {NONE}]
         /\ emitted' \subseteq Calls
<1>1. told[i] = <<>>
  BY DEF SettledInv
<1>2. told \in [Calls -> Seq(Bodies)]
  BY DEF TypeOK
<1>3. Append(told[i], body) = <<body>> /\ <<body>> \in Seq(Bodies)
  BY <1>1
<1>4. QED
  BY <1>2, <1>3 DEF Complete, TypeOK

\* A phase ends after its first call, and no barrier lies inside it.
LEMMA PhaseEndBounds ==
  ASSUME TypeOK, cursor \in Calls, items[cursor] = "parallel"
  PROVE  /\ PhaseEnd(cursor) \in (cursor + 1)..(Len(items) + 1)
         /\ \A k \in cursor..(PhaseEnd(cursor) - 1) :
              k \in Calls /\ items[k] \in {"parallel", "parse_error"}
<1> DEFINE S == {k \in cursor..(Len(items) + 1) :
                   k = Len(items) + 1 \/ items[k] \in {"barrier", "unknown"}}
<1>1. Len(items) \in Nat /\ cursor \in 1..Len(items)
  BY DEF TypeOK, Calls
<1>2. Len(items) + 1 \in S /\ S \subseteq Nat
  BY <1>1
<1>3. First(S) \in S /\ \A j \in S : First(S) <= j
  BY <1>2, FirstIsLeast
<1>4. First(S) # cursor
  BY <1>1, <1>3
<1>5. PhaseEnd(cursor) = First(S)
  BY DEF PhaseEnd
<1>6. ASSUME NEW k \in cursor..(First(S) - 1)
      PROVE  k \in Calls /\ items[k] \in {"parallel", "parse_error"}
  <2>1. k \in cursor..Len(items) /\ k \notin S
    BY <1>1, <1>3
  <2>2. items[k] \in Kinds
    BY <1>1, <2>1 DEF TypeOK
  <2>3. QED
    BY <1>1, <2>1, <2>2 DEF Kinds, Calls
<1>7. QED
  BY <1>1, <1>3, <1>4, <1>5, <1>6

\* The first call of a nonempty set of calls.
LEMMA FirstCall ==
  ASSUME TypeOK, NEW S, S \subseteq Calls, S # {}
  PROVE  First(S) \in S
<1>1. Len(items) \in Nat
  BY DEF TypeOK
<1>2. S \subseteq Nat
  BY <1>1 DEF Calls
<1>3. QED
  BY <1>2, FirstIsLeast

-----------------------------------------------------------------------------
(* Every action preserves the invariant                                    *)

\* Planning settles nothing but the calls that do not parse.
LEMMA PlanStep == IInv /\ Plan => IInv'
<1> SUFFICES ASSUME IInv, Plan PROVE IInv'
  OBVIOUS
<1> USE BatchAssumption DEF vars, schedule, checkpoint, place, Closed, Calls, Plan, Complete, Finished, AtAwait, Partial
<1>1. TypeOK'
  BY DEF IInv, TypeOK, Bodies
<1>2. AnsweredOnce'
  BY DEF AnsweredOnce, IInv
<1>3. EffectOrder'
  BY DEF IInv, TypeOK, EffectOrder, Started, Running, Bodies, NONE
<1>4. ~Closed' => SchedInv'
  BY DEF IInv, SchedInv, Pending
<1>5. ~Closed' => SettledInv'
  BY DEF IInv, TypeOK, SettledInv, SchedInv, Pending, NONE
<1>6. ~Closed' => ExecInv'
  BY DEF IInv, ExecInv, Running
<1>7. ~Closed' => CwdInv'
  BY DEF IInv, CwdInv
<1>8. QED
  BY <1>1, <1>2, <1>3, <1>4, <1>5, <1>6, <1>7 DEF IInv

\* A settled call is passed over.
LEMMA SkipUnscheduledStep == IInv /\ SkipUnscheduled => IInv'
<1> SUFFICES ASSUME IInv, SkipUnscheduled PROVE IInv'
  OBVIOUS
<1> USE BatchAssumption DEF vars, schedule, checkpoint, place, Closed, Calls, SkipUnscheduled, Complete, Finished, AtAwait, Partial
<1>1. TypeOK'
  BY DEF IInv, TypeOK
<1>2. AnsweredOnce'
  BY DEF AnsweredOnce, IInv
<1>3. EffectOrder'
  BY DEF IInv, EffectOrder, Started
<1>4. ~Closed' => SchedInv'
  BY DEF IInv, SchedInv, Pending
<1>5. ~Closed' => SettledInv'
  BY DEF IInv, SettledInv, Pending
<1>6. ~Closed' => ExecInv'
  BY DEF IInv, ExecInv, Running
<1>7. ~Closed' => CwdInv'
  BY DEF IInv, CwdInv
<1>8. QED
  BY <1>1, <1>2, <1>3, <1>4, <1>5, <1>6, <1>7 DEF IInv

\* A phase starts with its calls unjudged and the working directory read.
LEMMA BeginPhaseStep == IInv /\ BeginPhase => IInv'
<1> SUFFICES ASSUME IInv, BeginPhase PROVE IInv'
  OBVIOUS
<1> USE BatchAssumption DEF vars, schedule, checkpoint, place, Closed, Calls, BeginPhase, Complete, Finished, AtAwait, Partial
<1>0. /\ PhaseEnd(cursor) \in (cursor + 1)..(Len(items) + 1)
      /\ \A k \in cursor..(PhaseEnd(cursor) - 1) :
           k \in Calls /\ items[k] \in {"parallel", "parse_error"}
  BY PhaseEndBounds DEF IInv, Calls
<1> HIDE DEF PhaseEnd
<1>1. TypeOK'
  BY <1>0 DEF IInv, TypeOK
<1>2. AnsweredOnce'
  BY <1>0 DEF AnsweredOnce, IInv
<1>3. EffectOrder'
  BY <1>0 DEF IInv, EffectOrder, Started
<1>4. ~Closed' => SchedInv'
  BY <1>0 DEF IInv, SchedInv, Pending
<1>5. ~Closed' => SettledInv'
  BY <1>0 DEF IInv, TypeOK, SettledInv, SchedInv, Pending, NONE
<1>6. ~Closed' => ExecInv'
  BY <1>0 DEF IInv, ExecInv, Running
<1>7. ~Closed' => CwdInv'
  BY <1>0 DEF IInv, CwdInv
<1>8. QED
  BY <1>1, <1>2, <1>3, <1>4, <1>5, <1>6, <1>7 DEF IInv

\* A barrier starts with everything before it settled.
LEMMA BeginBarrierStep == IInv /\ BeginBarrier => IInv'
<1> SUFFICES ASSUME IInv, BeginBarrier PROVE IInv'
  OBVIOUS
<1> USE BatchAssumption DEF vars, schedule, checkpoint, place, Closed, Calls, BeginBarrier, Complete, Finished, AtAwait, Partial
<1>1. TypeOK'
  BY DEF IInv, TypeOK
<1>2. AnsweredOnce'
  BY DEF AnsweredOnce, IInv
<1>3. EffectOrder'
  BY DEF IInv, EffectOrder, Started
<1>4. ~Closed' => SchedInv'
  BY DEF IInv, SchedInv, Pending
<1>5. ~Closed' => SettledInv'
  BY DEF IInv, TypeOK, SettledInv, SchedInv, Pending, NONE
<1>6. ~Closed' => ExecInv'
  BY DEF IInv, ExecInv, Running
<1>7. ~Closed' => CwdInv'
  BY DEF IInv, CwdInv
<1>8. QED
  BY <1>1, <1>2, <1>3, <1>4, <1>5, <1>6, <1>7 DEF IInv

\* Once every call of the phase is judged, the approved ones wait.
LEMMA EndAuthStep == IInv /\ EndAuth => IInv'
<1> SUFFICES ASSUME IInv, EndAuth PROVE IInv'
  OBVIOUS
<1> USE BatchAssumption DEF vars, schedule, checkpoint, place, Closed, Calls, EndAuth, Complete, Finished, AtAwait, Partial
<1>1. TypeOK'
  BY DEF IInv, TypeOK
<1>2. AnsweredOnce'
  BY DEF AnsweredOnce, IInv
<1>3. EffectOrder'
  BY DEF IInv, EffectOrder, Started
<1>4. ~Closed' => SchedInv'
  BY DEF IInv, SchedInv, Pending
<1>5. ~Closed' => SettledInv'
  BY DEF IInv, SettledInv, Pending
<1>6. ~Closed' => ExecInv'
  BY DEF IInv, ExecInv, Running
<1>7. ~Closed' => CwdInv'
  BY DEF IInv, CwdInv
<1>8. QED
  BY <1>1, <1>2, <1>3, <1>4, <1>5, <1>6, <1>7 DEF IInv

\* Spawning takes a free permit, and keeps approved calls approved.
LEMMA SpawnStep == IInv /\ Spawn => IInv'
<1> SUFFICES ASSUME IInv, Spawn PROVE IInv'
  OBVIOUS
<1> USE BatchAssumption DEF vars, schedule, checkpoint, place, Closed, Calls, Spawn, Complete, Finished, AtAwait, Partial
<1>0. PICK i \in toSpawn : i = First(toSpawn)
  BY FirstCall DEF IInv, TypeOK
<1>1. TypeOK'
  BY <1>0 DEF IInv, TypeOK
<1>2. AnsweredOnce'
  BY <1>0 DEF AnsweredOnce, IInv
<1>3. EffectOrder'
  <2> SUFFICES ASSUME NEW k \in Calls, NEW j \in Calls, j < k, Started(k)',
                      "barrier" \in {items[k], items[j]}
               PROVE  results[j] # NONE
    BY DEF EffectOrder
  <2>1. CASE k # i
    BY <1>0, <2>1 DEF IInv, TypeOK, EffectOrder, Started
  <2>2. CASE k = i
    <3>1. items[k] = "parallel" /\ k < cursor /\ items[j] = "barrier"
      BY <1>0, <2>2 DEF IInv, SchedInv, Pending
    <3>2. j \notin Pending /\ j < cursor
      BY <3>1 DEF IInv, TypeOK, SchedInv
    <3>3. QED
      BY <3>2 DEF IInv, SettledInv
  <2>3. QED
    BY <2>1, <2>2
<1>4. ~Closed' => SchedInv'
  BY <1>0 DEF IInv, SchedInv, Pending
<1>5. ~Closed' => SettledInv'
  BY <1>0 DEF IInv, SettledInv, Pending
<1>6. ~Closed' => ExecInv'
  BY <1>0 DEF IInv, TypeOK, SchedInv, ExecInv, Running, Pending, Bodies
<1>7. ~Closed' => CwdInv'
  BY <1>0 DEF IInv, CwdInv
<1>8. QED
  BY <1>1, <1>2, <1>3, <1>4, <1>5, <1>6, <1>7 DEF IInv

\* The joins start when no call of the phase waits.
LEMMA AllSpawnedStep == IInv /\ AllSpawned => IInv'
<1> SUFFICES ASSUME IInv, AllSpawned PROVE IInv'
  OBVIOUS
<1> USE BatchAssumption DEF vars, schedule, checkpoint, place, Closed, Calls, AllSpawned, Complete, Finished, AtAwait, Partial
<1>1. TypeOK'
  BY DEF IInv, TypeOK
<1>2. AnsweredOnce'
  BY DEF AnsweredOnce, IInv
<1>3. EffectOrder'
  BY DEF IInv, EffectOrder, Started
<1>4. ~Closed' => SchedInv'
  BY DEF IInv, SchedInv, Pending
<1>5. ~Closed' => SettledInv'
  BY DEF IInv, SettledInv, Pending
<1>6. ~Closed' => ExecInv'
  BY DEF IInv, ExecInv, Running
<1>7. ~Closed' => CwdInv'
  BY DEF IInv, CwdInv
<1>8. QED
  BY <1>1, <1>2, <1>3, <1>4, <1>5, <1>6, <1>7 DEF IInv

\* A task that ends gives its permit back and keeps its result.
LEMMA TaskEndsStep == IInv /\ TaskEnds => IInv'
<1> SUFFICES ASSUME IInv, TaskEnds PROVE IInv'
  OBVIOUS
<1> USE BatchAssumption DEF vars, schedule, checkpoint, place, Closed, Calls, TaskEnds, Complete, Finished, AtAwait, Partial
<1>1. TypeOK'
  BY DEF IInv, TypeOK
<1>2. AnsweredOnce'
  BY DEF AnsweredOnce, IInv
<1>3. EffectOrder'
  BY DEF IInv, EffectOrder, Started
<1>4. ~Closed' => SchedInv'
  BY DEF IInv, SchedInv, Pending
<1>5. ~Closed' => SettledInv'
  BY DEF IInv, SettledInv, Pending
<1>6. ~Closed' => ExecInv'
  BY DEF IInv, ExecInv, Running
<1>7. ~Closed' => CwdInv'
  BY DEF IInv, CwdInv
<1>8. QED
  BY <1>1, <1>2, <1>3, <1>4, <1>5, <1>6, <1>7 DEF IInv

\* A joined result is recorded in call order.
LEMMA JoinStep == IInv /\ Join => IInv'
<1> SUFFICES ASSUME IInv, Join PROVE IInv'
  OBVIOUS
<1> USE BatchAssumption DEF vars, schedule, checkpoint, place, Closed, Calls
<1> DEFINE i == First(toJoin)
<1>0. i \in toJoin /\ task[i] \in ToolOutcomes
  BY FirstCall DEF IInv, TypeOK, Join, Finished
<1>a. pc = "join" /\ toJoin' = toJoin \ {i} /\ toAuth = {} /\ toSpawn = {}
  BY DEF Join, IInv, SchedInv
<1>b. UNCHANGED <<items, pc, cursor, toAuth, toSpawn, task, answers, place, stop>>
  BY DEF Join
<1>c. /\ told' = [told EXCEPT ![i] = <<task[i]>>]
      /\ told' \in [Calls -> Seq(Bodies)]
      /\ results' \in [Calls -> Bodies \cup {NONE}]
      /\ emitted' \subseteq Calls
  BY <1>0, CompleteOnce DEF IInv, TypeOK, SettledInv, Pending, Join
<1>d. results' = [results EXCEPT ![i] = task[i]] /\ emitted' = emitted \cup {i}
  BY DEF Join, Complete
<1> HIDE DEF i
<1>e. task[i] # NONE /\ i \in Calls /\ i < cursor /\ items[i] = "parallel"
  BY <1>0, <1>a DEF IInv, TypeOK, SchedInv, Pending, Bodies, NONE
<1>1. TypeOK'
  BY <1>a, <1>b, <1>c DEF IInv, TypeOK
<1>2. AnsweredOnce'
  BY <1>a, <1>b, <1>c, <1>d DEF IInv, TypeOK, AnsweredOnce
<1>3. EffectOrder'
  BY <1>b, <1>d, <1>e DEF IInv, TypeOK, EffectOrder, Started
<1>4. SchedInv'
  BY <1>a, <1>b DEF IInv, SchedInv, Pending
<1>5. SettledInv'
  BY <1>a, <1>b, <1>c, <1>d, <1>e DEF IInv, TypeOK, SettledInv, Pending
<1>6. ExecInv'
  BY <1>a, <1>b, <1>0 DEF IInv, TypeOK, ExecInv, Running, Bodies
<1>7. CwdInv'
  BY <1>a, <1>b DEF IInv, CwdInv
<1>8. QED
  BY <1>1, <1>2, <1>3, <1>4, <1>5, <1>6, <1>7 DEF IInv

\* A phase is left with all of its calls settled.
LEMMA AllJoinedStep == IInv /\ AllJoined => IInv'
<1> SUFFICES ASSUME IInv, AllJoined PROVE IInv'
  OBVIOUS
<1> USE BatchAssumption DEF vars, schedule, checkpoint, place, Closed, Calls, AllJoined, Complete, Finished, AtAwait, Partial
<1>1. TypeOK'
  BY DEF IInv, TypeOK
<1>2. AnsweredOnce'
  BY DEF AnsweredOnce, IInv
<1>3. EffectOrder'
  BY DEF IInv, EffectOrder, Started
<1>4. ~Closed' => SchedInv'
  BY DEF IInv, SchedInv, Pending
<1>5. ~Closed' => SettledInv'
  BY DEF IInv, SettledInv, Pending
<1>6. ~Closed' => ExecInv'
  BY DEF IInv, ExecInv, Running
<1>7. ~Closed' => CwdInv'
  BY DEF IInv, CwdInv
<1>8. QED
  BY <1>1, <1>2, <1>3, <1>4, <1>5, <1>6, <1>7 DEF IInv

\* A barrier may move the working directory, with nothing else running.
LEMMA BarrierEndsStep == IInv /\ BarrierEnds => IInv'
<1> SUFFICES ASSUME IInv, BarrierEnds PROVE IInv'
  OBVIOUS
<1> USE BatchAssumption DEF vars, schedule, checkpoint, place, Closed, Calls
<1>0. cursor \in Calls /\ cursor \notin emitted /\ items[cursor] = "barrier" /\ Pending = {}
  BY DEF IInv, SchedInv, SettledInv, BarrierEnds
<1>a. /\ pc = "barrier" /\ pc' = "scan" /\ cursor' = cursor + 1
      /\ cwd' \in {cwd, cwd + 1}
      /\ UNCHANGED <<items, toAuth, toSpawn, toJoin, answers, ctx, authCwd, asked, stop>>
  BY DEF BarrierEnds
<1>b. PICK body \in ToolOutcomes : task' = [task EXCEPT ![cursor] = body] /\ Complete(cursor, body)
  BY DEF BarrierEnds
<1>c. /\ told' = [told EXCEPT ![cursor] = <<body>>]
      /\ told' \in [Calls -> Seq(Bodies)]
      /\ results' \in [Calls -> Bodies \cup {NONE}]
      /\ emitted' \subseteq Calls
  BY <1>0, <1>b, <1>a, CompleteOnce DEF IInv
<1>d. results' = [results EXCEPT ![cursor] = body] /\ emitted' = emitted \cup {cursor}
  BY <1>b DEF Complete
<1>e. body # NONE /\ body # "running"
  BY DEF Bodies, NONE
<1>1. TypeOK'
  <2>1. cursor' \in 1..(Len(items) + 1)
    BY <1>0, <1>a DEF IInv, TypeOK
  <2>2. task' \in [Calls -> {"idle", "running", "stopped"} \cup ToolOutcomes]
    BY <1>b DEF IInv, TypeOK
  <2>3. cwd' \in Nat
    BY <1>a DEF IInv, TypeOK
  <2>4. QED
    BY <1>a, <1>c, <2>1, <2>2, <2>3 DEF IInv, TypeOK
<1>2. AnsweredOnce'
  BY <1>a, <1>c DEF IInv, TypeOK, AnsweredOnce
<1>3. EffectOrder'
  <2>1. \A k \in Calls : Started(k)' => Started(k) \/ k = cursor
    BY <1>b DEF IInv, TypeOK, Started
  <2>2. \A k \in Calls : results[k] # NONE => results'[k] # NONE
    BY <1>d, <1>e DEF IInv, TypeOK
  <2>3. \A k \in Calls : k < cursor => results[k] # NONE
    BY <1>0, <1>a DEF IInv, SettledInv
  <2>4. QED
    BY <1>a, <2>1, <2>2, <2>3 DEF IInv, EffectOrder
<1>4. SchedInv'
  BY <1>0, <1>a DEF IInv, SchedInv, Pending
<1>5. SettledInv'
  <2>1. \A k \in Calls : k # cursor => results'[k] = results[k] /\ told'[k] = told[k]
    BY <1>c, <1>d DEF IInv, TypeOK
  <2>2. results'[cursor] = body /\ told'[cursor] = <<body>>
    BY <1>0, <1>c, <1>d DEF IInv, TypeOK
  <2>3. \A k \in Calls : k < cursor + 1 => k < cursor \/ k = cursor
    BY <1>0 DEF IInv, TypeOK
  <2>4. \A k \in Calls : k >= cursor + 1 => k >= cursor /\ k # cursor
    BY <1>0 DEF IInv, TypeOK
  <2>5. QED
    BY <1>0, <1>a, <1>d, <1>e, <2>1, <2>2, <2>3, <2>4 DEF IInv, TypeOK, SettledInv, Pending
<1>6. ExecInv'
  <2>1. \A k \in Calls : k # cursor => task'[k] = task[k]
    BY <1>b DEF IInv, TypeOK
  <2>2. task'[cursor] = body
    BY <1>0, <1>b DEF IInv, TypeOK
  <2>3. \A k \in Calls : k >= cursor + 1 => k >= cursor /\ k # cursor
    BY <1>0 DEF IInv, TypeOK
  <2>4. QED
    BY <1>0, <1>a, <1>e, <2>1, <2>2, <2>3 DEF IInv, TypeOK, ExecInv, Running, Pending
<1>7. CwdInv'
  BY <1>0, <1>a DEF IInv, CwdInv, Pending
<1>8. QED
  BY <1>1, <1>2, <1>3, <1>4, <1>5, <1>6, <1>7 DEF IInv

\* The end of the batch publishes what was not published yet.
LEMMA PublishStep == IInv /\ Publish => IInv'
<1> SUFFICES ASSUME IInv, Publish PROVE IInv'
  OBVIOUS
<1> USE BatchAssumption DEF vars, schedule, checkpoint, place, Closed, Calls, Publish, Complete, Finished, AtAwait, Partial
<1>0. \A i \in Calls : results[i] \in Bodies
  BY DEF IInv, TypeOK, SchedInv, SettledInv, Pending
<1>c. \A i \in Calls : told'[i] = <<results[i]>>
  <2> SUFFICES ASSUME NEW i \in Calls PROVE told'[i] = <<results[i]>>
    OBVIOUS
  <2>1. CASE i \in emitted
    BY <2>1 DEF IInv, SettledInv, TypeOK
  <2>2. CASE i \notin emitted
    <3>1. told[i] = <<>>
      BY <2>2 DEF IInv, SettledInv
    <3>2. Append(told[i], results[i]) = <<results[i]>>
      BY <3>1
    <3>3. QED
      BY <2>2, <3>2
  <2>3. QED
    BY <2>1, <2>2
<1>d. results \in Seq(Bodies) /\ Len(results) = Len(items)
  BY <1>0 DEF IInv, TypeOK
<1>1. TypeOK'
  BY <1>0, <1>c, <1>d DEF IInv, TypeOK
<1>2. AnsweredOnce'
  BY <1>0, <1>c, <1>d DEF AnsweredOnce, IInv
<1>3. EffectOrder'
  BY <1>0, <1>c, <1>d DEF IInv, EffectOrder, Started
<1>4. ~Closed' => SchedInv'
  BY <1>0, <1>c, <1>d DEF IInv, SchedInv, Pending
<1>5. ~Closed' => SettledInv'
  BY <1>0, <1>c, <1>d DEF IInv, SettledInv, Pending
<1>6. ~Closed' => ExecInv'
  BY <1>0, <1>c, <1>d DEF IInv, ExecInv, Running
<1>7. ~Closed' => CwdInv'
  BY <1>0, <1>c, <1>d DEF IInv, CwdInv
<1>8. QED
  BY <1>1, <1>2, <1>3, <1>4, <1>5, <1>6, <1>7 DEF IInv

\* A cancel or a deadline only raises a flag.
LEMMA RequestStopStep == IInv /\ RequestStop => IInv'
<1> SUFFICES ASSUME IInv, RequestStop PROVE IInv'
  OBVIOUS
<1> USE BatchAssumption DEF vars, schedule, checkpoint, place, Closed, Calls, RequestStop, Complete, Finished, AtAwait, Partial
<1>1. TypeOK'
  BY DEF IInv, TypeOK
<1>2. AnsweredOnce'
  BY DEF AnsweredOnce, IInv
<1>3. EffectOrder'
  BY DEF IInv, EffectOrder, Started
<1>4. ~Closed' => SchedInv'
  BY DEF IInv, SchedInv, Pending
<1>5. ~Closed' => SettledInv'
  BY DEF IInv, SettledInv, Pending
<1>6. ~Closed' => ExecInv'
  BY DEF IInv, ExecInv, Running
<1>7. ~Closed' => CwdInv'
  BY DEF IInv, CwdInv
<1>8. QED
  BY <1>1, <1>2, <1>3, <1>4, <1>5, <1>6, <1>7 DEF IInv

\* A dropped batch answers every call that has no answer.
LEMMA DropStep == IInv /\ Drop => IInv'
<1> SUFFICES ASSUME IInv, Drop PROVE IInv'
  OBVIOUS
<1> USE BatchAssumption DEF vars, schedule, checkpoint, place, Closed, Calls, Drop, Complete, Finished, AtAwait, Partial
<1>0. \A i \in Calls : Partial(i) \in Bodies
  BY DEF IInv, TypeOK, Bodies
<1>c. \A i \in Calls : told'[i] = <<Partial(i)>>
  <2> SUFFICES ASSUME NEW i \in Calls PROVE told'[i] = <<Partial(i)>>
    OBVIOUS
  <2>1. CASE i \in emitted
    BY <2>1 DEF IInv, SettledInv, TypeOK
  <2>2. CASE i \notin emitted
    <3>1. told[i] = <<>>
      BY <2>2 DEF IInv, SettledInv
    <3>2. Append(told[i], Partial(i)) = <<Partial(i)>>
      BY <3>1
    <3>3. QED
      BY <2>2, <3>2
  <2>3. QED
    BY <2>1, <2>2
<1>d. answers' \in Seq(Bodies) /\ Len(answers') = Len(items)
  BY <1>0 DEF IInv, TypeOK
<1> HIDE DEF Partial
<1>1. TypeOK'
  BY <1>0, <1>c, <1>d DEF IInv, TypeOK
<1>2. AnsweredOnce'
  BY <1>0, <1>c, <1>d DEF IInv, TypeOK, AnsweredOnce, EffectOrder, SchedInv, SettledInv, ExecInv, CwdInv, Pending, Running, Started, Kinds, Bodies, NONE
<1>3. EffectOrder'
  BY <1>0, <1>c, <1>d DEF IInv, TypeOK, EffectOrder, Started, Running, Bodies, NONE
<1>4. ~Closed' => SchedInv'
  BY <1>0, <1>c, <1>d DEF IInv, SchedInv, Pending
<1>5. ~Closed' => SettledInv'
  BY <1>0, <1>c, <1>d DEF IInv, SettledInv, Pending
<1>6. ~Closed' => ExecInv'
  BY <1>0, <1>c, <1>d DEF IInv, ExecInv, Running
<1>7. ~Closed' => CwdInv'
  BY <1>0, <1>c, <1>d DEF IInv, CwdInv
<1>8. QED
  BY <1>1, <1>2, <1>3, <1>4, <1>5, <1>6, <1>7 DEF IInv

\* An aborted task ends after the batch.
LEMMA LateTaskStopsStep == IInv /\ LateTaskStops => IInv'
<1> SUFFICES ASSUME IInv, LateTaskStops PROVE IInv'
  OBVIOUS
<1> USE BatchAssumption DEF vars, schedule, checkpoint, place, Closed, Calls, LateTaskStops, Complete, Finished, AtAwait, Partial
<1>1. TypeOK'
  BY DEF IInv, TypeOK
<1>2. AnsweredOnce'
  BY DEF AnsweredOnce, IInv
<1>3. EffectOrder'
  BY DEF IInv, TypeOK, EffectOrder, Started, Running, Bodies, NONE
<1>4. ~Closed' => SchedInv'
  BY DEF IInv, SchedInv, Pending
<1>5. ~Closed' => SettledInv'
  BY DEF IInv, SettledInv, Pending
<1>6. ~Closed' => ExecInv'
  BY DEF IInv, ExecInv, Running
<1>7. ~Closed' => CwdInv'
  BY DEF IInv, CwdInv
<1>8. QED
  BY <1>1, <1>2, <1>3, <1>4, <1>5, <1>6, <1>7 DEF IInv

\* A returned batch stays as it is.
LEMMA DoneStep == IInv /\ Done => IInv'
<1> SUFFICES ASSUME IInv, Done PROVE IInv'
  OBVIOUS
<1> USE BatchAssumption DEF vars, schedule, checkpoint, place, Closed, Calls, Done, Complete, Finished, AtAwait, Partial
<1>1. TypeOK'
  BY DEF IInv, TypeOK
<1>2. AnsweredOnce'
  BY DEF AnsweredOnce, IInv
<1>3. EffectOrder'
  BY DEF IInv, EffectOrder, Started
<1>4. ~Closed' => SchedInv'
  BY DEF IInv, SchedInv, Pending
<1>5. ~Closed' => SettledInv'
  BY DEF IInv, SettledInv, Pending
<1>6. ~Closed' => ExecInv'
  BY DEF IInv, ExecInv, Running
<1>7. ~Closed' => CwdInv'
  BY DEF IInv, CwdInv
<1>8. QED
  BY <1>1, <1>2, <1>3, <1>4, <1>5, <1>6, <1>7 DEF IInv

\* A verdict on call i has been reached, by the check or by the user.
Judged(i) ==
  /\ pc \in {"auth", "ask"} /\ toAuth # {} /\ i = First(toAuth)
  /\ authCwd' \in [Calls -> Nat] /\ authCwd'[i] = cwd
  /\ \A j \in Calls \ {i} : authCwd'[j] = authCwd[j]
  /\ asked' \subseteq Calls
  /\ toAuth' = toAuth \ {i}
  /\ UNCHANGED <<items, toJoin, answers, cwd, ctx, stop>>

\* What is known of the call a verdict is about.
LEMMA JudgedCall ==
  ASSUME IInv, NEW i, Judged(i)
  PROVE  /\ i \in toAuth /\ i \in Calls /\ i \notin emitted /\ task[i] = "idle"
         /\ toJoin = {} /\ ctx = cwd /\ i \notin toSpawn
         /\ \/ items[i] = "parallel" /\ i < cursor
            \/ /\ items[i] \in {"barrier", "unknown"} /\ i = cursor
               /\ toAuth = {i} /\ toSpawn = {}
<1> USE DEF Closed, Calls
<1>1. i \in toAuth
  BY FirstCall DEF IInv, TypeOK, Judged
<1>2. i \in Pending /\ ~Closed
  BY <1>1 DEF Pending, Judged
<1>3. QED
  BY <1>1, <1>2 DEF IInv, TypeOK, Judged, SchedInv, SettledInv, ExecInv, CwdInv, Pending

\* An approved parallel call waits to be spawned.
LEMMA ApproveParallel ==
  ASSUME IInv, NEW i, Judged(i), items[i] = "parallel", pc' = "auth",
         toSpawn' = toSpawn \cup {i}, UNCHANGED <<cursor, task, checkpoint, told>>
  PROVE  IInv'
<1> USE DEF Closed, Calls, checkpoint
<1>0. /\ i \in toAuth /\ i \in Calls /\ i \notin emitted /\ task[i] = "idle"
      /\ toJoin = {} /\ ctx = cwd /\ i \notin toSpawn /\ i < cursor
  BY JudgedCall DEF IInv, TypeOK
<1>a. Pending' = Pending
  BY <1>0 DEF Judged, Pending
<1>1. TypeOK'
  BY <1>0 DEF IInv, TypeOK, Judged
<1>2. AnsweredOnce'
  BY DEF IInv, AnsweredOnce, Judged
<1>3. EffectOrder'
  BY DEF IInv, EffectOrder, Started, Judged
<1>4. SchedInv'
  BY <1>0, <1>a DEF IInv, SchedInv, Judged
<1>5. SettledInv'
  BY <1>a DEF IInv, SettledInv, Judged
<1>6. ExecInv'
  BY <1>0 DEF IInv, ExecInv, Running, Judged
<1>7. CwdInv'
  BY <1>0 DEF IInv, TypeOK, CwdInv, Judged
<1>8. QED
  BY <1>1, <1>2, <1>3, <1>4, <1>5, <1>6, <1>7 DEF IInv

\* An approved barrier starts: everything before it is settled.
LEMMA ApproveBarrier ==
  ASSUME IInv, NEW i, Judged(i), items[i] = "barrier", pc' = "barrier",
         task' = [task EXCEPT ![i] = "running"],
         UNCHANGED <<cursor, toSpawn, checkpoint, told>>
  PROVE  IInv'
<1> USE DEF Closed, Calls, checkpoint
<1>0. /\ i \in toAuth /\ i \in Calls /\ i \notin emitted /\ task[i] = "idle"
      /\ toJoin = {} /\ ctx = cwd /\ i = cursor /\ toAuth = {i} /\ toSpawn = {}
  BY JudgedCall DEF IInv, TypeOK
<1>a. Pending' = {} /\ Pending = {i} /\ i \notin emitted
  BY <1>0 DEF Judged, Pending
<1>1. TypeOK'
  BY <1>0 DEF IInv, TypeOK, Judged
<1>2. AnsweredOnce'
  BY DEF IInv, AnsweredOnce, Judged
<1>3. EffectOrder'
  <2>1. \A k \in Calls : Started(k)' => Started(k) \/ k = cursor
    BY <1>0 DEF IInv, TypeOK, Started
  <2>2. \A k \in Calls : k < cursor => results[k] # NONE
    BY <1>0, <1>a DEF IInv, TypeOK, SettledInv, Judged
  <2>3. QED
    BY <2>1, <2>2 DEF IInv, EffectOrder, Judged
<1>4. SchedInv'
  BY <1>0, <1>a DEF IInv, SchedInv, Judged, Pending
<1>5. SettledInv'
  <2>1. \A k \in Calls : k < cursor => k # i
    BY <1>0 DEF IInv, TypeOK
  <2>2. QED
    BY <1>0, <1>a, <2>1 DEF IInv, SettledInv, Judged
<1>6. ExecInv'
  BY <1>0 DEF IInv, TypeOK, ExecInv, Running, Judged
<1>7. CwdInv'
  BY <1>0 DEF IInv, TypeOK, CwdInv, Judged
<1>8. QED
  BY <1>1, <1>2, <1>3, <1>4, <1>5, <1>6, <1>7 DEF IInv

\* A call settled without running: denied, or a tool nobody has.
LEMMA SettleUnrun ==
  ASSUME IInv, NEW i, Judged(i), NEW body \in {"denied", "error"}, Complete(i, body),
         IF items[i] = "parallel" THEN pc' = "auth" /\ UNCHANGED cursor
                                  ELSE pc' = "scan" /\ cursor' = cursor + 1,
         UNCHANGED <<toSpawn, task>>
  PROVE  IInv'
<1> USE DEF Closed, Calls
<1>0. /\ i \in toAuth /\ i \in Calls /\ i \notin emitted /\ task[i] = "idle"
      /\ toJoin = {} /\ ctx = cwd /\ i \notin toSpawn
      /\ \/ items[i] = "parallel" /\ i < cursor
         \/ /\ items[i] \in {"barrier", "unknown"} /\ i = cursor
            /\ toAuth = {i} /\ toSpawn = {}
  BY JudgedCall
<1>a. Pending' = Pending \ {i} /\ i \in Pending
  BY <1>0 DEF Judged, Pending
<1>b. body \in Bodies /\ body # NONE
  BY DEF Bodies, NONE
<1>c. /\ told' = [told EXCEPT ![i] = <<body>>]
      /\ told' \in [Calls -> Seq(Bodies)]
      /\ results' \in [Calls -> Bodies \cup {NONE}]
      /\ emitted' \subseteq Calls
  BY <1>0, <1>b, CompleteOnce DEF IInv, Judged
<1>d. results' = [results EXCEPT ![i] = body] /\ emitted' = emitted \cup {i}
  BY DEF Complete
<1>e. /\ \A k \in Calls : k # i => results'[k] = results[k] /\ told'[k] = told[k]
      /\ results'[i] = body /\ told'[i] = <<body>>
  BY <1>0, <1>c, <1>d DEF IInv, TypeOK
<1>f. /\ cursor' \in 1..(Len(items) + 1)
      /\ \A k \in Calls : k < cursor' => k < cursor \/ k = i
      /\ \A k \in Calls : k >= cursor' => k >= cursor /\ k # i
      /\ \A k \in Calls : k < cursor => k < cursor'
  BY <1>0 DEF IInv, TypeOK
<1>g. pc' \in {"auth", "scan"} /\ (pc' = "scan" => Pending' = {})
  BY <1>0, <1>a DEF Pending
<1>1. TypeOK'
  BY <1>c, <1>f, <1>g DEF IInv, TypeOK, Judged
<1>2. AnsweredOnce'
  <2>1. Len(<<body>>) = 1
    OBVIOUS
  <2>2. ASSUME NEW k \in Calls PROVE Len(told'[k]) <= 1
    <3>1. CASE k = i
      <4>1. told'[k] = <<body>>
        BY <1>e, <3>1
      <4>2. QED
        BY <2>1, <4>1
    <3>2. CASE k # i
      BY <1>e, <3>2 DEF IInv, AnsweredOnce
    <3>3. QED
      BY <3>1, <3>2
  <2>3. QED
    BY <1>g, <2>2 DEF AnsweredOnce, Judged
<1>3. EffectOrder'
  BY <1>b, <1>e DEF IInv, EffectOrder, Started, Judged
<1>4. SchedInv'
  <2>1. ASSUME NEW k \in Pending' PROVE items[k] = "parallel" /\ k < cursor'
    <3>1. k \in Pending /\ k # i /\ k \in Calls
      BY <1>a DEF Pending, IInv, TypeOK
    <3>2. items[k] = "parallel" /\ k < cursor
      BY <1>a, <3>1 DEF IInv, SchedInv, Judged
    <3>3. QED
      BY <1>f, <3>1, <3>2
  <2>2. QED
    BY <1>0, <1>a, <1>g, <2>1 DEF IInv, SchedInv, Judged, Pending
<1>5. SettledInv'
  <2>0. /\ items' = items /\ SettledInv /\ pc # "plan"
        /\ emitted \subseteq Calls /\ Pending \subseteq Calls /\ emitted' = emitted \cup {i}
    BY <1>d DEF IInv, TypeOK, Judged, Pending
  <2>1. ASSUME NEW k \in emitted' PROVE results'[k] # NONE /\ told'[k] = <<results'[k]>>
    BY <1>0, <1>b, <1>e, <2>0, <2>1 DEF SettledInv
  <2>2. ASSUME NEW k \in Calls \ emitted'
        PROVE  /\ told'[k] = <<>>
               /\ results'[k] # NONE => items[k] = "parse_error"
               /\ items[k] = "parse_error" => results'[k] # NONE
    BY <1>e, <2>0, <2>2 DEF SettledInv
  <2>3. ASSUME NEW k \in Calls, items[k] = "parse_error" PROVE k \notin emitted'
    BY <1>0, <2>0, <2>3 DEF SettledInv
  <2>4. ASSUME NEW k \in Pending' PROVE k \notin emitted'
    BY <1>a, <2>0, <2>4 DEF SettledInv
  <2>5. ASSUME NEW k \in Calls, k < cursor' PROVE k \in Pending' \/ results'[k] # NONE
    BY <1>a, <1>b, <1>e, <1>f, <2>0, <2>5 DEF SettledInv
  <2>6. ASSUME NEW k \in Calls, k >= cursor' PROVE k \notin emitted'
    BY <1>f, <2>0, <2>6 DEF SettledInv
  <2>7. QED
    BY <2>0, <2>1, <2>2, <2>3, <2>4, <2>5, <2>6 DEF SettledInv
<1>6. ExecInv'
  BY <1>0, <1>f, <1>g DEF IInv, TypeOK, ExecInv, Running, Judged
<1>7. CwdInv'
  BY <1>0, <1>g DEF IInv, TypeOK, CwdInv, Judged
<1>8. QED
  BY <1>1, <1>2, <1>3, <1>4, <1>5, <1>6, <1>7 DEF IInv

\* A verdict preserves the invariant.
LEMMA VerdictStep ==
  ASSUME IInv, NEW i, Judged(i), Allowed(i) \/ Denied(i)
  PROVE  IInv'
<1>1. CASE Denied(i)
  BY <1>1, SettleUnrun DEF Denied
<1>2. CASE Allowed(i)
  <2>1. CASE items[i] = "parallel"
    BY <1>2, <2>1, ApproveParallel DEF Allowed
  <2>2. CASE items[i] = "barrier"
    BY <1>2, <2>2, ApproveBarrier DEF Allowed
  <2>3. CASE items[i] = "unknown"
    BY <1>2, <2>3, SettleUnrun DEF Allowed
  <2>4. QED
    BY <1>2, <2>1, <2>2, <2>3 DEF Allowed
<1>3. QED
  BY <1>1, <1>2

\* The user answers an ask.
LEMMA AnswerStep == IInv /\ Answer => IInv'
<1> SUFFICES ASSUME IInv, Answer PROVE IInv'
  OBVIOUS
<1>1. Judged(First(toAuth))
  BY DEF IInv, TypeOK, SchedInv, CwdInv, Answer, Judged, Allowed, Denied, place, Closed
<1>2. QED
  BY <1>1, VerdictStep DEF Answer

\* A call is judged, or the user is asked.
LEMMA AuthorizeStep == IInv /\ Authorize => IInv'
<1> SUFFICES ASSUME IInv, Authorize PROVE IInv'
  OBVIOUS
<1> USE DEF Closed, Calls, checkpoint
<1> DEFINE i == First(toAuth)
<1>0. i \in toAuth /\ ctx = cwd /\ pc = "auth" /\ i \in Calls
  BY FirstCall DEF IInv, TypeOK, CwdInv, Authorize
<1>a. /\ authCwd' = [authCwd EXCEPT ![i] = ctx] /\ asked' = asked \cup {i}
      /\ UNCHANGED <<items, toJoin, answers, cwd, ctx, stop>>
  BY DEF Authorize
<1>b. /\ authCwd' \in [Calls -> Nat] /\ authCwd'[i] = cwd
      /\ \A j \in Calls \ {i} : authCwd'[j] = authCwd[j]
      /\ asked' \subseteq Calls
  BY <1>0, <1>a DEF IInv, TypeOK
<1>1. CASE Allowed(i) \/ Denied(i)
  <2>1. Judged(i)
    BY <1>0, <1>a, <1>b, <1>1 DEF Judged, Allowed, Denied
  <2>2. QED
    BY <1>1, <2>1, VerdictStep
<1>2. CASE pc' = "ask" /\ UNCHANGED <<cursor, toAuth, toSpawn, task, checkpoint, told>>
  <2>0. Pending' = Pending /\ First(toAuth)' = i
    BY <1>2, <1>a DEF Pending, First
  <2> HIDE DEF i
  <2>1. TypeOK'
    BY <1>2, <1>a, <1>b DEF IInv, TypeOK
  <2>2. AnsweredOnce' /\ EffectOrder'
    BY <1>0, <1>2, <1>a DEF IInv, AnsweredOnce, EffectOrder, Started
  <2>3. SchedInv'
    BY <1>0, <1>2, <1>a, <2>0 DEF IInv, SchedInv
  <2>4. SettledInv'
    BY <1>0, <1>2, <1>a, <2>0 DEF IInv, SettledInv
  <2>5. ExecInv'
    BY <1>0, <1>2, <1>a DEF IInv, ExecInv, Running
  <2>6. CwdInv'
    BY <1>0, <1>2, <1>a, <1>b, <2>0 DEF IInv, TypeOK, CwdInv, SchedInv
  <2>7. QED
    BY <2>1, <2>2, <2>3, <2>4, <2>5, <2>6 DEF IInv
<1>3. QED
  BY <1>1, <1>2 DEF Authorize

-----------------------------------------------------------------------------
(* The theorems                                                            *)

\* The inductive invariant holds in every reachable state.
THEOREM Invariance == Spec => []IInv
<1>1. Init => IInv
  <2> SUFFICES ASSUME Init PROVE IInv
    OBVIOUS
  <2>1. PICK n \in 0..MaxCalls : items \in [1..n -> Kinds]
    BY DEF Init
  <2>2. items \in Seq(Kinds) /\ Len(items) = n
    BY <2>1, BatchAssumption
  <2>3. TypeOK
    <3>1. <<>> \in Seq(Bodies) /\ cursor \in 1..(Len(items) + 1)
      BY <2>2 DEF Init
    <3>2. QED
      BY <2>2, <3>1 DEF Init, TypeOK, Calls, NONE
  <2>4. AnsweredOnce
    <3>1. Len(<<>>) = 0
      OBVIOUS
    <3>2. QED
      BY <2>2, <3>1 DEF Init, AnsweredOnce, Closed
  <2>5. EffectOrder /\ SchedInv /\ SettledInv /\ ExecInv /\ CwdInv
    BY <2>2 DEF Init, EffectOrder, SchedInv, SettledInv, ExecInv, CwdInv, Pending,
      Running, Started, Calls
  <2>6. QED
    BY <2>3, <2>4, <2>5 DEF IInv
<1>2. IInv /\ [Next]_vars => IInv'
  <2> SUFFICES ASSUME IInv, [Next]_vars PROVE IInv'
    OBVIOUS
  <2>1. CASE UNCHANGED vars
    <3> USE <2>1 DEF vars, schedule, checkpoint, place, Calls
    <3>1. TypeOK' /\ AnsweredOnce' /\ EffectOrder'
      BY DEF IInv, TypeOK, AnsweredOnce, EffectOrder, Started, Closed
    <3>2. SchedInv => SchedInv'
      BY DEF SchedInv, Pending
    <3>3. SettledInv => SettledInv'
      BY DEF SettledInv, Pending
    <3>4. ExecInv => ExecInv'
      BY DEF ExecInv, Running
    <3>5. CwdInv => CwdInv'
      BY DEF CwdInv, First
    <3>6. QED
      BY <3>1, <3>2, <3>3, <3>4, <3>5 DEF IInv, Closed
  <2>2. CASE Next
    BY <2>2, PlanStep, SkipUnscheduledStep, BeginPhaseStep, BeginBarrierStep,
      AuthorizeStep, AnswerStep, EndAuthStep, SpawnStep, AllSpawnedStep, TaskEndsStep,
      JoinStep, AllJoinedStep, BarrierEndsStep, PublishStep, RequestStopStep, DropStep,
      LateTaskStopsStep, DoneStep DEF Next, Internal
  <2>3. QED
    BY <2>1, <2>2
<1>3. QED
  BY <1>1, <1>2, PTL DEF Spec

\* Type correctness of the batch for every response and every bound.
THEOREM TypeCorrect == Spec => []TypeOK
BY Invariance, PTL DEF IInv

\* However and wherever the batch ends, one notification per call, equal to the
\* answer the transcript gets.
THEOREM AnswersAndNotificationsAgree == Spec => []AnsweredOnce
BY Invariance, PTL DEF IInv

\* Effects keep the order the model asked for.
THEOREM EffectsOrdered == Spec => []EffectOrder
BY Invariance, PTL DEF IInv

\* No directory change comes between the check of a call and its run.
THEOREM CheckedWhereItRuns == Spec => []AuthorizedWhereItRuns
<1>1. IInv => AuthorizedWhereItRuns
  BY DEF IInv, ExecInv, CwdInv, AuthorizedWhereItRuns, Running
<1>2. QED
  BY <1>1, Invariance, PTL

\* The user is never asked while a tool of the batch runs.
THEOREM AsksAlone == Spec => []AskNeverOverlapsRun
<1>1. IInv => AskNeverOverlapsRun
  BY DEF IInv, SchedInv, ExecInv, AskNeverOverlapsRun, Running, Closed
<1>2. QED
  BY <1>1, Invariance, PTL

-----------------------------------------------------------------------------
(* The batch implements the contract of BatchContract                      *)

\* While the batch stays open, what was published stays as it was.
LEMMA PublishedIsFinal ==
  ASSUME IInv, Next, ~Closed, ~Closed'
  PROVE  /\ UNCHANGED <<items, answers>>
         /\ emitted \subseteq emitted'
         /\ \A i \in emitted : results'[i] = results[i]
<1> USE DEF Closed, Calls, checkpoint, schedule, place, vars
<1>1. CASE Plan
  BY <1>1 DEF Plan, IInv, TypeOK, SettledInv
<1>2. CASE SkipUnscheduled \/ BeginPhase \/ BeginBarrier \/ EndAuth \/ Spawn \/ AllSpawned
           \/ AllJoined \/ TaskEnds \/ RequestStop \/ Done
  BY <1>2 DEF SkipUnscheduled, BeginPhase, BeginBarrier, EndAuth, Spawn, AllSpawned,
    AllJoined, TaskEnds, RequestStop, Done
<1>3. ASSUME NEW i \in Calls \ emitted, NEW body, Complete(i, body)
      PROVE  emitted \subseteq emitted' /\ \A j \in emitted : results'[j] = results[j]
  BY <1>3 DEF Complete, IInv, TypeOK
<1>4. CASE Authorize \/ Answer
  <2> DEFINE i == First(toAuth)
  <2>1. toAuth # {} /\ i \in toAuth
    BY <1>4, FirstCall DEF IInv, TypeOK, SchedInv, Authorize, Answer
  <2>2. i \in Calls \ emitted
    BY <2>1 DEF IInv, TypeOK, SettledInv, Pending
  <2>3. UNCHANGED <<items, answers>>
    BY <1>4 DEF Authorize, Answer
  <2>4. UNCHANGED checkpoint \/ Complete(i, "error") \/ Complete(i, "denied")
    BY <1>4 DEF Authorize, Answer, Allowed, Denied
  <2>5. QED
    BY <1>3, <2>2, <2>3, <2>4
<1>5. CASE Join
  <2>1. First(toJoin) \in Calls \ emitted
    BY <1>5, FirstCall DEF IInv, TypeOK, SettledInv, Pending, Join
  <2>2. QED
    BY <1>3, <1>5, <2>1 DEF Join
<1>6. CASE BarrierEnds
  <2>1. cursor \in Calls \ emitted
    BY <1>6 DEF IInv, SchedInv, SettledInv, BarrierEnds
  <2>2. QED
    BY <1>3, <1>6, <2>1 DEF BarrierEnds
<1>7. QED
  BY <1>1, <1>2, <1>4, <1>5, <1>6 DEF Next, Internal, Publish, Drop, LateTaskStops

\* Every step of the batch is a settlement, the closing of the contract, or
\* invisible to it.
LEMMA ContractStep ==
  ASSUME IInv, IInv', Next
  PROVE  [Contract!Next]_(Contract!contractVars)
<1> USE DEF Calls
<1>1. CASE ~Closed /\ ~Closed'
  <2>1. /\ UNCHANGED <<items, answers>>
        /\ emitted \subseteq emitted'
        /\ \A i \in emitted : results'[i] = results[i]
    BY <1>1, PublishedIsFinal
  <2>2. /\ \A i \in Calls : told[i] = IF i \in emitted THEN <<results[i]>> ELSE <<>>
        /\ \A i \in Calls : told'[i] = IF i \in emitted' THEN <<results'[i]>> ELSE <<>>
        /\ told' \in [Calls -> Seq(Bodies)]
        /\ \A i \in emitted' : i \in Calls /\ results'[i] \in Bodies
    BY <1>1, <2>1, ZenonT(60) DEF IInv, TypeOK, SettledInv
  <2> DEFINE S == Calls \cap (emitted' \ emitted)
             b == [i \in Calls |-> IF i \in S THEN results'[i] ELSE "ok"]
  <2>3. S \in SUBSET Calls /\ b \in [Calls -> Bodies]
    BY <2>2 DEF Bodies
  <2>4. \A i \in S : told[i] = <<>>
    BY <2>2
  <2>5. told' = [i \in Calls |-> IF i \in S THEN <<b[i]>> ELSE told[i]]
    <3>1. \A i \in Calls : told'[i] = IF i \in S THEN <<b[i]>> ELSE told[i]
      BY <2>1, <2>2
    <3>2. QED
      BY <2>2, <3>1
  <2>6. Contract!Settle
    BY <1>1, <2>1, <2>3, <2>4, <2>5 DEF Contract!Settle, Contract!Bodies, Bodies
  <2>7. QED
    BY <2>6 DEF Contract!Next
<1>2. CASE ~Closed /\ Closed'
  <2>1. UNCHANGED items /\ answers' = [i \in Calls |-> Partial(i)]
    <3>1. CASE Publish
      <4>1. \A i \in Calls : results[i] # NONE
        BY <1>2, <3>1 DEF Publish, IInv, TypeOK, SchedInv, SettledInv, Pending
      <4>2. QED
        BY <3>1, <4>1 DEF Publish, Partial, IInv, TypeOK
    <3>2. CASE Drop
      BY <3>2 DEF Drop
    <3>3. QED
      BY <1>2, <3>1, <3>2 DEF Next, Internal, Closed, Plan, SkipUnscheduled, BeginPhase,
        BeginBarrier, Authorize, Allowed, Denied, EndAuth, Spawn, AllSpawned, Join, AllJoined,
        Answer, TaskEnds, BarrierEnds, RequestStop, LateTaskStops, Done, vars
  <2>2. answers' \in [Calls -> Bodies]
    BY <2>1 DEF IInv, TypeOK, Partial, Bodies
  <2>3. \A i \in Calls : told[i] \in {<<>>, <<answers'[i]>>}
    BY <1>2, <2>1 DEF IInv, SettledInv, Partial
  <2>4. told' = [i \in Calls |-> <<answers'[i]>>]
    <3>1. \A i \in Calls : told'[i] = <<answers'[i]>>
      BY <1>2, <2>1 DEF IInv, AnsweredOnce
    <3>2. told' \in [Calls -> Seq(Bodies)]
      BY <2>1 DEF IInv, TypeOK
    <3>3. QED
      BY <3>1, <3>2
  <2>5. Contract!Close
    BY <1>2, <2>1, <2>2, <2>3, <2>4 DEF Contract!Close, Contract!Bodies, Bodies
  <2>6. QED
    BY <2>5 DEF Contract!Next
<1>3. CASE Closed
  <2>1. UNCHANGED <<items, told, answers>> /\ Closed'
    BY <1>3 DEF Next, Internal, Closed, Plan, SkipUnscheduled, BeginPhase, BeginBarrier,
      Authorize, EndAuth, Spawn, AllSpawned, Join, AllJoined, Answer, TaskEnds, BarrierEnds,
      Publish, RequestStop, Drop, AtAwait, LateTaskStops, Done, vars
  <2>2. QED
    BY <1>3, <2>1 DEF Contract!contractVars
<1>4. QED
  BY <1>1, <1>2, <1>3

\* execute_batch with finish_partial_batch implements the contract the agent
\* loop relies on: one settlement per call, one notification each, and one
\* answer per call in call order.
THEOREM ImplementsContract == Spec => ContractSpec
<1>1. IInv /\ Init => Contract!Init
  BY DEF IInv, TypeOK, Init, Contract!Init, Closed, Calls
<1>2. IInv /\ IInv' /\ [Next]_vars => [Contract!Next]_(Contract!contractVars)
  <2>1. UNCHANGED vars => UNCHANGED Contract!contractVars
    BY DEF vars, Contract!contractVars, Closed
  <2>2. QED
    BY <2>1, ContractStep
<1>3. QED
  BY <1>1, <1>2, Invariance, PTL DEF Spec, ContractSpec, Contract!Spec
=============================================================================
