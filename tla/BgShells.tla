------------------------------ MODULE BgShells ------------------------------
(* Background shells: Bash::run_background (rc-tools bash.rs) and the session   *)
(* supervisor that owns the processes, copies their output to a rotating log    *)
(* and reaps or kills them (rc-core state.rs).  The tool call, the supervisor    *)
(* thread, the processes and the driver that shuts the session down interleave. *)
EXTENDS Integers, Sequences, SequencesExt, FiniteSets

CONSTANTS
  Shells,      \* background shells the session starts
  Segment,     \* bytes of one log segment (BACKGROUND_LOG_SEGMENT_BYTES)
  MaxBytes,    \* bound: bytes one shell prints
  MaxLogFaults \* bound: log operations that fail

ASSUME BgAssumption ==
  /\ "shutdown" \notin Shells
  /\ Segment \in Nat /\ MaxBytes \in Nat /\ MaxLogFaults \in Nat

VARIABLES
  start,    \* per shell: "new", "spawned", "refused", "failed", "handed"
  tree,     \* per shell: its living processes: "leader", "kid" (same group)
  printed,  \* per shell: bytes written to its pipe; byte n is the number n
  taken,    \* per shell: bytes the supervisor has read
  log,      \* per shell: SegmentedLog [prev, cur, buf]; ExitMark and KillMark end it
  status,   \* per shell: BgShellStatus
  watched,  \* `processes' of supervisor_loop
  exiting,  \* shells whose exit is logged but not yet published
  sup,      \* the supervisor thread: "up", "stopped", "panicked"
  chan,     \* its command channel
  reg,      \* ShellState::bg
  host,     \* the driver: "serving", "waits" (for the supervisor), "done"
  faults

bgVars == <<start, tree, printed, taken, log, status, watched, exiting, sup, chan, reg, host, faults>>

ExitMark == -1
KillMark == -2
Stop == "shutdown"

BgInit ==
  /\ start = [s \in Shells |-> "new"] /\ tree = [s \in Shells |-> {}]
  /\ printed = [s \in Shells |-> 0] /\ taken = [s \in Shells |-> 0]
  /\ log = [s \in Shells |-> [prev |-> << >>, cur |-> << >>, buf |-> << >>]]
  /\ status = [s \in Shells |-> "Running"]
  /\ watched = {} /\ exiting = {} /\ sup = "up" /\ chan = << >> /\ reg = << >>
  /\ host = "serving" /\ faults = 0

(* --- the tool call -------------------------------------------------------- *)
\* No log directory, a refused command, no log file, no sandbox, or no spawn.
BgRefuse(s) ==
  /\ start[s] = "new" /\ host = "serving"
  /\ start' = [start EXCEPT ![s] = "refused"]
  /\ UNCHANGED <<tree, printed, taken, log, status, watched, exiting, sup, chan, reg, host, faults>>

\* The state's lock is not held while the log is truncated and the shell spawned.
BgSpawn(s) ==
  /\ start[s] = "new" /\ host = "serving"
  /\ start' = [start EXCEPT ![s] = "spawned"] /\ tree' = [tree EXCEPT ![s] = {"leader"}]
  /\ UNCHANGED <<printed, taken, log, status, watched, exiting, sup, chan, reg, host, faults>>

(* supervise_background, under the lock: with a dead supervisor the child's    *)
(* leader is killed.  (Without one the child would be dropped as it is, but    *)
(* Bash runs inside the driver's task, so the session is not shut down yet.)   *)
supervise_background(s) ==
  /\ start[s] = "spawned"
  /\ \/ /\ sup = "up"
        /\ chan' = Append(chan, s)
        /\ reg' = Append(SelectSeq(reg, LAMBDA o : status[o] = "Running"), s)
        /\ start' = [start EXCEPT ![s] = "handed"]
        /\ UNCHANGED tree
     \/ /\ sup # "up"
        /\ start' = [start EXCEPT ![s] = "failed"] /\ tree' = [tree EXCEPT ![s] = @ \ {"leader"}]
        /\ UNCHANGED <<chan, reg>>
  /\ UNCHANGED <<printed, taken, log, status, watched, exiting, sup, host, faults>>

(* --- the processes (external) --------------------------------------------- *)
Daemonize(s) ==
  /\ "leader" \in tree[s] /\ tree' = [tree EXCEPT ![s] = @ \cup {"kid"}]
  /\ UNCHANGED <<start, printed, taken, log, status, watched, exiting, sup, chan, reg, host, faults>>

Prints(s) ==
  /\ tree[s] # {} /\ printed[s] < MaxBytes
  /\ printed' = [printed EXCEPT ![s] = @ + 1]
  /\ UNCHANGED <<start, tree, taken, log, status, watched, exiting, sup, chan, reg, host, faults>>

Exit(s, p) ==
  /\ p \in tree[s] /\ tree' = [tree EXCEPT ![s] = @ \ {p}]
  /\ UNCHANGED <<start, printed, taken, log, status, watched, exiting, sup, chan, reg, host, faults>>

(* --- the log -------------------------------------------------------------- *)
(* SegmentedLog::write: a segment that would overflow becomes the previous one. *)
LogWrite(l, b) ==
  LET size == Len(l.cur) + Len(l.buf) IN
  IF size > 0 /\ size + 1 > Segment
  THEN [prev |-> l.cur \o l.buf, cur |-> << >>, buf |-> <<b>>]
  ELSE [l EXCEPT !.buf = Append(@, b)]

Flushed(l) == [prev |-> l.prev, cur |-> l.cur \o l.buf, buf |-> << >>]

\* drain_supervised: everything the pipe holds.
Drained(s) ==
  LET l[n \in 0 .. printed[s] - taken[s]] ==
        IF n = 0 THEN log[s] ELSE LogWrite(l[n - 1], taken[s] + n)
  IN l[printed[s] - taken[s]]
Rotates(s) == Len(log[s].cur) + Len(log[s].buf) + (printed[s] - taken[s]) > Segment

(* --- the supervisor ------------------------------------------------------- *)
Forget(s) == watched' = watched \ {s}

SupAdd ==
  /\ sup = "up" /\ exiting = {} /\ chan # << >> /\ Head(chan) # Stop
  /\ chan' = Tail(chan) /\ watched' = watched \cup {Head(chan)}
  /\ UNCHANGED <<start, tree, printed, taken, log, status, exiting, sup, reg, host, faults>>

\* The log cannot be opened: the process is killed at once.
SupAddFails ==
  /\ sup = "up" /\ exiting = {} /\ chan # << >> /\ Head(chan) # Stop /\ faults < MaxLogFaults
  /\ LET s == Head(chan) IN
     tree' = [tree EXCEPT ![s] = {}] /\ status' = [status EXCEPT ![s] = "Killed"]
  /\ chan' = Tail(chan) /\ faults' = faults + 1
  /\ UNCHANGED <<start, printed, taken, log, watched, exiting, sup, reg, host>>

SupDrain(s) ==
  /\ sup = "up" /\ exiting = {} /\ s \in watched /\ taken[s] < printed[s]
  /\ log' = [log EXCEPT ![s] = Flushed(Drained(s))] /\ taken' = [taken EXCEPT ![s] = printed[s]]
  /\ UNCHANGED <<start, tree, printed, status, watched, exiting, sup, chan, reg, host, faults>>

(* A rotation that fails has taken the writer, and the flush that follows      *)
(* finds none: the thread panics and drops the processes without killing them. *)
SupPanic(s) ==
  /\ sup = "up" /\ exiting = {} /\ s \in watched /\ faults < MaxLogFaults
  /\ taken[s] < printed[s] /\ Rotates(s)
  /\ sup' = "panicked" /\ faults' = faults + 1 /\ watched' = {} /\ chan' = << >>
  /\ UNCHANGED <<start, tree, printed, taken, log, status, exiting, reg, host>>

\* Mutant of SupReap: what was printed since the last drain is not read.
SupReapUndrained(s) ==
  /\ sup = "up" /\ exiting = {} /\ s \in watched /\ "leader" \notin tree[s]
  /\ tree' = [tree EXCEPT ![s] = {}]
  /\ log' = [log EXCEPT ![s] = Flushed(LogWrite(log[s], ExitMark))]
  /\ exiting' = {s}
  /\ UNCHANGED <<start, printed, taken, status, watched, sup, chan, reg, host, faults>>

\* try_wait found the leader gone: the group is killed, the rest is read, the
\* exit is marked and flushed; only then is it published.
SupReap(s) ==
  /\ sup = "up" /\ exiting = {} /\ s \in watched /\ "leader" \notin tree[s]
  /\ tree' = [tree EXCEPT ![s] = {}]
  /\ log' = [log EXCEPT ![s] = Flushed(LogWrite(Drained(s), ExitMark))]
  /\ taken' = [taken EXCEPT ![s] = printed[s]]
  /\ exiting' = {s}
  /\ UNCHANGED <<start, printed, status, watched, sup, chan, reg, host, faults>>

SupPublish(s) ==
  /\ s \in exiting
  /\ status' = [status EXCEPT ![s] = "Exited"] /\ exiting' = {} /\ Forget(s)
  /\ UNCHANGED <<start, tree, printed, taken, log, sup, chan, reg, host, faults>>

(* Shutdown received: kill_supervised on every process, the reply, the end of  *)
(* the thread.                                                                *)
SupStop ==
  /\ sup = "up" /\ exiting = {} /\ chan # << >> /\ Head(chan) = Stop
  /\ tree' = [s \in Shells |-> IF s \in watched THEN {} ELSE tree[s]]
  /\ log' = [s \in Shells |-> IF s \in watched THEN Flushed(LogWrite(Drained(s), KillMark)) ELSE log[s]]
  /\ taken' = [s \in Shells |-> IF s \in watched THEN printed[s] ELSE taken[s]]
  /\ status' = [s \in Shells |-> IF s \in watched THEN "Killed" ELSE status[s]]
  /\ watched' = {} /\ sup' = "stopped" /\ chan' = << >>
  /\ UNCHANGED <<start, printed, exiting, reg, host, faults>>

(* --- the driver's shutdown ------------------------------------------------ *)
\* ShellState::shutdown takes the supervisor and sends Shutdown ...
ShutdownSend ==
  /\ host = "serving" /\ \A s \in Shells : start[s] # "spawned"
  /\ host' = "waits"
  /\ chan' = IF sup = "up" THEN Append(chan, Stop) ELSE chan
  /\ UNCHANGED <<start, tree, printed, taken, log, status, watched, exiting, sup, reg, faults>>

\* ... then waits for the reply, joins the thread and clears the registry.
ShutdownDone ==
  /\ host = "waits" /\ sup # "up"
  /\ host' = "done" /\ reg' = << >>
  /\ UNCHANGED <<start, tree, printed, taken, log, status, watched, exiting, sup, chan, faults>>

BgNext ==
  \/ \E s \in Shells : BgRefuse(s) \/ BgSpawn(s) \/ supervise_background(s)
  \/ \E s \in Shells : Daemonize(s) \/ Prints(s) \/ Exit(s, "leader") \/ Exit(s, "kid")
  \/ SupAdd \/ SupAddFails \/ SupStop
  \/ \E s \in Shells : SupDrain(s) \/ SupPanic(s) \/ SupReap(s) \/ SupPublish(s)
  \/ ShutdownSend \/ ShutdownDone

BgSpec == BgInit /\ [][BgNext]_bgVars

(* A shell published as exited has its whole output on disk, up to what        *)
(* rotation gave up: the two segments together are a run of its bytes that     *)
(* ends with the last one printed and the exit marker (state.rs: "Publish the  *)
(* final segment before advertising Exited").                                  *)
ExitPublished ==
  \A s \in Shells : status[s] = "Exited" =>
    LET disk == log[s].prev \o log[s].cur IN
    IsSuffix(disk, [i \in 1 .. printed[s] |-> i] \o <<ExitMark>>) /\ Len(disk) > Len(log[s].prev)

(* Once the session has shut down, no process of a shell the supervisor was    *)
(* given is alive, unless the supervisor thread had died.                      *)
SupervisedDie ==
  host = "done" /\ sup = "stopped" =>
    \A s \in Shells : start[s] = "handed" => tree[s] = {}

(* A background shell is settled properly: its exit is published only with all its      *)
(* output on disk, and no shell the supervisor was given outlives the session.           *)
ShellsSettled == ExitPublished /\ SupervisedDie

(* "Kill every background shell ... so spawned servers/dev-runs don't outlive  *)
(* rc" (ShellState::shutdown): no process is left, whatever became of the      *)
(* supervisor.                                                                 *)
NoneOutlives ==
  host = "done" => \A s \in Shells : tree[s] = {}
=============================================================================
