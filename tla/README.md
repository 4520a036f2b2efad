# Verification of Subconscious Code

Subconscious Code is a coding agent for the terminal, written in Rust. This
directory holds TLA+ models of the parts of it that are hard to test, the TLC
configurations that check them, and TLAPS proofs of the properties that matter
most. `PROJECT.json` lists the runs, the mutants, the theorems and, under `map`,
the source lines each definition stands for.

    tlc -workers 2 -config ToolBatch.cfg MCToolBatch
    tlapm ToolBatchProofs.tla

## The system

| Component | State | Operations | Talks to |
|---|---|---|---|
| Agent loop, `rc-core/agent.rs` | transcript, iteration counter, recovery budgets, cost | one `run` per prompt: request, recover, execute calls, return | provider client, batch scheduler, session sink |
| Batch scheduler, `execute_batch` | per-call results, what was announced, spawned tasks, tool context | plan, authorize, run a phase or a barrier, publish, be dropped | tools, permission engine, prompter |
| Permission engine, `rc-perm` | rules, mode (atomic), session grants | `check`, `set_mode` | scheduler, pump |
| Runtime, `rc-rt` pump, driver, prompter | action, command and feedback channels, active token, follow-ups, pending asks | one handler per user action and per driver command | terminal host, agent loop |
| Event queue, `rc-rt/event.rs` | queue, presentation counter, drop counter, closed flag, Notify | send, merge, evict, clone, drop, `try_recv`, `recv` | producers in every task, one consumer |
| Session store, `rc-session`, and writer, `rc-rt/sink.rs` | JSONL file, writer queue | append, open, load | driver, `--resume` |
| Change journal, read registry, file tools | records, `rewind.jsonl`, blobs, hashes of files read | Read, Write, Edit, Append, `/rewind`, reopen | file system, other programs |
| Shell tool, `rc-tools/bash.rs` | child group, bounded capture, inferred directory | run, drain, time out, be dropped | scheduler, file tools' directory |
| Background supervisor, `rc-core/state.rs` | table of child processes, rotating logs | start, drain, reap, kill, shut down | Bash tool, driver |
| Search tools, `rc-tools` | a shared output budget | Grep, Glob, List, ReadMany, GrepMany | file system |
| Context assembly, `rc-ctx`, `rc-core/project.rs` | none: rebuilt for every request from session and disk | system prompt, mentions, projection, compaction | agent loop |
| Terminal host, `rc-tui` | view of the runtime, transcript rows, selection, draft, paste window | keys, mouse, slash commands, `apply`, draw | runtime |
| Session loop and headless runs, `rc-cli` | current session, modes, key; report and trajectory | launch, resume, reload, new; checkpoint | runtime, session store |
| Configuration, `rc-config`, and its page | five layers | load, edit in place | everything |
| Provider client and stream, `rc-proto`, `rc-core/model.rs` | retry counters, partial response, fragments of calls | send, retry, decode, assemble, replay | agent loop, DLR |
| MCP hub, `rc-mcp` | servers, process trees, closed flags | collect, start, call, stop | registry, main, signal task |
| DLR, `integrations/dlr` | client session and root; receiver's store, write-ahead log, projections; filter; decoders | prepare, append, acknowledge, resync, bulk, replay | provider client, server |

What is hard in it: the turn is a future that can be dropped at any await, by
Esc or by a deadline, while tools run in other tasks; three tasks exchange
messages over bounded channels in a cycle; the event queue is a hand-written
synchronisation primitive; the session file, the rewind journal and the DLR log must
survive a process that dies between any two bytes; children fork, hang and outlive
their parents; responses arrive in pieces and break off; and other programs change the
files the agent is working on.

What makes each part correct:

- **Scheduler**: one answer and one announcement per call, the same; conflicting
  calls in the model's order; a call runs in the directory it was authorized for.
- **Loop**: a transcript that is a legal next request, however the last turn ended;
  only calls the provider finished are run; budgets bound a turn; cost is not lost.
- **Event queue**: order, no structural event lost, no wake-up lost, losses announced.
- **Runtime**: a Cancel reaches the running turn; accepted prompts run once, in
  order; nobody waits for each other; the mode enforced is the mode persisted.
- **Session and journal**: what is read back is true, in order and as complete as
  the crash allows.
- **Permissions**: a catastrophic command never runs; a command is allowed only if each
  of its parts is; a grant does what it was given for and no more.
- **File tools**: nothing is overwritten that the model has not seen; `/rewind`
  restores.
- **Shells and servers**: when a call has answered, its processes are gone; output and
  exit are told as they were; no server or supervised shell outlives the session.
- **Search and context**: what is cut is said to be cut; a request contains the thread of
  the conversation since the last compaction.
- **Provider**: a call reaches the loop as it was sent or as an error; a replay is
  invisible to the user.
- **DLR**: an answer is to the transcript the client has; an acknowledged block is
  durable; decoded bytes are the bytes sent; the filter's no is definite; proofs are exact.
- **Host**: modes agree in three places; artifacts tell the run; rows, selections, pastes
  and tables stay whole.

## Modules

| Module | Models | Abstract from |
|---|---|---|
| `BatchContract` | what a batch promises the loop: each call settles once; a closed batch has answered every call with the body it announced | how |
| `ToolBatch` | `execute_batch` and its helpers, one action per step between awaits | tool inputs: a call is its effect kind; a directory is a number |
| `AgentLoop` | `AgentLoop::run` | texts: a response is its finish reason, number of calls, whether it is blank, and its cost; the batch is its contract |
| `EventQueue` | `rc-rt/event.rs` with Tokio's Notify | payloads: an event is its kind and the sends it is made of |
| `Runtime` | pump, driver, prompter, runtime handle and the host's side of the protocol | the turn: AgentLoop from outside; prompts are numbers |
| `SessionLog` | session writer, store, `load`, resume, crashes | JSON: a line is the records its bytes came from and how its last one ends |
| `Workspace` | Read, Write, Edit, Append, registry, journal, `/rewind`, crashes, other programs | contents: absent, a few texts, and one that is not UTF-8 |
| `Permission` | `PermissionEngine`, `BypassChecker`, `authorize_call`, answers, grants, mode switches | text: a command is what `parse_bash` makes of it, a path a model value, a glob the paths it matches |
| `Shell` | a foreground call of Bash | output: a number of bytes; a command is its list of `cd`, `pushd`, `popd` and others with their connectives |
| `BgShells` | `run_background` and the supervisor | log contents: numbered bytes and the exit mark |
| `Mcp` | configuration layers, hub, process trees, main's shutdown and the signal task | JSON-RPC: a call is answered, lost or refused |
| `Search` | Grep, Glob, List, ReadMany, GrepMany, `cap_output` | a line is matched whole, twice or not at all, by a plain pattern, one with `^` or one across a line break; one token is one character |
| `Context` | `build_system_prompt`, `prepare_turns`, `project_with`, goals, compaction | a text is a sequence of atoms |
| `Provider` | `ChatClient`, `EventStream`, `ChatModel` | a line of the body is one item: a word, white space, a `<think>` tag, reasoning, a fragment of arguments |
| `DlrChat` | `DlrTransport`, `ChatSession`, sidecar chat handler, receiver | hashes are ideal: a root is the sequence it commits to |
| `DlrStore` | `Receiver` over `ContentStore` and `Wal` | the same; a record of which a part was written is "lost", and what follows it is read as anything |
| `Dedup` | the cuckoo filter and the sessions that share it | four buckets of one slot; the multiplier has the code's low bits |
| `Mmr` | the Merkle Mountain Range | a hash is the term it is the hash of |
| `Fountain` | `gf256`, `fountain`, `bulk` and the receiver's retries | GF(4) by the same construction; the generator's draws are any of a set |
| `Launcher` | the interactive session loop of `main.rs`, with the way of a mode change from the status bar through the pump to the driver | modes, keys and ids are names; a turn begins and ends |
| `Headless` | a one-shot run's session, journal, report and trajectory | a turn is its kind, call ids and tokens |
| `Settings` | layering, the settings page, `edit.rs` | three kinds of field stand for all |
| `Transcript` | rows, folded blocks, live calls, scroll, selection | a row is its owner and part |
| `Composer` | keys, draft, staged submit, queue, history, ask | a character is a number |
| `Layout` | `parse_blocks`, tables, wrapping to the viewport | glyphs: a blank, one column, two columns, borders |
| `ToolBatchProofs`, `AgentLoopProofs`, `PermissionProofs`, `RuntimeProofs`, `EventQueueProofs` | theorems about the module they are named after; `RuntimeProofs` also about `Composer` | |
| `ToolsProofs` | theorems about `Shell`, `BgShells`, `Mcp` and `Workspace` | |
| `HostProofs` | theorems about `Launcher`, `SessionLog`, `Settings`, `Headless` and `Transcript` | |
| `WireProofs` | theorems about `DlrChat`, `DlrStore` and `Provider` | |

`MC*` modules instantiate them. `MCTools`, `MCHost` and `MCWire` each hold several
modules that share no state: a behaviour picks one part in `Init` and takes its steps
only, the others rest, so the run covers the union of the parts and not their product. A definition that begins with the comment
"Mutant of" is a wrong version of the definition after it, used to show that a
property can fail; no specification uses one.

### ToolBatch

`items` are the calls of a response: parse errors, unknown tools, calls that may
run in parallel and barriers. `Plan` answers parse errors; `BeginPhase` collects
the run of parallel calls up to the next barrier, `Authorize`/`Answer` check them
one by one, `Spawn` takes a semaphore permit, `Join` joins in call order,
`BarrierEnds` returns from a serial tool, which may have changed the directory, and
`Publish` announces results as far as they are contiguous. `RequestStop` and `Drop` are
`await_turn_budget`: the future is dropped at any await and `finish_partial_batch`
answers what is left. Tasks whose handle was dropped may run on (`LateTaskStops`).

### AgentLoop

`Submit` is the entry of `run`, `Iterate` the head of its loop, and there is one
action per exit of the request (`RequestCancelled`, `RequestTimeUp`,
`RequestFails`), per treatment of a response (`RetryUnconfirmed`, `BeginBatch`,
`Stop`, `Length`, `Filtered`) and per exit of the batch. `await_turn_budget` prefers
the cancellation, then the deadline, so those guards exclude each other as its
`biased` select does.

### EventQueue

A send is two steps, the change under the lock and the wake-up after it; `recv` is
four (create the Notified future, look at the queue, look at `closed`, wait).
Tokio's Notify is modelled by its documentation: `notify_one` stores one permit,
`notify_waiters` wakes futures that were created before.

### Runtime

Host actions are the keys that reach the runtime. `PumpX` is the arm of `pump_task`
for action X; a command that finds the driver's channel full leaves the pump in
"send", where it reads nothing else, as its `await` does. `TurnAsks`, `TurnEnds` and
`TurnStops` are the turn.

### SessionLog and Workspace

Appends are steps of part of a line, all but the newline, and the newline, so a crash
can leave each. `open_append` does not look at the last line. In `Workspace` each
tool call is its sequence of file-system steps; `External` is another program.
`shown` and `changes` are history variables.

### Permission

`check` is a function of the call, the grants and the mode; `Check` calls it and
`Decide` acts on the decision as `authorize_call` does. Only a ReadMany that no rule
settles takes several steps (`CheckRead`, one per path), because `check` loads the
atomic mode again for each path and the pump may have stored another (`set_mode`).
`AnswerSession` adds `suggested_rule` to the session's grants. How a command's first
word reads as a rule is part of the model: it may not be a token of the command
(`other`), and a comment sign becomes a rule with no token, which matches every
command; `shlex` is external and modelled by that behaviour.

### Shell, BgShells and Mcp

In `Shell` the leader, the processes it leaves behind, the pipe and the capture are
separate: `Drain` ends at end-of-file, which a child that keeps the pipe open delays, and
`Timeout` and `DropCall` race it; both kill the group. `ShellRun` is what the shell does with
the command, with its directory stack, and `infer_cwd` what the tool makes of its text, which
knows `cd` and `pushd` and not `popd`. `BgShells` interleaves the tool
call, the supervisor thread, the processes and the driver that shuts down. `Mcp` starts
all servers at once; `MainStops` and `Signal` are the two ways down, over the same
handles.

### Search and Context

A batch is one step per request (`Part`), so files may change between two of them
(`Touch`), and the budget of a part depends on what the ones before it used. Grep's modes
search differently: "content" asks of each line whether it matches (`LineMatch`), "files" and
"count" look for matches in the whole text (`TextMatches`), where `^` is the start of the file
and a match may span lines. `Context` rebuilds each request:
`Request` records what was sent, `EditDisk` changes what the next one reads.

### Provider

`Post` is one exchange with every status the code tells apart, `FrameBegin`, `FrameLine`
and `FrameEnd` read the stream, `Flush` finalizes the calls, and `Replay` is
`ChatModel`'s second attempt, allowed while nothing `Semantic` has been delivered or the
response is found empty at its end. `on_text` shows text as it comes, `<think>` tags included;
`strip_reasoning_tag` takes them out before `is_empty_stream_end` looks.

### DlrChat, DlrStore, Dedup, Mmr, Fountain

`DlrChat` is the conversation: the handler of an abandoned send keeps running (`Abandon`),
sidecar and client restart. `DlrStore` is one level down: a block goes into the store,
then into the log, then the log is flushed, then the reply is sent, and a crash keeps any
prefix of what was not flushed. Sessions share blocks; an append is repeated when its ACK was
lost (`AckAgain`) and a BULK comes late and again. A record is several writes: one that fails
leaves a part, and a restart misreads what follows it, up to any later record (`Crash`), or
refuses the log (`Refused`). `opened` is the replay of the log as the process found it. `Dedup` takes a step per lock, as two sessions insert
into one table. `Mmr` and `Fountain` are algorithms with a small state: appends, and
frames that are lost, repeated or reordered. A decode that fails keeps the payloads it took;
`whole` says of each generation that the last decode began with every payload in place.
`BulkDecode` is a batch of which any symbols were lost, all those of a generation included.

### Launcher, Headless, Settings, Transcript, Composer, Layout

One action per thing the user does, per event of the runtime, and per step of the
checkpoint thread; `Die` ends a headless run anywhere. In `Launcher` a mode change is three
actors' work: `SetMode` changes the bar and sends the action, or finds no room; `PumpTakes`
sets the engine and emits ModeChanged, which `DrainEvents` applies; `PumpSends` waits for room
and `DriverSetsMode` notes the mode between two turns (`DriverRuns`, `TurnEnds`). Leaving the
TUI waits for pump and driver (`ShutDown`) or aborts them (`Aborted`). In `Headless` a journal
line may be written whole, lack its newline, be torn or refused, and the run goes on; `older`
holds the artifacts an earlier run left at the same paths. In `Settings` a layer may be no
JSON, or JSON with a value of the wrong type, which an edit in place accepts and a load drops
with the rest of the file; a `permissions` block replaces the one below it whole. `Draw` fixes the frame clicks and
drags refer to, so events between a frame and a click are covered. `Layout` grows an
answer line by line and resizes the terminal under it.

## Runs

| Run | Checks | Bounds, and why they are enough |
|---|---|---|
| `ToolBatch` | `AnsweredOnce`, `EffectOrder`, `AuthorizedWhereItRuns`, refinement of `BatchContract` (`ContractSpec`), `BatchEnds` | four calls, two permits: a phase longer than the semaphore next to a barrier, and a phase on both sides of one |
| `AgentLoop` | `AnsweredInPlace`, `RequestsWellFormed`, `TranscriptTells`, `TurnsEnd` | two prompts, two calls, each budget 1: every way a turn can end is followed by a request of the next |
| `EventQueue` | `QueueSound`, `NoLostWakeup` | capacity 1, chunks of 2, three sends by two producers: merge, split, evict and announce |
| `Runtime` | `DriverInStep`, `NobodyStranded`, `HostIsServed` | capacities 1, so every channel fills; two prompts, one of each other action |
| `Permission` | `EveryPartAllowed`, `BatchAllowedInOneMode`, `GrantsScoped` | two rules of four shapes, one grant, commands of two parts, lists of two paths: each order of two rules or of a rule and a grant, and a switch between two paths |
| `Tools` | `CommandSettled`, `ShellsSettled`, `ServersAccounted`, `CallsReachOneServer`, `AnswersAccountForAll`, `RequestKeepsTheThread`, `RecordsFaithful`, `RewindRestores`, `OverwritesOnlyKnown` | two foreground calls of two sub-commands joined by `&&` or `;`, `pushd` and `popd` among them, with output past the cap; two background shells and a failing log; two servers in every combination of layers; two files, three patterns that tell the modes of Grep apart, and caps on both sides of what an answer needs; one file, two texts, two turns, four journal lines and a crash; six turns, one edit |
| `Host` | `LogSurvives`, `ModesAgree`, `ArtifactsSound`, `SettingsSound`, `ScreenSound`, `PasteStaysWhole`, `LayoutSound` | five turns and two crashes of a session file (a torn line, its continuation, a second crash); two sessions, four user steps and room for one message in each channel, so that a change is refused, held up or aborted; three own turns after a resumed history with its artifacts, two failing writes; two saves over every pair of layers, with mistyped ones and a block without a mode; restored sessions, two parallel calls, and any number of clicks and drags on a screen of two rows; three bursts of up to three characters; three lines at six widths, a table that fits, is narrowed, or cannot be |
| `Wire` | `CallsAsSent`, `ReplaySound`, `AnsweredForTranscript`, `StoreSound`, `NegativeIsDefinite`, `ProofsExact`, `DecodesWhatWasSent` | three lines of two interleaved calls, or of text with and without tags, one retry and one replay; four sends, two faults, requests that always fit (`MaxRequest = MaxLen`; `DlrOversize` is the other case); two sessions that share a block, batches of one and two blocks, two frames or a frame and one after a crash, one failing write; two sessions, four inserts, displacement chains and growth; nine leaves (three cascades of merges); three symbols and two repairs per generation, drawn so that elimination solves for two unknowns, three frames or a batch of two generations |
| `EventQueueLossless`, `WorkspaceRaw`, `PermissionDenyTool`, `DlrOversize` | the documented claims below | |

`Tools`, `Host` and `Wire` take two to three minutes each with two workers; the others
less than one. Several properties are conjunctions of named parts, stated next to them
(`QueueSound`, for one, is `OrderPreserved`, `StructuralKept`, `CounterExact` and
`LossAnnounced`). Each of the first seven modules states its types in `TypeOK`. Every
property of a passing run has a mutant, a plausible mistake in the mapped code under which
TLC refutes it. `Tools`, `Host`, `Wire` and `DlrOversize` do not check for deadlock: their
behaviours end.

### Fairness

A Tokio task whose future is ready is polled, and a thread inside a call goes on:
weak fairness of the internal steps of the batch, the loop, the pump, the driver, the
queue. A fired token or an expired timer wakes its select: weak fairness of the drop.
Nothing makes a model answer, a tool return, a user answer or quit, so no
specification assumes it. `BatchCompletes` and `TurnEnds` say what follows if
they do: `Responsive` is their hypothesis. In `Runtime` a turn whose token fired ends,
which is `CancelEndsTurn` of `AgentLoop`. `HostIsServed` makes the one exception explicit:
Cancel and shutdown are served unless the pump stays for ever in a send to a full driver
channel (see Divergences). The modules of `Tools`, `Host` and `Wire` state safety only:
their actors depend on processes, peers and users that need not go on.

## Theorems

Eight modules are checked by TLAPS. Their theorems hold for every value of the constants
that satisfies the named ASSUMEs of the modules: any number of calls, prompts, shells,
servers, files, sessions and retries, any channel capacity, any rules, bodies and texts.
In each, an inductive invariant is shown to hold initially and to be preserved by every
action, one lemma per action or group of actions, and the property follows from it. TLC
checked each invariant on the small instance first.

*ToolBatch.* `Invariance` is the inductive invariant. The properties are not
inductive: `AnsweredOnce` speaks of closed batches, and what makes it true is a
relation kept all along between `results`, `emitted`, `told` and the task states;
`EffectOrder` needs that everything before `cursor` that is not in the current phase
is settled, and that the phase's calls are parallel and precede `cursor`;
`AuthorizedWhereItRuns` needs that the directory only changes in a barrier, when
nothing else runs, and that the context is fresh from the start of a phase to its
spawns. `ImplementsContract` maps `size` to the number of calls and `open` to "not
returned or dropped", and shows that every step settles calls, closes the batch
or stutters.

*AgentLoop.* The invariant adds to `AnsweredInPlace` where in the transcript an
unanswered message may stand (only last, only while its batch runs) and that
`calls` is its number of calls. `ConfirmedBeforeRun` follows from the finish
reason recorded with that message. `TranscriptTellsAlways` needs that a Cancelled or an
Error turn is only ever the last of a turn that ended that way; its cost part counts
messages, by the theorems on the cardinality of finite sets.
`RequestsWellFormedAlways` is about what is sent, the projection of the transcript: it
needs how `Projection` moves positions (each message that is sent is preceded by the
number of sent messages before it), so that answers that were contiguous stay so.

*Permission.* `CatastrophicNeverRuns` needs that nothing catastrophic is ever asked
about or checked by path (`NotFatal`). `PartsAllowed` needs only the type of the mode:
it follows from the definition of `bash_check`. `BatchNeedsOneMode` rests on
`ModesOrdered`: of two modes, one allows every read the other allows, so the widest
mode held so far allows all paths passed so far (`Passed`). `GrantsReachWhatWasMeant` is an
action property: it follows from what `suggested_rule` makes of the call that was asked about
(`Asking`, `NotFatal`) and what `bash_check` makes of that rule for commands of any length. It uses that a part of a command is never empty
(`PermissionAssumption`), which `parse_bash` sees to.

*Runtime.* The properties look at the driver and at the pump; between them are four
channels, and the invariant (`InStep`) says which messages each may hold: the turn the pump
holds the token of is in exactly one place, on its way to the driver, in the driver, or on
its way back as feedback, and without a token there is none. That is why the
driver finds room when it reports, whatever `FeedbackCap` is. `InStepAlways` is about prompts in order, tokens and modes, `NobodyStrandedAlways`
about room and answerable asks.

*EventQueue.* What was delivered, what is in the receiver's hands and what is queued is
one sequence (`Stream`). The invariant says it is ascending in the numbers of the
sends, keeps every structural send, and that the counter is the number of presentation
events in the queue (`Counted`), through merges, splits at the chunk limit, evictions and
the overflow notice.

*Provider.* `ReplaySoundAlways` needs two invariants. `StreamInv` relates what the host
was shown in the current attempt to the lines read, so that an attempt that may be
replayed has shown nothing but white space and `<think>` tags with nothing else between them. `CountInv` bounds the requests made so far by
`(zero + Swaps) * (MaxRetries + 1)` and relates them to the three counters from
which the report is put together. It needs that no server sends
the finish reason "stream-ended", the word `StreamFuser` uses for a stream that broke off:
after such a line a tool-call fragment would be replayed although it was shown.
`ProviderAssumption` says so. `CallsAsSentAlways` needs `Told`: until the
finish the accumulator holds, for each index, the fragments of the lines read with it, in order
(`FragsOf`); from then on the calls the response has and the events still pending are together
what `finalize_one` made of them, then the finish reason.

*DlrChat.* The heart is `HandlerAlone`: from its append on, a handler finds the
receiver's log at its own root. `ReceiverKnows` says that what the log cannot
reconstruct is in `missing`, and `SessionKnown` that the base is a prefix of the session.
From these, `AnsweredForSession`: an answer is to the messages of the client's chat
session. It has the hypothesis `~Lingers`: the handler of an abandoned send may still run
to its end, but not beside a later send's. Without it TLC finds a counterexample: the
late handler's append moves the log between the other one's append and the construction of
its projection. `AnsweredAsAsked` compares with the transcript instead, and needs
`MaxLen <= MaxRequest`, that every transcript fits in a request; the run
`DlrOversize` shows what happens otherwise.

*DlrStore.* `AckedLogsSurvive` relates memory to the log on disk. `Latched` says that the log
is whole up to the last flush, and to its end unless the error is latched; `AllBack` of every
length the log may have after a crash that its replay (`Redone`) gives each session a log it
had since its last acknowledgement; `InStep` that the replay of the whole log, with the record
the session is about to write (`Leads`), is what the store has of the session; `Covered`
that what a session's log names and the store has not is waited for; `JobFits` what each
stage of a request holds. Sessions may share any blocks. The one case in which an
acknowledged log does not come back is in the property and not in a hypothesis: a reference
that overtook the record of its block (`Dangling`, see Divergences).

*Shell.* `CommandSettledAlways` holds for all command lists: nothing of a command that is over
runs on, what is reported of its output is its head and tail, the directory stays in the
workspace, and after a list joined by `&&` without `popd` (`Straight`) it is the one the shell
is in, or the one before. A list that succeeded ran all its commands (`AndFollows`), so
following every `cd` is right; for other lists it is not (see Divergences).

*BgShells.* `Copied` says that the two segments and the buffer are a run of the shell's
bytes that ends with the last one taken from the pipe, and, once it is exiting, with the last
one printed and the exit mark; `Passage` that a shell passes once through the channel, then
through the supervisor's list; `Reaped` that one which was handed over and is in neither any
more has no process left, unless the supervisor died.

*Mcp.* `Grouped`: a process of a server lives only while the server's group has not been
killed, so whichever of main, the signal task and a failed start kills it leaves none.
`McpStages` says what servers may still do at each stage of the launch. `StartsWhatWasAsked` relates `collect`, which
folds the layers, to the last layer that names the server. `CallsReachOneServerAlways` shows
that `registered`, which adds the tools of one server after the other and leaves out a
wire name that is taken, never has a wire name twice, and that a request is only written
while the connection is not known to be closed.

*Workspace.* `SeenFits` says that the registry has the hash of what the model was shown last
in this process (until a call that replaced the file registers it), and `CallFits` what each stage of a call has established about the file;
with `~ExternalDuringCalls` the check still holds when the file is replaced. With
it, another program may write between the check and the rename, which no program can
prevent with these system calls; TLC shows the overwritten file. `JournalFits` relates
the journal's lines, the records in memory, the records a restart would read and the
history of changes by an increasing map from records to changes; it survives a torn line
because `durable` stops there, and `/rewind`, which drops records at the end of that map.
`RewindRestoresAlways` adds what a `/rewind` in progress has achieved (`RewindFits`): as long as
none failed, each file of the records behind it holds what the earliest of them says. At the
end as many are restored as changes were asked about, so the increasing map is the identity
(`ToldFewer`) and the earliest record of a file is its first change. The hypothesis
`~ExternalDuringCalls` also keeps other programs from writing between its steps.

*Launcher.* `FilesTell` says that the newest mode note, or the header, of a session file is the
mode the session is in or was left in, and `SessionRuns` that a session without a file still has
its mode in the header to be written. `Chain` is about what is on its way: the action channel
takes the engine's mode to the one last asked for, and the command channel, with what the pump
holds, the session's mode to the engine's (`Leads`: the last mode in a queue, or none), however
long the queues are. `BarTells`: the bar shows the engine's mode, or an event or an action that
will make them agree is still queued, or a change was refused. `OutcomeFits` says that what the
TUI leaves with can be opened.

*SessionLog.* `LinesRise` and `HeaderFirst` describe the file: its first line begins with the
header, no line but the last is open, and the first records of the lines ascend through torn and joined
ones; `FlushedEnd` says that a record whose append completed ends a line. Only a line that
joins two records hides a completed one, and `JoinedFew` bounds these lines, with the torn one
that may become one, by the crashes. `Waiting` and `Writing` say how queue, buffer and the
record being written continue the file, `Unbroken` that before the first crash each line is one
turn and everything has its number. `load` is a recursive function over the lines.

*Settings.* `SaveKept` says that after a save without a warning the page shows what a load
gives, the user's file holds the value and no environment variable names the key, so
`load_layers` can only be overruled by the project's file (`Replaces`), or the user's file
dropped because another of its values is mistyped; `CustomStaysJson` is inductive with the
types. `SettingsAssumption` gives the types of what a layer may say.

*Headless.* `Follows` says that the checkpoint thread's session is the run's without its last
turns, and both are billed for theirs; `Waits` that the channel holds exactly the turns it has
not seen, then the end of the run; `ReportTells`, `TrajectoryBegins` and `EndTells` that what is
published begins the run's own turns and, after an exit without an error, is all of them. That a
trajectory tells each turn once is a fact about `build_benchmark_trajectory` for every
sequence of turns: its steps, flattened, are the turns, and a result stands under its call
(`AddsTell`). `KeptInv` is about failures: `JournalFits` says that each entry is the turn it says and that
later entries are later turns, whatever was refused between them, `JournalOpens` and `Unharmed`
that nothing is missing as long as nothing failed, `OlderStands` which artifacts of an earlier
run may still be there. `HeadAssumption` gives the type of the history a run is resumed from.

*Composer.* A text is fine if its typed characters are in order and, with one of a burst, it has
all of that burst that was typed so far and not deleted; it is old if moreover none of the burst in
progress is in it. `AppFits` says that draft and staged line are fine, and history, stash and queue
old, so a character still to come cannot belong to them; what was sent is old as
well. `AtHand`: what was typed of the burst in progress is in the draft, in the staged line, or
deleted. The hypothesis `~PastedTabs` is the run's instance: a Tab inside an unbracketed paste
queues the line before the paste is over (the code takes it for a key), and the property fails.

*Transcript.* `ViewFits` is about all rows at once, because every insertion and removal shifts
the indices of everything below: the rows of an owner are exactly where its block or its live
call says (`BlocksFit`: one summary row, and the body directly below it if and only if the
block is open; `LivesFit`: a contiguous range and no other row), no two share an owner, and
what is being streamed has an owner no row has yet (`OwnersFit`). A cut of a range that belongs
to one owner alone cannot fall inside another's rows; `CutBlocks` and `CutLives` move the rest,
for folding a failed call, removing a finished one, and opening or closing a block. A click
needs that no call is live (the guard of `toggle_expandable_at`): a toggle does not move live
calls. `collapse_unfinished` folds one call after the other, and each fold keeps `ViewFits`,
whichever call it takes. For the selection,
`SelFits` says that the picked rows are still at their lines; it is kept because whatever is
streamed, flushed or appended `Extends` what is shown: all lines but the spinner stay (a thought
that is put above an answer, and a call that ends, do not, and the property excludes them).
`Idle` says that nothing is streamed between turns. `ScreenAssumption` gives the types of the
histories and that the viewport has at least one row.

Recursive functions (`Projection`, `collect`, `Drained`, `Those`, `Reread`, `Stored` ...) are
defined by a LET over the positions of a sequence. The provers cannot instantiate the library's induction
theorems, so facts about them are proved by a least counterexample: a set of positions
that contains the first and, with each, the next contains all of them, which follows from
the well-foundedness of the naturals for sets (no operator parameter).

`AskNeverOverlapsRun`, `OnlyConfirmedCallsRun`, `FatalNeverRuns` and `ReplicaExact` are
proved and not run again.

Only model-checked: liveness (`BatchEnds`, `TurnsEnd`, `NoLostWakeup`, `HostIsServed`: the
provers do not do fairness here); `Mmr`, `Layout`, `Fountain` and `Dedup`, which use RECURSIVE
operators or Bitwise; and the properties of `Search` and `Context`, whose
definitions are compositions of folds and selections over sequences that would first have to be
restated as recursive functions.

## Divergences

Four are kept as runs, with a finding each:

- `EventQueueLossless`: `recv` reads the queue, then `closed`, under two locks. A last
  event sent between the two is lost: `None` is returned with an event queued.
- `WorkspaceRaw`: Write over a file that is not UTF-8 records it as absent, and
  `/rewind` deletes it.
- `PermissionDenyTool`: `deny: ["Bash"]` denies nothing, because `bash_specs` drops
  rules without a specifier and only the allow rules and the grants are also searched
  for bare ones. The same holds for a bare `ask` rule.
- `DlrOversize`: a transcript that does not extend the acknowledged one (after a compaction)
  replaces the chat session before `prepare_ref` has validated the request, and leaves the
  cached messages. If the request is refused, the next transcript that extends the cached
  messages is taken for an append: only its tail is put into the empty session, and the
  model is asked without the head.

The modules state further documented claims that TLC refutes with the constants given
here, or with those named; they follow from the same mechanisms, or are a matter of wording:

- `ShutdownReturns` (Runtime, `MaxInputs = 3`): `shutdown_blocking` begins with a
  `blocking_send`, outside its "bounded grace period" (runtime.rs:150-155); behind a pump that
  waits for room in the driver's channel it never returns.
- `InterruptedNeverStarted` (ToolBatch, two calls): a call that was running when the turn
  stopped is reported to the model as "[tool call interrupted before execution]".
- `ValidPrefix` (SessionLog, four turns): a torn last line is continued by the next
  process's first append; the turn appended, although flushed, is never loaded.
- `ChecksPrecedeRuns` (ToolBatch, two calls): permission checks run phase by phase, not
  all before any tool.
- `NothingRunsAfterReturn` (ToolBatch, two calls): an aborted task may run on until its
  next await.
- `CancelIsServed` (Runtime, `MaxInputs = 2`, `DriverCap = 1`): the pump awaits room
  for a mode change and reads no Cancel. In the code this takes 17 mode changes in a turn.
- `AtMostOneAskPending` (Runtime, two asks, two prompts): an ask dropped by a stop
  leaves its entry.
- `IdleMeansReady` (Runtime, three prompts): a submit on Idle is ignored when a queued
  prompt has started.
- `CancelHitsTurnShown` (Runtime, two prompts): a Cancel that crosses the end of its turn
  ends the queued follow-up.
- `Replayable`, `ReplaysWellFormed` (SessionLog, four turns): resume keeps an unanswered
  call; a line torn inside a character ends the reading.
- `OverwritesOnlyKnown` with `ExternalDuringCalls = TRUE`, `ChangedMustBeReread`,
  `JournalCoversMutations`, `RestartSafe` (Workspace): the file is read twice by Read, the
  registry dies with the process, the journal is written after the file, and a torn
  journal line hides later ones.

- `NoneOutlives` (BgShells): a shell that was started but not handed to a supervisor that
  has died is not killed at shutdown.
- `LaterDecodeCorrect` (Fountain): a failed decode that peeled something has taken those
  payloads out, and a later decode on the same decoder returns Ok with wrong bytes. The
  shim sends a generation in one frame today, so the receiver's second attempt is not met.
- `OlderTurnsStable` (Context): an edit of a mentioned file changes the expansion of the
  prompt in the next request of the same turn; a new prompt un-expands the previous mention.
- `ReloadReopens`, `KeyIsMeant` (Launcher): saving a key before the first turn reloads a
  session that has no file yet and ends the program; a key saved by another process
  replaces the one from the environment at a reload.
- `RemovedStaysRemoved` (Settings): `add_model` writes the resolved roster, which brings
  back a model removed from the user file when another layer has it.
- `SelectionStable` (Transcript): a call that ends above a selection moves its rows.
- `StashSurvives` (Composer): a queued prompt that starts while history is browsed
  discards the stashed draft.
- `AnsweredForTranscript` with `Lingers = TRUE` (DlrChat): a handler of an abandoned send
  that is still running appends to the log another handler builds its request from.
- `NothingLeftUnacked` (DlrChat): after an abandoned send the client keeps an
  unacknowledged delta; it is dropped by the next resync (docs/ARCHITECTURE.md:92).
- `GrowthKeepsAll` (Dedup): `grow` places fingerprints by their own hash, not by the id's,
  and loses the one in hand, so after growth `contains` denies ids it was given. The
  store stays right; such a block is only sent again inline.
- `LayoutSound` for tables with two-column glyphs: `render_table` pads by characters, so
  rows and borders have different widths, and each is narrowed by its own.

Excepted in a property, each by a condition that is named there:

- `Straight` (Shell): `infer_cwd` follows every `cd` and `pushd` of a list, whether it ran or
  not, and ignores `popd` and subshells, where its comment says it would rather not guess
  (bash.rs:650-652). `pushd a && make && popd` leaves the tools in `a` with the shell back where
  it was; `make && cd a ; make` moves them to `a` when the first `make` fails; `cd a | make`
  and `make || cd a` are followed as `cd a`.
- `ModesAgreeOn` (Search): the modes of Grep are compared for patterns that mean the same in a
  line and in a text. They disagree on anchors and on patterns across lines:
  `^foo` on a later line is found by "content" and not by "files" or "count", and `a\nb` the other
  way round (grep.rs:112-115, 199, 205, 216).
- `ModesSettled`, `stale` (Launcher): the bar, the engine and the session differ while a change
  is on its way; after a change was refused for want of room the bar is wrong until the next
  ModeChanged, and a mode change that the pump accepted is lost when the shutdown aborts the
  driver before it noted it, so a resumed session is in the mode before.
- `hurt`, `older` (Headless): the journal's errors are ignored (main.rs:2315-2319), so after
  one it may have gaps, or two turns on a line; and artifacts of an earlier run stay at their
  paths until this run's first turn, or longer when a write fails.
- `Replaces`, `WellTyped` (Settings): a project's `permissions` block without a `default_mode` sets
  the default one over the mode the page has just saved; a value of the wrong type anywhere in the
  user's file voids the save at the next load. Neither is in the page's warning.
- `ReplayIsInvisible` (Provider): a response of `<think>` tags with nothing but white space
  between them is shown by `on_text` and then replayed, where the comment says that nothing
  was shown (model.rs:89-90).
- `Dangling` (DlrStore): a BULK stores a block before it logs it and does not hold the sessions
  mutex. Another session's append in between writes a reference to it, which is acknowledged;
  if its record comes first in the log, replay does not know the block and drops the reference.
- `LostRecord` (DlrStore): after a failed write no ACK is sent any more, but the process goes on
  writing; the restart may take the bytes that follow for other records, or refuse the log
  at every start (wal.rs:203-208), and with it what was acknowledged.
- `Seen` (Fountain): a generation of a batch of which every symbol was lost is left out without
  an error, and the bytes after it are shifted (bulk.rs:159-222).

Seen while modelling, and not a matter of a property: a response of blank text only is
replayed when its stream breaks off, and the usage of the abandoned attempt is dropped;
deltas of a tool call after the finish line are lost; a skipped tool index becomes an
empty call. GrepMany with more queries than its cap has room for gives each the cap 0,
which means none; ReadMany registers truncated files as read. An unbracketed paste with a
Tab submits its first line; a staged prompt is dropped when the channel is full; edits of
a recalled entry are lost by Alt+Up. The wheel cannot reach the wrapped rows at the very
top. The filter takes
index and fingerprint from the same low bits, so below 2^16 buckets the fingerprint tells
nothing the index does not; nothing calls `clear`.

## Not modelled, and the plan

Model values stand for texts, so nothing is said about JSON, diffs, inline markdown or
the matching of Edit. Not modelled at all: rc-algebra (data structures with their
laws in unit tests, part of no protocol), the sandbox, `doctor`, `update` and the cgroup
set-up (system calls without state of their own), the Windows variants, the logo, and of
DLR the codes and transports the chat path does not use (RLNC, Reed-Solomon,
compression, pruning, RDMA). Panics inside the driver are not modelled, nor what the session writer still writes
after an abort at the end of the grace period. In `DlrStore` the flush and the reply
belong to the frame's turn, where the code has released the session's mutation lock before. A crash between the steps of
`/rewind`, which drops the records before it restores the files, is modelled; no document
promises anything about it, so no property does.

What would come next: proofs for `Search` and `Context`; an abstract
specification "the server answers for the client's transcript" that `DlrChat` refines;
`AgentLoop`'s responses as what `Provider` produces; the composition of `Runtime` with
`SessionLog`.
