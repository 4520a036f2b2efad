----------------------------- MODULE Workspace -----------------------------
(***************************************************************************)
(* The file tools of rc-tools (Read, Write, Edit, Append), the shared      *)
(* ReadRegistry that guards overwrites, rc-core's ChangeJournal and        *)
(* rc-session's /rewind, against other programs that change the same files *)
(* and against a process that dies between any two steps.                  *)
(*                                                                         *)
(* A file's content is a small number: 0 for no file, Text for valid       *)
(* UTF-8, Raw for anything else.  A tool call runs through the steps its   *)
(* code takes on the file system; Write, Edit and Append are serial, so    *)
(* there is one call at a time.                                            *)
(***************************************************************************)
EXTENDS Integers, Sequences, SequencesExt, FiniteSets

CONSTANTS
  Files,                \* the files the tools are called on
  Text,                 \* contents that are valid UTF-8
  MaxTurn,              \* bound on the journal's turn counter
  MaxLines,             \* bound on the lines of rewind.jsonl
  MaxCrashes,           \* bound on the crashes
  ExternalDuringCalls   \* whether other programs may act between a call's steps

Raw == -1
Absent == 0
Never == -2   \* no entry in the registry

ASSUME WorkspaceAssumption ==
  /\ Text \subseteq Nat \ {0} /\ Text # {} /\ MaxTurn \in Nat /\ MaxLines \in Nat
  /\ MaxCrashes \in Nat /\ ExternalDuringCalls \in BOOLEAN

VARIABLES
  files,      \* content of each file
  registry,   \* ReadRegistry: hash, and whether the recorded mtime still holds
  records,    \* ChangeJournal.records
  turn,       \* ChangeJournal.turn
  journalDisk,       \* lines of rewind.jsonl
  open,       \* the last line has no newline yet
  fileCall,       \* the tool call in progress, or its absence
  rewinding,  \* records /rewind has still to restore, and those it reports
  process,    \* "idle", in a "turn", or "down"
  crashes,
  shown,      \* ghost: what the model last saw of or put in each file, and in which process
  changes     \* ghost: every mutation by a tool that no /rewind has undone

journal == <<records, turn, journalDisk, open>>
wsVars == <<files, registry, journal, fileCall, rewinding, process, crashes, shown, changes>>

FileContents == Text \cup {Absent, Raw}
Unread == [hash |-> Never, fresh |-> FALSE]
NoCall == [tool |-> "none"]
NoRewind == [todo |-> <<>>, restored |-> <<>>, asked |-> <<>>]
Garbled == [kind |-> "garbled"]

WsInit ==
  /\ files \in [Files -> {Absent, Raw} \cup {CHOOSE t \in Text : TRUE}]
  /\ registry = [f \in Files |-> Unread]
  /\ records = <<>> /\ turn = 0 /\ journalDisk = <<>> /\ open = FALSE
  /\ fileCall = NoCall /\ rewinding = NoRewind
  /\ process = "idle" /\ crashes = 0
  /\ shown = [f \in Files |-> [data |-> Absent, run |-> 0]]
  /\ changes = <<>>

Idle == process = "idle" /\ rewinding.todo = <<>>
CanCall == process = "turn" /\ fileCall = NoCall

\* A file's content is replaced.  A coarse clock may leave its mtime as it was.
Change(f, data) ==
  /\ files' = [files EXCEPT ![f] = data]
  /\ \E same \in BOOLEAN :
       registry' = [registry EXCEPT ![f].fresh = same /\ registry[f].fresh]

\* Editors, background commands and Bash, none of which the registry hears of.
External(f, data) ==
  /\ ExternalDuringCalls \/ (fileCall = NoCall /\ rewinding.todo = <<>>)
  /\ data # files[f]
  /\ Change(f, data)
  /\ UNCHANGED <<journal, fileCall, rewinding, process, crashes, shown, changes>>

-----------------------------------------------------------------------------
(* ReadRegistry                                                            *)

\* record_read reads the file again, whatever its caller has read before.
record_read(f) == [registry EXCEPT ![f] = [hash |-> files[f], fresh |-> TRUE]]

\* Mutant of current_read_state: only the mtime is compared.
read_state_by_mtime(f) ==
  IF registry[f].hash = Never THEN "Unread"
  ELSE IF registry[f].fresh THEN "Current" ELSE "Stale"

current_read_state(f) ==
  IF registry[f].hash = Never THEN "Unread"
  ELSE IF registry[f].fresh /\ registry[f].hash = files[f] THEN "Current"
  ELSE "Stale"

Show(f, data) == [shown EXCEPT ![f] = [data |-> data, run |-> crashes]]

-----------------------------------------------------------------------------
(* Read: the bytes it returns, then the registry.                          *)

ReadBytes(f) ==
  /\ CanCall
  /\ files[f] \in Text   \* a missing or binary file is reported, not registered
  /\ fileCall' = [tool |-> "Read", path |-> f, step |-> "record_read", new |-> files[f]]
  /\ UNCHANGED <<files, registry, journal, rewinding, process, crashes, shown, changes>>

ReadRecord ==
  /\ fileCall.tool = "Read"
  /\ registry' = record_read(fileCall.path)
  /\ shown' = Show(fileCall.path, fileCall.new)
  /\ fileCall' = NoCall
  /\ UNCHANGED <<files, journal, rewinding, process, crashes, changes>>

-----------------------------------------------------------------------------
(* Write, Edit and Append                                                  *)

\* The read-before-mutate check.  A stale file ends the call with an error, and
\* so does an Edit of a missing one.
Check(tool, f) ==
  /\ CanCall /\ Len(journalDisk) < MaxLines
  /\ IF files[f] = Absent THEN tool # "Edit" ELSE current_read_state(f) # "Stale"
  /\ registry' = IF files[f] # Absent /\ current_read_state(f) = "Unread"
                 THEN record_read(f) ELSE registry
  /\ fileCall' = [tool |-> tool, path |-> f, step |-> "load"]
  /\ UNCHANGED <<files, journal, rewinding, process, crashes, shown, changes>>

\* The old content, and the new one made from it.  Write takes any failure to
\* read the old text as its absence; for Append only a missing file is one.
Load(new) ==
  LET old == files[fileCall.path]
      text == IF old = Raw THEN Absent ELSE old
  IN  /\ fileCall # NoCall /\ fileCall.step = "load"
      /\ CASE fileCall.tool = "Write"  -> TRUE
           [] fileCall.tool = "Append" -> old # Raw
           [] fileCall.tool = "Edit"   -> old \in Text \ {new}
      /\ fileCall' = [tool |-> fileCall.tool, path |-> fileCall.path, step |-> "persist",
                  old |-> text, new |-> new]
      /\ UNCHANGED <<files, registry, journal, rewinding, process, crashes, shown, changes>>

\* The old text cannot be read, has another size or does not match, or the
\* directory or the file cannot be written.
CallFails ==
  /\ fileCall # NoCall /\ fileCall.step \in {"load", "persist"}
  /\ fileCall' = NoCall
  /\ UNCHANGED <<files, registry, journal, rewinding, process, crashes, shown, changes>>

\* atomic_write renames the new content into place.
Persist ==
  /\ fileCall # NoCall /\ fileCall.step = "persist"
  /\ Change(fileCall.path, fileCall.new)
  /\ shown' = Show(fileCall.path, fileCall.new)
  /\ changes' = Append(changes, [path |-> fileCall.path, prior |-> files[fileCall.path],
                                  turn |-> turn, logged |-> FALSE])
  /\ fileCall' = [fileCall EXCEPT !.step = "register"]
  /\ UNCHANGED <<journal, rewinding, process, crashes>>

Register ==
  /\ fileCall # NoCall /\ fileCall.step = "register"
  /\ registry' = record_read(fileCall.path)
  /\ fileCall' = [fileCall EXCEPT !.step = "record"]
  /\ UNCHANGED <<files, journal, rewinding, process, crashes, shown, changes>>

-----------------------------------------------------------------------------
(* ChangeJournal                                                           *)

TurnEntry(t) == [kind |-> "turn", turn |-> t]
ChangeEntry(r) == [kind |-> "change", rec |-> r]

\* A line is appended; on an open line it only garbles it further.
append_durable(entry) == IF open THEN Append(Front(journalDisk), Garbled) ELSE Append(journalDisk, entry)

advance_turn ==
  /\ Idle /\ turn < MaxTurn /\ Len(journalDisk) < MaxLines
  /\ turn' = turn + 1
  /\ journalDisk' = append_durable(TurnEntry(turn + 1)) /\ open' = FALSE
  /\ process' = "turn"
  /\ rewinding' = NoRewind
  /\ UNCHANGED <<files, registry, records, fileCall, crashes, shown, changes>>

TurnEnds ==
  /\ CanCall
  /\ process' = "idle"
  /\ UNCHANGED <<files, registry, journal, fileCall, rewinding, crashes, shown, changes>>

\* The snapshot goes to the content-addressed store, or stays inline when that
\* cannot be written; only the former has a digest for the journal to name.
NewRecord(cas) == [path |-> fileCall.path, prior |-> fileCall.old, turn |-> turn, cas |-> cas]

\* Mutant of record: the snapshot is taken after the write.
record_new(cas) ==
  LET r == [path |-> fileCall.path, prior |-> fileCall.new, turn |-> turn, cas |-> cas]
  IN  /\ fileCall # NoCall /\ fileCall.step = "record"
      /\ records' = Append(records, r)
      /\ journalDisk' = append_durable(ChangeEntry(r)) /\ open' = FALSE
      /\ fileCall' = NoCall
      /\ changes' = [changes EXCEPT ![Len(changes)].logged = TRUE]
      /\ UNCHANGED <<files, registry, turn, rewinding, process, crashes, shown>>

record(cas) ==
  /\ fileCall # NoCall /\ fileCall.step = "record"
  /\ fileCall.old = Absent => ~cas
  /\ records' = Append(records, NewRecord(cas))
  /\ journalDisk' = append_durable(ChangeEntry(NewRecord(cas))) /\ open' = FALSE
  /\ fileCall' = NoCall
  /\ changes' = [changes EXCEPT ![Len(changes)].logged = fileCall.old # Absent => cas]
  /\ UNCHANGED <<files, registry, turn, rewinding, process, crashes, shown>>

\* /rewind n: the records of the last n turns leave the journal, which is
\* rewritten, before the first file is restored.
Those(seq, S) ==
  LET those[i \in 0..Len(seq)] ==
        IF i = 0 THEN <<>>
        ELSE IF seq[i] \in S THEN Append(those[i - 1], seq[i]) ELSE those[i - 1]
  IN  those[Len(seq)]
Window(seq, n) == Those(seq, {r \in Range(seq) : r.turn > turn - n})
Kept(seq, n) == Those(seq, {r \in Range(seq) : r.turn <= turn - n})

\* Mutant of rewind: the records are restored oldest first.
rewind_forward(n) ==
  /\ Idle /\ records # <<>> /\ n > 0
  /\ records' = Kept(records, n)
  /\ turn' = IF n < turn THEN turn - n ELSE 0
  /\ journalDisk' = <<TurnEntry(turn')>> \o [i \in DOMAIN records' |-> ChangeEntry(records'[i])]
  /\ open' = FALSE
  /\ rewinding' = [todo |-> Window(records, n), restored |-> <<>>, asked |-> Window(changes, n)]
  /\ changes' = Kept(changes, n)
  /\ UNCHANGED <<files, registry, fileCall, process, crashes, shown>>

rewind(n) ==
  /\ Idle /\ records # <<>> /\ n > 0
  /\ records' = Kept(records, n)
  /\ turn' = IF n < turn THEN turn - n ELSE 0
  /\ journalDisk' = <<TurnEntry(turn')>> \o [i \in DOMAIN records' |-> ChangeEntry(records'[i])]
  /\ open' = FALSE
  /\ rewinding' = [todo |-> Reverse(Window(records, n)), restored |-> <<>>,
                   asked |-> Window(changes, n)]
  /\ changes' = Kept(changes, n)
  /\ UNCHANGED <<files, registry, fileCall, process, crashes, shown>>

\* restore_files, one record.  A failure is skipped and left out of the report.
Restore(ok) ==
  LET r == Head(rewinding.todo)
  IN  /\ process = "idle" /\ rewinding.todo # <<>>
      /\ IF ok THEN Change(r.path, r.prior) ELSE UNCHANGED <<files, registry>>
      /\ rewinding' = [todo |-> Tail(rewinding.todo), asked |-> rewinding.asked,
                       restored |-> IF ok THEN Append(rewinding.restored, r.path)
                                    ELSE rewinding.restored]
      /\ UNCHANGED <<journal, fileCall, process, crashes, shown, changes>>

-----------------------------------------------------------------------------
(* Crashes                                                                 *)

Down ==
  /\ process # "down" /\ crashes < MaxCrashes
  /\ crashes' = crashes + 1 /\ process' = "down"
  /\ registry' = [f \in Files |-> Unread]
  /\ fileCall' = NoCall /\ rewinding' = NoRewind
  /\ records' = <<>> /\ turn' = 0
  /\ UNCHANGED <<files, shown, changes>>

Crash == Down /\ UNCHANGED <<journalDisk, open>>

\* The process dies inside append_durable: the line is there in part, or whole
\* without its newline.
CrashAppending(part) ==
  LET entry == IF fileCall = NoCall THEN TurnEntry(turn + 1) ELSE ChangeEntry(NewRecord(fileCall.old # Absent))
  IN  /\ Down
      /\ (Idle /\ turn < MaxTurn) \/ (fileCall # NoCall /\ fileCall.step = "record")
      /\ Len(journalDisk) < MaxLines
      /\ journalDisk' = append_durable(IF part THEN Garbled ELSE entry)
      /\ open' = TRUE

\* ChangeJournal::durable reads up to the first line that does not parse.  A
\* change whose snapshot never reached the store is dropped.
ReadLine(r, line) ==
  CASE r.over \/ line = Garbled -> [records |-> r.records, turn |-> r.turn, over |-> TRUE]
    [] ~r.over /\ line.kind = "turn" -> [records |-> r.records, turn |-> line.turn, over |-> FALSE]
    [] OTHER -> [records |-> IF line.rec.prior # Absent /\ ~line.rec.cas THEN r.records
                             ELSE Append(r.records, line.rec),
                 turn |-> IF line.rec.turn > r.turn THEN line.rec.turn ELSE r.turn,
                 over |-> FALSE]
Reread(lines) ==
  LET read[i \in 0..Len(lines)] ==
        IF i = 0 THEN [records |-> <<>>, turn |-> 0, over |-> FALSE]
        ELSE ReadLine(read[i - 1], lines[i])
  IN  read[Len(lines)]

durable ==
  /\ process = "down"
  /\ records' = Reread(journalDisk).records
  /\ turn' = Reread(journalDisk).turn
  /\ process' = "idle"
  /\ UNCHANGED <<files, registry, journalDisk, open, fileCall, rewinding, crashes, shown, changes>>

WsNext ==
  \/ \E f \in Files :
       \/ \E data \in FileContents : External(f, data)
       \/ ReadBytes(f)
       \/ \E tool \in {"Write", "Edit", "Append"} : Check(tool, f)
  \/ ReadRecord
  \/ \E new \in Text : Load(new)
  \/ CallFails \/ Persist \/ Register
  \/ advance_turn \/ TurnEnds
  \/ \E cas \in BOOLEAN : record(cas)
  \/ \E n \in 1..(MaxTurn + 1) : rewind(n)
  \/ \E ok \in BOOLEAN : Restore(ok)
  \/ Crash \/ (\E part \in BOOLEAN : CrashAppending(part))
  \/ durable

WsSpec == WsInit /\ [][WsNext]_wsVars

-----------------------------------------------------------------------------
(* Properties                                                              *)

Recs == [path : Files, prior : Text \cup {Absent}, turn : 1..MaxTurn, cas : BOOLEAN]

\* Type invariant.
TypeOK ==
  /\ files \in [Files -> FileContents]
  /\ registry \in [Files -> [hash : FileContents \cup {Never}, fresh : BOOLEAN]]
  /\ turn \in 0..MaxTurn /\ Len(journalDisk) <= MaxLines /\ open \in BOOLEAN
  /\ \A i \in DOMAIN records : records[i] \in Recs /\ records[i].turn <= turn
  /\ \A i \in DOMAIN rewinding.todo : rewinding.todo[i] \in Recs
  /\ process \in {"idle", "turn", "down"} /\ crashes \in 0..MaxCrashes
  /\ shown \in [Files -> [data : Text \cup {Absent}, run : 0..MaxCrashes]]

\* The first mutation of f that a finished /rewind was to undo.
First(f) ==
  LET asked == rewinding'.asked
  IN  asked[CHOOSE i \in DOMAIN asked : asked[i].path = f /\ \A j \in 1 .. i - 1 : asked[j].path # f]
RewindDone ==
  /\ rewinding.todo # <<>> /\ rewinding'.todo = <<>> /\ process' = "idle"
  /\ Len(rewinding'.restored) = Len(rewinding'.asked)
Touched == {rewinding'.asked[i].path : i \in DOMAIN rewinding'.asked}

\* When /rewind reports every record restored, each text file it touched holds
\* what it held before the first mutation of the turns undone, however many
\* mutations there were.
RewindRestores ==
  [][RewindDone => \A f \in Touched : First(f).prior # Raw => files'[f] = First(f).prior]_wsVars

\* "restores each file to its prior contents (or deletes it if the agent created
\* it)" (rewind.rs): the same for every file, whatever it held.
RewindExact ==
  [][RewindDone => \A f \in Touched : files'[f] = First(f).prior]_wsVars

\* A tool call replaces the content of an existing file.
Overwrites(f) ==
  Len(changes') = Len(changes) + 1 /\ Last(changes').path = f /\ files[f] # Absent

\* A tool overwrites a file that the model has read or written in this process
\* only while it is what the model saw: the changed-since-read check of util.rs.
OverwritesOnlyKnown ==
  [][\A f \in Files :
       (Overwrites(f) /\ shown[f].data # Absent /\ shown[f].run = crashes)
         => files[f] = shown[f].data]_wsVars

\* "an externally-changed file must be re-read" (util.rs), in a resumed session too.
ChangedMustBeReread ==
  [][\A f \in Files :
       (Overwrites(f) /\ shown[f].data # Absent) => files[f] = shown[f].data]_wsVars

\* However the process dies, the journal it reopens names real mutations, in the
\* order they were made, with the text that each replaced: /rewind never puts
\* back something that was not there.
RecordsFaithful ==
  /\ \A i, j \in DOMAIN records : i < j => records[i].turn <= records[j].turn
  /\ \E e \in [DOMAIN records -> DOMAIN changes] :
       /\ \A i, j \in DOMAIN records : i < j => e[i] < e[j]
       /\ \A i \in DOMAIN records :
            LET r == records[i]
                c == changes[e[i]]
            IN  /\ r.path = c.path /\ r.turn = c.turn
                /\ r.prior = IF c.prior = Raw THEN Absent ELSE c.prior

HasRecord(c) == \E i \in DOMAIN records : records[i].path = c.path /\ records[i].turn = c.turn

\* "`Write`/`Edit` record here *before* they mutate" (ChangeJournal): between
\* calls every mutation is in the journal.
JournalCoversMutations == Idle => \A i \in DOMAIN changes : HasRecord(changes[i])

\* "Open a restart-safe rewind journal ... a malformed trailing record is ignored"
\* (durable): a change whose record was appended is still there after a restart.
RestartSafe ==
  process # "down" => \A i \in DOMAIN changes : changes[i].logged => HasRecord(changes[i])
=============================================================================
