------------------------------ MODULE DlrStore ------------------------------
(***************************************************************************)
(* The DLR receiver's durable state: dlr-receiver's Receiver over          *)
(* dlr-core's ContentStore and Wal.  Sessions share the block map and the  *)
(* log file.  One frame of a session runs at a time (mutation_locks);      *)
(* appends of all sessions exclude each other, because handle_append keeps *)
(* the sessions mutex, but a RESYNC or BULK of another session does not    *)
(* take it while it stores.  A block is stored first and logged after, and *)
(* the process may die at any point: what the buffered writer has not      *)
(* passed on is lost, up to any record.  A write that fails leaves any     *)
(* part of its record behind, and what follows is read out of line.        *)
(*                                                                         *)
(* A root is the sequence of ids it commits to.                            *)
(***************************************************************************)
EXTENDS Integers, Sequences, SequencesExt, FiniteSets, Functions

CONSTANTS
  Sessions,
  BlockIds,    \* content addresses: sessions may send the same block
  Batches,     \* the blocks a frame of each session may bring or name, in order
  MaxRecords,  \* no frame starts once the log has grown by as many, less one per crash
  MaxLog,      \* bound on a session's log
  MaxLost,     \* bound on the records whose write failed
  MaxCrashes

ASSUME DlrStoreAssumption ==
  /\ Batches \in [Sessions -> SUBSET Seq(BlockIds)]
  /\ MaxRecords \in Nat /\ MaxLog \in Nat
  /\ MaxLost \in Nat /\ MaxCrashes \in Nat

VARIABLES
  storeBlocks,   \* ContentStore.blocks
  storeLog,      \* ContentStore.sessions
  storePending,  \* SessionState.pending
  storeAcked,    \* SessionState.acked
  opened,   \* what a replay makes of the log as the process found it
  wal,      \* records written since, in order
  flushed,  \* how many of them are on disk for certain
  broken,   \* wal_error is latched
  job,      \* the frame each session is handling
  mutex,    \* the sessions mutex, while an append holds it
  since,    \* logs of the session from its last ACK on
  crashes

memory == <<storeBlocks, storeLog, storePending, storeAcked>>
storeVars == <<memory, opened, wal, flushed, broken, job, mutex, since, crashes>>

Idle == [op |-> "none", todo |-> <<>>, rec |-> <<>>, gen |-> {}]
Down == [op |-> "down", todo |-> <<>>, rec |-> <<>>, gen |-> {}]
Free == "free"
Junk == "junk"   \* the id of bytes taken for a block

\* The store before any record.
Blank == [blocks |-> {}, log |-> [s \in Sessions |-> <<>>]]

StoreInit ==
  /\ storeBlocks = {}
  /\ storeLog = [s \in Sessions |-> <<>>] /\ storePending = [s \in Sessions |-> {}]
  /\ storeAcked = [s \in Sessions |-> FALSE]
  /\ opened = Blank /\ wal = <<>> /\ flushed = 0 /\ broken = FALSE
  /\ job = [s \in Sessions |-> Idle] /\ mutex = Free
  /\ since = [s \in Sessions |-> {<<>>}] /\ crashes = 0

-----------------------------------------------------------------------------
(* Wal::open: replay                                                       *)

\* One record: insert, reference, seed or content.
Redo(st, r) ==
  CASE r.kind = "insert" ->
         [st EXCEPT !.blocks = @ \cup {r.b}, !.log[r.s] = Append(@, r.b)]
    [] r.kind = "reference" /\ r.b \in st.blocks ->
         [st EXCEPT !.log[r.s] = Append(@, r.b)]
    [] r.kind = "seed" -> [st EXCEPT !.log[r.s] = r.ids]
    [] r.kind = "content" -> [st EXCEPT !.blocks = @ \cup {r.b}]
    [] OTHER -> st

\* The records from the first to the last, on top of st.
Redone(st, records) ==
  LET state[n \in 0..Len(records)] ==
        IF n = 0 THEN st ELSE Redo(state[n - 1], records[n])
  IN  state[Len(records)]

WalReplay(n) == Redone(opened, SubSeq(wal, 1, n))

\* A record of which only a part, or nothing, was written.
LostRecord == [kind |-> "lost"]
Lost(n) == {k \in 1..n : wal[k] = LostRecord}

\* What the replay may take the bytes from there on for: a header that found no
\* payload takes as much of what follows for it.
Nothing == [kind |-> "nothing"]
Misreadings ==
  {Nothing} \cup [kind : {"insert"}, s : Sessions, b : {Junk}]
            \cup [kind : {"seed"}, s : Sessions, ids : {<<Junk>>}]

\* The first n records as the replay reads them: as[k] for a lost one, and the
\* records gone that followed it, until it is in line again.
Read(n, gone, as) ==
  [k \in 1..n |-> CASE k \in gone -> Nothing
                    [] k \in Lost(n) -> as[k]
                    [] OTHER -> wal[k]]

-----------------------------------------------------------------------------
(* Frames                                                                  *)

Room == Len(wal) + crashes < MaxRecords
LogTo(s, ids) ==
  /\ storeLog' = [storeLog EXCEPT ![s] = ids]
  /\ since' = [since EXCEPT ![s] = @ \cup {ids}]

\* handle_append after its checks, on the current root.
Accept(s, new) ==
  /\ job[s] = Idle /\ mutex = Free /\ Room
  /\ storePending[s] = {}
  /\ Len(storeLog[s]) + Len(new) <= MaxLog
  /\ job' = [job EXCEPT ![s] = [op |-> "append", todo |-> new, gen |-> {}, rec |-> <<>>]]
  /\ mutex' = s
  /\ UNCHANGED <<memory, opened, wal, flushed, broken, since, crashes>>

\* handle_append of a frame whose ACK was lost: it leads to the current root, which
\* is acknowledged again.
AckAgain(s) ==
  /\ job[s] = Idle /\ mutex = Free /\ Room
  /\ storePending[s] = {} /\ storeLog[s] # <<>>
  /\ job' = [job EXCEPT ![s].op = "reply"]
  /\ UNCHANGED <<memory, opened, wal, flushed, broken, mutex, since, crashes>>

\* insert_with_canonical, reference: a block that is stored already is only
\* referenced in the log.
Insert(s) ==
  /\ job[s].op = "append" /\ job[s].todo # <<>> /\ job[s].rec = <<>>
  /\ LET b == Head(job[s].todo)
         kind == IF b \in storeBlocks THEN "reference" ELSE "insert"
     IN  /\ storeBlocks' = storeBlocks \cup {b}
         /\ LogTo(s, Append(storeLog[s], b))
         /\ job' = [job EXCEPT ![s].todo = Tail(@),
                               ![s].rec = <<[kind |-> kind, s |-> s, b |-> b]>>]
  /\ UNCHANGED <<storePending, storeAcked, opened, wal, flushed, broken, mutex, crashes>>

\* handle_resync: the missing set, then the seed; pending follows the record.
StoreResync(s, ids) ==
  /\ job[s] = Idle /\ Room
  /\ LogTo(s, ids)
  /\ job' = [job EXCEPT ![s] = [op |-> "resync", todo |-> <<>>, gen |-> Range(ids) \ storeBlocks,
                                rec |-> <<[kind |-> "seed", s |-> s, ids |-> ids]>>]]
  /\ UNCHANGED <<storeBlocks, storePending, storeAcked, opened, wal, flushed, broken, mutex, crashes>>

SetPending(s) ==
  /\ job[s].op = "resync" /\ job[s].rec = <<>> /\ mutex = Free
  /\ storePending' = [storePending EXCEPT ![s] = job[s].gen]
  /\ storeAcked' = [storeAcked EXCEPT ![s] = job[s].gen = {}]
  /\ job' = [job EXCEPT ![s].op = IF job[s].gen = {} THEN "reply" ELSE "flush"]
  /\ UNCHANGED <<storeBlocks, storeLog, opened, wal, flushed, broken, mutex, since, crashes>>

\* handle_bulk: the blocks of a decoded generation, in any order, late and again.
StoreBulk(s, blocks) ==
  /\ job[s] = Idle /\ Room
  /\ job' = [job EXCEPT ![s] = [op |-> "bulk", todo |-> blocks, gen |-> Range(blocks),
                                rec |-> <<>>]]
  /\ UNCHANGED <<memory, opened, wal, flushed, broken, mutex, since, crashes>>

\* store_content_with_id: content only, and no record if it was there.
Content(s) ==
  /\ job[s].op = "bulk" /\ job[s].todo # <<>> /\ job[s].rec = <<>>
  /\ LET b == Head(job[s].todo)
     IN  /\ storeBlocks' = storeBlocks \cup {b}
         /\ job' = [job EXCEPT ![s].todo = Tail(@),
                      ![s].rec = IF b \in storeBlocks THEN <<>>
                                 ELSE <<[kind |-> "content", s |-> s, b |-> b]>>]
  /\ UNCHANGED <<storeLog, storePending, storeAcked, opened, wal, flushed, broken, mutex, since, crashes>>

\* The generation is retired; the one that completes the manifest acknowledges.
Retire(s) ==
  /\ job[s].op = "bulk" /\ job[s].todo = <<>> /\ job[s].rec = <<>> /\ mutex = Free
  /\ storePending' = [storePending EXCEPT ![s] = @ \ job[s].gen]
  /\ LET done == storePending'[s] = {} /\ ~storeAcked[s]
     IN  /\ storeAcked' = [storeAcked EXCEPT ![s] = @ \/ done]
         /\ job' = [job EXCEPT ![s].op = IF done THEN "reply" ELSE "flush"]
  /\ UNCHANGED <<storeBlocks, storeLog, opened, wal, flushed, broken, mutex, since, crashes>>

\* The record is appended to the buffered log by four writes or more; the first
\* that fails ends it and latches the error.
WalAppend(s) ==
  /\ job[s].rec # <<>>
  /\ \/ wal' = wal \o job[s].rec /\ UNCHANGED broken
     \/ /\ Cardinality(Lost(Len(wal))) < MaxLost
        /\ wal' = wal \o <<LostRecord>> /\ broken' = TRUE
  /\ job' = [job EXCEPT ![s].rec = <<>>]
  /\ UNCHANGED <<memory, opened, flushed, mutex, since, crashes>>

AppendDone(s) ==
  /\ job[s].op = "append" /\ job[s].todo = <<>> /\ job[s].rec = <<>>
  /\ mutex' = Free
  /\ job' = [job EXCEPT ![s].op = "reply"]
  /\ UNCHANGED <<memory, opened, wal, flushed, broken, since, crashes>>

\* Mutant of Reply: the ACK is sent before the log is flushed.
ReplyUnflushed(s) ==
  /\ job[s].op \in {"reply", "flush"}
  /\ job' = [job EXCEPT ![s] = Idle]
  /\ since' = IF job[s].op = "reply" /\ ~broken
              THEN [since EXCEPT ![s] = {storeLog[s]}] ELSE since
  /\ UNCHANGED <<memory, opened, wal, flushed, broken, mutex, crashes>>

\* flush_wal, then the reply: an ACK of the root, or an error if the latch is set
\* or the flush sets it.
Reply(s) ==
  /\ job[s].op \in {"reply", "flush"}
  /\ \/ /\ ~broken /\ flushed' = Len(wal)
        /\ since' = IF job[s].op = "reply" THEN [since EXCEPT ![s] = {storeLog[s]}] ELSE since
        /\ UNCHANGED broken
     \/ broken' = TRUE /\ UNCHANGED <<flushed, since>>
  /\ job' = [job EXCEPT ![s] = Idle]
  /\ UNCHANGED <<memory, opened, wal, mutex, crashes>>

\* The process dies with the first n records in the file; a restart truncates the
\* torn tail, replays, and rebuilds pending from the content that is missing
\* (Receiver::new).
Crash(n, gone, as) ==
  /\ crashes < MaxCrashes
  /\ gone \cap Lost(n) = {} /\ \A k \in gone : k - 1 \in gone \cup Lost(n)
  /\ crashes' = crashes + 1
  /\ wal' = <<>> /\ flushed' = 0 /\ broken' = FALSE
  /\ opened' = Redone(opened, Read(n, gone, as))
  /\ storeBlocks' = opened'.blocks /\ storeLog' = opened'.log
  /\ storePending' = [s \in Sessions |-> Range(opened'.log[s]) \ opened'.blocks]
  /\ storeAcked' = [s \in Sessions |-> Range(opened'.log[s]) \subseteq opened'.blocks]
  /\ since' = [s \in Sessions |-> since[s] \cup {opened'.log[s]}]
  /\ job' = [s \in Sessions |-> Idle] /\ mutex' = Free

\* Out of line, the replay meets a length no record may have: the log is refused
\* (InvalidData), at this start and at every other.
Refused(n) ==
  /\ crashes < MaxCrashes /\ Lost(n) # {}
  /\ crashes' = MaxCrashes
  /\ job' = [s \in Sessions |-> Down]
  /\ UNCHANGED <<memory, opened, wal, flushed, broken, mutex, since>>

StoreNext ==
  \/ \E s \in Sessions :
       \/ \E new \in Batches[s] : Accept(s, new) \/ StoreResync(s, new) \/ StoreBulk(s, new)
       \/ AckAgain(s) \/ Insert(s) \/ SetPending(s) \/ Content(s) \/ Retire(s)
       \/ WalAppend(s) \/ AppendDone(s) \/ Reply(s)
  \/ \E n \in flushed..Len(wal) :
       \/ \E gone \in SUBSET (1..n), as \in [Lost(n) -> Misreadings] : Crash(n, gone, as)
       \/ Refused(n)

StoreSpec == StoreInit /\ [][StoreNext]_storeVars

-----------------------------------------------------------------------------
(* Properties                                                              *)

\* A record of the session refers to a block that the log brings only later: a
\* BULK of another session has stored the block and not yet logged it.
Dangling(records, s) ==
  \E i \in 1..Len(records) :
    /\ records[i].kind = "reference" /\ records[i].s = s
    /\ records[i].b \notin Redone(opened, SubSeq(records, 1, i - 1)).blocks

\* Whenever the process dies, each session comes back with a log it had at or
\* after its last ACK (sidecar: "A client that receives x-dlr-ack-root may
\* therefore safely discard its retry body"), unless one of its references
\* overtook the block.  Once a write has failed, what follows it is anything, but
\* what was acknowledged stays in front of it.
AckDurable ==
  /\ Lost(flushed) = {}
  /\ \A n \in flushed..Len(wal), s \in Sessions :
       Lost(n) = {} /\ ~Dangling(SubSeq(wal, 1, n), s) => WalReplay(n).log[s] \in since[s]

\* A session that is not cold-starting can be reconstructed in full: reconstruct
\* leaves out, without a word, every block it has no content for.
LogComplete ==
  \A s \in Sessions : job[s] = Idle /\ storePending[s] = {} => Range(storeLog[s]) \subseteq storeBlocks

\* A client may drop what was acknowledged: after a crash at any record its log
\* is one it was told of, and a log that is not cold-starting has all its blocks.
StoreSound == AckDurable /\ LogComplete
=============================================================================
