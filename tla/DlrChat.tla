------------------------------ MODULE DlrChat -------------------------------
(***************************************************************************)
(* A conversation over DLR: rc-proto's DlrTransport with its ChatSession   *)
(* and SessionShim on one side, the sidecar's chat handler with its        *)
(* Receiver and projection cache on the other, HTTP between them.  A send  *)
(* may be abandoned at any time (a cancelled turn, a broken connection):   *)
(* its handler keeps running.  The sidecar may restart, with or without    *)
(* its log, and so may the client.                                         *)
(*                                                                         *)
(* Hashes are ideal: a root is the sequence it commits to, and a block is  *)
(* a message at its position, so that the ids of a session and the         *)
(* messages they stand for are the same sequence.                          *)
(***************************************************************************)
EXTENDS Integers, Sequences, SequencesExt, FiniteSets, FiniteSetsExt

CONSTANTS
  Msgs,        \* message bodies
  MaxLen,      \* bound on a conversation
  MaxRequest,  \* MAX_REQUEST_BYTES: the most messages one request holds
  Lingers,     \* the handler of an abandoned send may overlap a later send's
  MaxSends,    \* bound on the sends
  MaxFaults    \* bound on abandoned sends and restarts

ASSUME DlrChatAssumption ==
  /\ Lingers \in BOOLEAN
  /\ MaxLen \in Nat /\ MaxRequest \in Nat /\ MaxSends \in Nat /\ MaxFaults \in Nat

VARIABLES
  conv,      \* the messages the agent wants answered
  acked,     \* SessionState.messages: the last projection ACKed
  ids,       \* SessionShim.ids (root)
  base,      \* SessionShim.base_root
  awaiting,  \* ChatSession.pending_root is set: ids is not ACKed
  chatPhase,     \* client: "idle", "append", "resync", "bulk", "invoke"
  outcome,   \* of the last send: "none", "error", or the messages it was answered for
  log,       \* receiver: the session's log
  blocks,    \* receiver: blocks whose content it stores
  missing,   \* receiver: SessionState.pending, the cold start's oracle
  cache,     \* chat_projections entry: {} or {[root, msgs]}
  handlers,  \* chat handlers running
  sends, faults

client == <<conv, acked, ids, base, awaiting, outcome>>
receiver == <<log, blocks, missing>>
chatVars == <<client, chatPhase, receiver, cache, handlers, sends, faults>>

Block(s, i) == <<i, s[i]>>
BlocksOf(s) == {Block(s, i) : i \in DOMAIN s}
Convs == SeqOf(Msgs, MaxLen)

ChatInit ==
  /\ conv = <<>> /\ acked = <<>> /\ ids = <<>> /\ base = <<>> /\ awaiting = FALSE
  /\ chatPhase = "idle" /\ outcome = <<"none">>
  /\ log = <<>> /\ blocks = {} /\ missing = {} /\ cache = {} /\ handlers = {}
  /\ sends = 0 /\ faults = 0

-----------------------------------------------------------------------------
(* The client                                                              *)

\* The transcript grows by a turn, or a projection rewrites it.
Converse(c) ==
  /\ chatPhase = "idle" /\ c # conv /\ c # <<>>
  /\ conv' = c
  /\ UNCHANGED <<acked, ids, base, awaiting, outcome, chatPhase, receiver, cache,
                 handlers, sends, faults>>

Failed == outcome' = <<"error">> /\ chatPhase' = "idle"

\* Mutant of PrefixMatches: the messages are counted, not compared.
LengthMatches == Len(acked) <= Len(conv)

PrefixMatches == IsPrefix(acked, conv)

\* prepare_ref refuses a second append in flight, and a request beyond the size
\* limit, before it changes the session.
prepare_ref(inFlight, new) == ~inFlight /\ Len(new) <= MaxRequest

\* The new messages become blocks of the session; the root follows them.
ingest_turn(old, new) == old \o new

\* The ACKed root is the current one; nothing is pending any more.
apply_ack == base' = ids /\ awaiting' = FALSE

\* The request on its way: an APPEND frame and the base it was made for.
Envelope(n, from, to) ==
  [send |-> n, stage |-> "append", base |-> from, root |-> to, hit |-> {}, msgs |-> <<>>]

\* The empty append that invokes the model once the logs agree.
Invocation == Envelope(sends, ids, ids)

\* DlrTransport::send up to the request.  A transcript that no longer extends the
\* ACKed one starts a fresh local session.
Send ==
  /\ chatPhase = "idle" /\ conv # <<>> /\ sends < MaxSends
  /\ handlers = {} \/ Lingers
  /\ sends' = sends + 1
  /\ LET keep == PrefixMatches
         old == IF keep THEN ids ELSE <<>>
         new == SubSeq(conv, IF keep THEN Len(acked) + 1 ELSE 1, Len(conv))
         root == IF keep THEN base ELSE <<>>
     IN  IF ~prepare_ref(keep /\ awaiting, new)
         THEN /\ Failed
              /\ ids' = old /\ base' = root /\ awaiting' = (keep /\ awaiting)
              /\ UNCHANGED handlers
         ELSE /\ ids' = ingest_turn(old, new) /\ base' = root /\ awaiting' = TRUE
              /\ chatPhase' = "append" /\ outcome' = <<"none">>
              /\ handlers' = handlers \cup {Envelope(sends + 1, root, ingest_turn(old, new))}
  /\ UNCHANGED <<conv, acked, receiver, cache, faults>>

\* The future is dropped, or the connection breaks: the error leaves the session
\* as it is.
Abandon ==
  /\ chatPhase # "idle" /\ faults < MaxFaults
  /\ faults' = faults + 1
  /\ Failed
  /\ UNCHANGED <<conv, acked, ids, base, awaiting, receiver, cache, handlers, sends>>

ClientRestart ==
  /\ faults < MaxFaults /\ acked # <<>>
  /\ faults' = faults + 1
  /\ acked' = <<>> /\ ids' = <<>> /\ base' = <<>> /\ awaiting' = FALSE
  /\ chatPhase' = "idle" /\ outcome' = <<"none">>
  /\ UNCHANGED <<conv, receiver, cache, handlers, sends>>

-----------------------------------------------------------------------------
(* The sidecar: chat_completions                                           *)

Mine(h) == h.send = sends /\ chatPhase \in {"append", "invoke"}
Move(h, g) == handlers' = (handlers \ {h}) \cup {g}
Gone(h) == handlers' = handlers \ {h}

\* A reply that carries no ACK reaches a client that still waits for it.
Refuse(h, then) ==
  /\ Gone(h)
  /\ IF Mine(h) THEN chatPhase' = then /\ (IF then = "idle" THEN outcome' = <<"error">>
                                       ELSE UNCHANGED outcome)
     ELSE UNCHANGED <<chatPhase, outcome>>
  /\ UNCHANGED <<receiver, cache>>

\* 409: the first append falls back to synchronization, the second gives up (the
\* response of the invoking append is not examined again).
Conflict(h) == Refuse(h, IF chatPhase = "append" THEN "resync" ELSE "idle")

\* ChatProjectionCache::get
Lookup(root) == {c \in cache : c.root = root}

OnCurrentRoot(h) == h.base = log
Replayed(h) == h.root = log

\* handle_append and the WAL flush: accepted on the current root; a replay of
\* what is already there is acknowledged again; anything else conflicts.
HandleAppend(h) ==
  /\ h \in handlers /\ h.stage = "append"
  /\ IF missing # {} \/ ~(OnCurrentRoot(h) \/ Replayed(h))
     THEN Conflict(h)
     ELSE /\ log' = IF OnCurrentRoot(h)
                    THEN log \o SubSeq(h.root, Len(h.base) + 1, Len(h.root)) ELSE log
          /\ blocks' = blocks \cup BlocksOf(log')
          /\ Move(h, [h EXCEPT !.stage = "build", !.hit = Lookup(h.base)])
          /\ UNCHANGED <<missing, cache, chatPhase, outcome>>
  /\ UNCHANGED <<conv, acked, ids, base, awaiting, sends, faults>>

Payload(b) == b[2]

\* reconstruct, from a position on: blocks that are not stored are left out.
Stored(from) ==
  LET f[n \in 0..(Len(log) - from)] ==
        IF n = 0 THEN <<>>
        ELSE IF Block(log, from + n) \in blocks THEN Append(f[n - 1], Payload(Block(log, from + n)))
        ELSE f[n - 1]
  IN  f[Len(log) - from]

\* extend_or_reconstruct_projection, and the insert into the cache.  It reads the
\* log as it is now; the root is the one that was acknowledged.
Build(h) ==
  /\ h \in handlers /\ h.stage = "build"
  /\ LET usable == {c \in h.hit : Len(c.msgs) <= Len(log)}
         from == IF usable = {} THEN 0 ELSE Len((CHOOSE c \in usable : TRUE).msgs)
         tail == Stored(from)
     IN  IF usable # {} /\ Len(tail) # Len(log) - from
         THEN Refuse(h, "idle")
         ELSE LET msgs == IF usable = {} THEN tail
                          ELSE (CHOOSE c \in usable : TRUE).msgs \o tail
              IN  /\ cache' = {[root |-> h.root, msgs |-> msgs]}
                  /\ Move(h, [h EXCEPT !.stage = "forward", !.msgs = msgs])
                  /\ UNCHANGED <<receiver, chatPhase, outcome>>
  /\ UNCHANGED <<conv, acked, ids, base, awaiting, sends, faults>>

\* The entry of this session is evicted by others'.
Evict ==
  /\ cache # {} /\ cache' = {}
  /\ UNCHANGED <<client, chatPhase, receiver, handlers, sends, faults>>

\* Upstream is called; its answer, or the gateway error that stands for it, goes
\* back with the ACK.  The root is the one prepared; the client adopts the projection and hands
\* the response on.
Forward(h) ==
  /\ h \in handlers /\ h.stage = "forward"
  /\ Gone(h)
  /\ IF ~Mine(h) THEN UNCHANGED <<client, chatPhase>>
     ELSE /\ chatPhase' = "idle"
          /\ apply_ack /\ acked' = conv
          /\ outcome' = <<"answered", h.msgs>>
          /\ UNCHANGED <<conv, ids>>
  /\ UNCHANGED <<receiver, cache, sends, faults>>

-----------------------------------------------------------------------------
(* DlrChatClient::synchronize                                              *)

\* handle_frame drops the projection, handle_resync seeds the log and names the
\* blocks it lacks; without any it acknowledges at once.
Resync ==
  /\ chatPhase = "resync"
  /\ cache' = {} /\ log' = ids
  /\ missing' = BlocksOf(ids) \ blocks
  /\ IF missing' = {} THEN chatPhase' = "invoke" /\ base' = ids ELSE chatPhase' = "bulk" /\ base' = base
  /\ handlers' = IF missing' # {} THEN handlers ELSE handlers \cup {Invocation}
  /\ UNCHANGED <<conv, acked, ids, awaiting, outcome, blocks, sends, faults>>

\* A BULK frame carries one generation; the one that completes the manifest is
\* acknowledged, and the client invokes the model with an empty append.
Bulk(gen) ==
  /\ chatPhase = "bulk" /\ gen \subseteq BlocksOf(ids) /\ gen # {}
  /\ gen \cap missing # {}
  /\ cache' = {} /\ blocks' = blocks \cup gen /\ missing' = missing \ gen
  /\ IF missing' = {} THEN chatPhase' = "invoke" /\ base' = ids ELSE UNCHANGED <<chatPhase, base>>
  /\ handlers' = IF missing' # {} THEN handlers ELSE handlers \cup {Invocation}
  /\ UNCHANGED <<conv, acked, ids, awaiting, outcome, log, sends, faults>>

\* The sidecar dies and comes back, its log replayed or gone.
SidecarRestart(keeps) ==
  /\ faults < MaxFaults
  /\ faults' = faults + 1
  /\ cache' = {} /\ handlers' = {}
  /\ IF keeps THEN UNCHANGED receiver ELSE log' = <<>> /\ blocks' = {} /\ missing' = {}
  /\ IF chatPhase \in {"append", "invoke"} THEN Failed ELSE UNCHANGED <<chatPhase, outcome>>
  /\ UNCHANGED <<conv, acked, ids, base, awaiting, sends>>

ChatNext ==
  \/ \E c \in Convs : Converse(c)
  \/ Send \/ Abandon \/ ClientRestart \/ Resync \/ Evict
  \/ \E h \in handlers : HandleAppend(h) \/ Build(h) \/ Forward(h)
  \/ \E g \in SUBSET BlocksOf(ids) : Bulk(g)
  \/ \E k \in BOOLEAN : SidecarRestart(k)

ChatSpec == ChatInit /\ [][ChatNext]_chatVars

-----------------------------------------------------------------------------
(* Properties                                                              *)

\* An answer the client accepts was asked for with exactly the transcript it
\* holds: no message is dropped, repeated or left over from an earlier projection,
\* over deltas, replays, cold starts, cached projections and restarts.
AnsweredForTranscript == outcome[1] = "answered" /\ chatPhase = "idle" /\ acked = conv
                           => outcome[2] = conv

\* The client discards the data of a send only after its ACK: when no send is
\* under way, nothing is left unacknowledged.
NothingLeftUnacked == chatPhase = "idle" => ~awaiting
=============================================================================
