------------------------------- MODULE Dedup -------------------------------
(***************************************************************************)
(* The cuckoo filter in front of the content store, and the sessions of a  *)
(* shim that consult it for every block they send (dlr core filter.rs,     *)
(* shim ingest_turn).  The sessions share table, mask and flag; a step is  *)
(* what happens under one lock, or one load of an atomic.                  *)
(***************************************************************************)
EXTENDS Naturals, FiniteSets, Sequences, Bitwise

CONSTANTS
  Shims,       \* the sessions, each a thread of its own
  DedupIds,    \* block ids
  IdHash,      \* xxh3 of an id
  FpHash,      \* xxh3 of a fingerprint
  FPS,         \* number of fingerprints (2^16 in the code)
  GOLDEN64,
  SLOTS, KICKS,
  FirstBuckets, MaxBuckets,
  MaxIngests   \* bound on the blocks sent

VARIABLES
  buckets,     \* FilterTable.buckets; 0 is an empty slot
  mask,        \* the atomic copy of the table's size
  saturated,
  kept,        \* blocks in the ContentStore
  task,        \* what each session is doing
  ingested,
  added,       \* ghost: ids whose insert returned true
  grown        \* ghost: the table has been rehashed

dedupVars == <<buckets, mask, saturated, kept, task, ingested, added, grown>>

Resting == [at |-> "idle", id |-> 0, i |-> 0, fp |-> 0, kicks |-> 0, look |-> <<>>]
EmptyTable(n) == [b \in 0..(n - 1) |-> [s \in 1..SLOTS |-> 0]]

\* CuckooFilter::with_capacity.
DedupInit ==
  /\ buckets = EmptyTable(FirstBuckets) /\ mask = FirstBuckets - 1 /\ saturated = FALSE
  /\ kept = {} /\ task = [t \in Shims |-> Resting] /\ ingested = 0
  /\ added = {} /\ grown = FALSE

-----------------------------------------------------------------------------
\* Both come from one hash: the fingerprint is its low bits, never zero, and so
\* is the index.
fingerprint(id) == IF IdHash[id] % FPS = 0 THEN 1 ELSE IdHash[id] % FPS
primary(id, m) == IdHash[id] & m

\* Mutant of alt_index: the offset is added, so that two moves do not lead back.
alt_index_added(i, fp, m) == (i + fp * GOLDEN64) & m

alt_index(i, fp, m) == (i ^^ (fp * GOLDEN64)) & m

FreeSlots(b) == {s \in 1..SLOTS : b[s] = 0}
FirstFree(b) == CHOOSE s \in FreeSlots(b) : \A z \in FreeSlots(b) : s <= z
Put(table, i, fp) == [table EXCEPT ![i][FirstFree(table[i])] = fp]

Now(t, r) == task' = [task EXCEPT ![t] = r]
Done(t) == Now(t, Resting)

\* contains: the flag, then the first index.
Ingest(t, id) ==
  /\ task[t].at = "idle" /\ ingested < MaxIngests
  /\ ingested' = ingested + 1
  /\ Now(t, [Resting EXCEPT !.id = id, !.fp = fingerprint(id), !.i = primary(id, mask),
                            !.at = IF saturated THEN "maybe" ELSE "alt?"])
  /\ UNCHANGED <<buckets, mask, saturated, kept, added, grown>>

\* The second index; the table is locked for reading until the answer.
ContainsLocks(t) ==
  /\ task[t].at = "alt?"
  /\ LET slots(b) == [s \in 1..SLOTS |-> <<b, s>>]
     IN  Now(t, [task[t] EXCEPT !.at = "scan",
                   !.look = slots(task[t].i) \o slots(alt_index(task[t].i, task[t].fp, mask))])
  /\ UNCHANGED <<buckets, mask, saturated, kept, ingested, added, grown>>

\* A bucket is locked anew for every slot.
ContainsSlot(t) ==
  /\ task[t].at = "scan"
  /\ LET at == Head(task[t].look)
         hit == buckets[at[1]][at[2]] = task[t].fp
         last == Len(task[t].look) = 1
     IN  Now(t, [task[t] EXCEPT !.at = IF hit THEN "maybe" ELSE IF last THEN "absent" ELSE "scan",
                                !.look = IF hit THEN <<>> ELSE Tail(@)])
  /\ UNCHANGED <<buckets, mask, saturated, kept, ingested, added, grown>>

\* ingest_turn: a block the store has is sent as a reference; any other is stored,
\* entered in the filter and sent inline.
Known(t) ==
  /\ task[t].at \in {"maybe", "absent"}
  /\ IF task[t].at = "maybe" /\ task[t].id \in kept THEN Done(t) /\ UNCHANGED kept
     ELSE kept' = kept \cup {task[t].id} /\ Now(t, [task[t] EXCEPT !.at = "insert"])
  /\ UNCHANGED <<buckets, mask, saturated, ingested, added, grown>>

InsertStarts(t) ==
  /\ task[t].at = "insert"
  /\ IF saturated THEN Done(t)
     ELSE Now(t, [task[t] EXCEPT !.at = "kick", !.i = primary(task[t].id, mask), !.fp = fingerprint(task[t].id)])
  /\ UNCHANGED <<buckets, mask, saturated, kept, ingested, added, grown>>

Placed(t) == Done(t) /\ added' = added \cup {task[t].id}

\* One kick: a free slot takes the fingerprint, or it changes places with the one
\* in the slot it selects.
Kick(t) ==
  /\ task[t].at = "kick"
  /\ LET i == task[t].i
         fp == task[t].fp
         s == (fp % SLOTS) + 1
     IN  IF FreeSlots(buckets[i]) # {}
         THEN buckets' = Put(buckets, i, fp) /\ Placed(t)
         ELSE /\ buckets' = [buckets EXCEPT ![i][s] = fp]
              /\ Now(t, [task[t] EXCEPT !.at = "moved", !.fp = buckets[i][s], !.kicks = @ + 1])
              /\ UNCHANGED added
  /\ UNCHANGED <<mask, saturated, kept, ingested, grown>>

KickMoves(t) ==
  /\ task[t].at = "moved"
  /\ Now(t, [task[t] EXCEPT !.at = IF task[t].kicks = KICKS THEN "grow" ELSE "kick",
                            !.i = alt_index(@, task[t].fp, mask)])
  /\ UNCHANGED <<buckets, mask, saturated, kept, ingested, added, grown>>

\* The fingerprints of a table, bucket by bucket.
Fingerprints(table, n) ==
  LET f[b \in 0..n] ==
        IF b = 0 THEN <<>> ELSE f[b - 1] \o SelectSeq(table[b - 1], LAMBDA fp : fp # 0)
  IN  f[n]

\* grow's placement of one fingerprint: by its own hash, then the alternate.
Rehash(table, fp, m) ==
  LET i == FpHash[fp] & m
      j == alt_index(i, fp, m)
      into(b) == IF FreeSlots(table[b]) = {} THEN table ELSE Put(table, b, fp)
  IN  IF FreeSlots(table[i]) # {} \/ \E s \in 1..SLOTS : table[i][s] = fp THEN into(i) ELSE into(j)

\* grow, under the write lock.  The fingerprint in hand is not among those moved.
Grow(t) ==
  /\ task[t].at = "grow" /\ \A u \in Shims : task[u].at # "scan"
  /\ LET n == Cardinality(DOMAIN buckets)
         fps == Fingerprints(buckets, n)
         wide[k \in 0..Len(fps)] ==
           IF k = 0 THEN EmptyTable(2 * n) ELSE Rehash(wide[k - 1], fps[k], 2 * n - 1)
     IN  IF n < MaxBuckets
         THEN /\ buckets' = wide[Len(fps)] /\ mask' = 2 * n - 1 /\ grown' = TRUE
              /\ Now(t, [task[t] EXCEPT !.at = "retry"])
              /\ UNCHANGED saturated
         ELSE saturated' = TRUE /\ Done(t) /\ UNCHANGED <<buckets, mask, grown>>
  /\ UNCHANGED <<kept, ingested, added>>

\* insert, after the table grew.
Retry(t) ==
  /\ task[t].at = "retry"
  /\ LET i == primary(task[t].id, mask)
     IN  IF FreeSlots(buckets[i]) # {}
         THEN buckets' = Put(buckets, i, fingerprint(task[t].id)) /\ Placed(t) /\ UNCHANGED saturated
         ELSE saturated' = TRUE /\ Done(t) /\ UNCHANGED <<buckets, added>>
  /\ UNCHANGED <<mask, kept, ingested, grown>>

DedupNext ==
  \E t \in Shims :
    \/ \E id \in DedupIds : Ingest(t, id)
    \/ ContainsLocks(t) \/ ContainsSlot(t) \/ Known(t)
    \/ InsertStarts(t) \/ Kick(t) \/ KickMoves(t) \/ Grow(t) \/ Retry(t)

DedupSpec == DedupInit /\ [][DedupNext]_dedupVars

-----------------------------------------------------------------------------
\* What contains answers when nothing moves.
contains(id) ==
  \/ saturated
  \/ LET i == primary(id, mask)
         j == alt_index(i, fingerprint(id), mask)
     IN  \E s \in 1..SLOTS : fingerprint(id) \in {buckets[i][s], buckets[j][s]}

Settled == \A t \in Shims : task[t].at \notin {"kick", "moved", "grow", "retry"}

\* "`false` = definitely not present" (contains): once the inserts are over, an id
\* whose insert returned true is found, however the kicks of several sessions
\* displaced each other's fingerprints, or the filter has given up and says maybe;
\* as long as the table has not been rehashed.
NegativeIsDefinite == Settled /\ ~grown => \A id \in added : contains(id)

\* The same of a table that has grown ("Growth ... rehashes by re-deriving both
\* candidate indices for each fingerprint").
GrowthKeepsAll == Settled => \A id \in added : contains(id)
=============================================================================
