----------------------------- MODULE EventQueue -----------------------------
(***************************************************************************)
(* The runtime's event queue (rc-rt/src/event.rs): several producer        *)
(* threads, one consumer.  Under the lock a send merges a streaming delta  *)
(* into the last event, or makes room among the presentation events and    *)
(* appends; the wake-up of the consumer comes after the lock is released.  *)
(* recv looks at the queue and at the closed flag under two separate       *)
(* locks, with the Notified future created before either.                  *)
(*                                                                         *)
(* An event carries the numbers of the sends it is made of.  Deltas have   *)
(* length 1, so a chunk's length is their number.                          *)
(***************************************************************************)
EXTENDS Integers, Sequences, SequencesExt, FiniteSets

CONSTANTS
  EVENT_QUEUE_CAP,   \* presentation events kept
  STREAM_CHUNK_CAP,  \* length of a merged delta
  Senders,           \* clones of the EventSender
  MaxSends           \* bound on the events produced

ASSUME QueueAssumption ==
  /\ EVENT_QUEUE_CAP \in Nat \ {0} /\ STREAM_CHUNK_CAP \in Nat \ {0}
  /\ MaxSends \in Nat

\* "ask" stands for every event that is neither a delta, compactable nor Idle.
Kinds == {"text", "reasoning", "iter", "ask", "idle"}
Event(k, id) == [kind |-> k, ids |-> <<id>>, count |-> 0]

\* Mutant of Overflow: the event that made room is not counted.
OverflowShort(n) == [kind |-> "overflow", ids |-> <<>>, count |-> n - 1]

\* The overflow notice.
Overflow(n) == [kind |-> "overflow", ids |-> <<>>, count |-> n]

VARIABLES
  events,        \* EventQueueState.events
  compactable,   \* EventQueueState.compactable
  dropped,       \* EventQueueState.dropped
  senders,       \* EventQueueState.senders
  closed,        \* EventQueueState.closed
  receiver_open, \* EventQueueState.receiver_open
  permit,        \* the Notify holds a wake-up nobody waited for
  waiters,       \* notify_waiters was called
  sender,        \* what each EventSender is doing
  pc,            \* where recv is
  seen,          \* waiters, when the Notified future was created
  got,           \* events the consumer received
  sent,          \* kinds of the events sent so far, in order
  lost           \* events evicted so far

queue == <<events, compactable, dropped>>
notify == <<permit, waiters>>
history == <<sent, lost>>
vars == <<queue, senders, closed, receiver_open, notify, sender, pc, seen, got, history>>

is_compactable(e) == e.kind \in {"text", "reasoning", "iter"}

\* merge_stream_delta
Merges(k) ==
  /\ events # <<>>
  /\ k \in {"text", "reasoning"}
  /\ Last(events).kind = k
  /\ Len(Last(events).ids) + 1 <= STREAM_CHUNK_CAP

\* make_compactable_room evicts the oldest presentation event.
Full == compactable >= EVENT_QUEUE_CAP

Room == IF Full /\ \E i \in DOMAIN events : is_compactable(events[i])
          THEN RemoveAt(events, SelectInSeq(events, is_compactable))
          ELSE events

Init ==
  /\ events = <<>> /\ compactable = 0 /\ dropped = 0
  /\ senders = 1 /\ closed = FALSE /\ receiver_open = TRUE
  /\ permit = FALSE /\ waiters = FALSE
  /\ \E s \in Senders : sender = [t \in Senders |-> IF t = s THEN "open" ELSE "none"]
  /\ pc = "idle" /\ seen = FALSE
  /\ got = <<>> /\ sent = <<>> /\ lost = 0

-----------------------------------------------------------------------------
(* Producers                                                               *)

\* send, under the lock; it returns at once when the receiver is gone.
Send(s, k) ==
  /\ sender[s] = "open"
  /\ Len(sent) < MaxSends
  /\ ~closed /\ receiver_open
  /\ sent' = Append(sent, k)
  /\ sender' = [sender EXCEPT ![s] = "notify"]
  /\ LET id == Len(sent) + 1
         evicts == Room # events
     IN  \/ /\ Merges(k)
            /\ events' = ReplaceAt(events, Len(events), [Last(events) EXCEPT !.ids = Append(@, id)])
            /\ UNCHANGED <<compactable, dropped, lost>>
         \/ /\ ~Merges(k) /\ k = "idle"
            /\ events' = events \o (IF dropped > 0 THEN <<Overflow(dropped)>> ELSE <<>>)
                                \o <<Event(k, id)>>
            /\ dropped' = 0
            /\ UNCHANGED <<compactable, lost>>
         \/ /\ ~Merges(k) /\ k \in {"text", "reasoning", "iter"}
            /\ events' = Append(Room, Event(k, id))
            /\ compactable' = IF evicts THEN compactable ELSE compactable + 1
            /\ dropped' = IF evicts THEN dropped + 1 ELSE dropped
            /\ lost' = IF evicts THEN lost + 1 ELSE lost
         \/ /\ ~Merges(k) /\ k = "ask"
            /\ events' = Append(events, Event(k, id))
            /\ UNCHANGED <<compactable, dropped, lost>>
  /\ UNCHANGED <<senders, closed, receiver_open, notify, pc, seen, got>>

\* Mutant of NotifyOne: only a consumer that already waits is woken.
NotifyWithoutPermit(s) ==
  /\ sender[s] = "notify"
  /\ sender' = [sender EXCEPT ![s] = "open"]
  /\ pc' = IF pc = "wait" THEN "idle" ELSE pc
  /\ UNCHANGED <<queue, senders, closed, receiver_open, notify, seen, got, history>>

\* notify_one, after the lock: wakes the consumer or leaves a permit.
NotifyOne(s) ==
  /\ sender[s] = "notify"
  /\ sender' = [sender EXCEPT ![s] = "open"]
  /\ IF pc = "wait" THEN pc' = "idle" /\ UNCHANGED permit
                    ELSE permit' = TRUE /\ UNCHANGED pc
  /\ UNCHANGED <<queue, senders, closed, receiver_open, waiters, seen, got, history>>

Clone(s, t) ==
  /\ sender[s] = "open" /\ sender[t] = "none"
  /\ senders' = senders + 1
  /\ sender' = [sender EXCEPT ![t] = "open"]
  /\ UNCHANGED <<queue, closed, receiver_open, notify, pc, seen, got, history>>

\* Drop for EventSender: the last one closes the queue.
DropSender(s) ==
  /\ sender[s] = "open"
  /\ senders' = senders - 1
  /\ closed' = (senders' = 0)
  /\ sender' = [sender EXCEPT ![s] = IF senders' = 0 THEN "closing" ELSE "gone"]
  /\ UNCHANGED <<queue, receiver_open, notify, pc, seen, got, history>>

\* notify_waiters: wakes whoever waits or holds a Notified future; no permit.
NotifyWaiters(s) ==
  /\ sender[s] = "closing"
  /\ sender' = [sender EXCEPT ![s] = "gone"]
  /\ waiters' = TRUE
  /\ pc' = IF pc = "wait" THEN "idle" ELSE pc
  /\ UNCHANGED <<queue, senders, closed, receiver_open, permit, seen, got, history>>

-----------------------------------------------------------------------------
(* The consumer                                                            *)

Pop ==
  /\ events # <<>>
  /\ got' = Append(got, Head(events))
  /\ events' = Tail(events)
  /\ compactable' = IF is_compactable(Head(events)) THEN compactable - 1 ELSE compactable
  /\ UNCHANGED dropped

\* The terminal host's try_next.
TryRecv ==
  /\ pc = "idle"
  /\ Pop
  /\ UNCHANGED <<senders, closed, receiver_open, notify, sender, pc, seen, history>>

RecvStart ==
  /\ pc = "idle"
  /\ pc' = "try"
  /\ seen' = waiters
  /\ UNCHANGED <<queue, senders, closed, receiver_open, notify, sender, got, history>>

RecvTry ==
  /\ pc = "try"
  /\ \/ Pop /\ pc' = "idle"
     \/ events = <<>> /\ pc' = "check" /\ UNCHANGED <<queue, got>>
  /\ UNCHANGED <<senders, closed, receiver_open, notify, sender, seen, history>>

\* closed is read under a lock of its own; recv returns None on it.
RecvCheck ==
  /\ pc = "check"
  /\ pc' = IF closed THEN "end" ELSE "await"
  /\ UNCHANGED <<queue, senders, closed, receiver_open, notify, sender, seen, got, history>>

\* The first poll of notified.await.
RecvAwait ==
  /\ pc = "await"
  /\ pc' = IF permit \/ waiters # seen THEN "idle" ELSE "wait"
  /\ permit' = (permit /\ waiters # seen)
  /\ UNCHANGED <<queue, senders, closed, receiver_open, waiters, sender, seen, got, history>>

\* Drop for EventReceiver, between two calls or inside one that is dropped.
DropReceiver ==
  /\ receiver_open
  /\ receiver_open' = FALSE
  /\ events' = <<>> /\ compactable' = 0
  /\ pc' = "gone"
  /\ UNCHANGED <<dropped, senders, closed, notify, sender, seen, got, history>>

Over ==
  /\ \A s \in Senders : sender[s] \in {"none", "gone"}
  /\ pc \in {"end", "gone"}
  /\ UNCHANGED vars

Consume == RecvStart \/ RecvTry \/ RecvCheck \/ RecvAwait

Next ==
  \/ \E s \in Senders :
       \/ \E k \in Kinds : Send(s, k)
       \/ NotifyOne(s) \/ DropSender(s) \/ NotifyWaiters(s)
       \/ \E t \in Senders : Clone(s, t)
  \/ TryRecv \/ Consume \/ DropReceiver \/ Over

Spec == Init /\ [][Next]_vars

\* A producer thread finishes the call it is in; an awaited recv is polled.
FairSpec ==
  /\ Spec
  /\ \A s \in Senders : WF_vars(NotifyOne(s)) /\ WF_vars(NotifyWaiters(s))
  /\ WF_vars(Consume)

-----------------------------------------------------------------------------
(* Properties                                                              *)

Stream == got \o events

\* Type invariant.
TypeOK ==
  /\ \A i \in DOMAIN events :
       events[i] \in [kind : Kinds \cup {"overflow"}, ids : Seq(1..MaxSends), count : 0..MaxSends]
  /\ compactable \in 0..EVENT_QUEUE_CAP
  /\ dropped \in 0..MaxSends /\ lost \in 0..MaxSends
  /\ senders \in 0..Cardinality(Senders)
  /\ closed \in BOOLEAN /\ receiver_open \in BOOLEAN
  /\ permit \in BOOLEAN /\ waiters \in BOOLEAN /\ seen \in BOOLEAN
  /\ sender \in [Senders -> {"none", "open", "notify", "closing", "gone"}]
  /\ pc \in {"idle", "try", "check", "await", "wait", "end", "gone"}

\* The consumer sees the sends in the order they were made, merged deltas
\* included, whatever was evicted in between: global event order is preserved.
OrderPreserved ==
  \A i, j \in DOMAIN Stream :
    /\ \A a, b \in DOMAIN Stream[i].ids : a < b => Stream[i].ids[a] < Stream[i].ids[b]
    /\ i < j => \A x \in Range(Stream[i].ids), y \in Range(Stream[j].ids) : x < y

\* Structural events are never discarded, and no event changes its kind.
StructuralKept ==
  receiver_open =>
    \A n \in DOMAIN sent : sent[n] \in {"ask", "idle"} =>
      \E i \in DOMAIN Stream : Stream[i].kind = sent[n] /\ n \in Range(Stream[i].ids)

\* The counter that decides evictions is the number of presentation events in the
\* queue, on every path that adds or takes one, and stays within the cap.
CounterExact ==
  /\ compactable = Cardinality({i \in DOMAIN events : is_compactable(events[i])})
  /\ compactable <= EVENT_QUEUE_CAP

\* The evictions the notices among these events tell of; other events count 0.
Announced(s) ==
  LET sum[n \in 0..Len(s)] == IF n = 0 THEN 0 ELSE sum[n - 1] + s[n].count
  IN  sum[Len(s)]

\* By the time the host reads an Idle it has read of every event evicted before
\* it was sent: the notices add up, and what is not announced yet is in dropped.
LossAnnounced ==
  receiver_open =>
    /\ Announced(Stream) + dropped = lost
    /\ (events # <<>> /\ Last(events).kind = "idle") => dropped = 0

\* A consumer that waits is woken if something is there to read.
WaiterIsWoken == (pc = "wait" /\ events # <<>>) ~> (pc # "wait")

\* When the last producer goes, recv returns None rather than wait for ever.
CloseEndsRecv == closed ~> (pc \in {"end", "gone"})

\* No wake-up is lost, neither a send's nor the last drop's, wherever it falls
\* between the receiver's look at the queue and its wait.
NoLostWakeup == WaiterIsWoken /\ CloseEndsRecv

\* What the host reads is what the producers sent, in order, less presentation
\* events whose number it is told; nothing structural is lost at the limit, and
\* the counter that decides when to evict never drifts from the queue.
QueueSound == OrderPreserved /\ StructuralKept /\ CounterExact /\ LossAnnounced

\* The "lossless single-consumer queue" of event.rs: recv ends with everything read.
EndMeansDrained == pc = "end" => events = <<>>
=============================================================================
