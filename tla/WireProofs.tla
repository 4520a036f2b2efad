----------------------------- MODULE WireProofs -----------------------------
(***************************************************************************)
(* What the DLR chat promises, for conversations of any length, any        *)
(* messages and any number of sends, abandoned sends and restarts; what    *)
(* the receiver's store keeps through a crash; and what the provider       *)
(* client's retries and replays promise the agent.                         *)
(***************************************************************************)
EXTENDS DlrChat, DlrStore, Provider, SequenceTheorems, FiniteSetTheorems, WellFoundedInduction, TLAPS

-----------------------------------------------------------------------------
(* Induction over an initial segment of the naturals, by least             *)
(* counterexample, so that no operator has to be instantiated.             *)

LEMMA Least ==
  ASSUME NEW S, S \subseteq Nat, S # {}
  PROVE  \E x \in S : \A y \in S : x <= y
<1> DEFINE Less == {ss \in Nat \X Nat : ss[1] < ss[2]}
<1>1. IsWellFoundedOn(Less, Nat)
  BY NatLessThanWellFounded, Zenon DEF OpToRel
<1> HIDE DEF Less
<1>2. PICK x \in S : \A y \in S : ~(<<y, x>> \in Less)
  BY <1>1, WFMin
<1>3. ASSUME NEW y \in S PROVE x <= y
  <2>1. <<y, x>> \in Nat \X Nat
    OBVIOUS
  <2>2. <<y, x>> \notin Less
    BY <1>2
  <2>3. QED
    BY <2>1, <2>2 DEF Less
<1>4. QED
  BY <1>3

LEMMA Segment ==
  ASSUME NEW L \in Nat, NEW S, 0 \in S, \A n \in 1..L : n - 1 \in S => n \in S
  PROVE  0..L \subseteq S
<1> DEFINE Bad == (0..L) \ S
<1>1. SUFFICES ASSUME Bad # {} PROVE FALSE
  OBVIOUS
<1>2. Bad \subseteq Nat
  OBVIOUS
<1>3. PICK m \in Bad : \A y \in Bad : m <= y
  BY <1>1, <1>2, Least, Zenon
<1>4. m \in 1..L /\ m - 1 \in 0..L /\ ~(m <= m - 1)
  OBVIOUS
<1>5. m - 1 \notin Bad
  BY <1>3, <1>4
<1>6. QED
  BY <1>4, <1>5

\* The function on 0..L that starts at e and goes on by F.
Iterates(h, L, S, e, F) ==
  h \in [0..L -> S] /\ h[0] = e /\ \A n \in 1..L : h[n] = F[<<n, h[n - 1]>>]

\* A step function on a set defines a function on the segment.
LEMMA Recursion ==
  ASSUME NEW S, NEW L, L \in Nat, NEW e, e \in S, NEW F, F \in [(1..L) \X S -> S]
  PROVE  \E h : Iterates(h, L, S, e, F)
<1> DEFINE Upto(m, h) == h \in [0..m -> S] /\ h[0] = e /\ \A n \in 1..m : h[n] = F[<<n, h[n - 1]>>]
           Good == {m \in 0..L : \E h : Upto(m, h)}
<1>1. 0 \in Good
  <2>1. Upto(0, [n \in 0..0 |-> e])
    OBVIOUS
  <2> HIDE DEF Upto
  <2>2. QED
    BY <2>1
<1>2. ASSUME NEW m \in 1..L, m - 1 \in Good PROVE m \in Good
  <2>1. PICK h : Upto(m - 1, h)
    BY <1>2
  <2>2. m - 1 \in 0..(m - 1) /\ h[m - 1] \in S /\ <<m, h[m - 1]>> \in (1..L) \X S
    BY <2>1
  <2>3. F[<<m, h[m - 1]>>] \in S
    BY <2>2
  <2> DEFINE v == F[<<m, h[m - 1]>>]
             g == [n \in 0..m |-> IF n = m THEN v ELSE h[n]]
  <2> HIDE DEF v
  <2>4. g \in [0..m -> S]
    <3>1. ASSUME NEW n \in 0..m PROVE (IF n = m THEN v ELSE h[n]) \in S
      <4>1. n # m => n \in 0..(m - 1)
        OBVIOUS
      <4>2. QED
        BY <2>1, <2>3, <4>1 DEF v
    <3>2. QED
      BY <3>1
  <2>5. g[0] = e
    BY <2>1
  <2>6. g[m] = v /\ g[m - 1] = h[m - 1]
    BY <2>2
  <2>7. ASSUME NEW n \in 1..m, n # m PROVE g[n] = F[<<n, g[n - 1]>>]
    <3>1. n \in 1..(m - 1) /\ n \in 0..m /\ n - 1 \in 0..m /\ n - 1 # m
      BY <2>7
    <3>2. g[n] = h[n] /\ g[n - 1] = h[n - 1]
      BY <2>7, <3>1
    <3>3. QED
      BY <2>1, <3>1, <3>2
  <2> HIDE DEF g
  <2>8. Upto(m, g)
    BY <2>4, <2>5, <2>6, <2>7 DEF v
  <2> HIDE DEF Upto
  <2>9. QED
    BY <2>8
<1>3. 0..L \subseteq Good
  <2> HIDE DEF Good
  <2>1. QED
    BY <1>1, <1>2, Segment
<1>4. L \in Good
  BY <1>3
<1>5. QED
  BY <1>4 DEF Iterates

-----------------------------------------------------------------------------
(* Sequences: a prefix and the rest make the whole.                        *)

LEMMA PrefixJoin ==
  ASSUME NEW M, NEW s \in Seq(M), NEW t \in Seq(M), IsPrefix(s, t)
  PROVE  s \o SubSeq(t, Len(s) + 1, Len(t)) = t
<1>1. Len(s) \in Nat /\ Len(t) \in Nat /\ Len(s) <= Len(t)
  BY DEF IsPrefix
<1>2. \A i \in 1..Len(s) : s[i] = t[i]
  <2>1. ASSUME NEW i \in 1..Len(s) PROVE s[i] = t[i]
    <3>1. SubSeq(s, 1, Len(s))[i] = s[i] /\ SubSeq(t, 1, Len(s))[i] = t[i]
      BY <1>1
    <3>2. QED
      BY <3>1 DEF IsPrefix
  <2>2. QED
    BY <2>1
<1> DEFINE r == SubSeq(t, Len(s) + 1, Len(t))
<1>3. r \in Seq(M) /\ Len(r) = Len(t) - Len(s) /\ \A i \in 1..(Len(t) - Len(s)) : r[i] = t[Len(s) + i]
  BY <1>1
<1> HIDE DEF r
<1>4. s \o r \in Seq(M) /\ Len(s \o r) = Len(t)
  BY <1>1, <1>3
<1>5. ASSUME NEW i \in 1..Len(t) PROVE (s \o r)[i] = t[i]
  <2>1. CASE i <= Len(s)
    <3>1. (s \o r)[i] = s[i] /\ i \in 1..Len(s)
      BY <1>1, <1>3, <2>1
    <3>2. QED
      BY <1>2, <3>1
  <2>2. CASE i > Len(s)
    <3>1. (s \o r)[i] = r[i - Len(s)] /\ i - Len(s) \in 1..(Len(t) - Len(s)) /\ Len(s) + (i - Len(s)) = i
      BY <1>1, <1>3, <2>2
    <3>2. QED
      BY <1>3, <3>1
  <2>3. i <= Len(s) \/ i > Len(s)
    BY <1>1
  <2>4. QED
    BY <2>1, <2>2, <2>3
<1>6. QED
  BY <1>4, <1>5, SeqEqual DEF r

LEMMA PrefixGrown ==
  ASSUME NEW M, NEW s \in Seq(M), NEW t \in Seq(M)
  PROVE  IsPrefix(s, s \o t) /\ IsPrefix(s, s) /\ IsPrefix(<<>>, s)
<1>1. Len(s) <= Len(s \o t) /\ SubSeq(s, 1, Len(s)) = SubSeq(s \o t, 1, Len(s))
  OBVIOUS
<1>2. Len(<<>>) = 0 /\ SubSeq(<<>>, 1, 0) = SubSeq(s, 1, 0)
  OBVIOUS
<1>3. QED
  BY <1>1, <1>2 DEF IsPrefix

\* reconstruct returns all of the log from a position on when all of it is stored.
LEMMA StoredWhole ==
  ASSUME log \in Seq(Msgs), BlocksOf(log) \subseteq blocks, NEW from \in 0..Len(log)
  PROVE  Stored(from) = SubSeq(log, from + 1, Len(log))
<1> DEFINE L == Len(log) - from
           Rec(h) == h = [n \in 0..L |->
                            IF n = 0 THEN <<>>
                            ELSE IF Block(log, from + n) \in blocks
                                 THEN Append(h[n - 1], Payload(Block(log, from + n)))
                            ELSE h[n - 1]]
           g == [n \in 0..L |-> SubSeq(log, from + 1, from + n)]
<1>1. Len(log) \in Nat /\ L \in Nat /\ DOMAIN log = 1..Len(log)
  OBVIOUS
<1>2. \A n \in 1..L : Block(log, from + n) \in blocks /\ Payload(Block(log, from + n)) = log[from + n]
  BY <1>1 DEF BlocksOf, Block, Payload
<1>3. g[0] = <<>>
  BY <1>1
<1>4. \A n \in 1..L : g[n] = Append(g[n - 1], log[from + n])
  <2>1. ASSUME NEW n \in 1..L
        PROVE  SubSeq(log, from + 1, from + n) = Append(SubSeq(log, from + 1, from + (n - 1)), log[from + n])
    <3> DEFINE a == SubSeq(log, from + 1, from + n)
               b == SubSeq(log, from + 1, from + (n - 1))
    <3>1. a \in Seq(Msgs) /\ Len(a) = n /\ \A i \in 1..n : a[i] = log[from + i]
      BY <1>1
    <3>2. b \in Seq(Msgs) /\ Len(b) = n - 1 /\ \A i \in 1..(n - 1) : b[i] = log[from + i]
      BY <1>1
    <3>3. log[from + n] \in Msgs
      BY <1>1
    <3> HIDE DEF a, b
    <3>4. Append(b, log[from + n]) \in Seq(Msgs) /\ Len(Append(b, log[from + n])) = n
      BY <3>2, <3>3
    <3>5. \A i \in 1..n : Append(b, log[from + n])[i] = a[i]
      BY <3>1, <3>2, <3>3
    <3>6. QED
      BY <3>1, <3>4, <3>5, SeqEqual DEF a, b
  <2>2. ASSUME NEW n \in 1..L
        PROVE  g[n] = SubSeq(log, from + 1, from + n) /\ g[n - 1] = SubSeq(log, from + 1, from + (n - 1))
    <3>1. n \in 0..L /\ n - 1 \in 0..L
      BY <1>1
    <3> HIDE DEF L
    <3>2. QED
      BY <3>1
  <2> HIDE DEF g, L
  <2>3. QED
    BY <2>1, <2>2
<1> HIDE DEF g
<1>5. g = [n \in 0..L |-> g[n]]
  BY DEF g
<1>6. Rec(g)
  <2>1. ASSUME NEW n \in 0..L
        PROVE  g[n] = IF n = 0 THEN <<>>
                      ELSE IF Block(log, from + n) \in blocks
                           THEN Append(g[n - 1], Payload(Block(log, from + n)))
                      ELSE g[n - 1]
    <3>1. CASE n = 0
      BY <1>3, <3>1
    <3>2. CASE n # 0
      <4>1. n \in 1..L
        BY <1>1, <3>2
      <4> HIDE DEF L
      <4>2. QED
        BY <1>2, <1>4, <3>2, <4>1
    <3>3. QED
      BY <3>1, <3>2
  <2>2. QED
    BY <1>5, <2>1
<1>7. ASSUME NEW h, Rec(h) PROVE h = g
  <2>1. h = [n \in 0..L |-> h[n]] /\ h[0] = <<>>
    BY <1>1, <1>7
  <2>a. \A n \in 0..L : h[n] = IF n = 0 THEN <<>>
                               ELSE IF Block(log, from + n) \in blocks
                                    THEN Append(h[n - 1], Payload(Block(log, from + n)))
                               ELSE h[n - 1]
    BY <1>7
  <2>b. \A n \in 1..L : n \in 0..L /\ n - 1 \in 0..L /\ n # 0
    BY <1>1
  <2> HIDE DEF L
  <2>2. \A n \in 1..L : h[n] = Append(h[n - 1], log[from + n])
    BY <1>2, <2>a, <2>b
  <2> DEFINE Same == {n \in 0..L : h[n] = g[n]}
  <2>3. 0 \in Same /\ \A n \in 1..L : n - 1 \in Same => n \in Same
    <3>1. 0 \in 0..L
      BY <1>1
    <3>2. QED
      BY <1>3, <1>4, <2>1, <2>2, <2>b, <3>1
  <2>4. 0..L \subseteq Same
    <3> HIDE DEF Same
    <3>1. QED
      BY <1>1, <2>3, Segment, Zenon
  <2>5. QED
    BY <1>5, <2>1, <2>4
<1>8. (CHOOSE h : Rec(h)) = g
  BY <1>6, <1>7
<1>9. Stored(from) = (CHOOSE h : Rec(h))[L]
  BY DEF Stored
<1>10. g[L] = SubSeq(log, from + 1, from + L) /\ from + L = Len(log)
  BY <1>1 DEF g
<1>11. QED
  BY <1>8, <1>9, <1>10
-----------------------------------------------------------------------------
(* The inductive invariant.                                                *)

Entry == [root : Seq(Msgs), msgs : Seq(Msgs)]
Handler == [send : Nat, stage : {"append", "build", "forward"}, base : Seq(Msgs), root : Seq(Msgs),
            hit : SUBSET Entry, msgs : Seq(Msgs)]

ChatTypes ==
  /\ conv \in Seq(Msgs) /\ acked \in Seq(Msgs) /\ ids \in Seq(Msgs) /\ base \in Seq(Msgs)
  /\ log \in Seq(Msgs) /\ awaiting \in BOOLEAN
  /\ chatPhase \in {"idle", "append", "resync", "bulk", "invoke"}
  /\ cache \subseteq Entry /\ handlers \subseteq Handler /\ sends \in Nat
  /\ Len(conv) <= MaxLen

\* The base is a prefix of the session, all of it unless an append is under way.
SessionKnown ==
  /\ IsPrefix(base, ids)
  /\ ~awaiting => base = ids
  /\ chatPhase # "idle" => awaiting

\* What the receiver cannot reconstruct it knows to be missing, and a cached
\* projection is that of its root.
ReceiverKnows ==
  /\ BlocksOf(log) \subseteq blocks \cup missing
  /\ \A c \in cache : c.msgs = c.root

\* A handler works on its own: the log is at its root from the append on, and the
\* projection it forwards is that of the root it acknowledges.
HandlerAlone ==
  /\ \A g, h \in handlers : g = h
  /\ chatPhase \in {"resync", "bulk"} => handlers = {}
  /\ \A h \in handlers :
       /\ IsPrefix(h.base, h.root)
       /\ \A c \in h.hit : c.msgs = h.base
       /\ h.stage = "build" => log = h.root /\ missing = {}
       /\ h.stage = "forward" => h.msgs = h.root
       /\ chatPhase \in {"append", "invoke"} => h.root = ids

\* The model was asked with the messages of the client's session.
ReplicaExact == outcome[1] = "answered" => outcome[2] = ids

ChatInv == ChatTypes /\ SessionKnown /\ ReceiverKnows /\ HandlerAlone /\ ReplicaExact

LEMMA ChatStart == ChatInit => ChatInv
<1> SUFFICES ASSUME ChatInit PROVE ChatInv
  OBVIOUS
<1> USE DEF ChatInit
<1>0. <<>> \in Seq(Msgs) /\ Len(<<>>) <= MaxLen
  BY DlrChatAssumption
<1>1. ChatTypes
  BY <1>0 DEF ChatTypes
<1>2. SessionKnown
  BY DEF SessionKnown, IsPrefix
<1>3. ReceiverKnows
  BY DEF ReceiverKnows, BlocksOf
<1>4. HandlerAlone /\ ReplicaExact
  BY DEF HandlerAlone, ReplicaExact
<1>5. QED
  BY <1>1, <1>2, <1>3, <1>4 DEF ChatInv

\* Steps of the client that leave receiver and handlers alone.
LEMMA ConverseStep ==
  ASSUME ChatInv, NEW c \in Convs, Converse(c)
  PROVE  ChatInv'
<1> USE DEF Converse, client, receiver
<1>1. c \in Seq(Msgs) /\ Len(c) <= MaxLen
  BY DlrChatAssumption DEF Convs, SeqOf
<1>2. ChatTypes'
  BY <1>1 DEF ChatInv, ChatTypes
<1>3. SessionKnown'
  BY DEF ChatInv, SessionKnown
<1>4. ReceiverKnows'
  BY DEF ChatInv, ReceiverKnows, BlocksOf, Block
<1>5. HandlerAlone'
  BY DEF ChatInv, HandlerAlone
<1>6. ReplicaExact'
  BY DEF ChatInv, ReplicaExact
<1>7. QED
  BY <1>2, <1>3, <1>4, <1>5, <1>6 DEF ChatInv

LEMMA AbandonStep ==
  ASSUME ChatInv, Abandon
  PROVE  ChatInv'
<1> USE DEF Abandon, Failed, client, receiver
<1>2. ChatTypes'
  BY DEF ChatInv, ChatTypes
<1>3. SessionKnown'
  BY DEF ChatInv, SessionKnown
<1>4. ReceiverKnows'
  BY DEF ChatInv, ReceiverKnows, BlocksOf, Block
<1>5. HandlerAlone'
  BY DEF ChatInv, HandlerAlone
<1>6. ReplicaExact'
  BY DEF ChatInv, ReplicaExact
<1>7. QED
  BY <1>2, <1>3, <1>4, <1>5, <1>6 DEF ChatInv

LEMMA ClientRestartStep ==
  ASSUME ChatInv, ClientRestart
  PROVE  ChatInv'
<1> USE DEF ClientRestart, client, receiver
<1>1. <<>> \in Seq(Msgs)
  OBVIOUS
<1>2. ChatTypes'
  BY <1>1 DEF ChatInv, ChatTypes
<1>3. SessionKnown'
  BY DEF ChatInv, SessionKnown, IsPrefix
<1>4. ReceiverKnows'
  BY DEF ChatInv, ReceiverKnows, BlocksOf, Block
<1>5. HandlerAlone'
  BY DEF ChatInv, HandlerAlone
<1>6. ReplicaExact'
  BY DEF ChatInv, ReplicaExact
<1>7. QED
  BY <1>2, <1>3, <1>4, <1>5, <1>6 DEF ChatInv

\* What a send makes of the session: it keeps it or starts a fresh one.
SendKeeps == PrefixMatches
SendOld == IF PrefixMatches THEN ids ELSE <<>>
SendNew == SubSeq(conv, IF PrefixMatches THEN Len(acked) + 1 ELSE 1, Len(conv))
SendBase == IF PrefixMatches THEN base ELSE <<>>

LEMMA SendCases ==
  ASSUME Send
  PROVE  \/ /\ ~prepare_ref(PrefixMatches /\ awaiting, SendNew)
            /\ Failed /\ ids' = SendOld /\ base' = SendBase /\ awaiting' = (PrefixMatches /\ awaiting)
            /\ UNCHANGED handlers
         \/ /\ prepare_ref(PrefixMatches /\ awaiting, SendNew)
            /\ ids' = SendOld \o SendNew /\ base' = SendBase /\ awaiting' = TRUE
            /\ chatPhase' = "append" /\ outcome' = <<"none">>
            /\ handlers' = handlers \cup {Envelope(sends + 1, SendBase, SendOld \o SendNew)}
BY DEF Send, SendOld, SendNew, SendBase, ingest_turn

LEMMA SendTypes ==
  ASSUME ChatTypes, SessionKnown
  PROVE  /\ SendOld \in Seq(Msgs) /\ SendNew \in Seq(Msgs) /\ SendBase \in Seq(Msgs)
         /\ IsPrefix(SendBase, SendOld)
         /\ ~(PrefixMatches /\ awaiting) => SendBase = SendOld
         /\ IsPrefix(SendBase, SendOld \o SendNew)
<1>1. SendOld \in Seq(Msgs) /\ SendBase \in Seq(Msgs)
  BY DEF ChatTypes, SendOld, SendBase
<1>2. SendNew \in Seq(Msgs)
  <2>1. \A m \in Nat \ {0} : SubSeq(conv, m, Len(conv)) \in Seq(Msgs)
    BY DEF ChatTypes
  <2>2. Len(acked) + 1 \in Nat \ {0} /\ 1 \in Nat \ {0}
    BY DEF ChatTypes
  <2>3. QED
    BY <2>1, <2>2 DEF SendNew
<1>3. IsPrefix(SendBase, SendOld)
  BY PrefixGrown DEF SessionKnown, SendBase, SendOld, IsPrefix
<1>4. ~(PrefixMatches /\ awaiting) => SendBase = SendOld
  BY DEF SessionKnown, SendBase, SendOld
<1>5. IsPrefix(SendBase, SendOld \o SendNew)
  BY <1>1, <1>2, <1>3 DEF IsPrefix
<1>6. QED
  BY <1>1, <1>2, <1>3, <1>4, <1>5

LEMMA SendStep ==
  ASSUME ChatInv, Send, ~Lingers
  PROVE  ChatInv'
<1> DEFINE e == Envelope(sends + 1, SendBase, SendOld \o SendNew)
<1>1. SendOld \in Seq(Msgs) /\ SendNew \in Seq(Msgs) /\ SendBase \in Seq(Msgs)
  BY SendTypes DEF ChatInv
<1>2. IsPrefix(SendBase, SendOld) /\ (~(PrefixMatches /\ awaiting) => SendBase = SendOld)
  BY SendTypes DEF ChatInv
<1>3. IsPrefix(SendBase, SendOld \o SendNew) /\ SendOld \o SendNew \in Seq(Msgs)
  BY <1>1, SendTypes DEF ChatInv
<1>4. handlers = {} /\ chatPhase = "idle" /\ sends' = sends + 1 /\ UNCHANGED <<conv, acked, log, blocks, missing, cache>>
  BY DEF Send, receiver
<1>5. e \in Handler /\ e.base = SendBase /\ e.root = SendOld \o SendNew /\ e.stage = "append" /\ e.hit = {}
  BY <1>1, <1>3 DEF Envelope, Handler, ChatInv, ChatTypes
<1> HIDE DEF e
<1>6. ReceiverKnows'
  BY <1>4 DEF ChatInv, ReceiverKnows, BlocksOf, Block
<1>7. CASE /\ Failed /\ ids' = SendOld /\ base' = SendBase /\ awaiting' = (PrefixMatches /\ awaiting)
           /\ UNCHANGED handlers
  <2>1. ChatTypes'
    BY <1>1, <1>4, <1>7 DEF ChatInv, ChatTypes, Failed, PrefixMatches
  <2>2. SessionKnown'
    BY <1>2, <1>7 DEF SessionKnown, Failed
  <2>3. HandlerAlone' /\ ReplicaExact'
    BY <1>4, <1>7 DEF HandlerAlone, ReplicaExact, Failed
  <2>4. QED
    BY <1>6, <2>1, <2>2, <2>3 DEF ChatInv
<1>8. CASE /\ ids' = SendOld \o SendNew /\ base' = SendBase /\ awaiting' = TRUE
           /\ chatPhase' = "append" /\ outcome' = <<"none">>
           /\ handlers' = handlers \cup {e}
  <2>1. ChatTypes'
    BY <1>1, <1>3, <1>4, <1>5, <1>8 DEF ChatInv, ChatTypes
  <2>2. SessionKnown'
    BY <1>3, <1>8 DEF SessionKnown
  <2>3. HandlerAlone'
    BY <1>3, <1>4, <1>5, <1>8 DEF HandlerAlone
  <2>4. ReplicaExact'
    BY <1>8 DEF ReplicaExact
  <2>5. QED
    BY <1>6, <2>1, <2>2, <2>3, <2>4 DEF ChatInv
<1>9. QED
  BY <1>7, <1>8, SendCases DEF e

\* A handler that goes, and the reply of one that is refused.
LEMMA RefuseStep ==
  ASSUME ChatInv, NEW h \in handlers, NEW then \in {"idle", "resync"}, Refuse(h, then),
         UNCHANGED <<conv, acked, ids, base, awaiting, sends, faults>>
  PROVE  ChatInv'
<1> USE DEF Refuse, Gone, receiver
<1>1. handlers' = {} /\ handlers' \subseteq handlers
  BY DEF ChatInv, HandlerAlone
<1>2. chatPhase' = chatPhase \/ (chatPhase # "idle" /\ chatPhase' = then)
  BY DEF Mine
<1>3. outcome' = outcome \/ outcome' = <<"error">>
  OBVIOUS
<1>4. ChatTypes'
  BY <1>1, <1>2 DEF ChatInv, ChatTypes
<1>5. SessionKnown'
  BY <1>2 DEF ChatInv, SessionKnown
<1>6. ReceiverKnows'
  BY DEF ChatInv, ReceiverKnows, BlocksOf, Block
<1>7. HandlerAlone'
  BY <1>1 DEF HandlerAlone
<1>8. ReplicaExact'
  BY <1>3 DEF ChatInv, ReplicaExact
<1>9. QED
  BY <1>4, <1>5, <1>6, <1>7, <1>8 DEF ChatInv

LEMMA HandleAppendStep ==
  ASSUME ChatInv, NEW h \in handlers, HandleAppend(h)
  PROVE  ChatInv'
<1>1. CASE Conflict(h)
  <2>1. UNCHANGED <<conv, acked, ids, base, awaiting, sends, faults>>
    BY DEF HandleAppend
  <2>2. PICK then \in {"idle", "resync"} : Refuse(h, then)
    BY <1>1 DEF Conflict
  <2>3. QED
    BY <2>1, <2>2, RefuseStep
<1>2. CASE ~Conflict(h)
  <2> DEFINE g == [h EXCEPT !.stage = "build", !.hit = Lookup(h.base)]
  <2>1. /\ missing = {} /\ (h.base = log \/ h.root = log) /\ h.stage = "append"
        /\ log' = IF h.base = log THEN log \o SubSeq(h.root, Len(h.base) + 1, Len(h.root)) ELSE log
        /\ blocks' = blocks \cup BlocksOf(log') /\ handlers' = (handlers \ {h}) \cup {g}
        /\ UNCHANGED <<missing, cache, chatPhase, outcome, conv, acked, ids, base, awaiting, sends, faults>>
    BY <1>2 DEF HandleAppend, OnCurrentRoot, Replayed, Move
  <2>2. h \in Handler /\ IsPrefix(h.base, h.root) /\ h.base \in Seq(Msgs) /\ h.root \in Seq(Msgs)
    BY DEF ChatInv, ChatTypes, HandlerAlone, Handler
  <2>3. log' = h.root
    BY <2>1, <2>2, PrefixJoin
  <2>4. Lookup(h.base) \subseteq Entry /\ \A c \in Lookup(h.base) : c.msgs = h.base
    BY DEF Lookup, ChatInv, ChatTypes, ReceiverKnows
  <2>5. g \in Handler /\ g.base = h.base /\ g.root = h.root /\ g.stage = "build" /\ g.hit = Lookup(h.base)
    BY <2>2, <2>4 DEF Handler
  <2> HIDE DEF g
  <2>6. handlers = {h} /\ handlers' = {g}
    BY <2>1 DEF ChatInv, HandlerAlone
  <2>7. ChatTypes'
    BY <2>1, <2>2, <2>3, <2>5, <2>6 DEF ChatInv, ChatTypes
  <2>8. SessionKnown'
    BY <2>1 DEF ChatInv, SessionKnown
  <2>9. ReceiverKnows'
    BY <2>1 DEF ChatInv, ReceiverKnows
  <2>10. HandlerAlone'
    <3>1. chatPhase \notin {"resync", "bulk"}
      BY DEF ChatInv, HandlerAlone
    <3>2. chatPhase \in {"append", "invoke"} => h.root = ids
      BY DEF ChatInv, HandlerAlone
    <3>3. QED
      BY <2>1, <2>2, <2>3, <2>4, <2>5, <2>6, <3>1, <3>2 DEF HandlerAlone
  <2>11. ReplicaExact'
    BY <2>1 DEF ChatInv, ReplicaExact
  <2>12. QED
    BY <2>7, <2>8, <2>9, <2>10, <2>11 DEF ChatInv
<1>3. QED
  BY <1>1, <1>2

LEMMA BuildStep ==
  ASSUME ChatInv, NEW h \in handlers, Build(h)
  PROVE  ChatInv'
<1> DEFINE usable == {c \in h.hit : Len(c.msgs) <= Len(log)}
           from == IF usable = {} THEN 0 ELSE Len((CHOOSE c \in usable : TRUE).msgs)
           tail == Stored(from)
           msgs == IF usable = {} THEN tail ELSE (CHOOSE c \in usable : TRUE).msgs \o tail
           g == [h EXCEPT !.stage = "forward", !.msgs = msgs]
<1>1. h \in Handler /\ h.base \in Seq(Msgs) /\ h.root \in Seq(Msgs) /\ IsPrefix(h.base, h.root)
  BY DEF ChatInv, ChatTypes, HandlerAlone, Handler
<1>2. log = h.root /\ missing = {} /\ \A c \in h.hit : c.msgs = h.base
  BY DEF Build, ChatInv, HandlerAlone
<1>3. log \in Seq(Msgs) /\ BlocksOf(log) \subseteq blocks
  BY <1>2 DEF ChatInv, ChatTypes, ReceiverKnows
<1>4. from \in 0..Len(log) /\ (usable # {} => from = Len(h.base) /\ (CHOOSE c \in usable : TRUE).msgs = h.base)
  <2>1. CASE usable = {}
    BY <1>3, <2>1
  <2>2. CASE usable # {}
    <3>1. PICK c \in usable : (CHOOSE d \in usable : TRUE) = c
      BY <2>2
    <3>2. c.msgs = h.base
      BY <1>2
    <3>3. QED
      BY <1>1, <1>2, <2>2, <3>1, <3>2 DEF IsPrefix
  <2>3. QED
    BY <2>1, <2>2
<1>5. tail = SubSeq(log, from + 1, Len(log))
  <2> HIDE DEF from
  <2>1. QED
    BY <1>3, <1>4, StoredWhole
<1>6. Len(tail) = Len(log) - from
  <2> HIDE DEF from
  <2>1. QED
    BY <1>3, <1>4, <1>5
<1>7. msgs = h.root
  <2>1. CASE usable = {}
    BY <1>2, <1>3, <1>5, <2>1
  <2>2. CASE usable # {}
    <3>1. msgs = h.base \o SubSeq(h.root, Len(h.base) + 1, Len(h.root))
      BY <1>2, <1>4, <1>5, <2>2
    <3>2. QED
      BY <1>1, <3>1, PrefixJoin
  <2>3. QED
    BY <2>1, <2>2
<1>8. /\ cache' = {[root |-> h.root, msgs |-> msgs]} /\ handlers' = (handlers \ {h}) \cup {g}
      /\ UNCHANGED <<log, blocks, missing, chatPhase, outcome, conv, acked, ids, base, awaiting, sends, faults>>
  BY <1>6 DEF Build, Move, receiver
<1>9. g \in Handler /\ g.base = h.base /\ g.root = h.root /\ g.stage = "forward" /\ g.hit = h.hit /\ g.msgs = h.root
  <2> HIDE DEF msgs
  <2>1. QED
    BY <1>1, <1>7 DEF Handler
<1> HIDE DEF usable, from, tail, msgs, g
<1>10. handlers = {h} /\ handlers' = {g}
  BY <1>8 DEF ChatInv, HandlerAlone
<1>11. cache' \subseteq Entry /\ \A c \in cache' : c.msgs = c.root
  <2>1. PICK c : c = [root |-> h.root, msgs |-> h.root] /\ cache' = {c}
    BY <1>7, <1>8
  <2>2. c \in Entry /\ c.msgs = c.root
    BY <1>1, <2>1 DEF Entry
  <2>3. QED
    BY <2>1, <2>2
<1>a. UNCHANGED <<log, blocks, missing, chatPhase, outcome, conv, acked, ids, base, awaiting, sends, faults>>
  BY <1>8
<1>12. ChatTypes'
  BY <1>9, <1>10, <1>11, <1>a DEF ChatInv, ChatTypes
<1>13. SessionKnown'
  BY <1>8 DEF ChatInv, SessionKnown
<1>14. ReceiverKnows'
  BY <1>11, <1>a DEF ChatInv, ReceiverKnows, BlocksOf, Block
<1>15. HandlerAlone'
  <2>1. chatPhase \notin {"resync", "bulk"} /\ (chatPhase \in {"append", "invoke"} => h.root = ids)
    BY DEF ChatInv, HandlerAlone
  <2>2. QED
    BY <1>1, <1>2, <1>8, <1>9, <1>10, <2>1 DEF HandlerAlone
<1>16. ReplicaExact'
  BY <1>8 DEF ChatInv, ReplicaExact
<1>17. QED
  BY <1>12, <1>13, <1>14, <1>15, <1>16 DEF ChatInv

LEMMA ForwardStep ==
  ASSUME ChatInv, NEW h \in handlers, Forward(h)
  PROVE  ChatInv'
<1>1. handlers' = {} /\ h.msgs = h.root /\ (chatPhase \in {"append", "invoke"} => h.root = ids)
  BY DEF Forward, Gone, ChatInv, HandlerAlone
<1>2. UNCHANGED <<conv, ids, log, blocks, missing, cache, sends, faults>>
  BY DEF Forward, client, receiver
<1>3. ReceiverKnows'
  BY <1>2 DEF ChatInv, ReceiverKnows, BlocksOf, Block
<1>4. HandlerAlone'
  BY <1>1 DEF HandlerAlone
<1>5. CASE ~Mine(h)
  <2>1. UNCHANGED <<acked, base, awaiting, outcome, chatPhase>>
    BY <1>5 DEF Forward, client
  <2>2. ChatTypes' /\ SessionKnown' /\ ReplicaExact'
    BY <1>1, <1>2, <2>1 DEF ChatInv, ChatTypes, SessionKnown, ReplicaExact
  <2>3. QED
    BY <1>3, <1>4, <2>2 DEF ChatInv
<1>6. CASE Mine(h)
  <2>1. chatPhase' = "idle" /\ base' = ids /\ awaiting' = FALSE /\ acked' = conv /\ outcome' = <<"answered", h.msgs>>
    BY <1>6 DEF Forward, apply_ack
  <2>2. h.root = ids
    BY <1>1, <1>6 DEF Mine
  <2>3. ChatTypes'
    BY <1>1, <1>2, <2>1 DEF ChatInv, ChatTypes
  <2>4. SessionKnown'
    BY <1>2, <2>1, PrefixGrown DEF ChatInv, ChatTypes, SessionKnown
  <2>5. ReplicaExact'
    BY <1>1, <1>2, <2>1, <2>2 DEF ReplicaExact
  <2>6. QED
    BY <1>3, <1>4, <2>3, <2>4, <2>5 DEF ChatInv
<1>7. QED
  BY <1>5, <1>6

LEMMA EvictStep ==
  ASSUME ChatInv, Evict
  PROVE  ChatInv'
<1> USE DEF Evict, client, receiver
<1>1. ChatTypes' /\ SessionKnown'
  BY DEF ChatInv, ChatTypes, SessionKnown
<1>2. ReceiverKnows'
  BY DEF ChatInv, ReceiverKnows, BlocksOf, Block
<1>3. HandlerAlone' /\ ReplicaExact'
  BY DEF ChatInv, HandlerAlone, ReplicaExact
<1>4. QED
  BY <1>1, <1>2, <1>3 DEF ChatInv

\* The invocation that follows a completed synchronization.
LEMMA InvokeStep ==
  ASSUME ChatInv, chatPhase \in {"resync", "bulk"},
         UNCHANGED <<conv, acked, ids, awaiting, outcome, sends, faults>>,
         cache' = {}, log' \in Seq(Msgs), BlocksOf(log') \subseteq blocks' \cup missing',
         \/ chatPhase' \in {"resync", "bulk"} /\ base' = base /\ handlers' = handlers
         \/ chatPhase' = "invoke" /\ base' = ids /\ handlers' = handlers \cup {Invocation}
  PROVE  ChatInv'
<1>1. handlers = {}
  BY DEF ChatInv, HandlerAlone
<1>2. Invocation \in Handler /\ Invocation.base = ids /\ Invocation.root = ids /\ Invocation.stage = "append"
      /\ Invocation.hit = {}
  BY DEF Invocation, Envelope, Handler, ChatInv, ChatTypes
<1>3. IsPrefix(ids, ids) /\ ids \in Seq(Msgs)
  BY PrefixGrown DEF ChatInv, ChatTypes
<1>4. ReceiverKnows'
  BY DEF ReceiverKnows
<1>5. ReplicaExact'
  BY DEF ChatInv, ReplicaExact
<1>6. CASE chatPhase' \in {"resync", "bulk"} /\ base' = base /\ handlers' = handlers
  <2>1. ChatTypes' /\ SessionKnown'
    BY <1>6 DEF ChatInv, ChatTypes, SessionKnown
  <2>2. HandlerAlone'
    BY <1>1, <1>6 DEF HandlerAlone
  <2>3. QED
    BY <1>4, <1>5, <2>1, <2>2 DEF ChatInv
<1>7. CASE chatPhase' = "invoke" /\ base' = ids /\ handlers' = handlers \cup {Invocation}
  <2>1. ChatTypes' /\ SessionKnown'
    BY <1>1, <1>2, <1>3, <1>7 DEF ChatInv, ChatTypes, SessionKnown
  <2>2. HandlerAlone'
    BY <1>1, <1>2, <1>3, <1>7 DEF HandlerAlone
  <2>3. QED
    BY <1>4, <1>5, <2>1, <2>2 DEF ChatInv
<1>8. QED
  BY <1>6, <1>7

LEMMA SynchronizeStep ==
  ASSUME ChatInv, Resync \/ (\E gen \in SUBSET BlocksOf(ids) : Bulk(gen))
  PROVE  ChatInv'
<1>1. CASE Resync
  <2>1. /\ chatPhase \in {"resync", "bulk"} /\ cache' = {} /\ log' = ids
        /\ UNCHANGED <<conv, acked, ids, awaiting, outcome, sends, faults, blocks>>
    BY <1>1 DEF Resync
  <2>2. log' \in Seq(Msgs) /\ BlocksOf(log') \subseteq blocks' \cup missing'
    BY <1>1, <2>1 DEF Resync, ChatInv, ChatTypes
  <2>3. \/ chatPhase' \in {"resync", "bulk"} /\ base' = base /\ handlers' = handlers
        \/ chatPhase' = "invoke" /\ base' = ids /\ handlers' = handlers \cup {Invocation}
    BY <1>1 DEF Resync
  <2>4. QED
    BY <2>1, <2>2, <2>3, InvokeStep
<1>2. CASE \E gen \in SUBSET BlocksOf(ids) : Bulk(gen)
  <2>0. PICK gen \in SUBSET BlocksOf(ids) : Bulk(gen)
    BY <1>2
  <2>1. /\ chatPhase \in {"resync", "bulk"} /\ cache' = {}
        /\ UNCHANGED <<conv, acked, ids, awaiting, outcome, sends, faults, log>>
    BY <2>0 DEF Bulk
  <2>2. log' \in Seq(Msgs) /\ BlocksOf(log') \subseteq blocks' \cup missing'
    BY <2>0, <2>1 DEF Bulk, ChatInv, ChatTypes, ReceiverKnows, BlocksOf, Block
  <2>3. \/ chatPhase' \in {"resync", "bulk"} /\ base' = base /\ handlers' = handlers
        \/ chatPhase' = "invoke" /\ base' = ids /\ handlers' = handlers \cup {Invocation}
    BY <2>0 DEF Bulk
  <2>4. QED
    BY <2>1, <2>2, <2>3, InvokeStep
<1>3. QED
  BY <1>1, <1>2

LEMMA SidecarRestartStep ==
  ASSUME ChatInv, NEW keeps \in BOOLEAN, SidecarRestart(keeps)
  PROVE  ChatInv'
<1> USE DEF SidecarRestart, Failed
<1>1. handlers' = {} /\ cache' = {} /\ UNCHANGED <<conv, acked, ids, base, awaiting, sends>>
  OBVIOUS
<1>2. log' \in Seq(Msgs) /\ BlocksOf(log') \subseteq blocks' \cup missing'
  <2>1. CASE keeps
    BY <2>1 DEF ChatInv, ChatTypes, ReceiverKnows, BlocksOf, Block, receiver
  <2>2. CASE ~keeps
    <3>1. log' = <<>> /\ <<>> \in Seq(Msgs) /\ DOMAIN <<>> = {}
      BY <2>2
    <3>2. QED
      BY <3>1 DEF BlocksOf
  <2>3. QED
    BY <2>1, <2>2
<1>3. chatPhase' = chatPhase \/ chatPhase' = "idle"
  OBVIOUS
<1>4. outcome' = outcome \/ outcome' = <<"error">>
  OBVIOUS
<1>5. ChatTypes'
  BY <1>1, <1>2, <1>3 DEF ChatInv, ChatTypes
<1>6. SessionKnown'
  BY <1>1, <1>3 DEF ChatInv, SessionKnown
<1>7. ReceiverKnows'
  BY <1>1, <1>2 DEF ReceiverKnows
<1>8. HandlerAlone'
  BY <1>1 DEF HandlerAlone
<1>9. ReplicaExact'
  BY <1>1, <1>4 DEF ChatInv, ReplicaExact
<1>10. QED
  BY <1>5, <1>6, <1>7, <1>8, <1>9 DEF ChatInv

\* Every step keeps the invariant while no handler outlives the send it works for.
LEMMA ChatKept ==
  ASSUME ChatInv, [ChatNext]_chatVars, ~Lingers
  PROVE  ChatInv'
<1>1. CASE UNCHANGED chatVars
  <2>1. UNCHANGED <<conv, acked, ids, base, awaiting, outcome, chatPhase, log, blocks, missing, cache, handlers, sends>>
    BY <1>1 DEF chatVars, client, receiver
  <2>2. ChatTypes' /\ SessionKnown' /\ ReplicaExact'
    BY <2>1 DEF ChatInv, ChatTypes, SessionKnown, ReplicaExact
  <2>3. ReceiverKnows'
    BY <2>1 DEF ChatInv, ReceiverKnows, BlocksOf, Block
  <2>4. HandlerAlone'
    BY <2>1 DEF ChatInv, HandlerAlone
  <2>5. QED
    BY <2>2, <2>3, <2>4 DEF ChatInv
<1>2. CASE \E c \in Convs : Converse(c)
  BY <1>2, ConverseStep
<1>3. CASE Send
  BY <1>3, SendStep
<1>4. CASE Abandon \/ ClientRestart \/ Evict
  BY <1>4, AbandonStep, ClientRestartStep, EvictStep
<1>5. CASE Resync \/ \E g \in SUBSET BlocksOf(ids) : Bulk(g)
  BY <1>5, SynchronizeStep
<1>6. CASE \E h \in handlers : HandleAppend(h) \/ Build(h) \/ Forward(h)
  BY <1>6, HandleAppendStep, BuildStep, ForwardStep
<1>7. CASE \E k \in BOOLEAN : SidecarRestart(k)
  BY <1>7, SidecarRestartStep
<1>8. QED
  BY <1>1, <1>2, <1>3, <1>4, <1>5, <1>6, <1>7 DEF ChatNext

-----------------------------------------------------------------------------
(* From the session to the transcript.  A transcript that cannot be sent   *)
(* resets the session and leaves the ACKed messages behind, so that the    *)
(* two agree only if every transcript fits a request.                      *)

SameView ==
  /\ chatPhase # "idle" => ids = conv
  /\ ~awaiting => ids = acked
  /\ outcome[1] = "answered" => ids = acked

LEMMA SameViewKept ==
  ASSUME ChatInv, SameView, [ChatNext]_chatVars, ~Lingers, MaxLen <= MaxRequest
  PROVE  SameView'
<1>1. CASE UNCHANGED chatVars
  BY <1>1 DEF SameView, chatVars, client
<1>2. CASE \E c \in Convs : Converse(c)
  BY <1>2 DEF Converse, SameView
<1>3. CASE Send
  <2>1. CASE PrefixMatches /\ awaiting
    <3>1. ~prepare_ref(PrefixMatches /\ awaiting, SendNew)
      BY <2>1 DEF prepare_ref
    <3>2. Failed /\ ids' = SendOld /\ awaiting' = (PrefixMatches /\ awaiting)
      BY <1>3, <3>1, SendCases
    <3>3. QED
      BY <1>3, <2>1, <3>2 DEF Failed, SameView
  <2>2. CASE ~(PrefixMatches /\ awaiting)
    <3>1. Len(SendNew) <= MaxRequest
      <4>1. \A n \in Nat \ {0} : Len(SubSeq(conv, n, Len(conv))) <= Len(conv)
        BY DEF ChatInv, ChatTypes
      <4>2. Len(acked) + 1 \in Nat \ {0} /\ 1 \in Nat \ {0} /\ Len(conv) \in Nat /\ Len(conv) <= MaxLen
        BY DEF ChatInv, ChatTypes
      <4>3. Len(SendNew) <= Len(conv) /\ Len(SendNew) \in Nat
        BY <4>1, <4>2, SendTypes DEF SendNew, ChatInv
      <4>4. QED
        BY <4>2, <4>3, DlrChatAssumption
    <3>2. prepare_ref(PrefixMatches /\ awaiting, SendNew)
      BY <2>2, <3>1 DEF prepare_ref
    <3>3. ids' = SendOld \o SendNew /\ awaiting' = TRUE /\ outcome' = <<"none">> /\ conv' = conv
      BY <1>3, <3>2, SendCases DEF Send
    <3>4. SendOld \o SendNew = conv
      <4>1. CASE PrefixMatches
        <5>1. SendOld = acked /\ SendNew = SubSeq(conv, Len(acked) + 1, Len(conv)) /\ IsPrefix(acked, conv)
          BY <2>2, <4>1 DEF SendOld, SendNew, SameView, PrefixMatches
        <5>2. QED
          BY <5>1, PrefixJoin DEF ChatInv, ChatTypes
      <4>2. CASE ~PrefixMatches
        <5>1. SendOld = <<>> /\ SendNew = SubSeq(conv, 1, Len(conv)) /\ conv \in Seq(Msgs)
          BY <4>2 DEF SendOld, SendNew, ChatInv, ChatTypes
        <5>2. QED
          BY <5>1
      <4>3. QED
        BY <4>1, <4>2
    <3>5. QED
      BY <3>3, <3>4 DEF SameView
  <2>3. QED
    BY <2>1, <2>2
<1>4. CASE Abandon \/ ClientRestart \/ Evict
  BY <1>4 DEF Abandon, ClientRestart, Evict, Failed, client, SameView, ChatInv, SessionKnown
<1>5. CASE Resync \/ \E g \in SUBSET BlocksOf(ids) : Bulk(g)
  BY <1>5 DEF Resync, Bulk, SameView
<1>6. CASE \E h \in handlers : HandleAppend(h) \/ Build(h) \/ Forward(h)
  <2>0. PICK h \in handlers : HandleAppend(h) \/ Build(h) \/ Forward(h)
    BY <1>6
  <2>1. CASE HandleAppend(h) \/ Build(h)
    <3>1. UNCHANGED <<conv, acked, ids, awaiting>>
      BY <2>1 DEF HandleAppend, Build
    <3>2. \/ UNCHANGED <<chatPhase, outcome>>
          \/ \E then \in {"idle", "resync"} : Refuse(h, then)
      BY <2>1 DEF HandleAppend, Build, Conflict
    <3>3. (chatPhase' = "idle" \/ chatPhase # "idle") /\ (outcome' = outcome \/ outcome' = <<"error">>)
      BY <3>2 DEF Refuse, Mine
    <3>4. QED
      BY <3>1, <3>3 DEF SameView
  <2>2. CASE Forward(h)
    BY <2>2 DEF Forward, Mine, client, SameView, apply_ack
  <2>3. QED
    BY <2>0, <2>1, <2>2
<1>7. CASE \E k \in BOOLEAN : SidecarRestart(k)
  BY <1>7 DEF SidecarRestart, Failed, SameView
<1>8. QED
  BY <1>1, <1>2, <1>3, <1>4, <1>5, <1>6, <1>7 DEF ChatNext

\* For any messages, limits and number of sends, abandoned sends and restarts: an
\* answer the client accepts was asked for with exactly the messages of its DLR
\* session, over deltas, replays, cold starts and cached projections, as long as no
\* handler of an abandoned send runs beside a later one.
THEOREM AnsweredForSession == ~Lingers => (ChatSpec => []ReplicaExact)
<1> SUFFICES ASSUME ~Lingers PROVE ChatSpec => []ReplicaExact
  OBVIOUS
<1>1. ChatInit => ChatInv
  BY ChatStart
<1>2. ChatInv /\ [ChatNext]_chatVars => ChatInv'
  BY ChatKept
<1>3. ChatInv => ReplicaExact
  BY DEF ChatInv
<1>4. QED
  BY <1>1, <1>2, <1>3, PTL DEF ChatSpec

\* And it was asked for with exactly the transcript the agent holds, if moreover
\* every transcript fits a request: otherwise the run DlrOversize shows how it is
\* asked for with less.
THEOREM AnsweredAsAsked ==
  ~Lingers /\ MaxLen <= MaxRequest => (ChatSpec => []AnsweredForTranscript)
<1> SUFFICES ASSUME ~Lingers, MaxLen <= MaxRequest PROVE ChatSpec => []AnsweredForTranscript
  OBVIOUS
<1>1. ChatInit => ChatInv /\ SameView
  BY ChatStart DEF ChatInit, SameView
<1>2. ChatInv /\ SameView /\ [ChatNext]_chatVars => (ChatInv /\ SameView)'
  BY ChatKept, SameViewKept
<1>3. ChatInv /\ SameView => AnsweredForTranscript
  BY DEF ChatInv, ReplicaExact, SameView, AnsweredForTranscript
<1>4. QED
  BY <1>1, <1>2, <1>3, PTL DEF ChatSpec


-----------------------------------------------------------------------------
(* The provider client's counters.                                         *)

Swaps == IF gzip THEN 0 ELSE 1

\* The requests of the rounds that are over: each replay ends one, and so does the swap.
Rounds == (zero + Swaps) * (MaxRetries + 1)

CountTypes ==
  /\ total \in Nat /\ zero \in Nat /\ zero <= MaxZero /\ reported \in Nat /\ posts \in Nat
  /\ attempt \in Nat /\ attempt <= MaxRetries /\ carried \in Nat /\ gzip \in BOOLEAN /\ enc \in BOOLEAN
  /\ phase \in {"idle", "send", "stream", "done"} /\ mode \in {"stream", "complete"}

CountFits ==
  /\ enc => gzip
  /\ phase = "send" => /\ posts = (total + carried) + attempt /\ posts <= Rounds + attempt
                       /\ dlr # "off" => attempt = 0 /\ carried = 0
                       /\ enc => carried = 0
                       /\ mode = "complete" => total = 0
  /\ phase = "stream" => posts = total + 1 /\ reported = total /\ mode = "stream" /\ posts <= Rounds + (MaxRetries + 1)

CountInv == CountTypes /\ CountFits /\ RetriesTold

LEMMA Times ==
  ASSUME NEW a \in Nat, NEW b \in Nat, NEW c \in Nat, a <= b
  PROVE  a * c \in Nat /\ (a + 1) * c = a * c + c /\ a * c <= b * c /\ 0 * c = 0
<1>1. a * c \in Nat /\ (a + 1) * c = a * c + c
  OBVIOUS
<1>2. PICK d \in Nat : b = a + d
  <2>1. b - a \in Nat /\ b = a + (b - a)
    OBVIOUS
  <2>2. QED
    BY <2>1
<1>3. b * c = a * c + d * c /\ d * c \in Nat
  BY <1>2
<1>4. QED
  BY <1>1, <1>3

\* What the rounds hold, in the state and after a step.
LEMMA RoundsAre ==
  ASSUME CountTypes
  PROVE  /\ Rounds \in Nat /\ Rounds + (MaxRetries + 1) <= (MaxZero + 2) * (MaxRetries + 1)
         /\ MaxRetries + 1 \in Nat /\ (MaxZero + 2) * (MaxRetries + 1) \in Nat
<1>1. PICK c \in Nat : c = MaxRetries + 1
  BY ProviderAssumption
<1>2. PICK a \in Nat : a = zero + Swaps /\ a <= MaxZero + 1
  BY ProviderAssumption DEF CountTypes, Swaps
<1>3. MaxZero + 1 \in Nat /\ MaxZero + 2 = (MaxZero + 1) + 1 /\ MaxZero + 2 \in Nat
  BY ProviderAssumption
<1>4. a * c \in Nat /\ a * c <= (MaxZero + 1) * c
  BY <1>2, <1>3, Times
<1>5. ((MaxZero + 1) + 1) * c = (MaxZero + 1) * c + c /\ (MaxZero + 1) * c \in Nat
  BY <1>3, Times
<1>6. Rounds = a * c
  BY <1>1, <1>2 DEF Rounds
<1>7. PICK x \in Nat : x = a * c
  BY <1>4
<1>8. PICK y \in Nat : y = (MaxZero + 1) * c
  BY <1>5
<1>9. (MaxZero + 2) * c = y + c
  BY <1>3, <1>5, <1>8
<1>10. QED
  BY <1>1, <1>4, <1>6, <1>7, <1>8, <1>9

LEMMA CountStart == ASSUME ProviderInit PROVE CountInv
<1>1. CountTypes
  <2>1. MaxZero \in Nat /\ MaxRetries \in Nat
    BY ProviderAssumption
  <2>2. /\ total = 0 /\ zero = 0 /\ reported = 0 /\ posts = 0 /\ attempt = 0 /\ carried = 0 /\ gzip \in BOOLEAN
        /\ enc = FALSE /\ phase = "idle" /\ mode = "stream"
    BY DEF ProviderInit
  <2>3. enc \in BOOLEAN
    BY <2>2
  <2>4. total \in Nat /\ zero \in Nat /\ zero <= MaxZero /\ attempt \in Nat /\ attempt <= MaxRetries
    BY <2>1, <2>2
  <2>5. QED
    BY <2>2, <2>3, <2>4 DEF CountTypes
<1>2. CountFits /\ RetriesTold
  BY DEF ProviderInit, CountFits, RetriesTold
<1>3. QED
  BY <1>1, <1>2 DEF CountInv

\* A completion that is over, with its answer or its error.
LEMMA Over ==
  ASSUME CountInv, phase' = "done", UNCHANGED <<zero, gzip, enc, attempt, carried, mode>>,
         total' \in Nat, reported' \in Nat, posts' \in Nat, posts' <= (MaxZero + 2) * (MaxRetries + 1),
         result'.retries = posts' - 1 \/ result'.error \in {"local", "dlr"},
         result'.error = None /\ mode = "stream" => reported' = result'.retries
  PROVE  CountInv'
<1>1. CountTypes'
  BY DEF CountInv, CountTypes
<1>2. CountFits'
  BY DEF CountInv, CountFits
<1>3. RetriesTold'
  BY DEF RetriesTold
<1>4. QED
  BY <1>1, <1>2, <1>3 DEF CountInv

LEMMA CountBegin == ASSUME CountInv, NEW m \in {"stream", "complete"}, Begin(m) PROVE CountInv'
<1>1. /\ phase' = "send" /\ mode' = m /\ enc' = gzip /\ attempt' = 0 /\ carried' = 0 /\ total' = 0 /\ zero' = 0
      /\ reported' = 0 /\ posts' = 0 /\ gzip' = gzip
  BY DEF Begin
<1>2. CountTypes'
  BY <1>1, ProviderAssumption DEF CountInv, CountTypes
<1>3. Rounds' \in Nat
  <2>1. ASSUME CountTypes PROVE Rounds \in Nat
    BY <2>1, RoundsAre
  <2>2. PICK c \in Nat : c = MaxRetries + 1
    BY ProviderAssumption
  <2>3. Rounds' = Swaps' * c /\ Swaps' \in Nat
    BY <1>1, <2>2 DEF Rounds, Swaps
  <2>4. QED
    BY <2>2, <2>3
<1>4. CountFits'
  <2>1. enc' => gzip'
    BY <1>1, Zenon
  <2>2. posts' = (total' + carried') + attempt' /\ posts' <= Rounds' + attempt'
    <3>1. posts' = 0 /\ total' = 0 /\ carried' = 0 /\ attempt' = 0
      BY <1>1
    <3>2. PICK n \in Nat : n = Rounds'
      BY <1>3
    <3>3. 0 = (0 + 0) + 0 /\ 0 <= n + 0
      OBVIOUS
    <3>4. 0 <= Rounds' + 0
      BY <3>2, <3>3
    <3>5. QED
      BY <3>1, <3>3, <3>4, Zenon
  <2>3. QED
    BY <1>1, <2>1, <2>2 DEF CountFits
<1>5. RetriesTold'
  BY <1>1 DEF RetriesTold
<1>6. QED
  BY <1>2, <1>4, <1>5 DEF CountInv

\* A 2xx answer, after k retries of this round's body.
LEMMA CountAccepted ==
  ASSUME CountInv, phase = "send", NEW k \in Nat, k = carried + attempt, Accepted(k), posts' = posts + 1,
         UNCHANGED <<gzip, enc, attempt, carried, mode>>
  PROVE  CountInv'
<1>1. /\ Rounds \in Nat /\ Rounds + (MaxRetries + 1) <= (MaxZero + 2) * (MaxRetries + 1)
      /\ MaxRetries + 1 \in Nat /\ (MaxZero + 2) * (MaxRetries + 1) \in Nat
  BY RoundsAre DEF CountInv
<1>2. /\ posts = (total + carried) + attempt /\ posts <= Rounds + attempt /\ total \in Nat /\ carried \in Nat
      /\ attempt \in Nat /\ attempt <= MaxRetries /\ posts \in Nat /\ (mode = "complete" => total = 0) /\ reported \in Nat
  BY DEF CountInv, CountTypes, CountFits
<1>3. posts' \in Nat /\ posts' <= Rounds + (MaxRetries + 1) /\ posts' = (total + k) + 1
  BY <1>1, <1>2, ProviderAssumption
<1>4. posts' <= (MaxZero + 2) * (MaxRetries + 1)
  <2>1. PICK b \in Nat : b = (MaxZero + 2) * (MaxRetries + 1)
    BY <1>1
  <2>2. QED
    BY <1>1, <1>3, <2>1
<1>5. CASE mode = "complete"
  <2>1. /\ phase' = "done" /\ UNCHANGED <<total, zero, reported>>
        /\ \E e \in {None, "empty-choices", "http"} : result' = Result(e, k)
    BY <1>5 DEF Accepted, Fail, modelVars
  <2>2. result'.retries = k
    BY <2>1 DEF Result
  <2>3. total = 0
    BY <1>2, <1>5
  <2>4. result'.retries = posts' - 1
    BY <1>3, <2>2, <2>3
  <2>5. mode # "stream"
    BY <1>5
  <2>6. QED
    BY <1>2, <1>3, <1>4, <2>1, <2>4, <2>5, Over
<1>6. CASE mode = "stream"
  <2>1. phase' = "stream" /\ total' = total + k /\ reported' = total + k /\ UNCHANGED zero
    BY <1>6 DEF Accepted
  <2>2. Rounds' = Rounds
    BY <2>1 DEF Rounds, Swaps
  <2>3. CountTypes'
    BY <1>2, <1>3, <2>1 DEF CountInv, CountTypes
  <2>4. CountFits'
    BY <1>3, <1>6, <2>1, <2>2 DEF CountInv, CountFits
  <2>5. RetriesTold'
    BY <2>1 DEF RetriesTold
  <2>6. QED
    BY <2>3, <2>4, <2>5 DEF CountInv
<1>7. QED
  BY <1>5, <1>6 DEF CountInv, CountTypes

\* A request that fails for good, having reached the provider or not.
LEMMA CountFailed ==
  ASSUME CountInv, phase = "send", NEW error, NEW k \in Nat, Fail(error, k), error # None,
         UNCHANGED <<gzip, enc, attempt, carried, mode, total, zero, reported>>,
         \/ error \in {"local", "dlr"} /\ posts' = posts
         \/ posts' = posts + 1 /\ k = (total + carried) + attempt
  PROVE  CountInv'
<1>1. /\ Rounds \in Nat /\ Rounds + (MaxRetries + 1) <= (MaxZero + 2) * (MaxRetries + 1)
      /\ MaxRetries + 1 \in Nat /\ (MaxZero + 2) * (MaxRetries + 1) \in Nat
  BY RoundsAre DEF CountInv
<1>2. /\ posts = (total + carried) + attempt /\ posts <= Rounds + attempt /\ total \in Nat
      /\ attempt \in Nat /\ attempt <= MaxRetries /\ posts \in Nat /\ reported \in Nat
  BY DEF CountInv, CountTypes, CountFits
<1>3. posts' \in Nat /\ posts' <= Rounds + (MaxRetries + 1)
  BY <1>1, <1>2, ProviderAssumption
<1>4. posts' <= (MaxZero + 2) * (MaxRetries + 1)
  <2>1. PICK b \in Nat : b = (MaxZero + 2) * (MaxRetries + 1)
    BY <1>1
  <2>2. QED
    BY <1>1, <1>3, <2>1
<1>5. phase' = "done" /\ result'.error = error /\ result'.retries = k
  BY DEF Fail, Result
<1>6. result'.retries = posts' - 1 \/ result'.error \in {"local", "dlr"}
  BY <1>2, <1>5
<1>7. QED
  BY <1>2, <1>3, <1>4, <1>5, <1>6, Over

LEMMA CountDlr == ASSUME CountInv, SendDlr PROVE CountInv'
<1>1. phase = "send" /\ dlr # "off" /\ UNCHANGED <<gzip, enc, attempt, carried, mode>>
  BY DEF SendDlr, sendVars
<1>2. attempt = 0 /\ carried = 0 /\ total \in Nat
  BY <1>1 DEF CountInv, CountFits, CountTypes
<1>3. CASE dlr' = "off" /\ UNCHANGED <<phase, result, modelVars, bodyVars, posts>>
  <2>1. UNCHANGED <<phase, result, total, zero, reported, posts>>
    BY <1>3 DEF modelVars
  <2>2. Rounds' = Rounds
    BY <1>1, <2>1 DEF Rounds, Swaps
  <2>3. CountTypes'
    BY <1>1, <2>1 DEF CountInv, CountTypes
  <2>4. CountFits'
    BY <1>1, <1>2, <2>1, <2>2 DEF CountInv, CountFits
  <2>5. RetriesTold'
    BY <1>1, <2>1 DEF RetriesTold
  <2>6. QED
    BY <2>3, <2>4, <2>5 DEF CountInv
<1>4. CASE Fail("dlr", total) /\ UNCHANGED <<modelVars, bodyVars, posts>>
  <2>1. UNCHANGED <<total, zero, reported, posts>> /\ "dlr" # None
    BY <1>4 DEF modelVars, None
  <2>2. QED
    BY <1>1, <1>2, <1>4, <2>1, CountFailed
<1>5. CASE posts' = posts + 1 /\ Accepted(0)
  BY <1>1, <1>2, <1>5, CountAccepted
<1>6. CASE posts' = posts + 1 /\ Fail("status", total) /\ UNCHANGED <<modelVars, bodyVars>>
  <2>1. UNCHANGED <<total, zero, reported>> /\ "status" # None
    BY <1>6 DEF modelVars, None
  <2>2. QED
    BY <1>1, <1>2, <1>6, <2>1, CountFailed
<1>7. QED
  BY <1>3, <1>4, <1>5, <1>6 DEF SendDlr

LEMMA CountLocal == ASSUME CountInv, SendLocalError PROVE CountInv'
<1>1. /\ phase = "send" /\ Fail("local", (total + carried) + attempt)
      /\ UNCHANGED <<gzip, enc, attempt, carried, mode, total, zero, reported, posts>> /\ "local" # None
  BY DEF SendLocalError, sendVars, modelVars, None
<1>2. (total + carried) + attempt \in Nat
  BY DEF CountInv, CountTypes
<1>3. QED
  BY <1>1, <1>2, CountFailed

LEMMA CountPost == ASSUME CountInv, NEW o, Post(o) PROVE CountInv'
<1>1. phase = "send" /\ dlr = "off" /\ posts' = posts + 1 /\ UNCHANGED <<dlr, mode>>
  BY DEF Post
<1>2. /\ posts = (total + carried) + attempt /\ posts <= Rounds + attempt /\ total \in Nat /\ carried \in Nat
      /\ attempt \in Nat /\ attempt <= MaxRetries /\ posts \in Nat /\ (mode = "complete" => total = 0)
      /\ (enc => carried = 0 /\ gzip) /\ zero \in Nat /\ gzip \in BOOLEAN
  BY <1>1 DEF CountInv, CountTypes, CountFits
<1>3. Rounds \in Nat
  BY RoundsAre DEF CountInv
<1>4. CASE Accepted(carried + attempt) /\ UNCHANGED <<gzip, sendVars>>
  <2>1. UNCHANGED <<gzip, enc, attempt, carried>> /\ carried + attempt \in Nat
    BY <1>2, <1>4 DEF sendVars
  <2>2. QED
    BY <1>1, <1>4, <2>1, CountAccepted
<1>5. CASE attempt < MaxRetries /\ attempt' = attempt + 1 /\ UNCHANGED <<gzip, enc, carried, phase, result, modelVars, bodyVars>>
  <2>1. UNCHANGED <<gzip, enc, carried, phase, result, total, zero, reported>>
    BY <1>5 DEF modelVars
  <2>2. Rounds' = Rounds
    BY <2>1 DEF Rounds, Swaps
  <2>3. CountTypes'
    BY <1>1, <1>2, <1>5, <2>1, ProviderAssumption DEF CountInv, CountTypes
  <2>4. CountFits'
    BY <1>1, <1>2, <1>3, <1>5, <2>1, <2>2 DEF CountFits
  <2>5. RetriesTold'
    BY <1>1, <2>1 DEF RetriesTold
  <2>6. QED
    BY <2>3, <2>4, <2>5 DEF CountInv
<1>6. CASE /\ enc /\ gzip' = FALSE /\ enc' = FALSE /\ carried' = SwapRetries /\ attempt' = 0
           /\ UNCHANGED <<phase, result, modelVars, bodyVars>>
  <2>1. UNCHANGED <<phase, result, total, zero, reported>> /\ carried' = attempt + 1
    BY <1>6 DEF modelVars, SwapRetries
  <2>2. Rounds' = Rounds + (MaxRetries + 1)
    <3>1. PICK c \in Nat : c = MaxRetries + 1
      BY ProviderAssumption
    <3>2. Rounds = zero * c /\ Rounds' = (zero + 1) * c
      BY <1>2, <1>6, <2>1, <3>1 DEF Rounds, Swaps
    <3>3. (zero + 1) * c = zero * c + c
      BY <1>2, Times
    <3>4. QED
      BY <3>1, <3>2, <3>3
  <2>3. CountTypes'
    <3>1. MaxRetries \in Nat
      BY ProviderAssumption
    <3>2. posts' \in Nat /\ carried' \in Nat /\ attempt' \in Nat /\ attempt' <= MaxRetries
      BY <1>1, <1>2, <1>6, <2>1, <3>1
    <3>3. gzip' \in BOOLEAN /\ enc' \in BOOLEAN
      BY <1>6
    <3>4. QED
      BY <1>1, <2>1, <3>2, <3>3 DEF CountInv, CountTypes
  <2>4. posts' = (total' + carried') + attempt' /\ posts' <= Rounds' + attempt'
    BY <1>1, <1>2, <1>3, <1>6, <2>1, <2>2, ProviderAssumption
  <2>5. CountFits'
    BY <1>1, <1>2, <1>6, <2>1, <2>4 DEF CountFits
  <2>6. RetriesTold'
    BY <1>1, <2>1 DEF RetriesTold
  <2>7. QED
    BY <2>3, <2>5, <2>6 DEF CountInv
<1>7. CASE /\ Fail(IF o \in {"connect", "timeout"} THEN "http" ELSE "status", (total + carried) + attempt)
           /\ UNCHANGED <<gzip, sendVars, modelVars, bodyVars>>
  <2>1. UNCHANGED <<gzip, enc, attempt, carried, total, zero, reported>> /\ (total + carried) + attempt \in Nat
    BY <1>2, <1>7 DEF sendVars, modelVars
  <2>2. PICK error : error = (IF o \in {"connect", "timeout"} THEN "http" ELSE "status") /\ error # None
    BY DEF None
  <2>3. Fail(error, (total + carried) + attempt)
    BY <1>7, <2>2
  <2>4. QED
    BY <1>1, <2>1, <2>2, <2>3, CountFailed
<1>8. QED
  BY <1>4, <1>5, <1>6, <1>7 DEF Post

\* A replay begins a round.
LEMMA CountReplay ==
  ASSUME CountInv, phase = "stream", zero < MaxZero, Replay, UNCHANGED <<gzip, dlr, mode, posts>> PROVE CountInv'
<1>1. /\ zero' = zero + 1 /\ total' = total + 1 /\ reported' = total + 1 /\ phase' = "send" /\ enc' = gzip
      /\ attempt' = 0 /\ carried' = 0
  BY DEF Replay
<1>2. /\ posts = total + 1 /\ mode = "stream" /\ posts <= Rounds + (MaxRetries + 1) /\ total \in Nat /\ zero \in Nat
      /\ posts \in Nat /\ gzip \in BOOLEAN
  BY DEF CountInv, CountTypes, CountFits
<1>3. Rounds' = Rounds + (MaxRetries + 1) /\ Rounds \in Nat /\ MaxRetries + 1 \in Nat
  <2>1. PICK c \in Nat : c = MaxRetries + 1
    BY ProviderAssumption
  <2>2. PICK a \in Nat : a = zero + Swaps
    BY <1>2 DEF Swaps
  <2>3. zero' + Swaps' = a + 1
    BY <1>1, <1>2, <2>2 DEF Swaps
  <2>4. Rounds = a * c /\ Rounds' = (a + 1) * c
    BY <2>1, <2>2, <2>3 DEF Rounds
  <2>5. a * c \in Nat /\ (a + 1) * c = a * c + c
    BY Times
  <2>6. QED
    BY <2>1, <2>4, <2>5
<1>4. CountTypes'
  BY <1>1, <1>2, ProviderAssumption DEF CountInv, CountTypes
<1>5. CountFits'
  BY <1>1, <1>2, <1>3 DEF CountFits
<1>6. RetriesTold'
  BY <1>1 DEF RetriesTold
<1>7. QED
  BY <1>4, <1>5, <1>6 DEF CountInv

\* A stream that is over.
LEMMA CountStreamed ==
  ASSUME CountInv, phase = "stream", phase' = "done", result'.retries = total,
         UNCHANGED <<gzip, enc, attempt, carried, mode, total, zero, reported, posts>>
  PROVE  CountInv'
<1>1. /\ Rounds \in Nat /\ Rounds + (MaxRetries + 1) <= (MaxZero + 2) * (MaxRetries + 1)
      /\ MaxRetries + 1 \in Nat /\ (MaxZero + 2) * (MaxRetries + 1) \in Nat
  BY RoundsAre DEF CountInv
<1>2. /\ posts = total + 1 /\ reported = total /\ posts <= Rounds + (MaxRetries + 1) /\ total \in Nat
      /\ posts \in Nat /\ reported \in Nat
  BY DEF CountInv, CountTypes, CountFits
<1>3. posts' <= (MaxZero + 2) * (MaxRetries + 1)
  <2>1. PICK b \in Nat : b = (MaxZero + 2) * (MaxRetries + 1)
    BY <1>1
  <2>2. QED
    BY <1>1, <1>2, <2>1
<1>4. QED
  BY <1>2, <1>3, Over

LEMMA CountAttemptFails ==
  ASSUME CountInv, phase = "stream", NEW error, AttemptFails(error) PROVE CountInv'
<1>1. UNCHANGED <<gzip, dlr, mode, posts>>
  BY DEF AttemptFails
<1>2. CASE zero < MaxZero /\ Replay
  BY <1>1, <1>2, CountReplay
<1>3. CASE Fail(error, total) /\ UNCHANGED <<modelVars, sendVars, bodyVars, stale>>
  <2>1. UNCHANGED <<enc, attempt, carried, total, zero, reported>>
    BY <1>3 DEF modelVars, sendVars
  <2>2. phase' = "done" /\ result'.retries = total
    BY <1>3 DEF Fail, Result
  <2>3. QED
    BY <1>1, <2>1, <2>2, CountStreamed
<1>4. QED
  BY <1>2, <1>3 DEF AttemptFails

LEMMA CountStreamEnd == ASSUME CountInv, StreamEnd PROVE CountInv'
<1>1. phase = "stream" /\ UNCHANGED <<gzip, dlr, mode, posts>>
  BY DEF StreamEnd, Streaming
<1>2. CASE zero < MaxZero /\ Replay
  BY <1>1, <1>2, CountReplay
<1>3. CASE /\ phase' = "done" /\ result' = [error |-> None, retries |-> total, resp |-> Stripped(resp)]
           /\ UNCHANGED <<modelVars, sendVars, bodyVars, stale>>
  <2>1. UNCHANGED <<enc, attempt, carried, total, zero, reported>>
    BY <1>3 DEF modelVars, sendVars
  <2>2. result'.retries = total
    BY <1>3
  <2>3. QED
    BY <1>1, <1>3, <2>1, <2>2, CountStreamed
<1>4. QED
  BY <1>2, <1>3 DEF StreamEnd

LEMMA CountRest ==
  ASSUME CountInv, UNCHANGED <<gzip, dlr, mode, enc, attempt, carried, posts, phase, total, zero, reported, result>>
  PROVE  CountInv'
<1>1. Rounds' = Rounds
  BY DEF Rounds, Swaps
<1>2. CountTypes'
  BY DEF CountInv, CountTypes
<1>3. CountFits'
  BY <1>1 DEF CountInv, CountFits
<1>4. RetriesTold'
  BY DEF CountInv, RetriesTold
<1>5. QED
  BY <1>2, <1>3, <1>4 DEF CountInv

LEMMA CountSteps == ASSUME CountInv, [ProviderNext]_providerVars PROVE CountInv'
<1>1. CASE \/ UNCHANGED providerVars \/ FrameBegin \/ Deliver \/ \E c \in Lines \cup {NoLine} : FrameEnd(c)
  <2>1. UNCHANGED <<gzip, dlr, mode, enc, attempt, carried, posts, phase, total, zero, reported, result>>
    BY <1>1 DEF providerVars, sendVars, modelVars, FrameBegin, Deliver, FrameEnd, idleVars
  <2>2. QED
    BY <2>1, CountRest
<1>2. CASE \E m \in {"stream", "complete"} : Begin(m)
  BY <1>2, CountBegin
<1>3. CASE SendDlr \/ SendLocalError \/ \E o \in Outcomes : Post(o)
  BY <1>3, CountDlr, CountLocal, CountPost
<1>4. CASE BodyError \/ IdleTimeout
  BY <1>4, CountAttemptFails DEF BodyError, IdleTimeout, Polling, Streaming
<1>5. CASE StreamEnd
  BY <1>5, CountStreamEnd
<1>6. ASSUME NEW l \in Lines, FrameLine(l) PROVE CountInv'
  <2>1. phase = "stream"
    BY <1>6 DEF FrameLine, Streaming
  <2>2. CASE AttemptFails("json")
    BY <2>1, <2>2, CountAttemptFails
  <2>3. CASE UNCHANGED <<idleVars, phase, modelVars, inFrame, ended, semantic, resp, stale, result>>
    <3>1. UNCHANGED <<gzip, dlr, mode, enc, attempt, carried, posts, phase, total, zero, reported, result>>
      BY <2>3 DEF sendVars, modelVars, idleVars
    <3>2. QED
      BY <3>1, CountRest
  <2>4. QED
    BY <1>6, <2>2, <2>3 DEF FrameLine
<1>7. ASSUME NEW t, BodyEnd(t) PROVE CountInv'
  <2>1. phase = "stream"
    BY <1>7 DEF BodyEnd, Polling, Streaming
  <2>2. CASE AttemptFails("json")
    BY <2>1, <2>2, CountAttemptFails
  <2>3. CASE UNCHANGED <<idleVars, phase, modelVars, inFrame, semantic, resp, stale, result>>
    <3>1. UNCHANGED <<gzip, dlr, mode, enc, attempt, carried, posts, phase, total, zero, reported, result>>
      BY <2>3 DEF sendVars, modelVars, idleVars
    <3>2. QED
      BY <3>1, CountRest
  <2>4. QED
    BY <1>7, <2>2, <2>3 DEF BodyEnd
<1>8. QED
  BY <1>1, <1>2, <1>3, <1>4, <1>5, <1>6, <1>7 DEF ProviderNext

-----------------------------------------------------------------------------
(* What a stream has shown the host when its request is sent again.        *)

Fragments == {l.frag : l \in Lines}
Slots == Seq(Seq(Fragments))
EventValues ==
  {None, "stop", "stream-ended"} \cup {l.reason : l \in Lines} \cup [ok : BOOLEAN, args : Seq(Fragments)]
EventKinds == TextKinds \cup {"reasoning", "usage", "progress", "call", "finish", "activity"}
Events == [kind : EventKinds, value : EventValues]
Texts == Seq(TextKinds)
Thoughts == Seq({"reasoning"})
Responses == [text : Texts, reasoning : Thoughts, calls : Seq(EventValues), finish : EventValues, usage : BOOLEAN]

Quiet(q) == \A i \in 1..Len(q) : q[i].kind \notin {"call", "finish"}
NoEndTold(q) == \A i \in 1..Len(q) : q[i].kind = "finish" => q[i].value # "stream-ended"
Carries(q, k) == \E i \in 1..Len(q) : q[i].kind = k
Spoken(r) == r.text # <<>> \/ r.reasoning # <<>>

StreamTypes ==
  /\ acc \in Slots /\ pending \in Seq(Events) /\ resp \in Responses
  /\ buf \in Lines \cup {NoLine} /\ finished \in BOOLEAN /\ ended \in BOOLEAN /\ semantic \in BOOLEAN /\ inFrame \in BOOLEAN

\* Before the finish, whatever was shown is in the text or the reasoning, or its call is being put
\* together; after a body that ended without one, in the text, the reasoning or the calls.
StreamFits ==
  /\ ~semantic => ~Spoken(resp)
  /\ ended => finished /\ ~inFrame
  /\ ~finished => /\ Quiet(pending) /\ resp.finish = "stop"
                  /\ semantic => Spoken(resp) \/ acc # <<>>
                  /\ Carries(pending, "progress") => acc # <<>>
  /\ finished => \/ NoEndTold(pending) /\ resp.finish # "stream-ended"
                 \/ /\ ended
                    /\ semantic \/ Carries(pending, "progress") =>
                         Spoken(resp) \/ resp.calls # <<>> \/ Carries(pending, "call")

StreamInv == StreamTypes /\ StreamFits /\ ReplayIsInvisible

LEMMA Joined ==
  ASSUME NEW S, NEW a \in Seq(S), NEW b \in Seq(S)
  PROVE  /\ a \o b \in Seq(S) /\ Len(a \o b) = Len(a) + Len(b) /\ Len(a) \in Nat /\ Len(b) \in Nat
         /\ \A i \in 1..Len(a) : (a \o b)[i] = a[i]
         /\ \A i \in 1..Len(b) : (a \o b)[Len(a) + i] = b[i]
  BY ConcatProperties

LEMMA Appended ==
  ASSUME NEW S, NEW q \in Seq(S), NEW x \in S
  PROVE  /\ Append(q, x) \in Seq(S) /\ Len(Append(q, x)) = Len(q) + 1 /\ Len(q) \in Nat
         /\ \A i \in 1..Len(q) : Append(q, x)[i] = q[i]
         /\ Append(q, x)[Len(q) + 1] = x
  OBVIOUS

LEMMA Taken ==
  ASSUME NEW S, NEW q \in Seq(S), q # <<>>
  PROVE  /\ Tail(q) \in Seq(S) /\ Len(Tail(q)) = Len(q) - 1 /\ Len(q) \in Nat \ {0}
         /\ \A i \in 1..(Len(q) - 1) : Tail(q)[i] = q[i + 1]
         /\ Head(q) = q[1] /\ q[1] \in S
  OBVIOUS

LEMMA EventTyped ==
  ASSUME NEW k \in EventKinds, NEW v \in EventValues
  PROVE  Event(k, v) \in Events /\ Event(k, v).kind = k /\ Event(k, v).value = v
  BY DEF Event, Events

LEMMA LineShape ==
  ASSUME NEW l \in Lines
  PROVE  /\ l.kind = "tool" => l.i \in Nat \ {0} /\ l.frag \in Fragments
         /\ l.kind = "finish" => l.reason # "stream-ended" /\ l.reason \in EventValues
  BY ProviderAssumption DEF Fragments, EventValues

LEMMA Finalized ==
  ASSUME NEW args \in Seq(Fragments), NEW confirmed
  PROVE  finalize_one(args, confirmed) \in EventValues
<1>1. (Valid(args) \/ (Repairable(args) /\ confirmed)) \in BOOLEAN
  OBVIOUS
<1>2. PICK ok \in BOOLEAN : ok = (Valid(args) \/ (Repairable(args) /\ confirmed))
  BY <1>1
<1>3. finalize_one(args, confirmed) = [ok |-> ok, args |-> args]
  BY <1>2 DEF finalize_one
<1>4. QED
  BY <1>3 DEF EventValues

\* flush ends with the finish it is told of, and has a call before it for every slot.
LEMMA FlushSays ==
  ASSUME NEW slots \in Slots, NEW reason \in EventValues
  PROVE  /\ Flush(slots, reason) \in Seq(Events)
         /\ \A i \in 1..Len(Flush(slots, reason)) :
              Flush(slots, reason)[i].kind \in {"call", "finish"} /\
              (Flush(slots, reason)[i].kind = "finish" => Flush(slots, reason)[i].value = reason)
         /\ slots # <<>> => Carries(Flush(slots, reason), "call")
<1> DEFINE K == Len(slots)
           ev(i) == Event("call", finalize_one(slots[i], reason = "tool_calls"))
<1>1. K \in Nat /\ DOMAIN slots = 1..K /\ \A i \in 1..K : slots[i] \in Seq(Fragments)
  BY ElementOfSeq DEF Slots
<1>2. \A i \in 1..K : ev(i) \in Events /\ ev(i).kind = "call"
  <2>1. ASSUME NEW i \in 1..K PROVE ev(i) \in Events /\ ev(i).kind = "call"
    <3>1. PICK v \in EventValues : v = finalize_one(slots[i], reason = "tool_calls")
      BY <1>1, Finalized
    <3>2. "call" \in EventKinds
      BY DEF EventKinds
    <3>3. QED
      BY <3>1, <3>2, EventTyped
  <2>2. QED
    BY <2>1
<1> HIDE DEF ev
<1>3. PICK a \in Seq(Events) : a = [i \in 1..K |-> ev(i)] /\ Len(a) = K /\ \A i \in 1..K : a[i] = ev(i)
  <2>1. [i \in 1..K |-> ev(i)] \in Seq(Events) /\ Len([i \in 1..K |-> ev(i)]) = K
    BY <1>1, <1>2
  <2>2. QED
    BY <2>1
<1>4. PICK e \in Events : e = Event("finish", reason) /\ e.kind = "finish" /\ e.value = reason
  <2>1. "finish" \in EventKinds
    BY DEF EventKinds
  <2>2. QED
    BY <2>1, EventTyped
<1>5. PICK b \in Seq(Events) : b = <<e>> /\ Len(b) = 1 /\ b[1] = e
  <2>1. <<e>> \in Seq(Events) /\ Len(<<e>>) = 1 /\ <<e>>[1] = e
    OBVIOUS
  <2>2. QED
    BY <2>1, Zenon
<1>6. Flush(slots, reason) = a \o b
  BY <1>1, <1>3, <1>4, <1>5 DEF Flush, ev
<1>7. PICK q \in Seq(Events) : q = a \o b /\ Len(q) = K + 1 /\ (\A i \in 1..K : q[i] = ev(i)) /\ q[K + 1] = e
  <2>1. /\ a \o b \in Seq(Events) /\ Len(a \o b) = Len(a) + Len(b)
        /\ \A i \in 1..Len(a) : (a \o b)[i] = a[i]
        /\ \A i \in 1..Len(b) : (a \o b)[Len(a) + i] = b[i]
    BY Joined
  <2>2. 1 \in 1..Len(b)
    BY <1>5
  <2>3. PICK q \in Seq(Events) : q = a \o b
    BY <2>1
  <2>4. Len(q) = K + 1 /\ q[K + 1] = e
    BY <1>3, <1>5, <2>1, <2>2, <2>3
  <2>5. \A i \in 1..K : q[i] = ev(i)
    BY <1>3, <2>1, <2>3
  <2>6. QED
    BY <2>3, <2>4, <2>5
<1> HIDE DEF K
<1>8. ASSUME NEW i \in 1..(K + 1) PROVE q[i].kind \in {"call", "finish"} /\ (q[i].kind = "finish" => q[i].value = reason)
  <2>1. i \in 1..K \/ i = K + 1
    BY <1>1 DEF K
  <2>2. QED
    BY <1>2, <1>4, <1>7, <2>1
<1>9. ASSUME slots # <<>> PROVE Carries(q, "call")
  <2>1. 1 \in 1..K /\ 1 \in 1..(K + 1)
    BY <1>1, <1>9 DEF K, Slots
  <2>2. QED
    BY <1>2, <1>7, <2>1 DEF Carries
<1>10. QED
  BY <1>6, <1>7, <1>8, <1>9

\* A fragment makes its call one that is being put together.
LEMMA Accumulated ==
  ASSUME NEW slots \in Slots, NEW i \in Nat \ {0}, NEW frag \in Fragments
  PROVE  Accumulate(slots, i, frag) \in Slots /\ Accumulate(slots, i, frag) # <<>>
<1>1. Len(slots) \in Nat /\ \A k \in 1..Len(slots) : slots[k] \in Seq(Fragments)
  BY ElementOfSeq DEF Slots
<1>2. PICK n \in Nat \ {0} : n = IF i > Len(slots) THEN i ELSE Len(slots)
  BY <1>1
<1>3. i \in 1..n
  BY <1>1, <1>2
<1> DEFINE v(k) == IF k <= Len(slots) THEN slots[k] ELSE <<>>
           w == [k \in 1..n |-> v(k)]
<1>4. \A k \in 1..n : v(k) \in Seq(Fragments)
  BY <1>1
<1> HIDE DEF v
<1>5. Append(w[i], frag) \in Seq(Fragments)
  BY <1>3, <1>4, Appended
<1>6. [w EXCEPT ![i] = Append(w[i], frag)] \in [1..n -> Seq(Fragments)]
  BY <1>4, <1>5
<1>7. Accumulate(slots, i, frag) = [w EXCEPT ![i] = Append(w[i], frag)]
  BY <1>2 DEF Accumulate, v
<1>8. \A g \in [1..n -> Seq(Fragments)] : g \in Slots /\ g # <<>>
  BY DEF Slots
<1>9. QED
  BY <1>6, <1>7, <1>8

LEMMA OneEvent ==
  ASSUME NEW k \in EventKinds
  PROVE  \E q \in Seq(Events) : q = <<Event(k, None)>> /\ Len(q) = 1 /\ \A i \in 1..Len(q) : q[i].kind = k
<1>1. None \in EventValues
  BY DEF EventValues
<1>2. PICK e \in Events : e = Event(k, None) /\ e.kind = k
  BY <1>1, EventTyped
<1>3. PICK q \in Seq(Events) : q = <<e>> /\ Len(q) = 1 /\ q[1] = e
  <2>1. <<e>> \in Seq(Events) /\ Len(<<e>>) = 1 /\ <<e>>[1] = e
    OBVIOUS
  <2>2. QED
    BY <2>1, Zenon
<1>4. \A i \in 1..Len(q) : q[i].kind = k
  <2>1. \A i \in 1..1 : i = 1
    OBVIOUS
  <2>2. QED
    BY <1>2, <1>3, <2>1
<1>5. QED
  BY <1>2, <1>3, <1>4

\* What StreamFuser::apply makes of a line, before its finish and after it.
Fed(s, f, out) ==
  /\ finished => f /\ Quiet(out)
  /\ ~finished /\ ~f => Quiet(out) /\ (acc # <<>> => s # <<>>) /\ (Carries(out, "progress") => s # <<>>)
  /\ ~finished /\ f => NoEndTold(out)
Applied(l, s, f, out) == Apply(l).acc = s /\ Apply(l).finished = f /\ Apply(l).out = out /\ Fed(s, f, out)

LEMMA ApplySays ==
  ASSUME StreamTypes, NEW l \in Lines
  PROVE  \E s \in Slots, f \in BOOLEAN, out \in Seq(Events) : Applied(l, s, f, out)
<1>1. acc \in Slots /\ finished \in BOOLEAN
  BY DEF StreamTypes
<1>2. CASE l.kind \in TextKinds \cup {"reasoning", "usage"}
  <2>1. l.kind \in EventKinds /\ l.kind \notin {"tool", "finish", "call", "progress"}
    BY <1>2 DEF EventKinds, TextKinds
  <2>2. PICK q \in Seq(Events) : q = <<Event(l.kind, None)>> /\ Len(q) = 1 /\ \A i \in 1..Len(q) : q[i].kind = l.kind
    BY <2>1, OneEvent
  <2>3. Apply(l) = [acc |-> acc, finished |-> finished, out |-> q]
    BY <1>2, <2>1, <2>2 DEF Apply
  <2>4. Apply(l).acc = acc /\ Apply(l).finished = finished /\ Apply(l).out = q
    BY <2>3
  <2>5. Quiet(q) /\ ~Carries(q, "progress")
    BY <2>1, <2>2 DEF Quiet, Carries
  <2>6. Applied(l, acc, finished, q)
    BY <2>4, <2>5 DEF Applied, Fed
  <2>7. QED
    BY <1>1, <2>6
<1>3. CASE l.kind = "tool"
  <2>1. "progress" \in EventKinds
    BY DEF EventKinds
  <2>2. PICK q \in Seq(Events) : q = <<Event("progress", None)>> /\ Len(q) = 1 /\ \A i \in 1..Len(q) : q[i].kind = "progress"
    BY <2>1, OneEvent
  <2>3. PICK s \in Slots : s = Accumulate(acc, l.i, l.frag) /\ s # <<>>
    BY <1>1, <1>3, LineShape, Accumulated
  <2>4. Apply(l) = [acc |-> s, finished |-> finished, out |-> q]
    BY <1>3, <2>2, <2>3 DEF Apply
  <2>5. Apply(l).acc = s /\ Apply(l).finished = finished /\ Apply(l).out = q
    BY <2>4
  <2>6. Quiet(q)
    BY <2>2 DEF Quiet
  <2>7. Applied(l, s, finished, q)
    BY <2>3, <2>5, <2>6 DEF Applied, Fed
  <2>8. QED
    BY <1>1, <2>7
<1>4. CASE l.kind = "finish" /\ ~finished
  <2>1. PICK r \in EventValues : r = l.reason /\ r # "stream-ended"
    BY <1>4, LineShape
  <2>2. PICK q \in Seq(Events) : q = Flush(acc, r)
    BY <1>1, FlushSays
  <2>3. NoEndTold(q)
    BY <1>1, <2>1, <2>2, FlushSays DEF NoEndTold
  <2>4. Apply(l) = [acc |-> <<>>, finished |-> TRUE, out |-> q]
    BY <1>4, <2>1, <2>2 DEF Apply
  <2>5. Apply(l).acc = <<>> /\ Apply(l).finished = TRUE /\ Apply(l).out = q
    BY <2>4
  <2>6. Applied(l, <<>>, TRUE, q)
    BY <1>4, <2>3, <2>5 DEF Applied, Fed
  <2>7. <<>> \in Slots
    BY DEF Slots
  <2>8. QED
    BY <2>6, <2>7
<1>5. CASE l.kind \notin TextKinds \cup {"reasoning", "usage", "tool"} /\ ~(l.kind = "finish" /\ ~finished)
  <2>1. Apply(l) = [acc |-> acc, finished |-> finished, out |-> <<>>]
    BY <1>5 DEF Apply
  <2>2. Apply(l).acc = acc /\ Apply(l).finished = finished /\ Apply(l).out = <<>>
    BY <2>1
  <2>3. Quiet(<<>>) /\ ~Carries(<<>>, "progress")
    BY DEF Quiet, Carries
  <2>4. Applied(l, acc, finished, <<>>)
    BY <2>2, <2>3 DEF Applied, Fed
  <2>5. <<>> \in Seq(Events)
    OBVIOUS
  <2>6. QED
    BY <1>1, <2>4, <2>5
<1>6. QED
  BY <1>2, <1>3, <1>4, <1>5

\* Of two runs of events.
LEMMA Joins ==
  ASSUME NEW a \in Seq(Events), NEW b \in Seq(Events)
  PROVE  /\ a \o b \in Seq(Events)
         /\ Quiet(a) /\ Quiet(b) => Quiet(a \o b)
         /\ NoEndTold(a) /\ NoEndTold(b) => NoEndTold(a \o b)
         /\ \A k : Carries(a \o b, k) <=> Carries(a, k) \/ Carries(b, k)
<1>1. PICK q \in Seq(Events) : q = a \o b
  BY Joined
<1>2. /\ Len(q) = Len(a) + Len(b) /\ Len(a) \in Nat /\ Len(b) \in Nat
      /\ \A i \in 1..Len(a) : q[i] = a[i]
      /\ \A i \in 1..Len(b) : q[Len(a) + i] = b[i]
  BY <1>1, Joined
<1>3. ASSUME NEW i \in 1..Len(q) PROVE (\E j \in 1..Len(a) : q[i] = a[j]) \/ (\E j \in 1..Len(b) : q[i] = b[j])
  <2>1. CASE i <= Len(a)
    <3>1. i \in 1..Len(a)
      BY <1>2, <2>1
    <3>2. QED
      BY <1>2, <3>1
  <2>2. CASE ~(i <= Len(a))
    <3>1. i - Len(a) \in 1..Len(b) /\ Len(a) + (i - Len(a)) = i
      BY <1>2, <2>2
    <3>2. QED
      BY <1>2, <3>1
  <2>3. QED
    BY <2>1, <2>2
<1>4. (\A j \in 1..Len(a) : j \in 1..Len(q)) /\ (\A j \in 1..Len(b) : Len(a) + j \in 1..Len(q))
  BY <1>2
<1>5. Quiet(a) /\ Quiet(b) => Quiet(q)
  BY <1>3 DEF Quiet
<1>6. NoEndTold(a) /\ NoEndTold(b) => NoEndTold(q)
  BY <1>3 DEF NoEndTold
<1>7. ASSUME NEW k PROVE Carries(q, k) <=> Carries(a, k) \/ Carries(b, k)
  <2>1. Carries(q, k) => Carries(a, k) \/ Carries(b, k)
    BY <1>3 DEF Carries
  <2>2. Carries(a, k) => Carries(q, k)
    BY <1>2, <1>4 DEF Carries
  <2>3. Carries(b, k) => Carries(q, k)
    BY <1>2, <1>4 DEF Carries
  <2>4. QED
    BY <2>1, <2>2, <2>3
<1>8. QED
  BY <1>1, <1>5, <1>6, <1>7

\* Of the events that are left when the first is taken.
LEMMA Leaves ==
  ASSUME NEW q \in Seq(Events), q # <<>>
  PROVE  /\ Tail(q) \in Seq(Events) /\ Head(q) \in Events
         /\ Quiet(q) => Quiet(Tail(q)) /\ Head(q).kind \notin {"call", "finish"}
         /\ NoEndTold(q) => NoEndTold(Tail(q)) /\ (Head(q).kind = "finish" => Head(q).value # "stream-ended")
         /\ \A k : Carries(q, k) <=> Head(q).kind = k \/ Carries(Tail(q), k)
<1>1. PICK t \in Seq(Events) : t = Tail(q)
  BY Taken
<1>2. /\ Len(t) = Len(q) - 1 /\ Len(q) \in Nat \ {0} /\ (\A i \in 1..(Len(q) - 1) : t[i] = q[i + 1])
      /\ Head(q) = q[1] /\ q[1] \in Events
  BY <1>1, Taken
<1>3. 1 \in 1..Len(q) /\ \A i \in 1..Len(t) : i + 1 \in 1..Len(q) /\ t[i] = q[i + 1]
  BY <1>2
<1>4. ASSUME NEW i \in 1..Len(q) PROVE q[i] = Head(q) \/ \E j \in 1..Len(t) : t[j] = q[i]
  <2>1. CASE i = 1
    BY <1>2, <2>1
  <2>2. CASE i # 1
    <3>1. i - 1 \in 1..Len(t) /\ (i - 1) + 1 = i
      BY <1>2, <2>2
    <3>2. QED
      BY <1>3, <3>1
  <2>3. QED
    BY <2>1, <2>2
<1>5. Quiet(q) => Quiet(t) /\ Head(q).kind \notin {"call", "finish"}
  BY <1>2, <1>3 DEF Quiet
<1>6. NoEndTold(q) => NoEndTold(t) /\ (Head(q).kind = "finish" => Head(q).value # "stream-ended")
  BY <1>2, <1>3 DEF NoEndTold
<1>7. ASSUME NEW k PROVE Carries(q, k) <=> Head(q).kind = k \/ Carries(t, k)
  <2>1. Carries(q, k) => Head(q).kind = k \/ Carries(t, k)
    BY <1>4 DEF Carries
  <2>2. Head(q).kind = k => Carries(q, k)
    BY <1>2, <1>3 DEF Carries
  <2>3. Carries(t, k) => Carries(q, k)
    BY <1>3 DEF Carries
  <2>4. QED
    BY <2>1, <2>2, <2>3
<1>8. QED
  BY <1>1, <1>2, <1>5, <1>6, <1>7

LEMMA Fresh == ASSUME FreshStream, ReplayIsInvisible' PROVE StreamInv'
<1>1. /\ buf' = NoLine /\ inFrame' = FALSE /\ acc' = <<>> /\ finished' = FALSE /\ pending' = <<>> /\ ended' = FALSE
      /\ semantic' = FALSE /\ resp' = NoResp
  BY DEF FreshStream
<1>2. \A S : <<>> \in Seq(S)
  OBVIOUS
<1>3. NoResp \in Responses /\ NoResp.text = <<>> /\ NoResp.reasoning = <<>> /\ NoResp.finish = "stop"
  BY <1>2 DEF NoResp, Responses, Texts, Thoughts, EventValues
<1>4. StreamTypes'
  BY <1>1, <1>2, <1>3 DEF StreamTypes, Slots
<1>5. Quiet(<<>>) /\ ~Carries(<<>>, "progress")
  BY DEF Quiet, Carries
<1>6. ~Spoken(resp') /\ resp'.finish = "stop"
  BY <1>1, <1>3 DEF Spoken
<1>7. StreamFits'
  BY <1>1, <1>5, <1>6 DEF StreamFits
<1>8. QED
  BY <1>4, <1>7 DEF StreamInv

\* The stream is not touched but for its place in a frame.
LEMMA StreamRest ==
  ASSUME StreamInv, UNCHANGED <<acc, pending, resp, buf, finished, ended, semantic, stale>>, inFrame' \in BOOLEAN,
         ended => ~inFrame'
  PROVE  StreamInv'
<1>1. StreamTypes'
  BY DEF StreamInv, StreamTypes
<1>2. StreamFits'
  BY DEF StreamInv, StreamFits
<1>3. ReplayIsInvisible'
  BY DEF StreamInv, ReplayIsInvisible
<1>4. QED
  BY <1>1, <1>2, <1>3 DEF StreamInv

\* The text of a response that strips to white space is white space and tags, and
\* one that closes comes with one that opens.
LEMMA TagsEnclose ==
  ASSUME NEW tx \in Texts, AllBlank(tx, FALSE), AllBlank(tx, TRUE)
  PROVE  Range(tx) \subseteq {"blank", "think", "unthink"} /\ ("unthink" \in Range(tx) => "think" \in Range(tx))
<1> DEFINE L == Len(tx)
           Goes(n, q) == IF q THEN tx[n] # "unthink" ELSE tx[n] = "think"
           F == [p \in (1..L) \X BOOLEAN |-> Goes(p[1], p[2])]
           Rec(h) == h = [n \in 0..L |-> IF n = 0 THEN FALSE
                                          ELSE IF h[n - 1] THEN tx[n] # "unthink" ELSE tx[n] = "think"]
<1>1. L \in Nat /\ DOMAIN tx = 1..L
  BY DEF Texts
<1>2. ASSUME NEW n \in 1..L, NEW q \in BOOLEAN PROVE Goes(n, q) \in BOOLEAN
  BY Zenon
<1> HIDE DEF Goes
<1>3. F \in [(1..L) \X BOOLEAN -> BOOLEAN]
  BY <1>2
<1>4. \A n \in 1..L, q \in BOOLEAN : F[<<n, q>>] = Goes(n, q)
  OBVIOUS
<1>5. FALSE \in BOOLEAN
  OBVIOUS
<1> HIDE DEF F
<1>6. PICK g : Iterates(g, L, BOOLEAN, FALSE, F)
  BY <1>1, <1>3, <1>5, Recursion, Zenon
<1>7. g \in [0..L -> BOOLEAN] /\ g[0] = FALSE /\ \A n \in 1..L : g[n] = F[<<n, g[n - 1]>>]
  BY <1>6 DEF Iterates
<1>8. Rec(g)
  <2>1. ASSUME NEW n \in 0..L
        PROVE  g[n] = IF n = 0 THEN FALSE ELSE IF g[n - 1] THEN tx[n] # "unthink" ELSE tx[n] = "think"
    <3>1. CASE n = 0
      BY <1>7, <3>1
    <3>2. CASE n # 0
      <4>1. n \in 1..L /\ n - 1 \in 0..L
        BY <1>1, <3>2
      <4>2. g[n - 1] \in BOOLEAN
        BY <1>7, <4>1
      <4>3. g[n] = Goes(n, g[n - 1])
        <5>1. F[<<n, g[n - 1]>>] = Goes(n, g[n - 1])
          BY <1>4, <4>1, <4>2
        <5>2. QED
          BY <1>7, <4>1, <5>1
      <4>4. QED
        BY <3>2, <4>3 DEF Goes
    <3>3. QED
      BY <3>1, <3>2
  <2>2. QED
    BY <1>7, <2>1
<1> DEFINE h == CHOOSE f : Rec(f)
<1>9. Rec(h)
  <2> HIDE DEF Rec
  <2>1. QED
    BY <1>8, Zenon
<1>10. Inside(tx) = h
  BY DEF Inside
<1> HIDE DEF h
<1>11. ASSUME NEW n \in 0..L
       PROVE  h[n] = IF n = 0 THEN FALSE ELSE IF h[n - 1] THEN tx[n] # "unthink" ELSE tx[n] = "think"
  BY <1>9
<1> HIDE DEF Rec
<1>12. ASSUME NEW n \in 1..L PROVE n \in 0..L /\ n - 1 \in 0..L /\ n # 0
  BY <1>1
<1>13. ASSUME NEW n \in 0..L PROVE h[n] \in BOOLEAN
  BY <1>11, Zenon
<1>14. ASSUME NEW n \in 1..L PROVE h[n] = IF h[n - 1] THEN tx[n] # "unthink" ELSE tx[n] = "think"
  BY <1>11, <1>12, Zenon
<1>15. ASSUME NEW n \in 1..L, NEW b \in BOOLEAN, h[n - 1] = b, h[n] = b PROVE tx[n] = "blank"
  <2>1. n \in Places(tx, b)
    BY <1>1, <1>10, <1>15, Zenon DEF Places
  <2>2. AllBlank(tx, b)
    BY Zenon
  <2>3. QED
    BY <2>1, <2>2, Zenon DEF AllBlank
<1>16. ASSUME NEW n \in 1..L
       PROVE  \/ tx[n] = "blank"
              \/ h[n - 1] /\ tx[n] = "unthink"
              \/ ~h[n - 1] /\ tx[n] = "think"
  <2>1. CASE h[n - 1] /\ tx[n] # "unthink"
    BY <1>12, <1>13, <1>14, <1>15, <2>1, Zenon
  <2>2. CASE ~h[n - 1] /\ tx[n] # "think"
    BY <1>12, <1>13, <1>14, <1>15, <2>2, Zenon
  <2>3. QED
    BY <2>1, <2>2, Zenon
<1> DEFINE Opened == {n \in 0..L : h[n] => "think" \in Range(tx)}
<1>17. 0 \in Opened
  <2>1. 0 \in 0..L
    BY <1>1
  <2>2. h[0] = FALSE
    BY <1>11, <2>1, Zenon
  <2>3. QED
    BY <2>1, <2>2, Zenon
<1>18. ASSUME NEW n \in 1..L, n - 1 \in Opened PROVE n \in Opened
  <2>1. tx[n] = "think" => "think" \in Range(tx)
    BY <1>1 DEF Range
  <2>2. QED
    BY <1>12, <1>14, <1>18, <2>1, Zenon
<1>19. 0..L \subseteq Opened
  <2> HIDE DEF Opened
  <2>1. QED
    BY <1>1, <1>17, <1>18, Segment
<1>20. ASSUME NEW n \in 1..L, tx[n] = "unthink" PROVE "think" \in Range(tx)
  <2>1. h[n - 1]
    BY <1>16, <1>20
  <2>2. QED
    BY <1>12, <1>19, <2>1, Zenon
<1>21. \A x \in Range(tx) : \E n \in 1..L : x = tx[n]
  BY <1>1 DEF Range
<1>22. QED
  BY <1>16, <1>20, <1>21

\* The attempt that is abandoned has shown nothing, or nothing but white space and tags.
LEMMA StreamReplay ==
  ASSUME StreamInv, Replay, ~semantic \/ (ended /\ pending = <<>> /\ EmptyStreamEnd)
  PROVE  StreamInv'
<1>1. stale' = stale \cup Range(resp.text) \cup Range(resp.reasoning) \cup (IF semantic THEN {"semantic"} ELSE {})
  BY DEF Replay
<1>2. PICK tx \in Texts : tx = resp.text
  BY DEF StreamInv, StreamTypes, Responses
<1>3. PICK th \in Thoughts : th = resp.reasoning
  BY DEF StreamInv, StreamTypes, Responses
<1>4. tx # <<>> => Range(tx) # {}
  <2>1. tx # <<>> => 1 \in DOMAIN tx
    BY DEF Texts
  <2>2. QED
    BY <2>1 DEF Range
<1>5. Range(th) \subseteq {"reasoning"} /\ (th # <<>> => Range(th) # {})
  <2>1. \A i \in DOMAIN th : th[i] \in {"reasoning"}
    BY DEF Thoughts
  <2>2. th # <<>> => 1 \in DOMAIN th
    BY DEF Thoughts
  <2>3. QED
    BY <2>1, <2>2 DEF Range
<1>6. Range(<<>>) = {}
  BY DEF Range
<1>7. CASE ~semantic
  <2>1. tx = <<>> /\ th = <<>>
    BY <1>2, <1>3, <1>7 DEF StreamInv, StreamFits, Spoken
  <2>2. stale' = stale
    BY <1>1, <1>2, <1>3, <1>6, <1>7, <2>1
  <2>3. ReplayIsInvisible'
    BY <2>2 DEF StreamInv, ReplayIsInvisible
  <2>4. QED
    BY <2>3, Fresh DEF Replay
<1>8. CASE semantic
  <2>1. ended /\ pending = <<>> /\ resp.finish = "stream-ended" /\ resp.calls = <<>>
        /\ AllBlank(tx, FALSE) /\ AllBlank(tx, TRUE) /\ "reasoning" \notin Range(th)
    BY <1>2, <1>3, <1>8 DEF EmptyStreamEnd
  <2>2. ~Carries(pending, "call")
    BY <2>1 DEF Carries
  <2>3. Spoken(resp)
    BY <1>8, <2>1, <2>2 DEF StreamInv, StreamFits
  <2>4. th = <<>> /\ Range(th) = {}
    BY <1>5, <2>1
  <2>5. tx # <<>>
    BY <1>2, <1>3, <2>3, <2>4 DEF Spoken
  <2>6. PICK rt : rt = Range(tx)
    OBVIOUS
  <2>7. rt # {} /\ rt \subseteq {"blank", "think", "unthink"} /\ ("unthink" \in rt => "think" \in rt)
    BY <1>4, <2>1, <2>5, <2>6, TagsEnclose
  <2>8. stale' = stale \cup rt \cup {"semantic"}
    BY <1>1, <1>2, <1>3, <1>8, <2>4, <2>6
  <2>9. ReplayIsInvisible'
    BY <2>7, <2>8 DEF StreamInv, ReplayIsInvisible
  <2>10. QED
    BY <2>9, Fresh DEF Replay
<1>9. QED
  BY <1>7, <1>8

LEMMA StreamAttemptFails == ASSUME StreamInv, NEW error, AttemptFails(error) PROVE StreamInv'
<1>1. CASE ~semantic /\ Replay
  BY <1>1, StreamReplay
<1>2. CASE UNCHANGED <<modelVars, sendVars, bodyVars, stale>>
  <2>1. UNCHANGED <<acc, pending, resp, buf, finished, ended, semantic, stale, inFrame>>
    BY <1>2 DEF bodyVars
  <2>2. inFrame' \in BOOLEAN /\ (ended => ~inFrame')
    BY <2>1 DEF StreamInv, StreamTypes, StreamFits
  <2>3. QED
    BY <2>1, <2>2, StreamRest
<1>3. QED
  BY <1>1, <1>2 DEF AttemptFails

\* What the consumer makes of one event.
LEMMA Delivered ==
  ASSUME StreamTypes, Deliver, NEW e \in Events, e = Head(pending)
  PROVE  /\ resp' \in Responses
         /\ Spoken(resp') <=> Spoken(resp) \/ e.kind \in TextKinds \cup {"reasoning"}
         /\ resp.calls # <<>> \/ e.kind = "call" => resp'.calls # <<>>
         /\ resp'.calls = IF e.kind = "call" THEN Append(resp.calls, e.value) ELSE resp.calls
         /\ resp'.finish = IF e.kind = "finish" THEN e.value ELSE resp.finish
<1>1. e.kind \in EventKinds /\ e.value \in EventValues /\ resp \in Responses
  BY DEF Events, StreamTypes
<1>2. PICK tx \in Texts : tx = resp.text
  BY <1>1 DEF Responses
<1>3. PICK th \in Thoughts : th = resp.reasoning
  BY <1>1 DEF Responses
<1>4. PICK cs \in Seq(EventValues) : cs = resp.calls
  BY <1>1 DEF Responses
<1>5. CASE e.kind \in TextKinds
  <2>1. Append(tx, e.kind) \in Texts /\ Append(tx, e.kind) # <<>>
    BY <1>5, AppendProperties DEF Texts
  <2>2. resp' = [resp EXCEPT !.text = Append(tx, e.kind)]
    BY <1>2, <1>5 DEF Deliver, TextKinds
  <2>3. /\ resp' \in Responses /\ resp'.text = Append(tx, e.kind) /\ resp'.reasoning = resp.reasoning
        /\ resp'.calls = resp.calls /\ resp'.finish = resp.finish
    BY <1>1, <2>1, <2>2 DEF Responses
  <2>4. QED
    BY <1>5, <2>1, <2>3 DEF Spoken, TextKinds
<1>6. CASE e.kind = "reasoning"
  <2>1. Append(th, e.kind) \in Thoughts /\ Append(th, e.kind) # <<>>
    BY <1>6, AppendProperties DEF Thoughts
  <2>2. resp' = [resp EXCEPT !.reasoning = Append(th, e.kind)]
    BY <1>3, <1>6 DEF Deliver
  <2>3. /\ resp' \in Responses /\ resp'.text = resp.text /\ resp'.reasoning = Append(th, e.kind)
        /\ resp'.calls = resp.calls /\ resp'.finish = resp.finish
    BY <1>1, <2>1, <2>2 DEF Responses
  <2>4. QED
    BY <1>6, <2>1, <2>3 DEF Spoken
<1>7. CASE e.kind = "call"
  <2>1. Append(cs, e.value) \in Seq(EventValues) /\ Append(cs, e.value) # <<>>
    BY <1>1, AppendProperties
  <2>2. resp' = [resp EXCEPT !.calls = Append(cs, e.value)]
    BY <1>4, <1>7 DEF Deliver
  <2>3. /\ resp' \in Responses /\ resp'.text = resp.text /\ resp'.reasoning = resp.reasoning
        /\ resp'.calls = Append(cs, e.value) /\ resp'.finish = resp.finish
    BY <1>1, <2>1, <2>2 DEF Responses
  <2>4. QED
    BY <1>4, <1>7, <2>1, <2>3 DEF Spoken, TextKinds
<1>8. CASE e.kind = "finish"
  <2>1. resp' = [resp EXCEPT !.finish = e.value]
    BY <1>8 DEF Deliver
  <2>2. /\ resp' \in Responses /\ resp'.text = resp.text /\ resp'.reasoning = resp.reasoning
        /\ resp'.calls = resp.calls /\ resp'.finish = e.value
    BY <1>1, <2>1 DEF Responses
  <2>3. QED
    BY <1>8, <2>2 DEF Spoken, TextKinds
<1>9. CASE e.kind = "usage"
  <2>1. resp' = [resp EXCEPT !.usage = TRUE]
    BY <1>9 DEF Deliver
  <2>2. /\ resp' \in Responses /\ resp'.text = resp.text /\ resp'.reasoning = resp.reasoning
        /\ resp'.calls = resp.calls /\ resp'.finish = resp.finish
    BY <1>1, <2>1 DEF Responses
  <2>3. QED
    BY <1>9, <2>2 DEF Spoken, TextKinds
<1>10. CASE e.kind \in {"progress", "activity"}
  <2>1. resp' = resp
    BY <1>10 DEF Deliver, TextKinds
  <2>2. QED
    BY <1>1, <1>10, <2>1 DEF Spoken, TextKinds
<1>11. QED
  BY <1>1, <1>5, <1>6, <1>7, <1>8, <1>9, <1>10 DEF EventKinds

LEMMA StreamDeliver == ASSUME StreamInv, Deliver PROVE StreamInv'
<1>1. /\ ~inFrame /\ pending # <<>> /\ pending' = Tail(pending)
      /\ UNCHANGED <<buf, inFrame, acc, finished, ended, stale>>
  BY DEF Deliver
<1>2. pending \in Seq(Events)
  BY DEF StreamInv, StreamTypes
<1>3. PICK e \in Events : e = Head(pending)
  BY <1>1, <1>2, Leaves
<1>4. semantic' = (semantic \/ Semantic(e))
  BY <1>3 DEF Deliver
<1>5. /\ resp' \in Responses
      /\ Spoken(resp') <=> Spoken(resp) \/ e.kind \in TextKinds \cup {"reasoning"}
      /\ resp.calls # <<>> \/ e.kind = "call" => resp'.calls # <<>>
      /\ resp'.finish = IF e.kind = "finish" THEN e.value ELSE resp.finish
  BY <1>3, Delivered DEF StreamInv
<1>6. PICK tl \in Seq(Events) : tl = Tail(pending)
  BY <1>1, <1>2, Leaves
<1>7. /\ Quiet(pending) => Quiet(tl) /\ e.kind \notin {"call", "finish"}
      /\ NoEndTold(pending) => NoEndTold(tl) /\ (e.kind = "finish" => e.value # "stream-ended")
      /\ \A k : Carries(pending, k) <=> e.kind = k \/ Carries(tl, k)
  BY <1>1, <1>2, <1>3, <1>6, Leaves
<1>8. semantic' \in BOOLEAN /\ (semantic' <=> semantic \/ Semantic(e))
  BY <1>4
<1>9. StreamTypes'
  BY <1>1, <1>5, <1>6, <1>8 DEF StreamInv, StreamTypes
<1>10. ~semantic' => ~Spoken(resp')
  BY <1>5, <1>8 DEF StreamInv, StreamFits, Semantic
<1>11. ASSUME ~finished PROVE /\ Quiet(tl) /\ resp'.finish = "stop"
                              /\ semantic' => Spoken(resp') \/ acc # <<>>
                              /\ Carries(tl, "progress") => acc # <<>>
  <2>1. /\ Quiet(pending) /\ resp.finish = "stop" /\ (semantic => Spoken(resp) \/ acc # <<>>)
        /\ Carries(pending, "progress") => acc # <<>>
    BY <1>11 DEF StreamInv, StreamFits
  <2>2. QED
    BY <1>5, <1>7, <1>8, <2>1 DEF Semantic
<1>12. ASSUME finished PROVE \/ NoEndTold(tl) /\ resp'.finish # "stream-ended"
                             \/ /\ ended
                                /\ semantic' \/ Carries(tl, "progress") =>
                                     Spoken(resp') \/ resp'.calls # <<>> \/ Carries(tl, "call")
  <2>1. CASE NoEndTold(pending) /\ resp.finish # "stream-ended"
    BY <1>5, <1>7, <2>1
  <2>2. CASE ended /\ (semantic \/ Carries(pending, "progress") =>
                        Spoken(resp) \/ resp.calls # <<>> \/ Carries(pending, "call"))
    <3>1. Carries(pending, "progress") <=> e.kind = "progress" \/ Carries(tl, "progress")
      BY <1>7
    <3>2. Carries(pending, "call") <=> e.kind = "call" \/ Carries(tl, "call")
      BY <1>7
    <3>3. QED
      BY <1>5, <1>8, <2>2, <3>1, <3>2 DEF Semantic
  <2>3. QED
    BY <1>12, <2>1, <2>2 DEF StreamInv, StreamFits
<1>13. StreamFits'
  BY <1>1, <1>6, <1>10, <1>11, <1>12 DEF StreamInv, StreamFits
<1>14. ReplayIsInvisible'
  BY <1>1 DEF StreamInv, ReplayIsInvisible
<1>15. QED
  BY <1>9, <1>13, <1>14 DEF StreamInv

LEMMA QuietTellsNoEnd == ASSUME NEW q, Quiet(q) PROVE NoEndTold(q)
  BY DEF Quiet, NoEndTold

LEMMA StreamFrameLine == ASSUME StreamInv, NEW l \in Lines, FrameLine(l) PROVE StreamInv'
<1>1. CASE AttemptFails("json")
  BY <1>1, StreamAttemptFails
<1>2. CASE buf' = NoLine /\ Fuse(l) /\ UNCHANGED <<idleVars, phase, modelVars, inFrame, ended, semantic, resp, stale, result>>
  <2>1. PICK s \in Slots, f \in BOOLEAN, out \in Seq(Events) : Applied(l, s, f, out)
    BY ApplySays DEF StreamInv
  <2>2. acc' = s /\ finished' = f /\ pending' = pending \o out /\ UNCHANGED <<inFrame, ended, semantic, resp, stale>>
    BY <1>2, <2>1 DEF Fuse, Applied
  <2>3. ~ended
    BY DEF FrameLine, StreamInv, StreamFits
  <2>4. pending \in Seq(Events)
    BY DEF StreamInv, StreamTypes
  <2>5. /\ pending \o out \in Seq(Events)
        /\ Quiet(pending) /\ Quiet(out) => Quiet(pending \o out)
        /\ NoEndTold(pending) /\ NoEndTold(out) => NoEndTold(pending \o out)
        /\ Carries(pending \o out, "progress") <=> Carries(pending, "progress") \/ Carries(out, "progress")
    BY <2>4, Joins
  <2>6. PICK q \in Seq(Events) : q = pending \o out
    BY <2>5
  <2>7. Fed(s, f, out)
    BY <2>1 DEF Applied
  <2>8. StreamTypes'
    BY <1>2, <2>1, <2>2, <2>6 DEF StreamInv, StreamTypes
  <2>9. ASSUME ~f PROVE /\ ~finished /\ Quiet(q) /\ resp.finish = "stop"
                        /\ semantic => Spoken(resp) \/ s # <<>>
                        /\ Carries(q, "progress") => s # <<>>
    <3>1. ~finished
      BY <2>7, <2>9 DEF Fed
    <3>2. /\ Quiet(pending) /\ resp.finish = "stop" /\ (semantic => Spoken(resp) \/ acc # <<>>)
          /\ Carries(pending, "progress") => acc # <<>>
      BY <3>1 DEF StreamInv, StreamFits
    <3>3. Quiet(out) /\ (acc # <<>> => s # <<>>) /\ (Carries(out, "progress") => s # <<>>)
      BY <2>7, <2>9, <3>1 DEF Fed
    <3>4. QED
      BY <2>5, <2>6, <3>1, <3>2, <3>3
  <2>10. ASSUME f PROVE NoEndTold(q) /\ resp.finish # "stream-ended"
    <3>1. NoEndTold(pending) /\ resp.finish # "stream-ended"
      BY <2>3, QuietTellsNoEnd DEF StreamInv, StreamFits, StreamTypes
    <3>2. NoEndTold(out)
      BY <2>7, <2>10, QuietTellsNoEnd DEF Fed
    <3>3. QED
      BY <2>5, <2>6, <3>1, <3>2
  <2>11. ~semantic => ~Spoken(resp)
    BY DEF StreamInv, StreamFits
  <2>12. StreamFits'
    BY <2>2, <2>3, <2>6, <2>9, <2>10, <2>11 DEF StreamFits
  <2>13. ReplayIsInvisible'
    BY <2>2 DEF StreamInv, ReplayIsInvisible
  <2>14. QED
    BY <2>8, <2>12, <2>13 DEF StreamInv
<1>3. QED
  BY <1>1, <1>2 DEF FrameLine

LEMMA StreamFrameEnd == ASSUME StreamInv, NEW cut \in Lines \cup {NoLine}, FrameEnd(cut) PROVE StreamInv'
<1>1. /\ inFrame /\ inFrame' = FALSE /\ buf' = cut
      /\ pending' = (IF pending = <<>> THEN <<Event("activity", None)>> ELSE pending)
      /\ UNCHANGED <<acc, finished, ended, semantic, resp, stale>>
  BY DEF FrameEnd
<1>2. ~ended
  BY <1>1 DEF StreamInv, StreamFits
<1>3. "activity" \in EventKinds
  BY DEF EventKinds
<1>4. PICK q \in Seq(Events) : q = <<Event("activity", None)>> /\ \A i \in 1..Len(q) : q[i].kind = "activity"
  BY <1>3, OneEvent
<1>5. Quiet(q) /\ ~Carries(q, "progress") /\ NoEndTold(q)
  BY <1>4 DEF Quiet, Carries, NoEndTold
<1>6. PICK p \in Seq(Events) : p = pending' /\ (p = pending \/ p = q)
  BY <1>1, <1>4 DEF StreamInv, StreamTypes
<1>7. StreamTypes'
  BY <1>1, <1>6 DEF StreamInv, StreamTypes
<1>8. StreamFits'
  <2>1. CASE p = pending
    BY <1>1, <1>2, <1>6, <2>1 DEF StreamInv, StreamFits
  <2>2. CASE p = q
    BY <1>1, <1>2, <1>5, <1>6, <2>2 DEF StreamInv, StreamFits
  <2>3. QED
    BY <1>6, <2>1, <2>2
<1>9. ReplayIsInvisible'
  BY <1>1 DEF StreamInv, ReplayIsInvisible
<1>10. QED
  BY <1>7, <1>8, <1>9 DEF StreamInv

\* The body ends: what was being put together is flushed as calls.
LEMMA StreamFlushed ==
  ASSUME StreamInv, pending = <<>>, ~ended, ~inFrame, NEW s \in Slots, NEW f \in BOOLEAN, NEW out \in Seq(Events), Fed(s, f, out),
         pending' = out \o (IF f THEN <<>> ELSE Flush(s, "stream-ended")), acc' = IF f THEN s ELSE <<>>,
         finished' = TRUE, ended' = TRUE, buf' = NoLine, UNCHANGED <<inFrame, semantic, resp, stale>>
  PROVE  StreamInv'
<1>1. "stream-ended" \in EventValues /\ <<>> \in Seq(Events) /\ <<>> \in Slots
  BY DEF EventValues, Slots
<1>2. PICK fl \in Seq(Events) : fl = IF f THEN <<>> ELSE Flush(s, "stream-ended")
  BY <1>1, FlushSays
<1>3. pending' = out \o fl
  BY <1>2
<1>4. /\ out \o fl \in Seq(Events)
      /\ NoEndTold(out) /\ NoEndTold(fl) => NoEndTold(out \o fl)
      /\ \A k : Carries(out \o fl, k) <=> Carries(out, k) \/ Carries(fl, k)
  BY Joins
<1>5. PICK q \in Seq(Events) : q = out \o fl
  BY <1>4
<1>6. StreamTypes'
  BY <1>1, <1>3, <1>5 DEF StreamInv, StreamTypes
<1>7. ASSUME f PROVE NoEndTold(q) /\ resp.finish # "stream-ended"
  <2>1. resp.finish # "stream-ended"
    BY DEF StreamInv, StreamFits, StreamTypes
  <2>2. NoEndTold(out)
    BY <1>7, QuietTellsNoEnd DEF Fed
  <2>3. NoEndTold(fl)
    <3>1. fl = <<>>
      BY <1>2, <1>7
    <3>2. QED
      BY <3>1 DEF NoEndTold
  <2>4. QED
    BY <1>4, <1>5, <2>1, <2>2, <2>3
<1>8. ASSUME ~f, semantic \/ Carries(q, "progress") PROVE Spoken(resp) \/ Carries(q, "call")
  <2>1. ~finished
    BY <1>8 DEF Fed
  <2>2. semantic => Spoken(resp) \/ acc # <<>>
    BY <2>1 DEF StreamInv, StreamFits
  <2>3. (acc # <<>> => s # <<>>) /\ (Carries(out, "progress") => s # <<>>)
    BY <1>8, <2>1 DEF Fed
  <2>4. fl = Flush(s, "stream-ended")
    BY <1>2, <1>8
  <2>5. /\ \A i \in 1..Len(fl) : fl[i].kind \in {"call", "finish"}
        /\ s # <<>> => Carries(fl, "call")
    BY <1>1, <2>4, FlushSays
  <2>6. ~Carries(fl, "progress")
    BY <2>5 DEF Carries
  <2>7. QED
    BY <1>4, <1>5, <1>8, <2>2, <2>3, <2>5, <2>6
<1>9. ~semantic => ~Spoken(resp)
  BY DEF StreamInv, StreamFits
<1>10. StreamFits'
  BY <1>3, <1>5, <1>7, <1>8, <1>9 DEF StreamFits
<1>11. ReplayIsInvisible'
  BY DEF StreamInv, ReplayIsInvisible
<1>12. QED
  BY <1>6, <1>10, <1>11 DEF StreamInv

LEMMA StreamBodyEnd == ASSUME StreamInv, NEW tail, BodyEnd(tail) PROVE StreamInv'
<1>1. ~inFrame /\ pending = <<>> /\ ~ended
  BY DEF BodyEnd, Polling
<1>2. CASE AttemptFails("json")
  BY <1>2, StreamAttemptFails
<1>3. ASSUME tail \in {"ignored", "whole"}, buf = NoLine => tail = "ignored", finished' = TRUE, ended' = TRUE, buf' = NoLine,
             UNCHANGED <<inFrame, semantic, resp, stale>>, NEW a,
             a = IF tail = "whole" THEN Apply(buf) ELSE [acc |-> acc, finished |-> finished, out |-> <<>>],
             pending' = a.out \o (IF a.finished THEN <<>> ELSE Flush(a.acc, "stream-ended")),
             acc' = IF a.finished THEN a.acc ELSE <<>>
      PROVE  StreamInv'
  <2>1. PICK s \in Slots, f \in BOOLEAN, out \in Seq(Events) : a.acc = s /\ a.finished = f /\ a.out = out /\ Fed(s, f, out)
    <3>1. CASE tail = "whole"
      <4>1. buf \in Lines
        BY <1>3, <3>1 DEF StreamInv, StreamTypes
      <4>2. PICK s \in Slots, f \in BOOLEAN, out \in Seq(Events) : Applied(buf, s, f, out)
        BY <4>1, ApplySays DEF StreamInv
      <4>3. QED
        BY <1>3, <3>1, <4>2 DEF Applied
    <3>2. CASE tail = "ignored"
      <4>1. a.acc = acc /\ a.finished = finished /\ a.out = <<>>
        BY <1>3, <3>2
      <4>2. Quiet(<<>>) /\ ~Carries(<<>>, "progress")
        BY DEF Quiet, Carries
      <4>3. Fed(acc, finished, <<>>)
        BY <4>2 DEF Fed
      <4>4. acc \in Slots /\ finished \in BOOLEAN /\ <<>> \in Seq(Events)
        BY DEF StreamInv, StreamTypes
      <4>5. QED
        BY <4>1, <4>3, <4>4
    <3>3. QED
      BY <1>3, <3>1, <3>2
  <2>2. pending' = out \o (IF f THEN <<>> ELSE Flush(s, "stream-ended")) /\ acc' = IF f THEN s ELSE <<>>
    BY <1>3, <2>1
  <2>3. QED
    BY <1>1, <1>3, <2>1, <2>2, StreamFlushed
<1>4. CASE ~AttemptFails("json")
  BY <1>3, <1>4 DEF BodyEnd
<1>5. QED
  BY <1>2, <1>4

LEMMA StreamStreamEnd == ASSUME StreamInv, StreamEnd PROVE StreamInv'
<1>1. CASE EmptyStreamEnd /\ Replay
  BY <1>1, StreamReplay DEF StreamEnd
<1>2. CASE UNCHANGED <<modelVars, sendVars, bodyVars, stale>>
  <2>1. UNCHANGED <<acc, pending, resp, buf, finished, ended, semantic, stale, inFrame>>
    BY <1>2 DEF bodyVars
  <2>2. inFrame' \in BOOLEAN /\ (ended => ~inFrame')
    BY <2>1 DEF StreamInv, StreamTypes, StreamFits
  <2>3. QED
    BY <2>1, <2>2, StreamRest
<1>3. QED
  BY <1>1, <1>2 DEF StreamEnd

LEMMA StreamStart == ASSUME ProviderInit PROVE StreamInv
<1>1. /\ buf = NoLine /\ inFrame = FALSE /\ acc = <<>> /\ finished = FALSE /\ pending = <<>> /\ ended = FALSE
      /\ semantic = FALSE /\ resp = NoResp /\ stale = {}
  BY DEF ProviderInit
<1>2. \A S : <<>> \in Seq(S)
  OBVIOUS
<1>3. NoResp \in Responses /\ NoResp.text = <<>> /\ NoResp.reasoning = <<>> /\ NoResp.finish = "stop"
  BY <1>2 DEF NoResp, Responses, Texts, Thoughts, EventValues
<1>4. StreamTypes
  BY <1>1, <1>2, <1>3 DEF StreamTypes, Slots
<1>5. Quiet(<<>>) /\ ~Carries(<<>>, "progress")
  BY DEF Quiet, Carries
<1>6. ~Spoken(resp) /\ resp.finish = "stop"
  BY <1>1, <1>3 DEF Spoken
<1>7. StreamFits
  BY <1>1, <1>5, <1>6 DEF StreamFits
<1>8. ReplayIsInvisible
  BY <1>1 DEF ReplayIsInvisible
<1>9. QED
  BY <1>4, <1>7, <1>8 DEF StreamInv

\* Sending leaves the stream alone, or opens a fresh one.
LEMMA StreamSend ==
  ASSUME StreamInv, SendDlr \/ SendLocalError \/ \E o \in Outcomes : Post(o) PROVE StreamInv'
<1>1. UNCHANGED stale
  BY DEF SendDlr, SendLocalError, Post
<1>2. UNCHANGED bodyVars \/ FreshStream
  BY DEF SendDlr, SendLocalError, Post, Accepted
<1>3. CASE UNCHANGED bodyVars
  <2>1. UNCHANGED <<acc, pending, resp, buf, finished, ended, semantic, stale, inFrame>>
    BY <1>1, <1>3 DEF bodyVars
  <2>2. inFrame' \in BOOLEAN /\ (ended => ~inFrame')
    BY <2>1 DEF StreamInv, StreamTypes, StreamFits
  <2>3. QED
    BY <2>1, <2>2, StreamRest
<1>4. CASE FreshStream
  <2>1. ReplayIsInvisible'
    BY <1>1 DEF StreamInv, ReplayIsInvisible
  <2>2. QED
    BY <1>4, <2>1, Fresh
<1>5. QED
  BY <1>2, <1>3, <1>4

LEMMA StreamSteps == ASSUME StreamInv, [ProviderNext]_providerVars PROVE StreamInv'
<1>1. CASE UNCHANGED providerVars \/ FrameBegin
  <2>1. UNCHANGED <<acc, pending, resp, buf, finished, ended, semantic, stale>>
    BY <1>1 DEF providerVars, bodyVars, FrameBegin
  <2>2. inFrame' \in BOOLEAN /\ (ended => ~inFrame')
    <3>1. CASE UNCHANGED providerVars
      <4>1. inFrame' = inFrame
        BY <3>1 DEF providerVars, bodyVars
      <4>2. QED
        BY <4>1 DEF StreamInv, StreamTypes, StreamFits
    <3>2. CASE FrameBegin
      BY <3>2 DEF FrameBegin, Polling
    <3>3. QED
      BY <1>1, <3>1, <3>2
  <2>3. QED
    BY <2>1, <2>2, StreamRest
<1>2. ASSUME NEW m, Begin(m) PROVE StreamInv'
  <2>1. FreshStream /\ stale' = {}
    BY <1>2 DEF Begin
  <2>2. ReplayIsInvisible'
    BY <2>1 DEF ReplayIsInvisible
  <2>3. QED
    BY <2>1, <2>2, Fresh
<1>3. CASE SendDlr \/ SendLocalError \/ \E o \in Outcomes : Post(o)
  BY <1>3, StreamSend
<1>4. CASE BodyError \/ IdleTimeout
  BY <1>4, StreamAttemptFails DEF BodyError, IdleTimeout
<1>5. CASE Deliver \/ StreamEnd
  BY <1>5, StreamDeliver, StreamStreamEnd
<1>6. CASE (\E l \in Lines : FrameLine(l)) \/ (\E c \in Lines \cup {NoLine} : FrameEnd(c))
  BY <1>6, StreamFrameLine, StreamFrameEnd
<1>7. CASE \E t \in {"whole", "broken", "ignored"} : BodyEnd(t)
  BY <1>7, StreamBodyEnd
<1>8. QED
  BY <1>1, <1>2, <1>3, <1>4, <1>5, <1>6, <1>7 DEF ProviderNext

\* A request is sent again only if the attempts before it showed the host nothing but white space, and
\* the retries a completion reports are the requests it made beyond the first, within the bound
\* (ChatModel::complete, encode_and_send, send_with_retry), for any number of retries, replays and
\* lines and whatever the lines are.
THEOREM ReplaySoundAlways == ProviderSpec => []ReplaySound
<1>1. ProviderInit => StreamInv /\ CountInv
  BY StreamStart, CountStart
<1>2. StreamInv /\ CountInv /\ [ProviderNext]_providerVars => (StreamInv /\ CountInv)'
  BY StreamSteps, CountSteps
<1>3. StreamInv /\ CountInv => ReplaySound
  BY DEF StreamInv, CountInv, ReplaySound
<1>4. QED
  BY <1>1, <1>2, <1>3, PTL DEF ProviderSpec

-----------------------------------------------------------------------------
(* The calls of a response, put together from what the server said.        *)

\* A call's fragments with one line more.
WithLine(own, l, i) == IF l.kind = "tool" /\ l.i = i THEN Append(own, l.frag) ELSE own

LEMMA FragsRun ==
  ASSUME NEW q \in Seq(Lines), NEW i
  PROVE  \E h \in [0..Len(q) -> Seq(Fragments)] :
           /\ h[0] = <<>>
           /\ \A n \in 1..Len(q) : h[n] = WithLine(h[n - 1], q[n], i)
           /\ FragsOf(q, i) = h[Len(q)]
<1> DEFINE L == Len(q)
           T == Seq(Fragments)
           F == [p \in (1..L) \X T |-> WithLine(p[2], q[p[1]], i)]
           Rec(h) == h = [n \in 0..L |-> IF n = 0 THEN <<>> ELSE WithLine(h[n - 1], q[n], i)]
<1>1. L \in Nat
  OBVIOUS
<1>2. <<>> \in T
  OBVIOUS
<1>3. ASSUME NEW n \in 1..L, NEW p \in T PROVE WithLine(p, q[n], i) \in T
  <2>1. q[n] \in Lines
    BY ElementOfSeq
  <2>2. PICK l \in Lines : l = q[n]
    BY <2>1
  <2>3. l.kind = "tool" => l.frag \in Fragments
    BY LineShape
  <2>4. l.kind = "tool" => Append(p, l.frag) \in T
    BY <2>3, Appended
  <2>5. QED
    BY <2>2, <2>4 DEF WithLine
<1>4. F \in [(1..L) \X T -> T]
  BY <1>3
<1>5. \A n \in 1..L, p \in T : F[<<n, p>>] = WithLine(p, q[n], i)
  OBVIOUS
<1> HIDE DEF F, T
<1>6. PICK g : Iterates(g, L, T, <<>>, F)
  BY <1>1, <1>2, <1>4, Recursion, Zenon
<1>7. g \in [0..L -> T] /\ g[0] = <<>> /\ \A n \in 1..L : g[n] = F[<<n, g[n - 1]>>]
  BY <1>6 DEF Iterates
<1>8. Rec(g)
  <2>1. ASSUME NEW n \in 0..L PROVE g[n] = IF n = 0 THEN <<>> ELSE WithLine(g[n - 1], q[n], i)
    <3>1. CASE n = 0
      BY <1>7, <3>1
    <3>2. CASE n # 0
      <4>1. n \in 1..L /\ g[n - 1] \in T
        BY <1>1, <1>7, <3>2
      <4>2. QED
        BY <1>5, <1>7, <3>2, <4>1
    <3>3. QED
      BY <3>1, <3>2
  <2>2. QED
    BY <1>7, <2>1
<1> DEFINE h == CHOOSE f : Rec(f)
<1>9. Rec(h)
  BY <1>8
<1>10. FragsOf(q, i) = h[L]
  BY DEF FragsOf, WithLine
<1> HIDE DEF h
<1>11. DOMAIN h = 0..L /\ h[0] = <<>> /\ \A n \in 1..L : h[n] = WithLine(h[n - 1], q[n], i)
  <2>1. \A n \in 1..L : n - 1 \in 0..L /\ n \in 0..L /\ n # 0
    BY <1>1
  <2>2. QED
    BY <1>1, <1>9, <2>1
<1> DEFINE Typed == {n \in 0..L : h[n] \in T}
<1>12. 0 \in Typed
  BY <1>1, <1>2, <1>11
<1>13. ASSUME NEW n \in 1..L, n - 1 \in Typed PROVE n \in Typed
  <2>1. h[n - 1] \in T /\ n \in 0..L
    BY <1>1, <1>13
  <2>2. QED
    BY <1>3, <1>11, <2>1
<1>14. 0..L \subseteq Typed
  <2> HIDE DEF Typed
  <2>1. QED
    BY <1>1, <1>12, <1>13, Segment
<1>15. h \in [0..L -> T]
  BY <1>9, <1>14
<1>16. QED
  BY <1>10, <1>11, <1>15 DEF T

LEMMA FragsNone == ASSUME NEW i PROVE FragsOf(<<>>, i) = <<>>
<1>0. <<>> \in Seq(Lines) /\ Len(<<>>) = 0
  OBVIOUS
<1>1. PICK q \in Seq(Lines) : q = <<>> /\ Len(q) = 0
  BY <1>0, Zenon
<1>2. PICK h \in [0..Len(q) -> Seq(Fragments)] :
           /\ h[0] = <<>>
           /\ \A n \in 1..Len(q) : h[n] = WithLine(h[n - 1], q[n], i)
           /\ FragsOf(q, i) = h[Len(q)]
  BY FragsRun
<1>3. QED
  BY <1>1, <1>2

LEMMA FragsTyped == ASSUME NEW q \in Seq(Lines), NEW i PROVE FragsOf(q, i) \in Seq(Fragments)
<1>1. Len(q) \in Nat /\ Len(q) \in 0..Len(q)
  OBVIOUS
<1>2. QED
  BY <1>1, FragsRun

\* A line adds its fragment to its own call.
LEMMA FragsNext ==
  ASSUME NEW q \in Seq(Lines), NEW l \in Lines, NEW i
  PROVE  FragsOf(Append(q, l), i) = WithLine(FragsOf(q, i), l, i)
<1> DEFINE L == Len(q)
           T == Seq(Fragments)
<1>1. PICK h \in [0..L -> T] : /\ h[0] = <<>>
                               /\ \A n \in 1..L : h[n] = WithLine(h[n - 1], q[n], i)
                               /\ FragsOf(q, i) = h[L]
  BY FragsRun
<1>2. PICK more \in Seq(Lines) : more = Append(q, l)
  BY Appended
<1>3. L \in Nat /\ Len(more) = L + 1 /\ (\A n \in 1..L : more[n] = q[n]) /\ more[L + 1] = l
  BY <1>2, Appended
<1>4. PICK g \in [0..(L + 1) -> T] : /\ g[0] = <<>>
                                     /\ \A n \in 1..(L + 1) : g[n] = WithLine(g[n - 1], more[n], i)
                                     /\ FragsOf(more, i) = g[L + 1]
  <2>1. \E g \in [0..Len(more) -> T] : /\ g[0] = <<>>
                                       /\ \A n \in 1..Len(more) : g[n] = WithLine(g[n - 1], more[n], i)
                                       /\ FragsOf(more, i) = g[Len(more)]
    BY FragsRun
  <2> HIDE DEF L, T
  <2>2. QED
    BY <1>3, <2>1
<1> HIDE DEF L, T
<1> DEFINE Same == {n \in 0..L : g[n] = h[n]}
<1>5. 0 \in Same
  BY <1>1, <1>3, <1>4
<1>6. ASSUME NEW n \in 1..L, n - 1 \in Same PROVE n \in Same
  <2>1. n \in 1..(L + 1) /\ n \in 0..L /\ g[n - 1] = h[n - 1] /\ more[n] = q[n]
    BY <1>3, <1>6
  <2>2. g[n] = WithLine(g[n - 1], more[n], i) /\ h[n] = WithLine(h[n - 1], q[n], i)
    BY <1>1, <1>4, <2>1
  <2>3. QED
    BY <2>1, <2>2
<1>7. 0..L \subseteq Same
  <2> HIDE DEF Same
  <2>1. QED
    BY <1>3, <1>5, <1>6, Segment
<1>8. L \in 0..L /\ L + 1 \in 1..(L + 1) /\ (L + 1) - 1 = L
  BY <1>3
<1>9. g[L] = h[L]
  BY <1>7, <1>8
<1>10. g[L + 1] = WithLine(g[L], l, i)
  BY <1>3, <1>4, <1>8
<1>11. QED
  BY <1>1, <1>2, <1>4, <1>9, <1>10

\* The first finish of what was said stays the first.
Ends(q) == {k \in 1..Len(q) : q[k].kind = "finish"}

LEMMA FinishIs ==
  /\ Ends(said) = {} => FinishAt = 0
  /\ Ends(said) # {} => FinishAt \in Ends(said) /\ \A k \in Ends(said) : FinishAt <= k
<1>1. FinishAt = IF Ends(said) # {} THEN Min(Ends(said)) ELSE 0
  BY DEF FinishAt, SelectInSeq, Ends
<1>2. Ends(said) \subseteq Nat
  BY DEF Ends
<1>3. Ends(said) # {} => \E x \in Ends(said) : \A y \in Ends(said) : x <= y
  BY <1>2, Least
<1>4. Ends(said) # {} => Min(Ends(said)) \in Ends(said) /\ \A k \in Ends(said) : Min(Ends(said)) <= k
  BY <1>3 DEF Min
<1>5. QED
  BY <1>1, <1>4

\* What the definitions of the property say of one line more.
LEMMA SaidMore ==
  ASSUME said \in Seq(Lines), NEW l \in Lines, said' = Append(said, l)
  PROVE  /\ said' \in Seq(Lines) /\ Before \in Seq(Lines)
         /\ FinishAt # 0 => FinishAt' = FinishAt /\ Before' = Before /\ Reason' = Reason
         /\ FinishAt = 0 => Before' = Append(Before, l)
         /\ FinishAt = 0 /\ l.kind # "finish" => FinishAt' = 0 /\ Reason' = "stream-ended"
         /\ FinishAt = 0 /\ l.kind = "finish" => FinishAt' # 0 /\ Reason' = l.reason
<1>1. PICK p \in Seq(Lines) : p = said
  OBVIOUS
<1>2. PICK q \in Seq(Lines) : q = said'
  BY Appended
<1>3. PICK L \in Nat : L = Len(p)
  OBVIOUS
<1>4. Len(q) = L + 1 /\ (\A k \in 1..L : q[k] = p[k]) /\ q[L + 1] = l /\ q = Append(p, l)
  BY <1>1, <1>2, <1>3, Appended
<1>5. PICK a : a = FinishAt
  OBVIOUS
<1>6. PICK b : b = FinishAt'
  OBVIOUS
<1>7. /\ Ends(p) = {} => a = 0
      /\ Ends(p) # {} => a \in Ends(p) /\ \A k \in Ends(p) : a <= k
  BY <1>1, <1>5, FinishIs
<1>8. /\ Ends(q) = {} => b = 0
      /\ Ends(q) # {} => b \in Ends(q) /\ \A k \in Ends(q) : b <= k
  <2>1. (/\ Ends(said) = {} => FinishAt = 0
         /\ Ends(said) # {} => FinishAt \in Ends(said) /\ \A k \in Ends(said) : FinishAt <= k)'
    BY FinishIs, PTL
  <2>2. QED
    BY <1>2, <1>6, <2>1
<1>9. Ends(q) = Ends(p) \cup (IF l.kind = "finish" THEN {L + 1} ELSE {})
  <2>1. ASSUME NEW k PROVE k \in Ends(q) <=> k \in Ends(p) \/ (l.kind = "finish" /\ k = L + 1)
    <3>1. k \in 1..(L + 1) <=> k \in 1..L \/ k = L + 1
      OBVIOUS
    <3>2. L + 1 \notin 1..L
      OBVIOUS
    <3>3. QED
      BY <1>3, <1>4, <3>1, <3>2 DEF Ends
  <2>2. QED
    BY <2>1
<1>10. Ends(p) \subseteq 1..L /\ 0 \notin Ends(q)
  BY <1>3, <1>4 DEF Ends
<1>11. Before = (IF a = 0 THEN p ELSE SubSeq(p, 1, a)) /\ Reason = (IF a = 0 THEN "stream-ended" ELSE p[a].reason)
  BY <1>1, <1>5 DEF Before, Reason
<1>12. Before' = (IF b = 0 THEN q ELSE SubSeq(q, 1, b)) /\ Reason' = (IF b = 0 THEN "stream-ended" ELSE q[b].reason)
  BY <1>2, <1>6 DEF Before, Reason
<1>13. a # 0 => a \in 1..L /\ Ends(p) # {}
  BY <1>7, <1>10
<1>14. Before \in Seq(Lines)
  <2>1. CASE a = 0
    BY <1>11, <2>1
  <2>2. CASE a # 0
    <3>1. \A i \in 1..a : p[i] \in Lines
      <4>1. \A i \in 1..a : i \in 1..Len(p)
        BY <1>3, <1>13, <2>2
      <4>2. QED
        BY <4>1, ElementOfSeq
    <3>2. SubSeq(p, 1, a) \in Seq(Lines)
      BY <1>3, <1>13, <2>2, SubSeqProperties
    <3>3. QED
      BY <1>11, <2>2, <3>2
  <2>3. QED
    BY <2>1, <2>2
<1>15. CASE a # 0
  <2>1. a \in 1..L /\ a \in Ends(q) /\ b \in Ends(q)
    BY <1>7, <1>8, <1>9, <1>13, <1>15
  <2>2. b <= a
    BY <1>8, <2>1
  <2>3. b \in 1..(L + 1) /\ b # L + 1
    BY <1>4, <2>1, <2>2 DEF Ends
  <2>4. b \in Ends(p)
    BY <1>9, <2>1, <2>3
  <2>5. b = a
    BY <1>7, <1>10, <2>1, <2>2, <2>4
  <2>6. SubSeq(q, 1, a) = SubSeq(p, 1, a)
    <3>1. \A i \in 1..a : i \in 1..L
      BY <2>1
    <3>2. QED
      BY <1>3, <1>4, <2>1, <3>1
  <2>7. b # 0
    BY <1>15, <2>5
  <2>8. QED
    BY <1>2, <1>4, <1>5, <1>6, <1>11, <1>12, <1>14, <1>15, <2>1, <2>5, <2>6, <2>7
<1>16. CASE a = 0 /\ l.kind # "finish"
  <2>1. Ends(p) = {}
    BY <1>7, <1>9, <1>10, <1>16
  <2>2. b = 0
    BY <1>8, <1>9, <1>16, <2>1
  <2>3. QED
    BY <1>2, <1>4, <1>5, <1>6, <1>11, <1>12, <1>14, <1>16, <2>2
<1>17. CASE a = 0 /\ l.kind = "finish"
  <2>1. Ends(p) = {}
    BY <1>7, <1>9, <1>10, <1>17
  <2>2. Ends(q) = {L + 1}
    BY <1>9, <1>17, <2>1
  <2>3. b = L + 1 /\ b # 0
    BY <1>8, <2>2
  <2>4. SubSeq(q, 1, L + 1) = q
    BY <1>4, SeqEqual
  <2>5. QED
    BY <1>2, <1>4, <1>5, <1>6, <1>11, <1>12, <1>14, <1>17, <2>3, <2>4
<1>18. QED
  BY <1>15, <1>16, <1>17

LEMMA IndicesNext ==
  ASSUME Before \in Seq(Lines), NEW l \in Lines, Before' = Append(Before, l)
  PROVE  Indices' = Indices \cup (IF l.kind = "tool" THEN {l.i} ELSE {})
<1>1. PICK p \in Seq(Lines) : p = Before
  OBVIOUS
<1>2. PICK q \in Seq(Lines) : q = Before'
  BY Appended
<1>3. PICK L \in Nat : L = Len(p)
  OBVIOUS
<1>4. Len(q) = L + 1 /\ (\A k \in 1..L : q[k] = p[k]) /\ q[L + 1] = l
  BY <1>1, <1>2, <1>3, Appended
<1>5. DOMAIN p = 1..L /\ DOMAIN q = 1..(L + 1)
  BY <1>3, <1>4
<1>6. Indices = {p[k].i : k \in {k \in DOMAIN p : p[k].kind = "tool"}}
  BY <1>1 DEF Indices
<1>7. Indices' = {q[k].i : k \in {k \in DOMAIN q : q[k].kind = "tool"}}
  BY <1>2 DEF Indices
<1>8. \A k : k \in 1..(L + 1) <=> k \in 1..L \/ k = L + 1
  OBVIOUS
<1>9. QED
  BY <1>4, <1>5, <1>6, <1>7, <1>8

\* A fragment goes to its own slot; the slots it opened on the way are empty.
LEMMA AccumulateIs ==
  ASSUME NEW slots \in Slots, NEW i \in Nat \ {0}, NEW frag \in Fragments, NEW s \in Slots, s = Accumulate(slots, i, frag)
  PROVE  /\ Len(slots) <= Len(s) /\ i <= Len(s) /\ (Len(s) = i \/ Len(s) = Len(slots))
         /\ \A k \in 1..Len(s) :
              LET was == IF k <= Len(slots) THEN slots[k] ELSE <<>>
              IN  s[k] = IF k = i THEN Append(was, frag) ELSE was
<1>1. Len(slots) \in Nat /\ \A k \in 1..Len(slots) : slots[k] \in Seq(Fragments)
  BY ElementOfSeq DEF Slots
<1>2. PICK n \in Nat \ {0} : n = IF i > Len(slots) THEN i ELSE Len(slots)
  BY <1>1
<1>3. i \in 1..n
  BY <1>1, <1>2
<1> DEFINE v(k) == IF k <= Len(slots) THEN slots[k] ELSE <<>>
           w == [k \in 1..n |-> v(k)]
<1>4. s = [w EXCEPT ![i] = Append(w[i], frag)]
  BY <1>2 DEF Accumulate
<1> HIDE DEF v
<1>5. DOMAIN s = 1..n /\ \A k \in 1..n : s[k] = IF k = i THEN Append(v(k), frag) ELSE v(k)
  BY <1>3, <1>4
<1>6. Len(s) = n
  BY <1>5 DEF Slots
<1>7. QED
  BY <1>1, <1>2, <1>5, <1>6 DEF v

LEMMA FlushIs ==
  ASSUME NEW slots \in Slots, NEW reason \in EventValues
  PROVE  \E q \in Seq(Events) :
           /\ q = Flush(slots, reason) /\ Len(q) = Len(slots) + 1
           /\ \A i \in 1..Len(slots) : q[i].kind = "call" /\ q[i].value = finalize_one(slots[i], reason = "tool_calls")
           /\ q[Len(slots) + 1].kind = "finish" /\ q[Len(slots) + 1].value = reason
<1> DEFINE ev(i) == Event("call", finalize_one(slots[i], reason = "tool_calls"))
<1>1. PICK K \in Nat : K = Len(slots)
  BY DEF Slots
<1>2. DOMAIN slots = 1..K /\ \A i \in 1..K : slots[i] \in Seq(Fragments)
  BY <1>1, ElementOfSeq DEF Slots
<1>3. \A i \in 1..K : ev(i) \in Events /\ ev(i).kind = "call" /\ ev(i).value = finalize_one(slots[i], reason = "tool_calls")
  <2>1. ASSUME NEW i \in 1..K
        PROVE  ev(i) \in Events /\ ev(i).kind = "call" /\ ev(i).value = finalize_one(slots[i], reason = "tool_calls")
    <3>1. PICK v \in EventValues : v = finalize_one(slots[i], reason = "tool_calls")
      BY <1>2, Finalized
    <3>2. "call" \in EventKinds
      BY DEF EventKinds
    <3>3. QED
      BY <3>1, <3>2, EventTyped
  <2>2. QED
    BY <2>1
<1> HIDE DEF ev
<1>4. PICK a \in Seq(Events) : a = [i \in 1..K |-> ev(i)] /\ Len(a) = K /\ \A i \in 1..K : a[i] = ev(i)
  <2>1. [i \in 1..K |-> ev(i)] \in Seq(Events) /\ Len([i \in 1..K |-> ev(i)]) = K
    BY <1>3
  <2>2. QED
    BY <2>1
<1>5. PICK e \in Events : e = Event("finish", reason) /\ e.kind = "finish" /\ e.value = reason
  <2>1. "finish" \in EventKinds
    BY DEF EventKinds
  <2>2. QED
    BY <2>1, EventTyped
<1>6. PICK b \in Seq(Events) : b = <<e>> /\ Len(b) = 1 /\ b[1] = e
  <2>1. <<e>> \in Seq(Events) /\ Len(<<e>>) = 1 /\ <<e>>[1] = e
    OBVIOUS
  <2>2. QED
    BY <2>1, Zenon
<1>7. Flush(slots, reason) = a \o b
  BY <1>2, <1>4, <1>5, <1>6 DEF Flush, ev
<1>8. PICK q \in Seq(Events) : q = a \o b
  BY Joined
<1>9. /\ Len(q) = Len(a) + Len(b) /\ (\A i \in 1..Len(a) : q[i] = a[i])
      /\ \A i \in 1..Len(b) : q[Len(a) + i] = b[i]
  BY <1>8, Joined
<1>10. Len(q) = K + 1 /\ (\A i \in 1..K : q[i] = ev(i)) /\ q[K + 1] = e
  <2>1. 1 \in 1..Len(b)
    BY <1>6
  <2>2. QED
    BY <1>4, <1>6, <1>9, <2>1
<1>11. QED
  BY <1>1, <1>3, <1>5, <1>7, <1>8, <1>10

\* The verdicts a response should carry.  While they are delivered, the first a of the n calls are in
\* the response; the i-th is d + i in the queue, the finish follows them, and nothing else there is
\* a call or a finish.
Verdicts == [i \in Nat |-> finalize_one(Frags(i), Reason = "tool_calls")]
Coming(q, cs, n, a, d, V, R) ==
  /\ n \in Nat /\ a \in 0..n /\ d \in Int /\ d + a >= 0 /\ d + n + 1 <= Len(q)
  /\ Len(cs) = a /\ \A i \in 1..a : cs[i] = V[i]
  /\ \A i \in (a + 1)..n : q[d + i].kind = "call" /\ q[d + i].value = V[i]
  /\ q[d + n + 1].kind = "finish" /\ q[d + n + 1].value = R
  /\ \A i \in 1..Len(q) : i <= d + a \/ i > d + n + 1 => q[i].kind \notin {"call", "finish"}
Came(q, cs, fin, n, V, R) == Len(cs) = n /\ (\A i \in 1..n : cs[i] = V[i]) /\ fin = R /\ Quiet(q)

\* The slots hold the fragments of every call the server has named.
Built(s) == Indices \subseteq 1..Len(s) /\ \A i \in Nat \ {0} : Frags(i) = IF i <= Len(s) THEN s[i] ELSE <<>>
OnTheWay(n) ==
  \/ \E a, d \in Int : Coming(pending, resp.calls, n, a, d, Verdicts, Reason)
  \/ Came(pending, resp.calls, resp.finish, n, Verdicts, Reason)
Told ==
  /\ said \in Seq(Lines)
  /\ ~finished => FinishAt = 0 /\ resp.calls = <<>> /\ Built(acc)
  /\ finished => (FinishAt # 0 \/ ended) /\ \E n \in Nat : Indices \subseteq 1..n /\ OnTheWay(n)

LEMMA Starts ==
  ASSUME NEW pre \in Seq(Events), Quiet(pre), NEW s \in Slots, NEW R \in EventValues, NEW V,
         \A i \in 1..Len(s) : V[i] = finalize_one(s[i], R = "tool_calls")
  PROVE  Coming(pre \o Flush(s, R), <<>>, Len(s), 0, Len(pre), V, R)
<1>1. PICK f \in Seq(Events) :
           /\ f = Flush(s, R) /\ Len(f) = Len(s) + 1
           /\ \A i \in 1..Len(s) : f[i].kind = "call" /\ f[i].value = finalize_one(s[i], R = "tool_calls")
           /\ f[Len(s) + 1].kind = "finish" /\ f[Len(s) + 1].value = R
  BY FlushIs
<1>2. PICK q \in Seq(Events) : q = pre \o f
  BY Joined
<1>3. PICK K \in Nat : K = Len(s)
  BY DEF Slots
<1>4. PICK P \in Nat : P = Len(pre)
  OBVIOUS
<1>5. Len(q) = P + (K + 1) /\ (\A i \in 1..P : q[i] = pre[i]) /\ \A i \in 1..(K + 1) : q[P + i] = f[i]
  <2>1. /\ Len(q) = Len(pre) + Len(f) /\ (\A i \in 1..Len(pre) : q[i] = pre[i])
        /\ \A i \in 1..Len(f) : q[Len(pre) + i] = f[i]
    BY <1>2, Joined
  <2>2. Len(f) = K + 1
    BY <1>1, <1>3
  <2>3. QED
    BY <1>4, <2>1, <2>2
<1>6. ASSUME NEW i \in 1..K PROVE q[P + i].kind = "call" /\ q[P + i].value = V[i]
  BY <1>1, <1>3, <1>5
<1>7. q[P + K + 1].kind = "finish" /\ q[P + K + 1].value = R
  <2>1. P + (K + 1) = P + K + 1 /\ K + 1 \in 1..(K + 1)
    OBVIOUS
  <2>2. q[P + (K + 1)] = f[K + 1]
    BY <1>5, <2>1
  <2>3. QED
    BY <1>1, <1>3, <2>1, <2>2
<1>8. ASSUME NEW i \in 1..Len(q), i <= P + 0 \/ i > P + K + 1 PROVE q[i].kind \notin {"call", "finish"}
  <2>1. i \in 1..P
    BY <1>5, <1>8
  <2>2. QED
    BY <1>4, <1>5, <2>1 DEF Quiet
<1>9. Coming(q, <<>>, K, 0, P, V, R)
  <2>1. Len(<<>>) = 0 /\ \A i \in (0 + 1)..K : i \in 1..K
    OBVIOUS
  <2>2. P + 0 >= 0 /\ P + K + 1 <= Len(q) /\ 0 \in 0..K /\ P \in Int /\ \A i \in 1..0 : FALSE
    BY <1>5
  <2>3. QED
    BY <1>6, <1>7, <1>8, <2>1, <2>2 DEF Coming
<1>10. QED
  BY <1>1, <1>2, <1>3, <1>4, <1>9

\* Lines after the finish add nothing that counts.
LEMMA GoesOn ==
  ASSUME NEW q \in Seq(Events), NEW out \in Seq(Events), Quiet(out), NEW cs, NEW fin, NEW V, NEW R, NEW n \in Nat
  PROVE  /\ \A a, d \in Int : Coming(q, cs, n, a, d, V, R) => Coming(q \o out, cs, n, a, d, V, R)
         /\ Came(q, cs, fin, n, V, R) => Came(q \o out, cs, fin, n, V, R)
<1>1. PICK r \in Seq(Events) : r = q \o out
  BY Joined
<1>2. PICK Q \in Nat, O \in Nat : Q = Len(q) /\ O = Len(out)
  OBVIOUS
<1>3. Len(r) = Q + O /\ (\A i \in 1..Q : r[i] = q[i]) /\ \A i \in 1..O : r[Q + i] = out[i]
  BY <1>1, <1>2, Joined
<1>4. ASSUME NEW i \in 1..(Q + O), i > Q PROVE r[i].kind \notin {"call", "finish"}
  <2>1. i - Q \in 1..O /\ Q + (i - Q) = i
    BY <1>4
  <2>2. r[i] = out[i - Q]
    BY <1>3, <2>1
  <2>3. QED
    BY <1>2, <2>1, <2>2 DEF Quiet
<1>5. ASSUME NEW a \in Int, NEW d \in Int, Coming(q, cs, n, a, d, V, R) PROVE Coming(r, cs, n, a, d, V, R)
  <2>1. /\ a \in 0..n /\ d + a >= 0 /\ d + n + 1 <= Q
        /\ Len(cs) = a /\ \A i \in 1..a : cs[i] = V[i]
        /\ \A i \in (a + 1)..n : q[d + i].kind = "call" /\ q[d + i].value = V[i]
        /\ q[d + n + 1].kind = "finish" /\ q[d + n + 1].value = R
        /\ \A i \in 1..Q : i <= d + a \/ i > d + n + 1 => q[i].kind \notin {"call", "finish"}
    BY <1>2, <1>5 DEF Coming
  <2>2. \A i \in (a + 1)..n : d + i \in 1..Q
    BY <2>1
  <2>3. d + n + 1 \in 1..Q
    BY <2>1
  <2>4. \A i \in (a + 1)..n : r[d + i].kind = "call" /\ r[d + i].value = V[i]
    BY <1>3, <2>1, <2>2
  <2>5. r[d + n + 1].kind = "finish" /\ r[d + n + 1].value = R
    BY <1>3, <2>1, <2>3
  <2>6. ASSUME NEW i \in 1..(Q + O), i <= d + a \/ i > d + n + 1 PROVE r[i].kind \notin {"call", "finish"}
    <3>1. CASE i > Q
      BY <1>4, <3>1
    <3>2. CASE ~(i > Q)
      <4>1. i \in 1..Q
        BY <3>2
      <4>2. QED
        BY <1>3, <2>1, <2>6, <4>1
    <3>3. QED
      BY <3>1, <3>2
  <2>7. d + n + 1 <= Q + O
    BY <2>1
  <2>8. QED
    BY <1>3, <2>1, <2>4, <2>5, <2>6, <2>7 DEF Coming
<1>6. Came(q, cs, fin, n, V, R) => Came(r, cs, fin, n, V, R)
  BY <1>1, Joins DEF Came
<1>7. QED
  BY <1>1, <1>5, <1>6

\* One event is taken: something quiet, the next call, or the finish after the last.
LEMMA Delivers ==
  ASSUME NEW q \in Seq(Events), q # <<>>, NEW cs \in Seq(EventValues), NEW n \in Nat, NEW a \in Int, NEW d \in Int, NEW V, NEW R,
         NEW fin, Coming(q, cs, n, a, d, V, R), NEW cs2 \in Seq(EventValues), NEW fin2,
         cs2 = IF Head(q).kind = "call" THEN Append(cs, Head(q).value) ELSE cs,
         fin2 = IF Head(q).kind = "finish" THEN Head(q).value ELSE fin
  PROVE  \/ \E b, c \in Int : Coming(Tail(q), cs2, n, b, c, V, R)
         \/ Came(Tail(q), cs2, fin2, n, V, R)
<1>1. PICK t \in Seq(Events) : t = Tail(q)
  BY Taken
<1>2. PICK Q \in Nat \ {0} : Q = Len(q)
  BY Taken
<1>3. Len(t) = Q - 1 /\ (\A i \in 1..(Q - 1) : t[i] = q[i + 1]) /\ Head(q) = q[1] /\ q[1] \in Events
  BY <1>1, <1>2, Taken
<1>4. /\ a \in 0..n /\ d + a >= 0 /\ d + n + 1 <= Q
      /\ Len(cs) = a /\ \A i \in 1..a : cs[i] = V[i]
  BY <1>2 DEF Coming
<1>5. /\ \A i \in (a + 1)..n : q[d + i].kind = "call" /\ q[d + i].value = V[i]
      /\ q[d + n + 1].kind = "finish" /\ q[d + n + 1].value = R
      /\ \A i \in 1..Q : i <= d + a \/ i > d + n + 1 => q[i].kind \notin {"call", "finish"}
  BY <1>2 DEF Coming
<1>6. PICK c \in Int : c = d - 1
  OBVIOUS
<1>7. ASSUME NEW b \in Int, b >= a, b <= n, c + b >= 0
      PROVE  /\ \A i \in (b + 1)..n : t[c + i].kind = "call" /\ t[c + i].value = V[i]
             /\ t[c + n + 1].kind = "finish" /\ t[c + n + 1].value = R /\ c + n + 1 <= Q - 1
  <2>1. ASSUME NEW i \in (b + 1)..n PROVE t[c + i].kind = "call" /\ t[c + i].value = V[i]
    <3>1. c + i \in 1..(Q - 1) /\ (c + i) + 1 = d + i /\ i \in (a + 1)..n
      BY <1>4, <1>6, <1>7
    <3>2. t[c + i] = q[d + i]
      BY <1>3, <3>1
    <3>3. QED
      BY <1>5, <3>1, <3>2
  <2>2. c + n + 1 \in 1..(Q - 1) /\ (c + n + 1) + 1 = d + n + 1
    BY <1>4, <1>6, <1>7
  <2>3. t[c + n + 1] = q[d + n + 1]
    BY <1>3, <2>2
  <2>4. QED
    BY <1>5, <2>1, <2>2, <2>3
<1>8. ASSUME NEW b \in Int, c + b <= d + a - 1, NEW i \in 1..(Q - 1), i <= c + b \/ i > c + n + 1
      PROVE  t[i].kind \notin {"call", "finish"}
  <2>1. i + 1 \in 1..Q /\ (i + 1 <= d + a \/ i + 1 > d + n + 1)
    BY <1>6, <1>8
  <2>2. t[i] = q[i + 1]
    BY <1>3
  <2>3. QED
    BY <1>5, <2>1, <2>2
<1>9. CASE d + a > 0
  <2>1. 1 \in 1..Q /\ 1 <= d + a
    BY <1>9
  <2>2. Head(q).kind \notin {"call", "finish"}
    BY <1>3, <1>5, <2>1
  <2>3. cs2 = cs
    BY <2>2
  <2>4. c + a >= 0 /\ a <= n /\ a >= a /\ c + a <= d + a - 1
    BY <1>4, <1>6, <1>9
  <2>5. Coming(t, cs2, n, a, c, V, R)
    <3>1. /\ \A i \in (a + 1)..n : t[c + i].kind = "call" /\ t[c + i].value = V[i]
          /\ t[c + n + 1].kind = "finish" /\ t[c + n + 1].value = R /\ c + n + 1 <= Q - 1
      BY <1>7, <2>4
    <3>2. \A i \in 1..(Q - 1) : i <= c + a \/ i > c + n + 1 => t[i].kind \notin {"call", "finish"}
      BY <1>8, <2>4
    <3>3. QED
      BY <1>3, <1>4, <2>3, <2>4, <3>1, <3>2 DEF Coming
  <2>6. QED
    BY <1>1, <2>5
<1>10. CASE d + a = 0 /\ a < n
  <2>1. a + 1 \in (a + 1)..n /\ d + (a + 1) = 1
    BY <1>4, <1>10
  <2>2. Head(q).kind = "call" /\ Head(q).value = V[a + 1]
    <3>1. q[d + (a + 1)].kind = "call" /\ q[d + (a + 1)].value = V[a + 1]
      BY <1>5, <2>1
    <3>2. QED
      BY <1>3, <2>1, <3>1
  <2>3. Head(q).value \in EventValues
    BY <1>3 DEF Events
  <2>4. PICK x \in EventValues : x = Head(q).value
    BY <2>3
  <2>5. cs2 = Append(cs, x)
    BY <2>2, <2>4
  <2>6. Len(cs2) = a + 1 /\ (\A i \in 1..a : cs2[i] = cs[i]) /\ cs2[a + 1] = x
    BY <1>4, <2>5, Appended
  <2>7. \A i \in 1..(a + 1) : cs2[i] = V[i]
    <3>1. \A i \in 1..(a + 1) : i \in 1..a \/ i = a + 1
      BY <1>4
    <3>2. QED
      BY <1>4, <2>2, <2>4, <2>6, <3>1
  <2>8. PICK b \in Int : b = a + 1
    OBVIOUS
  <2>9. b >= a /\ b <= n /\ c + b >= 0 /\ b \in 0..n
    BY <1>4, <1>6, <1>10, <2>8
  <2>10. \A i \in 1..(Q - 1) : i <= c + b \/ i > c + n + 1 => t[i].kind \notin {"call", "finish"}
    <3>1. ASSUME NEW i \in 1..(Q - 1), i <= c + b \/ i > c + n + 1 PROVE t[i].kind \notin {"call", "finish"}
      <4>1. c + b = 0
        BY <1>4, <1>6, <1>10, <2>8
      <4>2. i > c + n + 1
        BY <3>1, <4>1
      <4>3. i + 1 \in 1..Q /\ i + 1 > d + n + 1
        BY <1>6, <4>2
      <4>4. QED
        BY <1>3, <1>5, <4>3
    <3>2. QED
      BY <3>1
  <2>11. Coming(t, cs2, n, b, c, V, R)
    BY <1>3, <1>7, <2>6, <2>7, <2>8, <2>9, <2>10 DEF Coming
  <2>12. QED
    BY <1>1, <2>11
<1>11. CASE d + a = 0 /\ a = n
  <2>1. d + n + 1 = 1
    BY <1>4, <1>11
  <2>2. Head(q).kind = "finish" /\ Head(q).value = R
    BY <1>3, <1>5, <2>1
  <2>3. cs2 = cs /\ fin2 = R
    BY <2>2
  <2>4. Quiet(t)
    <3>1. ASSUME NEW i \in 1..(Q - 1) PROVE t[i].kind \notin {"call", "finish"}
      <4>1. i + 1 \in 1..Q /\ i + 1 > d + n + 1
        BY <2>1
      <4>2. QED
        BY <1>3, <1>5, <4>1
    <3>2. QED
      BY <1>3, <3>1 DEF Quiet
  <2>5. Came(t, cs2, fin2, n, V, R)
    BY <1>4, <1>11, <2>3, <2>4 DEF Came
  <2>6. QED
    BY <1>1, <2>5
<1>12. QED
  BY <1>4, <1>9, <1>10, <1>11

LEMMA CameDelivers ==
  ASSUME NEW q \in Seq(Events), q # <<>>, NEW cs, NEW n, NEW V, NEW R, NEW fin, Came(q, cs, fin, n, V, R)
  PROVE  Came(Tail(q), cs, fin, n, V, R) /\ Head(q).kind \notin {"call", "finish"}
  BY Leaves DEF Came

\* Nothing said changes the verdicts of a response that has its finish.
LEMMA VerdictsSame == ASSUME Before' = Before, Reason' = Reason PROVE Verdicts' = Verdicts /\ Indices' = Indices
  BY DEF Verdicts, Indices, Frags

LEMMA SaidSame == ASSUME UNCHANGED said PROVE FinishAt' = FinishAt /\ Before' = Before /\ Reason' = Reason
<1>1. FinishAt' = FinishAt
  BY DEF FinishAt, SelectInSeq
<1>2. QED
  BY <1>1 DEF Before, Reason

LEMMA BuiltSame == ASSUME NEW s, Built(s), Before' = Before PROVE Built(s)'
  BY DEF Built, Frags, Indices

\* StreamFuser::apply before the finish.
LEMMA ApplyIs ==
  ASSUME ~finished, NEW l \in Lines
  PROVE  /\ l.kind = "tool" => Apply(l).acc = Accumulate(acc, l.i, l.frag) /\ ~Apply(l).finished
         /\ l.kind = "finish" => Apply(l).finished /\ Apply(l).out = Flush(acc, l.reason)
         /\ l.kind \notin {"tool", "finish"} => Apply(l).acc = acc /\ ~Apply(l).finished
<1>1. CASE l.kind \in TextKinds \cup {"reasoning", "usage"}
  BY <1>1 DEF Apply
<1>2. CASE l.kind = "tool"
  BY <1>2 DEF Apply
<1>3. CASE l.kind = "finish"
  BY <1>3 DEF Apply
<1>4. CASE l.kind \notin TextKinds \cup {"reasoning", "usage", "tool", "finish"}
  BY <1>4 DEF Apply
<1>5. QED
  BY <1>1, <1>2, <1>3, <1>4

\* A line before the finish is in the slots.
LEMMA TalkOn ==
  ASSUME StreamTypes, Told, ~finished, NEW l \in Lines, said' = Append(said, l), l.kind # "finish",
         NEW s \in Slots, s = Apply(l).acc
  PROVE  said' \in Seq(Lines) /\ FinishAt' = 0 /\ Reason' = "stream-ended" /\ Built(s)'
<1>1. FinishAt = 0 /\ Built(acc) /\ said \in Seq(Lines)
  BY DEF Told
<1>2. said' \in Seq(Lines) /\ Before \in Seq(Lines) /\ Before' = Append(Before, l) /\ FinishAt' = 0 /\ Reason' = "stream-ended"
  BY <1>1, SaidMore
<1>3. Indices' = Indices \cup (IF l.kind = "tool" THEN {l.i} ELSE {})
  BY <1>2, IndicesNext
<1>4. \A i : Frags(i)' = WithLine(Frags(i), l, i)
  <2>1. ASSUME NEW i PROVE Frags(i)' = WithLine(Frags(i), l, i)
    <3>1. PICK p \in Seq(Lines) : p = Before
      BY <1>2
    <3>2. Frags(i)' = FragsOf(Append(p, l), i) /\ Frags(i) = FragsOf(p, i)
      BY <1>2, <3>1 DEF Frags
    <3>3. QED
      BY <3>2, FragsNext
  <2>2. QED
    BY <2>1
<1>5. PICK was \in Slots : was = acc
  BY DEF StreamTypes
<1>6. Indices \subseteq 1..Len(was) /\ \A i \in Nat \ {0} : Frags(i) = IF i <= Len(was) THEN was[i] ELSE <<>>
  BY <1>1, <1>5 DEF Built
<1>7. CASE l.kind # "tool"
  <2>1. s = was
    BY <1>5, <1>7, ApplyIs
  <2>2. Indices' = Indices /\ \A i : Frags(i)' = Frags(i)
    BY <1>3, <1>4, <1>7 DEF WithLine
  <2>3. Built(s)'
    BY <1>6, <2>1, <2>2 DEF Built
  <2>4. QED
    BY <1>2, <2>3
<1>8. CASE l.kind = "tool"
  <2>1. PICK j \in Nat \ {0} : j = l.i
    BY <1>8, LineShape
  <2>2. PICK g \in Fragments : g = l.frag
    BY <1>8, LineShape
  <2>3. s = Accumulate(was, j, g)
    BY <1>5, <1>8, <2>1, <2>2, ApplyIs
  <2>4. /\ Len(was) <= Len(s) /\ j <= Len(s) /\ (Len(s) = j \/ Len(s) = Len(was))
        /\ \A k \in 1..Len(s) :
              LET w == IF k <= Len(was) THEN was[k] ELSE <<>>
              IN  s[k] = IF k = j THEN Append(w, g) ELSE w
    BY <2>3, AccumulateIs
  <2>5. PICK W \in Nat, S \in Nat : W = Len(was) /\ S = Len(s)
    BY DEF Slots
  <2>6. Indices' \subseteq 1..S
    <3>1. 1..W \subseteq 1..S /\ j \in 1..S
      BY <2>1, <2>4, <2>5
    <3>2. QED
      BY <1>3, <1>6, <1>8, <2>1, <2>5, <3>1
  <2>7. ASSUME NEW i \in Nat \ {0} PROVE Frags(i)' = IF i <= S THEN s[i] ELSE <<>>
    <3>1. PICK f : f = Frags(i)
      OBVIOUS
    <3>2. f = IF i <= W THEN was[i] ELSE <<>>
      BY <1>6, <2>5, <3>1
    <3>3. Frags(i)' = IF i = j THEN Append(f, g) ELSE f
      BY <1>4, <1>8, <2>1, <2>2, <3>1 DEF WithLine
    <3>4. CASE i <= S
      <4>1. i \in 1..S
        BY <3>4
      <4>2. s[i] = IF i = j THEN Append(f, g) ELSE f
        BY <2>4, <2>5, <3>2, <4>1
      <4>3. QED
        BY <3>3, <3>4, <4>2
    <3>5. CASE ~(i <= S)
      <4>1. i # j /\ ~(i <= W)
        BY <2>4, <2>5, <3>5
      <4>2. QED
        BY <3>2, <3>3, <3>5, <4>1
    <3>6. QED
      BY <3>4, <3>5
  <2>8. Built(s)'
    BY <2>5, <2>6, <2>7 DEF Built
  <2>9. QED
    BY <1>2, <2>8
<1>9. QED
  BY <1>7, <1>8

\* With the finish, the slots are the calls.
LEMMA FinishSays ==
  ASSUME NEW s \in Slots, Built(s)', NEW pre \in Seq(Events), Quiet(pre), NEW R \in EventValues, R = Reason',
         pending' = pre \o Flush(s, R), resp'.calls = <<>>
  PROVE  \E n \in Nat : Indices' \subseteq 1..n /\ OnTheWay(n)'
<1>1. PICK V : V = Verdicts'
  OBVIOUS
<1>2. PICK K \in Nat : K = Len(s)
  BY DEF Slots
<1>3. ASSUME NEW i \in 1..K PROVE V[i] = finalize_one(s[i], R = "tool_calls")
  <2>1. Frags(i)' = s[i]
    BY <1>2 DEF Built
  <2>2. V[i] = finalize_one(Frags(i)', R = "tool_calls")
    BY <1>1 DEF Verdicts
  <2>3. QED
    BY <2>1, <2>2
<1>4. Coming(pre \o Flush(s, R), <<>>, K, 0, Len(pre), V, R)
  BY <1>2, <1>3, Starts
<1>5. Coming(pending', resp'.calls, K, 0, Len(pre), Verdicts', Reason')
  BY <1>1, <1>4
<1>6. Len(pre) \in Int /\ 0 \in Int
  OBVIOUS
<1>7. \E a, d \in Int : Coming(pending', resp'.calls, K, a, d, Verdicts', Reason')
  BY <1>5, <1>6
<1>8. OnTheWay(K)'
  BY <1>7 DEF OnTheWay
<1>9. QED
  BY <1>2, <1>8 DEF Built

LEMMA ToldRest == ASSUME Told, UNCHANGED <<acc, pending, resp, finished, ended, said>> PROVE Told'
<1>1. FinishAt' = FinishAt /\ Before' = Before /\ Reason' = Reason /\ Verdicts' = Verdicts /\ Indices' = Indices
  BY SaidSame, VerdictsSame
<1>2. PICK s : s = acc
  OBVIOUS
<1>3. ~finished' => Built(acc)'
  <2>1. ~finished => Built(s)'
    BY <1>1, <1>2, BuiltSame DEF Told
  <2>2. QED
    BY <1>2, <2>1 DEF Built
<1>4. ASSUME NEW n, OnTheWay(n) PROVE OnTheWay(n)'
  BY <1>1, <1>4 DEF OnTheWay
<1>5. QED
  BY <1>1, <1>3, <1>4 DEF Told

LEMMA ToldNothing == ASSUME said = <<>>, finished = FALSE, acc = <<>>, resp = NoResp PROVE Told
<1>1. Ends(said) = {}
  BY DEF Ends
<1>2. FinishAt = 0 /\ Before = <<>>
  <2>1. FinishAt = 0
    BY <1>1, FinishIs
  <2>2. QED
    BY <2>1 DEF Before
<1>3. Indices = {} /\ \A i : Frags(i) = <<>>
  BY <1>2, FragsNone DEF Indices, Frags
<1>4. Built(acc)
  BY <1>3 DEF Built
<1>5. resp.calls = <<>> /\ said \in Seq(Lines)
  BY DEF NoResp
<1>6. QED
  BY <1>2, <1>4, <1>5 DEF Told

LEMMA ToldFresh == ASSUME FreshStream PROVE Told'
<1>1. said' = <<>> /\ finished' = FALSE /\ acc' = <<>> /\ resp' = NoResp
  BY DEF FreshStream
<1>2. (said = <<>> /\ finished = FALSE /\ acc = <<>> /\ resp = NoResp => Told)'
  BY ToldNothing, PTL
<1>3. QED
  BY <1>1, <1>2

LEMMA ToldAttemptFails == ASSUME Told, NEW error, AttemptFails(error) PROVE Told'
<1>1. FreshStream \/ UNCHANGED bodyVars
  BY DEF AttemptFails, Replay
<1>2. QED
  BY <1>1, ToldFresh, ToldRest DEF bodyVars

LEMMA ToldDeliver == ASSUME StreamInv, Told, Deliver PROVE Told'
<1>1. pending # <<>> /\ pending' = Tail(pending) /\ UNCHANGED <<acc, finished, ended, said>>
  BY DEF Deliver
<1>2. FinishAt' = FinishAt /\ Before' = Before /\ Reason' = Reason /\ Verdicts' = Verdicts /\ Indices' = Indices
  BY <1>1, SaidSame, VerdictsSame
<1>3. PICK q \in Seq(Events) : q = pending /\ q # <<>>
  BY <1>1 DEF StreamInv, StreamTypes
<1>4. PICK e \in Events : e = Head(q)
  BY <1>3, Taken
<1>5. /\ resp' \in Responses
      /\ resp'.calls = IF e.kind = "call" THEN Append(resp.calls, e.value) ELSE resp.calls
      /\ resp'.finish = IF e.kind = "finish" THEN e.value ELSE resp.finish
  BY <1>3, <1>4, Delivered DEF StreamInv
<1>6. PICK cs \in Seq(EventValues), fin \in EventValues : cs = resp.calls /\ fin = resp.finish
  BY DEF StreamInv, StreamTypes, Responses
<1>7. PICK cs2 \in Seq(EventValues), fin2 \in EventValues : cs2 = resp'.calls /\ fin2 = resp'.finish
  BY <1>5 DEF Responses
<1>8. /\ cs2 = IF Head(q).kind = "call" THEN Append(cs, Head(q).value) ELSE cs
      /\ fin2 = IF Head(q).kind = "finish" THEN Head(q).value ELSE fin
  BY <1>4, <1>5, <1>6, <1>7
<1>9. CASE ~finished
  <2>1. Quiet(q)
    BY <1>3, <1>9 DEF StreamInv, StreamFits
  <2>2. Head(q).kind \notin {"call", "finish"}
    BY <1>3, <2>1, Leaves
  <2>3. resp'.calls = <<>>
    BY <1>6, <1>7, <1>8, <1>9, <2>2 DEF Told
  <2>4. PICK s : s = acc
    OBVIOUS
  <2>5. Built(s)'
    BY <1>2, <1>9, <2>4, BuiltSame DEF Told
  <2>6. Built(acc)'
    BY <1>1, <2>4, <2>5 DEF Built
  <2>7. QED
    BY <1>1, <1>2, <1>9, <2>3, <2>6 DEF Told
<1>10. CASE finished
  <2>1. PICK n \in Nat : Indices \subseteq 1..n /\ OnTheWay(n)
    BY <1>10 DEF Told
  <2>2. PICK V, R : V = Verdicts /\ R = Reason
    OBVIOUS
  <2>3. CASE \E a, d \in Int : Coming(q, cs, n, a, d, V, R)
    <3>1. PICK a \in Int, d \in Int : Coming(q, cs, n, a, d, V, R)
      BY <2>3
    <3>2. \/ \E b, c \in Int : Coming(Tail(q), cs2, n, b, c, V, R)
          \/ Came(Tail(q), cs2, fin2, n, V, R)
      BY <1>3, <1>8, <3>1, Delivers
    <3>3. OnTheWay(n)'
      BY <1>1, <1>2, <1>3, <1>7, <2>2, <3>2 DEF OnTheWay
    <3>4. QED
      BY <1>1, <1>2, <1>10, <2>1, <3>3 DEF Told
  <2>4. CASE Came(q, cs, fin, n, V, R)
    <3>1. Came(Tail(q), cs, fin, n, V, R) /\ Head(q).kind \notin {"call", "finish"}
      BY <1>3, <2>4, CameDelivers
    <3>2. cs2 = cs /\ fin2 = fin
      BY <1>8, <3>1
    <3>3. OnTheWay(n)'
      BY <1>1, <1>2, <1>3, <1>7, <2>2, <3>1, <3>2 DEF OnTheWay
    <3>4. QED
      BY <1>1, <1>2, <1>10, <2>1, <3>3 DEF Told
  <2>5. QED
    BY <1>3, <1>6, <2>1, <2>2, <2>3, <2>4 DEF OnTheWay
<1>11. QED
  BY <1>9, <1>10 DEF StreamInv, StreamTypes

\* After the finish the stream may say more, and nothing of it counts.
LEMMA ToldAfter ==
  ASSUME StreamInv, Told, finished, ~ended, NEW l \in Lines, said' = Append(said, l) \/ said' = said, NEW out \in Seq(Events), Quiet(out),
         pending' = pending \o out, finished' = TRUE, UNCHANGED resp
  PROVE  Told'
<1>1. FinishAt # 0 /\ said \in Seq(Lines)
  BY DEF Told
<1>2. said' \in Seq(Lines) /\ FinishAt' = FinishAt /\ Before' = Before /\ Reason' = Reason
  BY <1>1, SaidMore, SaidSame
<1>3. Verdicts' = Verdicts /\ Indices' = Indices
  BY <1>2, VerdictsSame
<1>4. PICK n \in Nat : Indices \subseteq 1..n /\ OnTheWay(n)
  BY DEF Told
<1>5. PICK V, R, cs, fin : V = Verdicts /\ R = Reason /\ cs = resp.calls /\ fin = resp.finish
  OBVIOUS
<1>6. PICK q \in Seq(Events) : q = pending
  BY DEF StreamInv, StreamTypes
<1>7. /\ \A a, d \in Int : Coming(q, cs, n, a, d, V, R) => Coming(q \o out, cs, n, a, d, V, R)
      /\ Came(q, cs, fin, n, V, R) => Came(q \o out, cs, fin, n, V, R)
  BY GoesOn
<1>8. (\E a, d \in Int : Coming(q \o out, cs, n, a, d, V, R)) \/ Came(q \o out, cs, fin, n, V, R)
  BY <1>4, <1>5, <1>6, <1>7 DEF OnTheWay
<1>9. OnTheWay(n)'
  BY <1>2, <1>3, <1>5, <1>6, <1>8 DEF OnTheWay
<1>10. QED
  BY <1>1, <1>2, <1>3, <1>4, <1>9 DEF Told

LEMMA ToldFinish ==
  ASSUME StreamInv, Told, ~finished, NEW l \in Lines, l.kind = "finish", said' = Append(said, l), NEW out, out = Apply(l).out,
         pending' = pending \o out, finished' = TRUE, UNCHANGED resp
  PROVE  Told'
<1>1. FinishAt = 0 /\ said \in Seq(Lines) /\ Built(acc) /\ resp.calls = <<>>
  BY DEF Told
<1>2. said' \in Seq(Lines) /\ Before \in Seq(Lines) /\ Before' = Append(Before, l) /\ FinishAt' # 0 /\ Reason' = l.reason
  BY <1>1, SaidMore
<1>3. PICK s \in Slots : s = acc
  BY DEF StreamInv, StreamTypes
<1>4. Indices' = Indices
  BY <1>2, IndicesNext
<1>5. ASSUME NEW i PROVE Frags(i)' = Frags(i)
  <2>1. PICK p \in Seq(Lines) : p = Before
    BY <1>2
  <2>2. Frags(i)' = FragsOf(Append(p, l), i) /\ Frags(i) = FragsOf(p, i)
    BY <1>2, <2>1 DEF Frags
  <2>3. QED
    BY <2>2, FragsNext DEF WithLine
<1>6. Built(s)'
  BY <1>1, <1>3, <1>4, <1>5 DEF Built
<1>7. PICK R \in EventValues : R = l.reason
  BY LineShape
<1>8. out = Flush(s, R)
  BY <1>3, <1>7, ApplyIs
<1>9. PICK q \in Seq(Events) : q = pending /\ Quiet(q)
  BY DEF StreamInv, StreamTypes, StreamFits
<1>10. pending' = q \o Flush(s, R) /\ R = Reason' /\ resp'.calls = <<>>
  BY <1>1, <1>2, <1>7, <1>8, <1>9
<1>11. \E n \in Nat : Indices' \subseteq 1..n /\ OnTheWay(n)'
  BY <1>6, <1>9, <1>10, FinishSays
<1>12. QED
  BY <1>2, <1>11 DEF Told

LEMMA ToldFrameLine == ASSUME StreamInv, Told, NEW l \in Lines, FrameLine(l) PROVE Told'
<1>1. CASE AttemptFails("json")
  BY <1>1, ToldAttemptFails
<1>2. CASE Fuse(l) /\ said' = Append(said, l) /\ UNCHANGED <<ended, resp>>
  <2>1. PICK s \in Slots, f \in BOOLEAN, out \in Seq(Events) : Applied(l, s, f, out)
    BY ApplySays DEF StreamInv
  <2>2. acc' = s /\ finished' = f /\ pending' = pending \o out /\ s = Apply(l).acc /\ out = Apply(l).out /\ f = Apply(l).finished
    BY <1>2, <2>1 DEF Fuse, Applied
  <2>3. ~ended
    BY DEF FrameLine, StreamInv, StreamFits
  <2>4. CASE finished
    <3>1. Quiet(out) /\ finished' = TRUE
      BY <2>1, <2>2, <2>4 DEF Applied, Fed
    <3>2. QED
      BY <1>2, <2>2, <2>3, <2>4, <3>1, ToldAfter
  <2>5. CASE ~finished /\ l.kind = "finish"
    <3>1. finished' = TRUE
      BY <2>2, <2>5, ApplyIs
    <3>2. QED
      BY <1>2, <2>2, <2>5, <3>1, ToldFinish
  <2>6. CASE ~finished /\ l.kind # "finish"
    <3>1. ~finished'
      BY <2>2, <2>6, ApplyIs
    <3>2. said' \in Seq(Lines) /\ FinishAt' = 0 /\ Built(s)'
      BY <1>2, <2>2, <2>6, TalkOn DEF StreamInv
    <3>3. Built(acc)'
      BY <2>2, <3>2 DEF Built
    <3>4. resp'.calls = <<>>
      BY <1>2, <2>6 DEF Told
    <3>5. QED
      BY <3>1, <3>2, <3>3, <3>4 DEF Told
  <2>7. QED
    BY <2>4, <2>5, <2>6 DEF StreamInv, StreamTypes
<1>3. QED
  BY <1>1, <1>2 DEF FrameLine

LEMMA ToldFrameEnd == ASSUME StreamInv, Told, NEW cut, FrameEnd(cut) PROVE Told'
<1>1. UNCHANGED <<acc, finished, ended, resp, said>>
  BY DEF FrameEnd
<1>2. CASE pending' = pending
  BY <1>1, <1>2, ToldRest
<1>3. CASE pending = <<>> /\ pending' = <<Event("activity", None)>>
  <2>1. "activity" \in EventKinds
    BY DEF EventKinds
  <2>2. PICK q \in Seq(Events) : q = <<Event("activity", None)>> /\ \A i \in 1..Len(q) : q[i].kind = "activity"
    BY <2>1, OneEvent
  <2>3. Quiet(q)
    BY <2>2 DEF Quiet
  <2>4. FinishAt' = FinishAt /\ Before' = Before /\ Reason' = Reason /\ Verdicts' = Verdicts /\ Indices' = Indices
    BY <1>1, SaidSame, VerdictsSame
  <2>5. ~finished => Built(acc)'
    <3>1. PICK s : s = acc
      OBVIOUS
    <3>2. ~finished => Built(s)'
      BY <2>4, <3>1, BuiltSame DEF Told
    <3>3. QED
      BY <1>1, <3>1, <3>2 DEF Built
  <2>6. ASSUME NEW n \in Nat, OnTheWay(n) PROVE OnTheWay(n)'
    <3>1. Len(pending) = 0
      BY <1>3
    <3>2. ASSUME NEW a \in Int, NEW d \in Int PROVE ~Coming(pending, resp.calls, n, a, d, Verdicts, Reason)
      <4>1. SUFFICES ASSUME Coming(pending, resp.calls, n, a, d, Verdicts, Reason) PROVE FALSE
        OBVIOUS
      <4>2. a \in 0..n /\ d + a >= 0 /\ d + n + 1 <= 0
        BY <3>1, <4>1 DEF Coming
      <4>3. QED
        BY <4>2
    <3>3. Came(pending, resp.calls, resp.finish, n, Verdicts, Reason)
      BY <2>6, <3>2 DEF OnTheWay
    <3>4. Came(pending', resp'.calls, resp'.finish, n, Verdicts', Reason')
      BY <1>1, <1>3, <2>2, <2>3, <2>4, <3>3 DEF Came
    <3>5. QED
      BY <3>4 DEF OnTheWay
  <2>7. QED
    BY <1>1, <2>4, <2>5, <2>6 DEF Told
<1>4. QED
  BY <1>2, <1>3 DEF FrameEnd

\* The body ends without a finish: the calls are flushed with what there is of them.
LEMMA ToldUnfinished ==
  ASSUME NEW s \in Slots, Built(s)', said' \in Seq(Lines), Reason' = "stream-ended", NEW out \in Seq(Events), Quiet(out),
         pending' = out \o Flush(s, "stream-ended"), finished' = TRUE, ended' = TRUE, resp'.calls = <<>>
  PROVE  Told'
<1>1. PICK R \in EventValues : R = "stream-ended"
  BY DEF EventValues
<1>2. \E n \in Nat : Indices' \subseteq 1..n /\ OnTheWay(n)'
  BY <1>1, FinishSays
<1>3. QED
  BY <1>2 DEF Told

LEMMA ToldBodyEnd == ASSUME StreamInv, Told, NEW tail, BodyEnd(tail) PROVE Told'
<1>1. pending = <<>> /\ ~ended
  BY DEF BodyEnd, Polling
<1>2. CASE AttemptFails("json")
  BY <1>2, ToldAttemptFails
<1>3. ASSUME tail \in {"ignored", "whole"}, buf = NoLine => tail = "ignored", finished' = TRUE, ended' = TRUE,
             UNCHANGED resp, NEW a,
             a = IF tail = "whole" THEN Apply(buf) ELSE [acc |-> acc, finished |-> finished, out |-> <<>>],
             pending' = a.out \o (IF a.finished THEN <<>> ELSE Flush(a.acc, "stream-ended")),
             said' = IF tail = "whole" THEN Append(said, buf) ELSE said
      PROVE  Told'
  <2>1. CASE tail = "whole"
    <3>1. PICK l \in Lines : l = buf
      BY <1>3, <2>1 DEF StreamInv, StreamTypes
    <3>2. PICK s \in Slots, f \in BOOLEAN, out \in Seq(Events) : Applied(l, s, f, out)
      BY ApplySays DEF StreamInv
    <3>3. s = Apply(l).acc /\ out = Apply(l).out /\ f = Apply(l).finished /\ said' = Append(said, l)
      BY <1>3, <2>1, <3>1, <3>2 DEF Applied
    <3>4. pending' = out \o (IF f THEN <<>> ELSE Flush(s, "stream-ended"))
      BY <1>3, <2>1, <3>1, <3>3
    <3>5. out \o <<>> = out /\ pending \o out = out
      BY <1>1, ConcatEmptySeq
    <3>6. CASE finished
      <4>1. Quiet(out) /\ f
        BY <3>2, <3>6 DEF Applied, Fed
      <4>2. pending' = pending \o out
        BY <3>4, <3>5, <4>1
      <4>3. QED
        BY <1>1, <1>3, <3>3, <3>6, <4>1, <4>2, ToldAfter
    <3>7. CASE ~finished /\ l.kind = "finish"
      <4>1. f
        BY <3>3, <3>7, ApplyIs
      <4>2. pending' = pending \o out
        BY <3>4, <3>5, <4>1
      <4>3. QED
        BY <1>3, <3>3, <3>7, <4>2, ToldFinish
    <3>8. CASE ~finished /\ l.kind # "finish"
      <4>1. ~f
        BY <3>3, <3>7, <3>8, ApplyIs
      <4>2. said' \in Seq(Lines) /\ Reason' = "stream-ended" /\ Built(s)'
        BY <3>3, <3>8, TalkOn DEF StreamInv
      <4>3. Quiet(out) /\ pending' = out \o Flush(s, "stream-ended")
        BY <3>2, <3>4, <3>8, <4>1 DEF Applied, Fed
      <4>4. resp'.calls = <<>>
        BY <1>3, <3>8 DEF Told
      <4>5. QED
        BY <1>3, <4>2, <4>3, <4>4, ToldUnfinished
    <3>9. QED
      BY <3>6, <3>7, <3>8 DEF StreamInv, StreamTypes
  <2>2. CASE tail = "ignored"
    <3>1. a.acc = acc /\ a.finished = finished /\ a.out = <<>> /\ said' = said
      BY <1>3, <2>2
    <3>2. Quiet(<<>>) /\ <<>> \in Seq(Events)
      BY DEF Quiet
    <3>3. FinishAt' = FinishAt /\ Before' = Before /\ Reason' = Reason /\ Verdicts' = Verdicts /\ Indices' = Indices
      BY <3>1, SaidSame, VerdictsSame
    <3>4. CASE finished
      <4>1. pending' = pending /\ finished' = finished
        BY <1>1, <1>3, <3>1, <3>4, ConcatEmptySeq DEF StreamInv, StreamTypes
      <4>2. ASSUME NEW n, OnTheWay(n) PROVE OnTheWay(n)'
        BY <1>3, <3>3, <4>1, <4>2 DEF OnTheWay
      <4>3. QED
        BY <1>3, <3>1, <3>3, <3>4, <4>1, <4>2 DEF Told
    <3>5. CASE ~finished
      <4>1. PICK s \in Slots : s = acc
        BY DEF StreamInv, StreamTypes
      <4>2. Built(s)'
        BY <3>3, <3>5, <4>1, BuiltSame DEF Told
      <4>3. Reason' = "stream-ended" /\ resp'.calls = <<>> /\ said' \in Seq(Lines)
        BY <1>3, <3>1, <3>3, <3>5 DEF Told, Reason
      <4>4. pending' = <<>> \o Flush(s, "stream-ended")
        BY <1>3, <3>1, <3>5, <4>1
      <4>5. QED
        BY <1>3, <3>2, <4>2, <4>3, <4>4, ToldUnfinished
    <3>6. QED
      BY <3>4, <3>5 DEF StreamInv, StreamTypes
  <2>3. QED
    BY <1>3, <2>1, <2>2
<1>4. CASE ~AttemptFails("json")
  BY <1>3, <1>4 DEF BodyEnd
<1>5. QED
  BY <1>2, <1>4

LEMMA ToldSteps == ASSUME StreamInv, Told, [ProviderNext]_providerVars PROVE Told'
<1>1. CASE UNCHANGED providerVars \/ FrameBegin
  BY <1>1, ToldRest DEF providerVars, bodyVars, FrameBegin
<1>2. CASE \E m : Begin(m)
  BY <1>2, ToldFresh DEF Begin
<1>3. CASE SendDlr \/ SendLocalError \/ \E o \in Outcomes : Post(o)
  <2>1. UNCHANGED bodyVars \/ FreshStream
    BY <1>3 DEF SendDlr, SendLocalError, Post, Accepted
  <2>2. QED
    BY <2>1, ToldRest, ToldFresh DEF bodyVars
<1>4. CASE BodyError \/ IdleTimeout
  BY <1>4, ToldAttemptFails DEF BodyError, IdleTimeout
<1>5. CASE StreamEnd
  <2>1. UNCHANGED bodyVars \/ FreshStream
    BY <1>5 DEF StreamEnd, Replay
  <2>2. QED
    BY <2>1, ToldRest, ToldFresh DEF bodyVars
<1>6. CASE Deliver \/ (\E l \in Lines : FrameLine(l)) \/ (\E c \in Lines \cup {NoLine} : FrameEnd(c))
  BY <1>6, ToldDeliver, ToldFrameLine, ToldFrameEnd
<1>7. CASE \E t \in {"whole", "broken", "ignored"} : BodyEnd(t)
  BY <1>7, ToldBodyEnd
<1>8. QED
  BY <1>1, <1>2, <1>3, <1>4, <1>5, <1>6, <1>7 DEF ProviderNext

\* The stream has ended and everything was delivered: the response is what was said.
LEMMA EndedAsSent ==
  ASSUME StreamInv, Told, ended, pending = <<>>, NEW got \in Seq(EventValues), got = resp.calls
  PROVE  /\ resp.finish = Reason /\ Indices \subseteq DOMAIN got
         /\ \A i \in DOMAIN got :
              /\ got[i].args = Frags(i)
              /\ got[i].ok <=> \/ Frags(i) \in {<<>>, <<"open", "close">>}
                               \/ Frags(i) = <<"open">> /\ Reason = "tool_calls"
<1>1. finished
  BY DEF StreamInv, StreamFits
<1>2. PICK n \in Nat : Indices \subseteq 1..n /\ OnTheWay(n)
  BY <1>1 DEF Told
<1>3. Len(pending) = 0
  OBVIOUS
<1>4. ASSUME NEW a \in Int, NEW d \in Int PROVE ~Coming(pending, resp.calls, n, a, d, Verdicts, Reason)
  <2>1. SUFFICES ASSUME Coming(pending, resp.calls, n, a, d, Verdicts, Reason) PROVE FALSE
    OBVIOUS
  <2>2. a \in 0..n /\ d + a >= 0 /\ d + n + 1 <= 0
    BY <1>3, <2>1 DEF Coming
  <2>3. QED
    BY <2>2
<1>5. Len(got) = n /\ (\A i \in 1..n : got[i] = Verdicts[i]) /\ resp.finish = Reason
  BY <1>2, <1>4 DEF OnTheWay, Came
<1>6. DOMAIN got = 1..n
  BY <1>5
<1>7. ASSUME NEW i \in 1..n
      PROVE  /\ got[i].args = Frags(i)
             /\ got[i].ok <=> \/ Frags(i) \in {<<>>, <<"open", "close">>}
                              \/ Frags(i) = <<"open">> /\ Reason = "tool_calls"
  <2>1. PICK f : f = Frags(i)
    OBVIOUS
  <2>2. PICK R : R = Reason
    OBVIOUS
  <2>3. got[i] = finalize_one(f, R = "tool_calls")
    <3>1. got[i] = Verdicts[i] /\ i \in Nat
      BY <1>5
    <3>2. Verdicts[i] = finalize_one(Frags(i), Reason = "tool_calls")
      BY <3>1 DEF Verdicts
    <3>3. QED
      BY <2>1, <2>2, <3>1, <3>2
  <2>4. PICK ok \in BOOLEAN : ok <=> Valid(f) \/ (Repairable(f) /\ R = "tool_calls")
    OBVIOUS
  <2>5. (Valid(f) \/ (Repairable(f) /\ R = "tool_calls")) = ok
    BY <2>4
  <2>6. got[i] = [ok |-> ok, args |-> f]
    BY <2>3, <2>5 DEF finalize_one
  <2>7. got[i].args = f /\ got[i].ok = ok
    BY <2>6
  <2>8. ok <=> f \in {<<>>, <<"open", "close">>} \/ (f = <<"open">> /\ R = "tool_calls")
    BY <2>4 DEF Valid, Repairable
  <2>9. QED
    BY <2>1, <2>2, <2>7, <2>8
<1>8. QED
  BY <1>2, <1>5, <1>6, <1>7

LEMMA Unaccepted == ASSUME NEW error, NEW retries, Fail(error, retries), error # None PROVE CallsAsSent'
<1>1. result' = [error |-> error, retries |-> retries, resp |-> NoResp]
  BY DEF Fail, Result
<1>2. result'.error # None
  BY <1>1
<1>3. QED
  BY <1>2 DEF CallsAsSent

LEMMA GoingOn == ASSUME phase' # "done" PROVE CallsAsSent'
  BY DEF CallsAsSent

LEMMA AcceptedSends == ASSUME NEW retries, Accepted(retries), mode' = mode PROVE CallsAsSent'
<1>1. CASE mode = "complete"
  BY <1>1 DEF CallsAsSent
<1>2. CASE phase' = "stream"
  BY <1>2, GoingOn
<1>3. QED
  BY <1>1, <1>2 DEF Accepted

LEMMA CallsAttemptFails ==
  ASSUME NEW error, error # None, AttemptFails(error) PROVE CallsAsSent'
<1>1. CASE Replay
  BY <1>1, GoingOn DEF Replay
<1>2. CASE Fail(error, total)
  BY <1>2, Unaccepted
<1>3. QED
  BY <1>1, <1>2 DEF AttemptFails

LEMMA CallsSteps == ASSUME StreamInv, Told, CallsAsSent, [ProviderNext]_providerVars PROVE CallsAsSent'
<1>0. \A e \in {"dlr", "status", "local", "http", "json", "idle"} : e # None
  BY DEF None
<1>1. CASE UNCHANGED providerVars
  <2>1. UNCHANGED <<phase, result, mode, said>>
    BY <1>1 DEF providerVars, bodyVars
  <2>2. Before' = Before /\ Reason' = Reason
    BY <2>1, SaidSame
  <2>3. Indices' = Indices /\ \A i : Frags(i)' = Frags(i)
    BY <2>2 DEF Indices, Frags
  <2>4. QED
    BY <2>1, <2>2, <2>3 DEF CallsAsSent
<1>2. CASE \E m : Begin(m)
  BY <1>2, GoingOn DEF Begin
<1>3. CASE SendDlr
  <2>1. mode' = mode /\ phase = "send"
    BY <1>3 DEF SendDlr
  <2>2. \/ UNCHANGED phase \/ Fail("dlr", total) \/ Accepted(0) \/ Fail("status", total)
    BY <1>3 DEF SendDlr
  <2>3. QED
    BY <1>0, <2>1, <2>2, GoingOn, Unaccepted, AcceptedSends
<1>4. CASE SendLocalError
  <2>1. Fail("local", total + carried + attempt)
    BY <1>4 DEF SendLocalError
  <2>2. QED
    BY <1>0, <2>1, Unaccepted
<1>5. ASSUME NEW o \in Outcomes, Post(o) PROVE CallsAsSent'
  <2>1. mode' = mode /\ phase = "send"
    BY <1>5 DEF Post
  <2>2. \/ UNCHANGED phase \/ Accepted(carried + attempt)
        \/ Fail(IF o \in {"connect", "timeout"} THEN "http" ELSE "status", total + carried + attempt)
    BY <1>5 DEF Post
  <2>3. PICK e \in {"http", "status"} : e = IF o \in {"connect", "timeout"} THEN "http" ELSE "status"
    OBVIOUS
  <2>4. QED
    BY <1>0, <2>1, <2>2, <2>3, GoingOn, Unaccepted, AcceptedSends
<1>6. CASE FrameBegin \/ Deliver \/ \E c : FrameEnd(c)
  <2>1. phase' = "stream"
    BY <1>6 DEF FrameBegin, Deliver, FrameEnd, Polling, Streaming
  <2>2. QED
    BY <2>1, GoingOn
<1>7. CASE BodyError \/ IdleTimeout
  BY <1>0, <1>7, CallsAttemptFails DEF BodyError, IdleTimeout
<1>8. ASSUME NEW l, FrameLine(l) PROVE CallsAsSent'
  <2>1. AttemptFails("json") \/ phase' = "stream"
    BY <1>8 DEF FrameLine, Streaming
  <2>2. QED
    BY <1>0, <2>1, CallsAttemptFails, GoingOn
<1>9. ASSUME NEW t, BodyEnd(t) PROVE CallsAsSent'
  <2>1. AttemptFails("json") \/ phase' = "stream"
    BY <1>9 DEF BodyEnd, Polling, Streaming
  <2>2. QED
    BY <1>0, <2>1, CallsAttemptFails, GoingOn
<1>10. CASE StreamEnd
  <2>1. CASE Replay
    BY <2>1, GoingOn DEF Replay
  <2>2. CASE result' = [error |-> None, retries |-> total, resp |-> Stripped(resp)] /\ UNCHANGED bodyVars
    <3>1. ended /\ pending = <<>>
      BY <1>10 DEF StreamEnd
    <3>2. PICK got \in Seq(EventValues) : got = resp.calls
      BY DEF StreamInv, StreamTypes, Responses
    <3>3. result'.resp = Stripped(resp)
      BY <2>2
    <3>4. result'.resp.calls = got /\ result'.resp.finish = resp.finish
      BY <3>2, <3>3 DEF Stripped, StreamInv, StreamTypes, Responses
    <3>5. Before' = Before /\ Reason' = Reason
      BY <2>2, SaidSame DEF bodyVars
    <3>6. Indices' = Indices /\ \A i : Frags(i)' = Frags(i)
      BY <3>5 DEF Indices, Frags
    <3>7. /\ resp.finish = Reason /\ Indices \subseteq DOMAIN got
          /\ \A i \in DOMAIN got :
               /\ got[i].args = Frags(i)
               /\ got[i].ok <=> \/ Frags(i) \in {<<>>, <<"open", "close">>}
                                \/ Frags(i) = <<"open">> /\ Reason = "tool_calls"
      BY <3>1, <3>2, EndedAsSent
    <3>8. QED
      BY <3>4, <3>5, <3>6, <3>7 DEF CallsAsSent
  <2>3. QED
    BY <1>10, <2>1, <2>2 DEF StreamEnd
<1>11. QED
  BY <1>1, <1>2, <1>3, <1>4, <1>5, <1>6, <1>7, <1>8, <1>9, <1>10 DEF ProviderNext

\* However the body was cut into frames, and whatever lines the server sent, an accepted response holds,
\* in index order, exactly the calls whose fragments came before the finish, each with all of its
\* fragments, and one is runnable only if its arguments are complete or the model said that it was done
\* calling (StreamFuser, ToolCallAccumulator, EventStream), for any number of lines, calls and replays.
THEOREM CallsAsSentAlways == ProviderSpec => []CallsAsSent
<1>1. ProviderInit => StreamInv /\ Told /\ CallsAsSent
  <2>1. ProviderInit => Told
    BY ToldNothing DEF ProviderInit
  <2>2. ProviderInit => CallsAsSent
    BY DEF ProviderInit, CallsAsSent
  <2>3. QED
    BY <2>1, <2>2, StreamStart
<1>2. StreamInv /\ Told /\ CallsAsSent /\ [ProviderNext]_providerVars => (StreamInv /\ Told /\ CallsAsSent)'
  BY StreamSteps, ToldSteps, CallsSteps
<1>3. QED
  BY <1>1, <1>2, PTL DEF ProviderSpec

-----------------------------------------------------------------------------
(* The store and its log.                                                  *)

Kept == BlockIds \cup {Junk}

\* What frames have written, and what a replay meets.
BlockRecords == [kind : {"insert", "reference", "content"}, s : Sessions, b : Kept]
SeedRecords == [kind : {"seed"}, s : Sessions, ids : Seq(Kept)]
FrameRecords == BlockRecords \cup SeedRecords
WalRecords == FrameRecords \cup {LostRecord, Nothing}
Replays == [blocks : SUBSET Kept, log : [Sessions -> Seq(Kept)]]

\* A record of a session changes that session's log alone.
LEMMA RedoSays ==
  ASSUME NEW st \in Replays, NEW r \in FrameRecords
  PROVE  /\ Redo(st, r) \in Replays /\ r.s \in Sessions
         /\ \A t \in Sessions : t # r.s => Redo(st, r).log[t] = st.log[t]
         /\ r.kind = "insert" => Redo(st, r).log[r.s] = Append(st.log[r.s], r.b)
         /\ r.kind = "reference" /\ r.b \in st.blocks => Redo(st, r).log[r.s] = Append(st.log[r.s], r.b)
         /\ r.kind = "seed" => Redo(st, r).log[r.s] = r.ids
         /\ r.kind = "content" => Redo(st, r).log[r.s] = st.log[r.s]
<1>1. st.blocks \subseteq Kept /\ st.log \in [Sessions -> Seq(Kept)] /\ st = [blocks |-> st.blocks, log |-> st.log]
  BY DEF Replays
<1>2. PICK s \in Sessions : s = r.s
  BY DEF FrameRecords, BlockRecords, SeedRecords
<1>3. \A B \in SUBSET Kept, q \in Seq(Kept) : [blocks |-> B, log |-> [st.log EXCEPT ![s] = q]] \in Replays
  BY <1>1 DEF Replays
<1>4. CASE r.kind = "insert"
  <2>1. r.b \in Kept
    BY <1>4 DEF FrameRecords, BlockRecords, SeedRecords
  <2>2. Redo(st, r) = [blocks |-> st.blocks \cup {r.b}, log |-> [st.log EXCEPT ![s] = Append(@, r.b)]]
    BY <1>1, <1>2, <1>4 DEF Redo
  <2>3. Append(st.log[s], r.b) \in Seq(Kept) /\ st.blocks \cup {r.b} \in SUBSET Kept
    BY <1>1, <2>1, AppendProperties
  <2>4. Redo(st, r) \in Replays
    BY <1>3, <2>2, <2>3
  <2>5. QED
    BY <1>1, <1>2, <1>4, <2>2, <2>3, <2>4
<1>5. CASE r.kind = "reference"
  <2>1. r.b \in Kept
    BY <1>5 DEF FrameRecords, BlockRecords, SeedRecords
  <2>2. CASE r.b \in st.blocks
    <3>1. Redo(st, r) = [blocks |-> st.blocks, log |-> [st.log EXCEPT ![s] = Append(@, r.b)]]
      BY <1>1, <1>2, <1>5, <2>2 DEF Redo
    <3>2. Append(st.log[s], r.b) \in Seq(Kept)
      BY <1>1, <2>1, AppendProperties
    <3>3. Redo(st, r) \in Replays
      BY <1>1, <1>3, <3>1, <3>2
    <3>4. QED
      BY <1>1, <1>2, <1>5, <3>1, <3>2, <3>3
  <2>3. CASE r.b \notin st.blocks
    <3>1. Redo(st, r) = st
      BY <1>5, <2>3 DEF Redo
    <3>2. QED
      BY <1>2, <1>5, <2>3, <3>1
  <2>4. QED
    BY <2>2, <2>3
<1>6. CASE r.kind = "seed"
  <2>1. r.ids \in Seq(Kept)
    BY <1>6 DEF FrameRecords, BlockRecords, SeedRecords
  <2>2. Redo(st, r) = [blocks |-> st.blocks, log |-> [st.log EXCEPT ![s] = r.ids]]
    BY <1>1, <1>2, <1>6 DEF Redo
  <2>3. Redo(st, r) \in Replays
    BY <1>1, <1>3, <2>1, <2>2
  <2>4. QED
    BY <1>1, <1>2, <1>6, <2>1, <2>2, <2>3
<1>7. CASE r.kind = "content"
  <2>1. r.b \in Kept
    BY <1>7 DEF FrameRecords, BlockRecords, SeedRecords
  <2>2. Redo(st, r) = [blocks |-> st.blocks \cup {r.b}, log |-> st.log]
    BY <1>1, <1>7 DEF Redo
  <2>3. Redo(st, r) \in Replays
    BY <1>1, <2>1, <2>2 DEF Replays
  <2>4. QED
    BY <1>1, <1>2, <1>7, <2>2, <2>3
<1>8. QED
  BY <1>4, <1>5, <1>6, <1>7 DEF FrameRecords, BlockRecords, SeedRecords

LEMMA RedoTyped == ASSUME NEW st \in Replays, NEW r \in WalRecords PROVE Redo(st, r) \in Replays
<1>1. CASE r \in FrameRecords
  BY <1>1, RedoSays
<1>2. CASE r.kind \in {"lost", "nothing"}
  <2>1. Redo(st, r) = st
    BY <1>2 DEF Redo
  <2>2. QED
    BY <2>1
<1>3. LostRecord.kind = "lost" /\ Nothing.kind = "nothing"
  BY DEF LostRecord, Nothing
<1>4. QED
  BY <1>1, <1>2, <1>3 DEF WalRecords

\* A replay is a run over the records.
LEMMA ReplayRuns ==
  ASSUME NEW st \in Replays, NEW w \in Seq(WalRecords)
  PROVE  \E h \in [0..Len(w) -> Replays] :
           /\ h[0] = st
           /\ \A n \in 1..Len(w) : h[n] = Redo(h[n - 1], w[n])
           /\ Redone(st, w) = h[Len(w)]
<1> DEFINE L == Len(w)
           F == [p \in (1..L) \X Replays |-> Redo(p[2], w[p[1]])]
           Rec(h) == h = [n \in 0..L |-> IF n = 0 THEN st ELSE Redo(h[n - 1], w[n])]
<1>1. L \in Nat
  OBVIOUS
<1>3. ASSUME NEW n \in 1..L, NEW p \in Replays PROVE Redo(p, w[n]) \in Replays
  <2>1. w[n] \in WalRecords
    BY ElementOfSeq
  <2>2. QED
    BY <2>1, RedoTyped
<1>4. F \in [(1..L) \X Replays -> Replays]
  BY <1>3
<1>5. \A n \in 1..L, p \in Replays : F[<<n, p>>] = Redo(p, w[n])
  OBVIOUS
<1> HIDE DEF F
<1>6. PICK g : Iterates(g, L, Replays, st, F)
  BY <1>1, <1>4, Recursion, Zenon
<1>7. g \in [0..L -> Replays] /\ g[0] = st /\ \A n \in 1..L : g[n] = F[<<n, g[n - 1]>>]
  BY <1>6 DEF Iterates
<1>8. Rec(g)
  <2>1. ASSUME NEW n \in 0..L PROVE g[n] = IF n = 0 THEN st ELSE Redo(g[n - 1], w[n])
    <3>1. CASE n = 0
      BY <1>7, <3>1
    <3>2. CASE n # 0
      <4>1. n \in 1..L /\ g[n - 1] \in Replays
        BY <1>1, <1>7, <3>2
      <4>2. QED
        BY <1>5, <1>7, <3>2, <4>1
    <3>3. QED
      BY <3>1, <3>2
  <2>2. QED
    BY <1>7, <2>1
<1> DEFINE h == CHOOSE f : Rec(f)
<1>9. Rec(h)
  BY <1>8
<1>10. Redone(st, w) = h[L]
  BY DEF Redone
<1> HIDE DEF h
<1>11. DOMAIN h = 0..L /\ h[0] = st /\ \A n \in 1..L : h[n] = Redo(h[n - 1], w[n])
  <2>1. \A n \in 1..L : n - 1 \in 0..L /\ n \in 0..L /\ n # 0
    BY <1>1
  <2>2. QED
    BY <1>1, <1>9, <2>1
<1> DEFINE Good == {n \in 0..L : h[n] \in Replays}
<1>12. 0 \in Good
  BY <1>1, <1>11
<1>13. ASSUME NEW n \in 1..L, n - 1 \in Good PROVE n \in Good
  <2>1. h[n - 1] \in Replays /\ n \in 0..L
    BY <1>1, <1>13
  <2>2. QED
    BY <1>3, <1>11, <2>1
<1>14. 0..L \subseteq Good
  <2> HIDE DEF Good
  <2>1. QED
    BY <1>1, <1>12, <1>13, Segment
<1>15. h \in [0..L -> Replays]
  BY <1>9, <1>14
<1>16. QED
  BY <1>10, <1>11, <1>15

LEMMA ReplayedNone == ASSUME NEW st \in Replays PROVE Redone(st, <<>>) = st
<1>a. <<>> \in Seq(WalRecords)
  OBVIOUS
<1>1. PICK none \in Seq(WalRecords) : none = <<>>
  BY <1>a, Zenon
<1>2. Len(none) = 0
  BY <1>1
<1>3. PICK h \in [0..Len(none) -> Replays] : h[0] = st /\ Redone(st, none) = h[Len(none)]
  BY ReplayRuns
<1>4. QED
  BY <1>1, <1>2, <1>3

\* One record more is redone after the others.
LEMMA ReplayedNext ==
  ASSUME NEW st \in Replays, NEW w \in Seq(WalRecords), NEW r \in WalRecords
  PROVE  Redone(st, w) \in Replays /\ Redone(st, w \o <<r>>) = Redo(Redone(st, w), r)
<1> DEFINE L == Len(w)
<1>1. PICK h \in [0..L -> Replays] : /\ h[0] = st
                                     /\ \A n \in 1..L : h[n] = Redo(h[n - 1], w[n])
                                     /\ Redone(st, w) = h[L]
  BY ReplayRuns
<1>2. PICK more \in Seq(WalRecords) : more = w \o <<r>>
  OBVIOUS
<1>3. L \in Nat /\ Len(more) = L + 1 /\ (\A i \in 1..L : more[i] = w[i]) /\ more[L + 1] = r
  BY <1>2
<1>4. PICK g \in [0..(L + 1) -> Replays] : /\ g[0] = st
                                           /\ \A n \in 1..(L + 1) : g[n] = Redo(g[n - 1], more[n])
                                           /\ Redone(st, more) = g[L + 1]
  BY <1>3, ReplayRuns
<1> HIDE DEF L
<1> DEFINE Same == {n \in 0..L : g[n] = h[n]}
<1>5. 0 \in Same
  BY <1>1, <1>3, <1>4
<1>6. ASSUME NEW n \in 1..L, n - 1 \in Same PROVE n \in Same
  <2>1. n \in 1..(L + 1) /\ n \in 0..L /\ g[n - 1] = h[n - 1] /\ more[n] = w[n]
    BY <1>3, <1>6
  <2>2. g[n] = Redo(g[n - 1], more[n]) /\ h[n] = Redo(h[n - 1], w[n])
    BY <1>1, <1>4, <2>1
  <2>3. QED
    BY <2>1, <2>2
<1>7. 0..L \subseteq Same
  <2> HIDE DEF Same
  <2>1. QED
    BY <1>3, <1>5, <1>6, Segment
<1>8. L \in 0..L /\ L + 1 \in 1..(L + 1) /\ (L + 1) - 1 = L
  BY <1>3
<1>9. g[L] = h[L]
  BY <1>7, <1>8
<1>10. g[L + 1] = Redo(g[L], r)
  BY <1>3, <1>4, <1>8
<1>11. QED
  BY <1>1, <1>2, <1>4, <1>8, <1>9, <1>10 DEF L

LEMMA ReplayedTyped == ASSUME NEW st \in Replays, NEW w \in Seq(WalRecords) PROVE Redone(st, w) \in Replays
<1>1. Len(w) \in Nat /\ Len(w) \in 0..Len(w)
  OBVIOUS
<1>2. QED
  BY <1>1, ReplayRuns

\* A log grown by one record keeps its front, and what dangles in it.
LEMMA LogGrows ==
  ASSUME NEW w \in Seq(WalRecords), NEW r \in WalRecords
  PROVE  /\ w \o <<r>> \in Seq(WalRecords) /\ Len(w \o <<r>>) = Len(w) + 1 /\ Len(w) \in Nat
         /\ SubSeq(w \o <<r>>, 1, Len(w) + 1) = w \o <<r>> /\ SubSeq(w, 1, Len(w)) = w
         /\ \A n \in 0..Len(w) : SubSeq(w \o <<r>>, 1, n) = SubSeq(w, 1, n)
         /\ (w \o <<r>>)[Len(w) + 1] = r /\ \A k \in 1..Len(w) : (w \o <<r>>)[k] = w[k]
<1>1. w \o <<r>> \in Seq(WalRecords) /\ Len(w \o <<r>>) = Len(w) + 1 /\ Len(w) \in Nat
  OBVIOUS
<1>2. SubSeq(w, 1, Len(w)) = w /\ SubSeq(w \o <<r>>, 1, Len(w) + 1) = w \o <<r>>
  OBVIOUS
<1>3. \A n \in 0..Len(w) : SubSeq(w \o <<r>>, 1, n) = SubSeq(w, 1, n)
  OBVIOUS
<1>4. (w \o <<r>>)[Len(w) + 1] = r /\ \A k \in 1..Len(w) : (w \o <<r>>)[k] = w[k]
  OBVIOUS
<1>5. QED
  BY <1>1, <1>2, <1>3, <1>4

LEMMA DanglingGrows ==
  ASSUME NEW w \in Seq(WalRecords), NEW r \in WalRecords, NEW s, ~Dangling(w \o <<r>>, s)
  PROVE  ~Dangling(w, s) /\ (r.kind = "reference" /\ r.s = s => r.b \in Redone(opened, w).blocks)
<1>1. PICK more \in Seq(WalRecords) : more = w \o <<r>>
  BY LogGrows
<1>2. /\ Len(more) = Len(w) + 1 /\ Len(w) \in Nat /\ SubSeq(w, 1, Len(w)) = w
      /\ \A n \in 0..Len(w) : SubSeq(more, 1, n) = SubSeq(w, 1, n)
      /\ more[Len(w) + 1] = r /\ \A k \in 1..Len(w) : more[k] = w[k]
  BY <1>1, LogGrows
<1>3. \A i \in 1..(Len(w) + 1) :
        ~(/\ more[i].kind = "reference" /\ more[i].s = s
          /\ more[i].b \notin Redone(opened, SubSeq(more, 1, i - 1)).blocks)
  BY <1>1, <1>2 DEF Dangling
<1>4. ASSUME NEW i \in 1..Len(w)
      PROVE  ~(w[i].kind = "reference" /\ w[i].s = s /\ w[i].b \notin Redone(opened, SubSeq(w, 1, i - 1)).blocks)
  <2>1. i \in 1..(Len(w) + 1) /\ i - 1 \in 0..Len(w)
    BY <1>2
  <2>2. SubSeq(more, 1, i - 1) = SubSeq(w, 1, i - 1) /\ more[i] = w[i]
    BY <1>2, <2>1
  <2>3. QED
    BY <1>3, <2>1, <2>2
<1>5. ~Dangling(w, s)
  BY <1>4 DEF Dangling
<1>6. Len(w) + 1 \in 1..(Len(w) + 1) /\ (Len(w) + 1) - 1 = Len(w) /\ Len(w) \in 0..Len(w)
  BY <1>2
<1>7. SubSeq(more, 1, (Len(w) + 1) - 1) = w
  BY <1>2, <1>6
<1>8. QED
  BY <1>2, <1>3, <1>5, <1>6, <1>7

LEMMA SeqRangeFinite ==
  ASSUME NEW T, NEW q \in Seq(T) PROVE IsFiniteSet(Range(q)) /\ Range(q) \subseteq T
<1>1. Len(q) \in Nat /\ DOMAIN q = 1..Len(q) /\ q \in [1..Len(q) -> T]
  OBVIOUS
<1>2. q \in Surjection(1..Len(q), Range(q))
  BY <1>1 DEF Surjection, Range
<1>3. IsFiniteSet(1..Len(q))
  BY <1>1, FS_Interval
<1>4. IsFiniteSet(Range(q))
  BY <1>2, <1>3, FS_Surjection
<1>5. QED
  BY <1>1, <1>4 DEF Range

LEMMA RangeGrows ==
  ASSUME NEW T, NEW q \in Seq(T), NEW x \in T
  PROVE  Append(q, x) \in Seq(T) /\ Range(Append(q, x)) = Range(q) \cup {x}
<1>1. Append(q, x) \in Seq(T) /\ Len(Append(q, x)) = Len(q) + 1 /\ Len(q) \in Nat
  OBVIOUS
<1>2. \A i \in 1..(Len(q) + 1) : Append(q, x)[i] = IF i = Len(q) + 1 THEN x ELSE q[i]
  OBVIOUS
<1>3. DOMAIN q = 1..Len(q) /\ DOMAIN Append(q, x) = 1..(Len(q) + 1)
  BY <1>1
<1>4. Len(q) + 1 \in 1..(Len(q) + 1) /\ \A i \in 1..Len(q) : i \in 1..(Len(q) + 1) /\ i # Len(q) + 1
  BY <1>1
<1>5. QED
  BY <1>1, <1>2, <1>3, <1>4 DEF Range

LEMMA RangeShrinks ==
  ASSUME NEW T, NEW q \in Seq(T), q # <<>>
  PROVE  Head(q) \in T /\ Tail(q) \in Seq(T) /\ Range(q) = {Head(q)} \cup Range(Tail(q))
<1>1. Len(q) \in Nat \ {0} /\ Head(q) = q[1] /\ Tail(q) \in Seq(T) /\ Len(Tail(q)) = Len(q) - 1
  BY EmptySeq
<1>2. \A i \in 1..(Len(q) - 1) : Tail(q)[i] = q[i + 1]
  BY <1>1
<1>3. DOMAIN q = 1..Len(q) /\ DOMAIN Tail(q) = 1..(Len(q) - 1)
  BY <1>1
<1>4. ASSUME NEW i \in 1..Len(q), i # 1 PROVE i - 1 \in 1..(Len(q) - 1) /\ q[i] = Tail(q)[i - 1]
  <2>1. i - 1 \in 1..(Len(q) - 1) /\ (i - 1) + 1 = i
    BY <1>1, <1>4
  <2>2. QED
    BY <1>2, <2>1
<1>5. ASSUME NEW i \in 1..(Len(q) - 1) PROVE i + 1 \in 1..Len(q) /\ Tail(q)[i] = q[i + 1]
  BY <1>1, <1>2
<1>6. 1 \in 1..Len(q)
  BY <1>1
<1>7. Head(q) \in T
  BY <1>1, <1>6
<1>8. ASSUME NEW x \in Range(q) PROVE x \in {Head(q)} \cup Range(Tail(q))
  <2>1. PICK i \in 1..Len(q) : x = q[i]
    BY <1>3 DEF Range
  <2>2. CASE i = 1
    BY <1>1, <2>1, <2>2
  <2>3. CASE i # 1
    <3>1. i - 1 \in DOMAIN Tail(q) /\ x = Tail(q)[i - 1]
      BY <1>3, <1>4, <2>1, <2>3
    <3>2. QED
      BY <3>1 DEF Range
  <2>4. QED
    BY <2>2, <2>3
<1>9. ASSUME NEW x \in Range(Tail(q)) PROVE x \in Range(q)
  <2>1. PICK i \in 1..(Len(q) - 1) : x = Tail(q)[i]
    BY <1>3 DEF Range
  <2>2. i + 1 \in DOMAIN q /\ x = q[i + 1]
    BY <1>3, <1>5, <2>1
  <2>3. QED
    BY <2>2 DEF Range
<1>10. Head(q) \in Range(q)
  BY <1>1, <1>3, <1>6 DEF Range
<1>11. QED
  BY <1>1, <1>7, <1>8, <1>9, <1>10

StoreOps == {"none", "append", "resync", "bulk", "flush", "reply", "down"}
Jobs == [op : StoreOps, todo : Seq(Kept), rec : Seq(WalRecords), gen : SUBSET Kept]

StoreTypes ==
  /\ storeLog \in [Sessions -> Seq(Kept)] /\ storePending \in [Sessions -> SUBSET Kept]
  /\ opened \in Replays
  /\ wal \in Seq(WalRecords) /\ flushed \in 0..Len(wal) /\ broken \in BOOLEAN
  /\ job \in [Sessions -> Jobs]
  /\ since \in [Sessions -> SUBSET Seq(Kept)]
  /\ storeAcked \in [Sessions -> BOOLEAN]

\* The log is whole up to the last flush, and as far as it goes unless an error
\* is latched.
Latched == Lost(flushed) = {} /\ (~broken => Lost(Len(wal)) = {})

\* What a session has still to log is a record of its own.
JobFits(s) ==
  \/ job[s].rec = <<>>
  \/ /\ job[s].op \in {"append", "resync", "bulk"}
     /\ \E r \in FrameRecords : job[s].rec = <<r>> /\ r.s = s

\* The session's open record leads from the log l to the session's log.
Leads(l, s) ==
  IF job[s].rec = <<>> THEN l = storeLog[s]
  ELSE /\ job[s].rec[1].kind \in {"insert", "reference"} => Append(l, job[s].rec[1].b) = storeLog[s]
       /\ job[s].rec[1].kind = "seed" => job[s].rec[1].ids = storeLog[s]
       /\ job[s].rec[1].kind = "content" => l = storeLog[s]

\* As long as the log is whole it lacks no more than the open record.
InStep(s) ==
  job[s].op # "down" /\ Lost(Len(wal)) = {} /\ ~Dangling(wal, s) => Leads(Redone(opened, wal).log[s], s)

\* What the session's log names and the store has not is waited for.
Missing(s) == IF job[s].op = "resync" THEN job[s].gen ELSE storePending[s]
Covered(s) ==
  /\ storeLog[s] \in since[s]
  /\ job[s].op # "down" => Range(storeLog[s]) \ storeBlocks \subseteq Missing(s)
  /\ job[s].op = "bulk" => job[s].gen \ Range(job[s].todo) \subseteq storeBlocks

\* What a crash after n records brings back.
Back(n, s) ==
  Lost(n) = {} /\ ~Dangling(SubSeq(wal, 1, n), s) => Redone(opened, SubSeq(wal, 1, n)).log[s] \in since[s]

AllBack == \A n \in flushed..Len(wal), s \in Sessions : Back(n, s)

StoreInv ==
  /\ StoreTypes /\ Latched /\ AllBack
  /\ \A s \in Sessions : JobFits(s) /\ InStep(s) /\ Covered(s)

\* A session that has just been opened, or that never did anything.
LEMMA AtRest ==
  ASSUME NEW s \in Sessions, opened \in Replays, wal = <<>>, flushed = 0, job[s] = Idle,
         storeLog[s] = opened.log[s], storeLog[s] \in since[s],
         Range(storeLog[s]) \ storeBlocks \subseteq storePending[s]
  PROVE  JobFits(s) /\ InStep(s) /\ Covered(s) /\ Latched /\ \A n \in flushed..Len(wal) : Back(n, s)
<1>1. Idle.rec = <<>> /\ Idle.op = "none"
  BY DEF Idle
<1>2. Redone(opened, wal) = opened
  BY ReplayedNone
<1>3. JobFits(s)
  BY <1>1 DEF JobFits
<1>4. InStep(s)
  BY <1>1, <1>2 DEF InStep, Leads
<1>5. Covered(s)
  BY <1>1 DEF Covered, Missing
<1>6. Len(wal) = 0 /\ SubSeq(wal, 1, 0) = <<>>
  OBVIOUS
<1>7. Latched
  BY <1>6 DEF Latched, Lost
<1>8. ASSUME NEW n \in flushed..Len(wal) PROVE Back(n, s)
  <2>1. n = 0
    BY <1>6
  <2>2. Redone(opened, SubSeq(wal, 1, n)).log[s] \in since[s]
    BY <1>2, <1>6, <2>1
  <2>3. QED
    BY <2>2 DEF Back
<1>9. QED
  BY <1>3, <1>4, <1>5, <1>7, <1>8

\* The same after a step: a session that has just been opened again.
LEMMA AtRestNext ==
  ASSUME NEW s \in Sessions, opened' \in Replays, wal' = <<>>, flushed' = 0, job'[s] = Idle,
         storeLog'[s] = opened'.log[s], storeLog'[s] \in since'[s],
         Range(storeLog'[s]) \ storeBlocks' \subseteq storePending'[s]
  PROVE  JobFits(s)' /\ InStep(s)' /\ Covered(s)' /\ Latched' /\ \A n \in flushed'..Len(wal') : Back(n, s)'
<1>1. Idle.rec = <<>> /\ Idle.op = "none"
  BY DEF Idle
<1>2. Redone(opened', wal') = opened'
  BY ReplayedNone
<1>3. JobFits(s)'
  BY <1>1 DEF JobFits
<1>4. InStep(s)'
  BY <1>1, <1>2 DEF InStep, Leads
<1>5. Covered(s)'
  BY <1>1 DEF Covered, Missing
<1>6. Len(wal') = 0 /\ SubSeq(wal', 1, 0) = <<>>
  OBVIOUS
<1>7. Latched'
  BY <1>6 DEF Latched, Lost
<1>8. ASSUME NEW n \in flushed'..Len(wal') PROVE Back(n, s)'
  <2>1. n = 0
    BY <1>6
  <2>2. Redone(opened', SubSeq(wal', 1, n)).log[s] \in since'[s]
    BY <1>2, <1>6, <2>1
  <2>3. QED
    BY <2>2 DEF Back
<1>9. QED
  BY <1>3, <1>4, <1>5, <1>7, <1>8

LEMMA StoreStart == ASSUME StoreInit PROVE StoreInv
<1> USE DEF StoreInit
<1>1. StoreTypes
  <2>1. Idle \in Jobs
    BY DEF Idle, Jobs, StoreOps
  <2>2. [s \in Sessions |-> {<<>>}] \in [Sessions -> SUBSET Seq(Kept)]
    OBVIOUS
  <2>3. [s \in Sessions |-> <<>>] \in [Sessions -> Seq(Kept)] /\ <<>> \in Seq(WalRecords) /\ 0 \in 0..Len(<<>>)
    OBVIOUS
  <2>4. Blank \in Replays
    BY <2>3 DEF Blank, Replays
  <2>5. QED
    BY <2>1, <2>2, <2>3, <2>4 DEF StoreTypes
<1>2. ASSUME NEW s \in Sessions PROVE JobFits(s) /\ InStep(s) /\ Covered(s) /\ \A n \in flushed..Len(wal) : Back(n, s)
  <2>1. opened \in Replays /\ storeLog[s] = opened.log[s] /\ storeLog[s] \in since[s] /\ job[s] = Idle
    BY <1>1 DEF StoreTypes, Blank
  <2>2. Range(storeLog[s]) \ storeBlocks \subseteq storePending[s]
    BY DEF Range
  <2>3. QED
    BY <2>1, <2>2, AtRest
<1>3. Latched
  BY DEF Latched, Lost
<1>4. QED
  BY <1>1, <1>2, <1>3 DEF StoreInv, AllBack

\* A step of session s that writes nothing leaves the other sessions as they were.
LEMMA SessionStep ==
  ASSUME StoreInv, NEW s \in Sessions,
         job' \in [Sessions -> Jobs], \A t \in Sessions \ {s} : job'[t] = job[t],
         NEW l \in Seq(Kept), storeLog' = [storeLog EXCEPT ![s] = l],
         NEW p \in SUBSET Kept, storePending' = [storePending EXCEPT ![s] = p],
         NEW S \in SUBSET Seq(Kept), since' = [since EXCEPT ![s] = S], since[s] \subseteq S,
         storeAcked' \in [Sessions -> BOOLEAN],
         storeBlocks \subseteq storeBlocks', UNCHANGED <<opened, wal, flushed, broken>>,
         JobFits(s)', InStep(s)', Covered(s)'
  PROVE  StoreInv'
<1>0. StoreTypes /\ Latched /\ AllBack /\ \A t \in Sessions : JobFits(t) /\ InStep(t) /\ Covered(t)
  BY DEF StoreInv
<1>1. StoreTypes'
  BY <1>0 DEF StoreTypes
<1>2. Latched'
  BY <1>0 DEF Latched, Lost
<1>3. AllBack'
  <2>1. \A t \in Sessions : since[t] \subseteq since'[t]
    BY <1>0 DEF StoreTypes
  <2>2. opened' = opened /\ wal' = wal /\ flushed' = flushed
    OBVIOUS
  <2>3. ASSUME NEW n \in flushed..Len(wal), NEW t \in Sessions PROVE Back(n, t)'
    <3>1. Back(n, t)
      BY <1>0 DEF AllBack
    <3>2. QED
      BY <2>1, <2>2, <3>1 DEF Back, Lost, Dangling
  <2>4. QED
    BY <2>2, <2>3 DEF AllBack
<1>4. ASSUME NEW t \in Sessions, t # s PROVE JobFits(t)' /\ InStep(t)' /\ Covered(t)'
  <2>1. job'[t] = job[t] /\ storeLog'[t] = storeLog[t] /\ storePending'[t] = storePending[t] /\ since'[t] = since[t]
    BY <1>0, <1>4 DEF StoreTypes
  <2>2. JobFits(t)'
    BY <1>0, <2>1 DEF JobFits
  <2>3. InStep(t)'
    BY <1>0, <2>1 DEF InStep, Leads, Lost, Dangling
  <2>4. Covered(t)'
    BY <1>0, <2>1 DEF Covered, Missing
  <2>5. QED
    BY <2>2, <2>3, <2>4
<1>5. QED
  BY <1>1, <1>2, <1>3, <1>4 DEF StoreInv

\* A step that writes nothing keeps a session in step if its open record still
\* leads to its log.
KeepsLead(s) == \A l : Leads(l, s) => Leads(l, s)'

LEMMA StillInStep ==
  ASSUME NEW s \in Sessions, InStep(s), job[s].op # "down", UNCHANGED <<wal, opened>>, KeepsLead(s)
  PROVE  InStep(s)'
<1>1. wal' = wal /\ opened' = opened
  OBVIOUS
<1>2. Lost(Len(wal))' = Lost(Len(wal)) /\ Dangling(wal, s)' = Dangling(wal, s)
  BY <1>1 DEF Lost, Dangling
<1> DEFINE l == Redone(opened, wal).log[s]
<1>3. Redone(opened, wal).log[s]' = l
  BY <1>1
<1>4. Leads(l, s) => Leads(Redone(opened, wal).log[s], s)'
  <2>1. SUFFICES ASSUME Leads(l, s) PROVE Leads(Redone(opened, wal).log[s], s)'
    OBVIOUS
  <2>2. PICK m : m = l
    OBVIOUS
  <2>3. Leads(m, s)'
    BY <2>1, <2>2 DEF KeepsLead
  <2>4. QED
    BY <1>3, <2>2, <2>3 DEF Leads
<1>5. QED
  BY <1>2, <1>4 DEF InStep

\* What a session's own part of the invariant says.
LEMMA Parts ==
  ASSUME StoreInv, NEW s \in Sessions
  PROVE  /\ StoreTypes /\ JobFits(s) /\ InStep(s) /\ Covered(s)
         /\ job[s] \in Jobs /\ storeLog[s] \in Seq(Kept) /\ storePending[s] \in SUBSET Kept
         /\ since[s] \in SUBSET Seq(Kept) /\ storeAcked[s] \in BOOLEAN
         /\ storeLog = [storeLog EXCEPT ![s] = storeLog[s]]
         /\ storePending = [storePending EXCEPT ![s] = storePending[s]]
         /\ since = [since EXCEPT ![s] = since[s]]
BY DEF StoreInv, StoreTypes

LEMMA AcceptStep ==
  ASSUME StoreInv, NEW s \in Sessions, NEW new \in Seq(Kept), Accept(s, new)
  PROVE  StoreInv'
<1>0. /\ StoreTypes /\ JobFits(s) /\ InStep(s) /\ Covered(s)
      /\ storeLog[s] \in Seq(Kept) /\ storePending[s] \in SUBSET Kept
      /\ since[s] \in SUBSET Seq(Kept) /\ storeLog = [storeLog EXCEPT ![s] = storeLog[s]]
      /\ storePending = [storePending EXCEPT ![s] = storePending[s]] /\ since = [since EXCEPT ![s] = since[s]]
  BY Parts
<1> DEFINE j == [op |-> "append", todo |-> new, rec |-> <<>>, gen |-> {}]
<1>1. job[s] = Idle /\ job' = [job EXCEPT ![s] = j] /\ UNCHANGED <<memory, opened, wal, flushed, broken, since>>
  BY DEF Accept
<1>2. j \in Jobs
  BY DEF Jobs, StoreOps
<1>3. job'[s] = j /\ job' \in [Sessions -> Jobs] /\ \A t \in Sessions \ {s} : job'[t] = job[t]
  BY <1>0, <1>1, <1>2 DEF StoreTypes
<1>4. JobFits(s)'
  BY <1>3 DEF JobFits
<1>5. InStep(s)'
  <2>1. KeepsLead(s)
    BY <1>1, <1>3 DEF KeepsLead, Leads, Idle, memory
  <2>2. job[s].op # "down"
    BY <1>1 DEF Idle
  <2>3. QED
    BY <1>0, <1>1, <2>1, <2>2, StillInStep
<1>6. Covered(s)'
  BY <1>0, <1>1, <1>3 DEF Covered, Missing, Idle, memory
<1>7. UNCHANGED <<storeBlocks, storeLog, storePending, storeAcked>>
  BY <1>1 DEF memory
<1> HIDE DEF j
<1>8. QED
  BY <1>0, <1>1, <1>3, <1>4, <1>5, <1>6, <1>7, SessionStep DEF StoreTypes

LEMMA InsertStep ==
  ASSUME StoreInv, NEW s \in Sessions, Insert(s)
  PROVE  StoreInv'
<1>0. /\ StoreTypes /\ JobFits(s) /\ InStep(s) /\ Covered(s)
      /\ job[s] \in Jobs /\ storeLog[s] \in Seq(Kept) /\ storePending[s] \in SUBSET Kept
      /\ since[s] \in SUBSET Seq(Kept) /\ storePending = [storePending EXCEPT ![s] = storePending[s]]
  BY Parts
<1> DEFINE b == Head(job[s].todo)
           kind == IF b \in storeBlocks THEN "reference" ELSE "insert"
           r == [kind |-> kind, s |-> s, b |-> b]
           l == Append(storeLog[s], b)
<1>1. /\ job[s].op = "append" /\ job[s].todo # <<>> /\ job[s].rec = <<>>
      /\ storeBlocks' = storeBlocks \cup {b}
      /\ storeLog' = [storeLog EXCEPT ![s] = l] /\ since' = [since EXCEPT ![s] = @ \cup {l}]
      /\ UNCHANGED <<storePending, storeAcked, opened, wal, flushed, broken>>
  BY DEF Insert, LogTo
<1>2. job[s].todo \in Seq(Kept)
  BY <1>0 DEF Jobs
<1>3. b \in Kept /\ Tail(job[s].todo) \in Seq(Kept)
  BY <1>1, <1>2, RangeShrinks
<1>4. r \in FrameRecords /\ r \in WalRecords /\ r.s = s /\ r.b = b /\ r.kind \in {"insert", "reference"}
  <2>1. r \in BlockRecords
    BY <1>3 DEF BlockRecords
  <2>2. QED
    BY <2>1 DEF FrameRecords, WalRecords
<1>5. l \in Seq(Kept) /\ Range(l) = Range(storeLog[s]) \cup {b}
  <2> HIDE DEF b
  <2>a. PICK q \in Seq(Kept), x \in Kept : q = storeLog[s] /\ x = b
    BY <1>0, <1>3
  <2>b. Append(q, x) \in Seq(Kept) /\ Range(Append(q, x)) = Range(q) \cup {x}
    BY RangeGrows
  <2>2. QED
    BY <2>a, <2>b
<1>6. /\ job' \in [Sessions -> Jobs] /\ \A t \in Sessions \ {s} : job'[t] = job[t]
      /\ job'[s].rec = <<r>> /\ job'[s].op = "append" /\ job'[s].gen = job[s].gen
  <2>1. job' = [job EXCEPT ![s].todo = Tail(job[s].todo), ![s].rec = <<r>>]
    BY DEF Insert
  <2> HIDE DEF r
  <2>2. <<r>> \in Seq(WalRecords)
    BY <1>4
  <2>4. job \in [Sessions -> Jobs]
    BY <1>0 DEF StoreTypes
  <2>5. PICK todo \in Seq(Kept) : todo = Tail(job[s].todo)
    BY <1>3
  <2>6. PICK rec \in Seq(WalRecords) : rec = <<r>>
    BY <2>2
  <2>7. job' = [job EXCEPT ![s].todo = todo, ![s].rec = rec]
    BY <2>1, <2>5, <2>6
  <2>8. /\ job' \in [Sessions -> Jobs] /\ \A t \in Sessions \ {s} : job'[t] = job[t]
        /\ job'[s].rec = rec /\ job'[s].op = job[s].op /\ job'[s].gen = job[s].gen
    BY <2>4, <2>7 DEF Jobs
  <2>9. QED
    BY <1>1, <2>6, <2>8
<1>8. storeLog'[s] = l /\ since'[s] = since[s] \cup {l} /\ storePending'[s] = storePending[s]
  BY <1>0, <1>1 DEF StoreTypes
<1>10. job'[s].rec # <<>> /\ job'[s].rec[1] = r
  BY <1>6
<1>11. l = Append(storeLog[s], b)
  OBVIOUS
<1> HIDE DEF b, kind, r, l
<1>12. JobFits(s)'
  BY <1>4, <1>6 DEF JobFits
<1>13. InStep(s)'
  <2>1. KeepsLead(s)
    <3>1. ASSUME NEW m, Leads(m, s) PROVE Leads(m, s)'
      <4>1. m = storeLog[s]
        BY <1>1, <3>1 DEF Leads
      <4>2. Append(m, r.b) = storeLog'[s]
        BY <1>4, <1>8, <1>11, <4>1
      <4>3. QED
        BY <1>4, <1>10, <4>2 DEF Leads
    <3>2. QED
      BY <3>1 DEF KeepsLead
  <2>2. job[s].op # "down"
    BY <1>1
  <2>3. QED
    BY <1>0, <1>1, <2>1, <2>2, StillInStep
<1>14. Covered(s)'
  BY <1>0, <1>1, <1>5, <1>6, <1>8 DEF Covered, Missing
<1>15. /\ since[s] \cup {l} \in SUBSET Seq(Kept) /\ since' = [since EXCEPT ![s] = since[s] \cup {l}]
       /\ storeAcked' \in [Sessions -> BOOLEAN] /\ storePending' = [storePending EXCEPT ![s] = storePending[s]]
  BY <1>0, <1>1, <1>5 DEF StoreTypes
<1>16. storeBlocks \subseteq storeBlocks' /\ since[s] \subseteq since[s] \cup {l}
  BY <1>1
<1>17. QED
  BY <1>0, <1>1, <1>5, <1>6, <1>12, <1>13, <1>14, <1>15, <1>16, SessionStep

LEMMA ResyncStep ==
  ASSUME StoreInv, NEW s \in Sessions, NEW named \in Seq(Kept), StoreResync(s, named)
  PROVE  StoreInv'
<1>0. /\ StoreTypes /\ JobFits(s) /\ InStep(s) /\ Covered(s)
      /\ storePending[s] \in SUBSET Kept
      /\ since[s] \in SUBSET Seq(Kept) /\ storePending = [storePending EXCEPT ![s] = storePending[s]]
  BY Parts
<1> DEFINE r == [kind |-> "seed", s |-> s, ids |-> named]
           gen == Range(named) \ storeBlocks
           j == [op |-> "resync", todo |-> <<>>, gen |-> gen, rec |-> <<r>>]
<1>1. /\ job[s] = Idle /\ job' = [job EXCEPT ![s] = j]
      /\ storeLog' = [storeLog EXCEPT ![s] = named] /\ since' = [since EXCEPT ![s] = @ \cup {named}]
      /\ UNCHANGED <<storeBlocks, storePending, storeAcked, opened, wal, flushed, broken>>
  BY DEF StoreResync, LogTo
<1>2. r \in FrameRecords /\ r \in WalRecords /\ r.kind = "seed" /\ r.ids = named /\ r.s = s
  BY DEF FrameRecords, SeedRecords, WalRecords
<1>3. gen \subseteq Kept
  BY SeqRangeFinite
<1>4. j.op = "resync" /\ j.todo = <<>> /\ j.gen = gen /\ j.rec = <<r>> /\ j.rec # <<>> /\ j.rec[1] = r
  OBVIOUS
<1>5. j \in Jobs
  <2> HIDE DEF r, gen
  <2>1. <<r>> \in Seq(WalRecords) /\ <<>> \in Seq(Kept)
    BY <1>2
  <2>2. QED
    BY <1>3, <2>1 DEF Jobs, StoreOps
<1> HIDE DEF j
<1>6. job'[s] = j /\ job' \in [Sessions -> Jobs] /\ \A t \in Sessions \ {s} : job'[t] = job[t]
  BY <1>0, <1>1, <1>5 DEF StoreTypes
<1>8. storeLog'[s] = named /\ since'[s] = since[s] \cup {named} /\ storePending'[s] = storePending[s]
  BY <1>0, <1>1 DEF StoreTypes
<1> HIDE DEF r
<1>9. JobFits(s)'
  BY <1>2, <1>4, <1>6 DEF JobFits
<1>10. InStep(s)'
  <2>1. KeepsLead(s)
    BY <1>2, <1>4, <1>6, <1>8 DEF KeepsLead, Leads
  <2>2. job[s].op # "down"
    BY <1>1 DEF Idle
  <2>3. QED
    BY <1>0, <1>1, <2>1, <2>2, StillInStep
<1>11. Covered(s)'
  BY <1>0, <1>1, <1>4, <1>6, <1>8 DEF Covered, Missing
<1>12. /\ since[s] \cup {named} \in SUBSET Seq(Kept) /\ since' = [since EXCEPT ![s] = since[s] \cup {named}]
       /\ storeAcked' \in [Sessions -> BOOLEAN] /\ storePending' = [storePending EXCEPT ![s] = storePending[s]]
       /\ storeBlocks \subseteq storeBlocks' /\ since[s] \subseteq since[s] \cup {named}
  BY <1>0, <1>1 DEF StoreTypes
<1>13. QED
  BY <1>0, <1>1, <1>6, <1>9, <1>10, <1>11, <1>12, SessionStep

\* A step that only moves a session on to its reply, with pending p.
LEMMA MovesOn ==
  ASSUME StoreInv, NEW s \in Sessions, NEW op \in {"reply", "flush"}, job[s].rec = <<>>, job[s].op # "down",
         job' = [job EXCEPT ![s].op = op], NEW p \in SUBSET Kept, storePending' = [storePending EXCEPT ![s] = p],
         Range(storeLog[s]) \ storeBlocks \subseteq p, storeAcked' \in [Sessions -> BOOLEAN],
         UNCHANGED <<storeBlocks, storeLog, opened, wal, flushed, broken, since>>
  PROVE  StoreInv'
<1>0. /\ StoreTypes /\ JobFits(s) /\ InStep(s) /\ Covered(s)
      /\ job[s] \in Jobs /\ storeLog[s] \in Seq(Kept) /\ since[s] \in SUBSET Seq(Kept)
      /\ storeLog = [storeLog EXCEPT ![s] = storeLog[s]] /\ since = [since EXCEPT ![s] = since[s]]
  BY Parts
<1>1. /\ job' \in [Sessions -> Jobs] /\ \A t \in Sessions \ {s} : job'[t] = job[t]
      /\ job'[s].rec = job[s].rec /\ job'[s].op = op
  <2>1. job \in [Sessions -> Jobs]
    BY <1>0 DEF StoreTypes
  <2>2. QED
    BY <2>1 DEF Jobs, StoreOps
<1>2. storePending'[s] = p
  BY <1>0 DEF StoreTypes
<1>3. JobFits(s)'
  BY <1>1 DEF JobFits
<1>4. KeepsLead(s)
  BY <1>1 DEF KeepsLead, Leads
<1>5. InStep(s)'
  BY <1>0, <1>4, StillInStep
<1>6. Covered(s)'
  BY <1>0, <1>1, <1>2 DEF Covered, Missing
<1>7. QED
  BY <1>0, <1>1, <1>3, <1>5, <1>6, SessionStep

LEMMA SetPendingStep ==
  ASSUME StoreInv, NEW s \in Sessions, SetPending(s)
  PROVE  StoreInv'
<1>0. StoreTypes /\ Covered(s) /\ job[s] \in Jobs
  BY Parts
<1>1. /\ job[s].op = "resync" /\ job[s].rec = <<>>
      /\ storePending' = [storePending EXCEPT ![s] = job[s].gen]
      /\ storeAcked' = [storeAcked EXCEPT ![s] = job[s].gen = {}]
      /\ job' = [job EXCEPT ![s].op = IF job[s].gen = {} THEN "reply" ELSE "flush"]
      /\ UNCHANGED <<storeBlocks, storeLog, opened, wal, flushed, broken, since>>
  BY DEF SetPending
<1>2. PICK op \in {"reply", "flush"} : op = IF job[s].gen = {} THEN "reply" ELSE "flush"
  OBVIOUS
<1>3. PICK p \in SUBSET Kept : p = job[s].gen
  BY <1>0 DEF Jobs
<1>4. Range(storeLog[s]) \ storeBlocks \subseteq p
  BY <1>0, <1>1, <1>3 DEF Covered, Missing
<1>5. storeAcked' \in [Sessions -> BOOLEAN]
  BY <1>0, <1>1 DEF StoreTypes
<1>6. job' = [job EXCEPT ![s].op = op] /\ storePending' = [storePending EXCEPT ![s] = p] /\ job[s].op # "down"
  BY <1>1, <1>2, <1>3
<1>7. QED
  BY <1>1, <1>4, <1>5, <1>6, MovesOn

LEMMA BulkStep ==
  ASSUME StoreInv, NEW s \in Sessions, NEW new \in Seq(Kept), StoreBulk(s, new)
  PROVE  StoreInv'
<1>0. /\ StoreTypes /\ JobFits(s) /\ InStep(s) /\ Covered(s)
      /\ storeLog[s] \in Seq(Kept) /\ storePending[s] \in SUBSET Kept
      /\ since[s] \in SUBSET Seq(Kept) /\ storeLog = [storeLog EXCEPT ![s] = storeLog[s]]
      /\ storePending = [storePending EXCEPT ![s] = storePending[s]] /\ since = [since EXCEPT ![s] = since[s]]
  BY Parts
<1> DEFINE j == [op |-> "bulk", todo |-> new, gen |-> Range(new), rec |-> <<>>]
<1>1. job[s] = Idle /\ job' = [job EXCEPT ![s] = j] /\ UNCHANGED <<memory, opened, wal, flushed, broken, since>>
  BY DEF StoreBulk
<1>2. j \in Jobs
  <2>1. Range(new) \subseteq Kept
    BY SeqRangeFinite
  <2>2. QED
    BY <2>1 DEF Jobs, StoreOps
<1>3. job'[s] = j /\ job' \in [Sessions -> Jobs] /\ \A t \in Sessions \ {s} : job'[t] = job[t]
  BY <1>0, <1>1, <1>2 DEF StoreTypes
<1>4. JobFits(s)'
  BY <1>3 DEF JobFits
<1>5. InStep(s)'
  <2>1. KeepsLead(s)
    BY <1>1, <1>3 DEF KeepsLead, Leads, Idle, memory
  <2>2. job[s].op # "down"
    BY <1>1 DEF Idle
  <2>3. QED
    BY <1>0, <1>1, <2>1, <2>2, StillInStep
<1>6. Covered(s)'
  BY <1>0, <1>1, <1>3 DEF Covered, Missing, Idle, memory
<1>7. UNCHANGED <<storeBlocks, storeLog, storePending, storeAcked>>
  BY <1>1 DEF memory
<1> HIDE DEF j
<1>8. QED
  BY <1>0, <1>1, <1>3, <1>4, <1>5, <1>6, <1>7, SessionStep DEF StoreTypes

LEMMA ContentStep ==
  ASSUME StoreInv, NEW s \in Sessions, Content(s)
  PROVE  StoreInv'
<1>0. /\ StoreTypes /\ JobFits(s) /\ InStep(s) /\ Covered(s)
      /\ job[s] \in Jobs /\ storeLog[s] \in Seq(Kept) /\ storePending[s] \in SUBSET Kept
      /\ since[s] \in SUBSET Seq(Kept) /\ storeLog = [storeLog EXCEPT ![s] = storeLog[s]]
      /\ storePending = [storePending EXCEPT ![s] = storePending[s]] /\ since = [since EXCEPT ![s] = since[s]]
  BY Parts
<1> DEFINE b == Head(job[s].todo)
           r == [kind |-> "content", s |-> s, b |-> b]
<1>1. /\ job[s].op = "bulk" /\ job[s].todo # <<>> /\ job[s].rec = <<>>
      /\ storeBlocks' = storeBlocks \cup {b}
      /\ UNCHANGED <<storeLog, storePending, storeAcked, opened, wal, flushed, broken, since>>
  BY DEF Content
<1>a. job[s].todo \in Seq(Kept)
  BY <1>0 DEF Jobs
<1>2. /\ b \in Kept /\ Tail(job[s].todo) \in Seq(Kept)
      /\ Range(job[s].todo) = {b} \cup Range(Tail(job[s].todo))
  BY <1>1, <1>a, RangeShrinks
<1>3. r \in FrameRecords /\ r \in WalRecords /\ r.kind = "content" /\ r.b = b /\ r.s = s
  <2>1. r \in BlockRecords
    BY <1>2 DEF BlockRecords
  <2>2. QED
    BY <2>1 DEF FrameRecords, WalRecords
<1>4. job' = [job EXCEPT ![s].todo = Tail(job[s].todo), ![s].rec = IF b \in storeBlocks THEN <<>> ELSE <<r>>]
  BY DEF Content
<1> HIDE DEF r, b
<1>5. PICK todo \in Seq(Kept) : todo = Tail(job[s].todo)
  BY <1>2
<1>6. PICK rec \in Seq(WalRecords) : rec = IF b \in storeBlocks THEN <<>> ELSE <<r>>
  <2>1. <<>> \in Seq(WalRecords)
    OBVIOUS
  <2>2. <<r>> \in Seq(WalRecords)
    BY <1>3
  <2>3. QED
    BY <2>1, <2>2, Zenon
<1>7. /\ job' \in [Sessions -> Jobs] /\ \A t \in Sessions \ {s} : job'[t] = job[t]
      /\ job'[s].todo = todo /\ job'[s].rec = rec /\ job'[s].op = "bulk" /\ job'[s].gen = job[s].gen
  <2>1. job' = [job EXCEPT ![s].todo = todo, ![s].rec = rec] /\ job \in [Sessions -> Jobs]
    BY <1>0, <1>4, <1>5, <1>6 DEF StoreTypes
  <2>2. QED
    BY <1>1, <2>1 DEF Jobs
<1>8. rec = <<>> \/ (rec = <<r>> /\ rec # <<>> /\ rec[1] = r)
  BY <1>6
<1>9. JobFits(s)'
  BY <1>1, <1>3, <1>7, <1>8 DEF JobFits
<1>10. InStep(s)'
  <2>1. KeepsLead(s)
    BY <1>1, <1>3, <1>7, <1>8 DEF KeepsLead, Leads
  <2>2. job[s].op # "down"
    BY <1>1
  <2>3. QED
    BY <1>0, <1>1, <2>1, <2>2, StillInStep
<1>11. Covered(s)'
  BY <1>0, <1>1, <1>2, <1>5, <1>7 DEF Covered, Missing
<1>12. storeAcked' \in [Sessions -> BOOLEAN] /\ storeBlocks \subseteq storeBlocks'
  BY <1>0, <1>1 DEF StoreTypes
<1>13. QED
  BY <1>0, <1>1, <1>7, <1>9, <1>10, <1>11, <1>12, SessionStep

LEMMA RetireStep ==
  ASSUME StoreInv, NEW s \in Sessions, Retire(s)
  PROVE  StoreInv'
<1>0. StoreTypes /\ Covered(s) /\ storePending[s] \in SUBSET Kept /\ storeAcked[s] \in BOOLEAN
  BY Parts
<1> DEFINE done == storePending'[s] = {} /\ ~storeAcked[s]
<1>1. /\ job[s].op = "bulk" /\ job[s].todo = <<>> /\ job[s].rec = <<>>
      /\ storePending' = [storePending EXCEPT ![s] = storePending[s] \ job[s].gen]
      /\ storeAcked' = [storeAcked EXCEPT ![s] = @ \/ done]
      /\ job' = [job EXCEPT ![s].op = IF done THEN "reply" ELSE "flush"]
      /\ UNCHANGED <<storeBlocks, storeLog, opened, wal, flushed, broken, since>>
  BY DEF Retire
<1>2. PICK op \in {"reply", "flush"} : op = IF done THEN "reply" ELSE "flush"
  OBVIOUS
<1>3. PICK p \in SUBSET Kept : p = storePending[s] \ job[s].gen
  BY <1>0
<1> HIDE DEF done
<1>4. storeAcked' \in [Sessions -> BOOLEAN]
  BY <1>0, <1>1 DEF StoreTypes
<1>5. Range(storeLog[s]) \ storeBlocks \subseteq p
  <2>1. Range(job[s].todo) = {}
    BY <1>1 DEF Range
  <2>2. QED
    BY <1>0, <1>1, <1>3, <2>1 DEF Covered, Missing
<1>6. job' = [job EXCEPT ![s].op = op] /\ storePending' = [storePending EXCEPT ![s] = p] /\ job[s].op # "down"
  BY <1>1, <1>2, <1>3
<1>7. QED
  BY <1>1, <1>4, <1>5, <1>6, MovesOn

LEMMA RepliesNext ==
  ASSUME StoreInv, NEW s \in Sessions, AppendDone(s) \/ AckAgain(s)
  PROVE  StoreInv'
<1>0. /\ StoreTypes /\ Covered(s) /\ storePending[s] \in SUBSET Kept
      /\ storePending = [storePending EXCEPT ![s] = storePending[s]]
  BY Parts
<1>1. /\ job[s].op \in {"append", "none"} /\ job[s].rec = <<>> /\ job' = [job EXCEPT ![s].op = "reply"]
      /\ UNCHANGED <<storeBlocks, storeLog, storePending, storeAcked, opened, wal, flushed, broken, since>>
  BY DEF AppendDone, AckAgain, Idle, memory
<1>2. PICK p \in SUBSET Kept : p = storePending[s]
  BY <1>0
<1>3. Range(storeLog[s]) \ storeBlocks \subseteq p
  BY <1>0, <1>1, <1>2 DEF Covered, Missing
<1>4. storeAcked' \in [Sessions -> BOOLEAN] /\ storePending' = [storePending EXCEPT ![s] = p]
  BY <1>0, <1>1, <1>2 DEF StoreTypes
<1>5. PICK op \in {"reply", "flush"} : op = "reply"
  OBVIOUS
<1>6. job' = [job EXCEPT ![s].op = op] /\ job[s].op # "down"
  BY <1>1, <1>5
<1>7. QED
  BY <1>1, <1>3, <1>4, <1>6, MovesOn

\* The open record, written whole: the log has caught up with the session, and
\* has moved for no other.
LEMMA RecordWritten ==
  ASSUME StoreTypes, NEW s \in Sessions, InStep(s), job[s].op # "down", NEW r \in FrameRecords,
         job[s].rec = <<r>>, r.s = s, Lost(Len(wal)) = {}, ~Dangling(wal \o <<r>>, s)
  PROVE  Redone(opened, wal \o <<r>>).log[s] = storeLog[s]
<1>1. opened \in Replays /\ wal \in Seq(WalRecords) /\ r \in WalRecords
  BY DEF StoreTypes, WalRecords
<1>2. ~Dangling(wal, s) /\ (r.kind = "reference" => r.b \in Redone(opened, wal).blocks)
  BY <1>1, DanglingGrows
<1>3. PICK st \in Replays : st = Redone(opened, wal)
  BY <1>1, ReplayedTyped
<1>4. Redone(opened, wal \o <<r>>) = Redo(st, r)
  BY <1>1, <1>3, ReplayedNext
<1>5. Leads(st.log[s], s)
  BY <1>2, <1>3 DEF InStep
<1>6. job[s].rec # <<>> /\ job[s].rec[1] = r
  OBVIOUS
<1>7. /\ r.kind \in {"insert", "reference"} => Append(st.log[s], r.b) = storeLog[s]
      /\ r.kind = "seed" => r.ids = storeLog[s]
      /\ r.kind = "content" => st.log[s] = storeLog[s]
  BY <1>5, <1>6 DEF Leads
<1>8. r.kind \in {"insert", "reference", "seed", "content"}
  BY DEF FrameRecords, BlockRecords, SeedRecords
<1>9. /\ r.kind = "insert" => Redo(st, r).log[s] = Append(st.log[s], r.b)
      /\ r.kind = "reference" /\ r.b \in st.blocks => Redo(st, r).log[s] = Append(st.log[s], r.b)
      /\ r.kind = "seed" => Redo(st, r).log[s] = r.ids
      /\ r.kind = "content" => Redo(st, r).log[s] = st.log[s]
  BY RedoSays
<1>10. QED
  BY <1>2, <1>3, <1>4, <1>7, <1>8, <1>9

LEMMA WalAppendStep ==
  ASSUME StoreInv, NEW s \in Sessions, WalAppend(s)
  PROVE  StoreInv'
<1>0. StoreTypes /\ Latched /\ AllBack /\ \A t \in Sessions : JobFits(t) /\ InStep(t) /\ Covered(t)
  BY DEF StoreInv
<1>1. job[s].rec # <<>> /\ job' = [job EXCEPT ![s].rec = <<>>] /\ UNCHANGED <<memory, opened, flushed, since>>
  BY DEF WalAppend
<1>2. PICK r \in FrameRecords : job[s].rec = <<r>> /\ r.s = s
  BY <1>0, <1>1 DEF JobFits
<1>a. job[s].op # "down"
  BY <1>0, <1>1 DEF JobFits
<1>3. /\ job' \in [Sessions -> Jobs] /\ \A t \in Sessions \ {s} : job'[t] = job[t]
      /\ job'[s].todo = job[s].todo /\ job'[s].rec = <<>> /\ job'[s].op = job[s].op /\ job'[s].gen = job[s].gen
  <2>1. job \in [Sessions -> Jobs] /\ <<>> \in Seq(WalRecords)
    BY <1>0 DEF StoreTypes
  <2>2. PICK rec \in Seq(WalRecords) : rec = <<>>
    BY <2>1
  <2>3. job' = [job EXCEPT ![s].rec = rec]
    BY <1>1, <2>2
  <2>4. QED
    BY <2>1, <2>2, <2>3 DEF Jobs
<1>4. UNCHANGED <<storeBlocks, storeLog, storePending, storeAcked, opened, flushed, since>>
  BY <1>1 DEF memory
<1>5. ASSUME NEW t \in Sessions PROVE JobFits(t)' /\ Covered(t)'
  <2>1. JobFits(t) /\ Covered(t)
    BY <1>0
  <2>2. CASE t = s
    <3>1. JobFits(t)'
      BY <1>3, <2>2 DEF JobFits
    <3>2. Covered(t)'
      BY <1>3, <1>4, <2>1, <2>2 DEF Covered, Missing
    <3>3. QED
      BY <3>1, <3>2
  <2>3. CASE t # s
    <3>0. job'[t] = job[t]
      BY <1>3, <2>3
    <3>1. JobFits(t)'
      BY <2>1, <3>0 DEF JobFits
    <3>2. Covered(t)'
      BY <1>4, <2>1, <3>0 DEF Covered, Missing
    <3>3. QED
      BY <3>1, <3>2
  <2>4. QED
    BY <2>2, <2>3
<1>7. /\ wal \in Seq(WalRecords) /\ flushed \in 0..Len(wal) /\ Len(wal) \in Nat /\ broken \in BOOLEAN
      /\ opened \in Replays
  BY <1>0 DEF StoreTypes
<1>b. PICK L \in Nat : L = Len(wal)
  BY <1>7
<1>8. PICK x \in WalRecords : /\ wal' = wal \o <<x>>
                              /\ \/ x = r /\ broken' = broken
                                 \/ x = LostRecord /\ broken' = TRUE
  <2>1. r \in WalRecords /\ LostRecord \in WalRecords
    BY DEF WalRecords
  <2>2. QED
    BY <1>2, <2>1 DEF WalAppend
<1>9. r # LostRecord
  <2>1. r.kind # "lost" /\ LostRecord.kind = "lost"
    BY DEF FrameRecords, BlockRecords, SeedRecords, LostRecord
  <2>2. QED
    BY <2>1
<1>10. /\ wal' \in Seq(WalRecords) /\ Len(wal') = Len(wal) + 1
       /\ SubSeq(wal', 1, Len(wal) + 1) = wal' /\ SubSeq(wal, 1, Len(wal)) = wal
       /\ \A n \in 0..Len(wal) : SubSeq(wal', 1, n) = SubSeq(wal, 1, n)
       /\ wal'[Len(wal) + 1] = x /\ \A k \in 1..Len(wal) : wal'[k] = wal[k]
  <2>1. /\ wal \o <<x>> \in Seq(WalRecords) /\ Len(wal \o <<x>>) = Len(wal) + 1
        /\ SubSeq(wal \o <<x>>, 1, Len(wal) + 1) = wal \o <<x>> /\ SubSeq(wal, 1, Len(wal)) = wal
        /\ \A n \in 0..Len(wal) : SubSeq(wal \o <<x>>, 1, n) = SubSeq(wal, 1, n)
        /\ (wal \o <<x>>)[Len(wal) + 1] = x /\ \A k \in 1..Len(wal) : (wal \o <<x>>)[k] = wal[k]
    BY <1>7, LogGrows
  <2>2. QED
    BY <1>8, <2>1
<1>11. \A n \in 0..Len(wal) : Lost(n)' = Lost(n)
  <2>1. ASSUME NEW n \in 0..Len(wal) PROVE Lost(n)' = Lost(n)
    <3>1. \A k \in 1..n : k \in 1..Len(wal)
      BY <1>7
    <3>2. QED
      BY <1>10, <3>1 DEF Lost
  <2>2. QED
    BY <2>1
<1>12. Lost(L + 1)' = {} => x = r /\ Lost(Len(wal)) = {}
  <2>1. SUFFICES ASSUME Lost(L + 1)' = {} PROVE x = r /\ Lost(Len(wal)) = {}
    OBVIOUS
  <2>2. \A k \in 1..(L + 1) : wal'[k] # LostRecord
    BY <2>1 DEF Lost
  <2>3. L + 1 \in 1..(L + 1) /\ \A k \in 1..L : k \in 1..(L + 1)
    OBVIOUS
  <2>4. x # LostRecord
    BY <1>10, <1>b, <2>2, <2>3
  <2>5. \A k \in 1..Len(wal) : wal[k] # LostRecord
    BY <1>10, <1>b, <2>2, <2>3
  <2>6. QED
    BY <1>8, <2>4, <2>5 DEF Lost
<1>13. ASSUME NEW t PROVE ~Dangling(wal, t)' => ~Dangling(wal \o <<x>>, t) /\ ~Dangling(wal, t)
  <2>1. Dangling(wal, t)' <=> Dangling(wal \o <<x>>, t)
    BY <1>4, <1>8 DEF Dangling
  <2>2. QED
    BY <1>7, <2>1, DanglingGrows
<1>14. Redone(opened, wal)' = Redone(opened, wal \o <<x>>)
  BY <1>4, <1>8
<1>15. StoreTypes'
  <2>1. flushed' \in 0..Len(wal')
    <3>1. flushed' = flushed /\ Len(wal') = Len(wal) + 1
      BY <1>4, <1>10
    <3>2. QED
      BY <1>7, <3>1
  <2>a. broken' \in BOOLEAN
    BY <1>7, <1>8
  <2>2. QED
    BY <1>0, <1>3, <1>4, <1>10, <2>1, <2>a DEF StoreTypes
<1>16. Latched'
  <2>1. Lost(flushed)' = {}
    <3>1. Lost(flushed) = {} /\ flushed' = flushed /\ Lost(flushed') = Lost(flushed)
      BY <1>0, <1>4 DEF Latched
    <3>2. \A n \in 0..Len(wal) : n = flushed => Lost(n)' = {}
      BY <1>11, <3>1
    <3>3. Lost(flushed)' = {k \in 1..flushed : wal'[k] = LostRecord}
      BY <1>4 DEF Lost
    <3>4. Lost(flushed) = {k \in 1..flushed : wal[k] = LostRecord}
      BY DEF Lost
    <3>5. \A k \in 1..flushed : wal'[k] = wal[k]
      BY <1>7, <1>10
    <3>6. QED
      BY <3>1, <3>3, <3>4, <3>5
  <2>2. ASSUME ~broken' PROVE Lost(Len(wal))' = {}
    <3>1. x = r /\ ~broken
      BY <1>8, <2>2
    <3>2. Lost(Len(wal)) = {}
      BY <1>0, <3>1 DEF Latched
    <3>3. ASSUME NEW k \in 1..(Len(wal) + 1) PROVE wal'[k] # LostRecord
      <4>1. CASE k = Len(wal) + 1
        BY <1>9, <1>10, <3>1, <4>1
      <4>2. CASE k # Len(wal) + 1
        <5>1. k \in 1..Len(wal)
          BY <1>7, <4>2
        <5>2. QED
          BY <1>10, <3>2, <5>1 DEF Lost
      <4>3. QED
        BY <4>1, <4>2
    <3>4. QED
      BY <1>10, <3>3 DEF Lost
  <2>3. QED
    BY <2>1, <2>2 DEF Latched
<1>17. ASSUME NEW t \in Sessions, t # s, x = r PROVE Redone(opened, wal \o <<x>>).log[t] = Redone(opened, wal).log[t]
  <2>1. PICK st \in Replays : st = Redone(opened, wal)
    BY <1>7, ReplayedTyped
  <2>2. Redone(opened, wal \o <<x>>) = Redo(st, x)
    BY <1>7, <2>1, ReplayedNext
  <2>3. Redo(st, r).log[t] = st.log[t]
    BY <1>2, <1>17, RedoSays
  <2>4. QED
    BY <1>17, <2>1, <2>2, <2>3
<1>18. ASSUME x = r, Lost(Len(wal)) = {}, ~Dangling(wal \o <<x>>, s) PROVE Redone(opened, wal \o <<x>>).log[s] = storeLog[s]
  <2>1. ~Dangling(wal \o <<r>>, s) /\ InStep(s)
    BY <1>0, <1>18
  <2>2. Redone(opened, wal \o <<r>>).log[s] = storeLog[s]
    BY <1>0, <1>2, <1>a, <1>18, <2>1, RecordWritten
  <2>3. QED
    BY <1>18, <2>2
<1>19. ASSUME NEW t \in Sessions PROVE InStep(t)'
  <2>1. SUFFICES ASSUME job'[t].op # "down", Lost(Len(wal))' = {}, ~Dangling(wal, t)'
                 PROVE  Leads(Redone(opened, wal).log[t], t)'
    BY DEF InStep
  <2>2. Lost(L + 1)' = {}
    <3>1. Len(wal') = L + 1
      BY <1>10, <1>b
    <3>2. QED
      BY <2>1, <3>1 DEF Lost
  <2>3. x = r /\ Lost(Len(wal)) = {} /\ ~Dangling(wal \o <<x>>, t) /\ ~Dangling(wal, t)
    BY <1>12, <1>13, <2>1, <2>2
  <2>4. CASE t = s
    <3>1. Redone(opened, wal)'.log[t] = storeLog[s]
      BY <1>14, <1>18, <2>3, <2>4
    <3>2. QED
      BY <1>3, <1>4, <2>4, <3>1 DEF Leads
  <2>5. CASE t # s
    <3>1. job'[t] = job[t] /\ InStep(t)
      BY <1>0, <1>3, <2>5
    <3>2. Leads(Redone(opened, wal).log[t], t)
      BY <2>1, <2>3, <3>1 DEF InStep
    <3>3. Redone(opened, wal)'.log[t] = Redone(opened, wal).log[t]
      BY <1>14, <1>17, <2>3, <2>5
    <3>4. QED
      BY <1>4, <3>1, <3>2, <3>3 DEF Leads
  <2>6. QED
    BY <2>4, <2>5
<1>20. ASSUME NEW n \in flushed'..Len(wal'), NEW t \in Sessions PROVE Back(n, t)'
  <2>1. CASE n \in flushed..Len(wal)
    <3>1. Back(n, t) /\ n \in 0..Len(wal)
      BY <1>0, <1>7, <2>1 DEF AllBack
    <3>2. SubSeq(wal', 1, n) = SubSeq(wal, 1, n) /\ Lost(n)' = Lost(n)
      BY <1>10, <1>11, <3>1
    <3>3. Dangling(SubSeq(wal, 1, n), t)' <=> Dangling(SubSeq(wal, 1, n), t)
      BY <1>4, <3>2 DEF Dangling
    <3>4. QED
      BY <1>4, <3>1, <3>2, <3>3 DEF Back
  <2>2. CASE n \notin flushed..Len(wal)
    <3>1. n = Len(wal) + 1 /\ n = L + 1
      BY <1>4, <1>7, <1>10, <1>b, <2>2
    <3>2. SUFFICES ASSUME Lost(n)' = {}, ~Dangling(SubSeq(wal, 1, n), t)'
                   PROVE  Redone(opened, SubSeq(wal, 1, n))'.log[t] \in since'[t]
      BY DEF Back
    <3>3. SubSeq(wal', 1, n) = wal'
      BY <1>10, <3>1
    <3>4. Dangling(SubSeq(wal, 1, n), t)' <=> Dangling(wal, t)'
      BY <3>3 DEF Dangling
    <3>5. Redone(opened, SubSeq(wal, 1, n))' = Redone(opened, wal \o <<x>>)
      BY <1>4, <1>8, <3>3
    <3>6. x = r /\ Lost(Len(wal)) = {} /\ ~Dangling(wal \o <<x>>, t) /\ ~Dangling(wal, t)
      BY <1>12, <1>13, <3>1, <3>2, <3>4
    <3>7. CASE t = s
      <4>1. storeLog[s] \in since[s]
        BY <1>0 DEF Covered
      <4>2. QED
        BY <1>4, <1>18, <3>5, <3>6, <3>7, <4>1
    <3>8. CASE t # s
      <4>1. Len(wal) \in flushed..Len(wal)
        BY <1>7
      <4>2. Back(Len(wal), t)
        BY <1>0, <4>1 DEF AllBack
      <4>3. Redone(opened, wal).log[t] \in since[t]
        BY <1>10, <3>6, <4>2 DEF Back
      <4>4. QED
        BY <1>4, <1>17, <3>5, <3>6, <3>8, <4>3
    <3>9. QED
      BY <3>7, <3>8
  <2>3. QED
    BY <2>1, <2>2
<1>21. QED
  BY <1>5, <1>15, <1>16, <1>19, <1>20 DEF StoreInv, AllBack

LEMMA ReplyStep ==
  ASSUME StoreInv, NEW s \in Sessions, Reply(s)
  PROVE  StoreInv'
<1>0. StoreTypes /\ Latched /\ AllBack /\ \A t \in Sessions : JobFits(t) /\ InStep(t) /\ Covered(t)
  BY DEF StoreInv
<1>1. /\ job[s].op \in {"reply", "flush"} /\ job' = [job EXCEPT ![s] = Idle]
      /\ \/ ~broken /\ broken' = broken /\ flushed' = Len(wal)
         \/ broken' = TRUE /\ flushed' = flushed /\ since' = since
      /\ since' = since \/ (~broken /\ flushed' = Len(wal) /\ since' = [since EXCEPT ![s] = {storeLog[s]}])
      /\ UNCHANGED <<storeBlocks, storeLog, storePending, storeAcked, opened, wal>>
  BY DEF Reply, memory
<1>2. job[s].rec = <<>>
  BY <1>0, <1>1 DEF JobFits
<1>3. Idle \in Jobs /\ Idle.rec = <<>> /\ Idle.op = "none"
  BY DEF Idle, Jobs, StoreOps
<1>4. job'[s] = Idle /\ job' \in [Sessions -> Jobs] /\ \A t \in Sessions \ {s} : job'[t] = job[t]
  BY <1>0, <1>1, <1>3 DEF StoreTypes
<1>5. wal \in Seq(WalRecords) /\ flushed \in 0..Len(wal) /\ Len(wal) \in Nat /\ broken \in BOOLEAN
  BY <1>0 DEF StoreTypes
<1>6. since' \in [Sessions -> SUBSET Seq(Kept)] /\ storeLog[s] \in since'[s] /\ \A t \in Sessions \ {s} : since'[t] = since[t]
  <2>1. storeLog[s] \in since[s] /\ storeLog[s] \in Seq(Kept) /\ since \in [Sessions -> SUBSET Seq(Kept)]
    BY <1>0 DEF Covered, StoreTypes
  <2>2. QED
    BY <1>1, <2>1
<1>7. StoreTypes'
  <2>1. flushed' \in {flushed, Len(wal)} /\ wal' = wal
    BY <1>1
  <2>2. flushed' \in 0..Len(wal')
    BY <1>5, <2>1
  <2>3. broken' \in BOOLEAN
    BY <1>1, <1>5
  <2>4. QED
    BY <1>0, <1>1, <1>4, <1>6, <2>2, <2>3 DEF StoreTypes
<1>8. Latched'
  BY <1>0, <1>1 DEF Latched, Lost
<1>9. ASSUME NEW t \in Sessions PROVE JobFits(t)' /\ InStep(t)' /\ Covered(t)'
  <2>1. JobFits(t) /\ InStep(t) /\ Covered(t)
    BY <1>0
  <2>2. CASE t = s
    <3>1. JobFits(t)'
      BY <1>3, <1>4, <2>2 DEF JobFits
    <3>2. InStep(t)'
      <4>1. KeepsLead(t) /\ job[t].op # "down"
        BY <1>1, <1>2, <1>3, <1>4, <2>2 DEF KeepsLead, Leads
      <4>2. QED
        BY <1>1, <2>1, <4>1, StillInStep
    <3>3. Covered(t)'
      BY <1>1, <1>3, <1>4, <1>6, <2>1, <2>2 DEF Covered, Missing
    <3>4. QED
      BY <3>1, <3>2, <3>3
  <2>3. CASE t # s
    <3>0. job'[t] = job[t] /\ since'[t] = since[t]
      BY <1>4, <1>6, <2>3
    <3>1. JobFits(t)'
      BY <2>1, <3>0 DEF JobFits
    <3>2. InStep(t)'
      BY <1>1, <2>1, <3>0 DEF InStep, Leads, Lost, Dangling
    <3>3. Covered(t)'
      BY <1>1, <2>1, <3>0 DEF Covered, Missing
    <3>4. QED
      BY <3>1, <3>2, <3>3
  <2>4. QED
    BY <2>2, <2>3
<1>10. ASSUME NEW n \in flushed'..Len(wal'), NEW t \in Sessions PROVE Back(n, t)'
  <2>1. n \in flushed..Len(wal)
    BY <1>1, <1>5
  <2>2. Back(n, t)
    BY <1>0, <2>1 DEF AllBack
  <2>3. CASE since'[t] = since[t]
    BY <1>1, <2>2, <2>3 DEF Back, Lost, Dangling
  <2>4. CASE since'[t] # since[t]
    <3>1. t = s /\ ~broken /\ flushed' = Len(wal)
      BY <1>1, <1>6, <2>4
    <3>2. n = Len(wal) /\ SubSeq(wal', 1, n) = wal
      BY <1>1, <1>5, <3>1
    <3>3. SUFFICES ASSUME ~Dangling(SubSeq(wal, 1, n), t)' PROVE Redone(opened, SubSeq(wal, 1, n))'.log[t] \in since'[t]
      BY DEF Back
    <3>4. ~Dangling(wal, s)
      BY <1>1, <3>1, <3>2, <3>3 DEF Dangling
    <3>5. Leads(Redone(opened, wal).log[s], s)
      BY <1>0, <1>1, <3>1, <3>4 DEF InStep, Latched
    <3>6. Redone(opened, wal).log[s] = storeLog[s]
      BY <1>2, <3>5 DEF Leads
    <3>7. QED
      BY <1>1, <1>6, <3>1, <3>2, <3>6
  <2>5. QED
    BY <2>3, <2>4
<1>11. QED
  BY <1>7, <1>8, <1>9, <1>10 DEF StoreInv, AllBack

LEMMA CrashStep ==
  ASSUME StoreInv, NEW n \in flushed..Len(wal), NEW gone, NEW as \in [Lost(n) -> Misreadings], Crash(n, gone, as)
  PROVE  StoreInv'
<1>0. StoreTypes
  BY DEF StoreInv
<1>1. /\ wal' = <<>> /\ flushed' = 0 /\ broken' = FALSE /\ opened' = Redone(opened, Read(n, gone, as))
      /\ storeBlocks' = opened'.blocks /\ storeLog' = opened'.log
      /\ storePending' = [s \in Sessions |-> Range(opened'.log[s]) \ opened'.blocks]
      /\ storeAcked' = [s \in Sessions |-> Range(opened'.log[s]) \subseteq opened'.blocks]
      /\ since' = [s \in Sessions |-> since[s] \cup {opened'.log[s]}]
      /\ job' = [s \in Sessions |-> Idle]
  BY DEF Crash
<1>2. wal \in Seq(WalRecords) /\ Len(wal) \in Nat /\ flushed \in 0..Len(wal) /\ n \in 0..Len(wal) /\ opened \in Replays
  BY <1>0 DEF StoreTypes
<1>3. Misreadings \subseteq WalRecords
  <2>1. Junk \in Kept /\ <<Junk>> \in Seq(Kept)
    <3>1. Junk \in Kept
      BY DEF Kept
    <3>2. QED
      BY <3>1
  <2>2. [kind : {"insert"}, s : Sessions, b : {Junk}] \subseteq BlockRecords
    BY <2>1 DEF BlockRecords
  <2>3. [kind : {"seed"}, s : Sessions, ids : {<<Junk>>}] \subseteq SeedRecords
    BY <2>1 DEF SeedRecords
  <2>4. QED
    BY <2>2, <2>3 DEF Misreadings, WalRecords, FrameRecords
<1>4. Read(n, gone, as) \in Seq(WalRecords)
  <2>1. ASSUME NEW k \in 1..n
        PROVE  (CASE k \in gone -> Nothing [] k \in Lost(n) -> as[k] [] OTHER -> wal[k]) \in WalRecords
    <3>1. Nothing \in WalRecords
      BY DEF WalRecords
    <3>2. k \in Lost(n) => as[k] \in WalRecords
      BY <1>3
    <3>3. wal[k] \in WalRecords
      <4>1. k \in 1..Len(wal)
        BY <1>2
      <4>2. QED
        BY <1>2, <4>1, ElementOfSeq
    <3>4. CASE k \in gone /\ k \in Lost(n)
      BY <3>1, <3>2, <3>4
    <3>5. CASE k \in gone /\ k \notin Lost(n)
      BY <3>1, <3>5
    <3>6. CASE k \notin gone
      BY <3>2, <3>3, <3>6
    <3>7. QED
      BY <3>4, <3>5, <3>6
  <2>2. n \in Nat
    BY <1>2
  <2>4. Read(n, gone, as) \in [1..n -> WalRecords]
    BY <2>1, Zenon DEF Read
  <2>5. QED
    BY <2>2, <2>4, SeqDef
<1>5. opened' \in Replays
  BY <1>1, <1>2, <1>4, ReplayedTyped
<1>6. opened'.log \in [Sessions -> Seq(Kept)]
  BY <1>5 DEF Replays
<1>7. ASSUME NEW s \in Sessions PROVE Range(opened'.log[s]) \subseteq Kept
  BY <1>6, SeqRangeFinite
<1>8. StoreTypes'
  <2>1. storePending' \in [Sessions -> SUBSET Kept]
    BY <1>1, <1>7
  <2>2. since' \in [Sessions -> SUBSET Seq(Kept)]
    BY <1>0, <1>1, <1>6 DEF StoreTypes
  <2>3. Idle \in Jobs
    BY DEF Idle, Jobs, StoreOps
  <2>4. job' \in [Sessions -> Jobs] /\ storeAcked' \in [Sessions -> BOOLEAN]
    BY <1>1, <2>3
  <2>5. flushed' \in 0..Len(wal') /\ wal' \in Seq(WalRecords)
    BY <1>1
  <2>6. broken' \in BOOLEAN /\ storeLog' \in [Sessions -> Seq(Kept)]
    BY <1>1, <1>6
  <2>7. QED
    BY <1>5, <2>1, <2>2, <2>4, <2>5, <2>6 DEF StoreTypes
<1>9. ASSUME NEW s \in Sessions PROVE JobFits(s)' /\ InStep(s)' /\ Covered(s)' /\ \A m \in flushed'..Len(wal') : Back(m, s)'
  <2>1. job'[s] = Idle /\ storeLog'[s] = opened'.log[s] /\ storeLog'[s] \in since'[s]
    BY <1>1
  <2>2. Range(storeLog'[s]) \ storeBlocks' \subseteq storePending'[s]
    BY <1>1
  <2>3. wal' = <<>> /\ flushed' = 0
    BY <1>1
  <2>4. QED
    BY <1>5, <2>1, <2>2, <2>3, AtRestNext
<1>10. Latched'
  BY <1>1 DEF Latched, Lost
<1>11. QED
  BY <1>8, <1>9, <1>10 DEF StoreInv, AllBack

LEMMA RefusedStep ==
  ASSUME StoreInv, NEW n, Refused(n) PROVE StoreInv'
<1>0. StoreTypes /\ Latched /\ AllBack /\ \A t \in Sessions : JobFits(t) /\ InStep(t) /\ Covered(t)
  BY DEF StoreInv
<1>1. /\ job' = [s \in Sessions |-> Down]
      /\ UNCHANGED <<storeBlocks, storeLog, storePending, storeAcked, opened, wal, flushed, broken, since>>
  BY DEF Refused, memory
<1>2. Down \in Jobs /\ Down.rec = <<>> /\ Down.op = "down"
  BY DEF Down, Jobs, StoreOps
<1>3. StoreTypes' /\ Latched'
  BY <1>0, <1>1, <1>2 DEF StoreTypes, Latched, Lost
<1>4. AllBack'
  BY <1>0, <1>1 DEF AllBack, Back, Lost, Dangling
<1>5. ASSUME NEW s \in Sessions PROVE JobFits(s)' /\ InStep(s)' /\ Covered(s)'
  <2>1. job'[s] = Down
    BY <1>1
  <2>2. JobFits(s)' /\ InStep(s)'
    BY <1>2, <2>1 DEF JobFits, InStep
  <2>3. Covered(s)'
    BY <1>0, <1>1, <1>2, <2>1 DEF Covered
  <2>4. QED
    BY <2>2, <2>3
<1>6. QED
  BY <1>3, <1>4, <1>5 DEF StoreInv

LEMMA StoreSteps == ASSUME StoreInv, [StoreNext]_storeVars PROVE StoreInv'
<1>1. CASE UNCHANGED storeVars
  <2>1. UNCHANGED <<storeBlocks, storeLog, storePending, storeAcked, opened, wal, flushed, broken, job, since>>
    BY <1>1 DEF storeVars, memory
  <2>2. StoreTypes' /\ Latched'
    BY <2>1 DEF StoreInv, StoreTypes, Latched, Lost
  <2>3. AllBack'
    BY <2>1 DEF StoreInv, AllBack, Back, Lost, Dangling
  <2>4. ASSUME NEW s \in Sessions PROVE JobFits(s)' /\ InStep(s)' /\ Covered(s)'
    <3>1. JobFits(s) /\ InStep(s) /\ Covered(s)
      BY DEF StoreInv
    <3>2. JobFits(s)' /\ Covered(s)'
      BY <2>1, <3>1 DEF JobFits, Covered, Missing
    <3>3. InStep(s)'
      BY <2>1, <3>1 DEF InStep, Leads, Lost, Dangling
    <3>4. QED
      BY <3>2, <3>3
  <2>5. QED
    BY <2>2, <2>3, <2>4 DEF StoreInv
<1>2. CASE StoreNext
  <2>1. ASSUME NEW s \in Sessions, NEW new \in Batches[s],
               Accept(s, new) \/ StoreResync(s, new) \/ StoreBulk(s, new)
        PROVE  StoreInv'
    <3>1. new \in Seq(BlockIds)
      BY DlrStoreAssumption
    <3>2. new \in Seq(Kept)
      <4>1. Len(new) \in Nat /\ new \in [1..Len(new) -> BlockIds]
        BY <3>1, LenProperties
      <4>2. new \in [1..Len(new) -> Kept]
        BY <4>1 DEF Kept
      <4>3. QED
        BY <4>1, <4>2, SeqDef
    <3>3. QED
      BY <2>1, <3>2, AcceptStep, ResyncStep, BulkStep
  <2>2. ASSUME NEW s \in Sessions,
               \/ AckAgain(s) \/ Insert(s) \/ SetPending(s) \/ Content(s) \/ Retire(s)
               \/ WalAppend(s) \/ AppendDone(s) \/ Reply(s)
        PROVE  StoreInv'
    BY <2>2, InsertStep, SetPendingStep, ContentStep, RetireStep, WalAppendStep, RepliesNext, ReplyStep
  <2>3. ASSUME NEW n \in flushed..Len(wal), NEW gone, NEW as \in [Lost(n) -> Misreadings], Crash(n, gone, as)
        PROVE  StoreInv'
    BY <2>3, CrashStep
  <2>4. ASSUME NEW n, Refused(n) PROVE StoreInv'
    BY <2>4, RefusedStep
  <2>5. QED
    BY <1>2, <2>1, <2>2, <2>3, <2>4 DEF StoreNext
<1>3. QED
  BY <1>1, <1>2

\* Whatever frames of however many sessions have stored, logged and acknowledged,
\* whatever blocks they share, wherever a write fails and the process dies: what
\* was acknowledged is on disk and whole, a session none of whose references
\* overtook its block comes back with a log it had since its last ACK, and a
\* session that is not cold-starting has all its blocks.
THEOREM AckedLogsSurvive == StoreSpec => []StoreSound
<1>1. ASSUME StoreInv PROVE StoreSound
  <2>1. AckDurable
    BY <1>1 DEF StoreInv, Latched, AllBack, Back, AckDurable, WalReplay
  <2>2. LogComplete
    <3>1. ASSUME NEW s \in Sessions, job[s] = Idle, storePending[s] = {} PROVE Range(storeLog[s]) \subseteq storeBlocks
      <4>1. Covered(s) /\ Idle.op = "none"
        BY <1>1 DEF StoreInv, Idle
      <4>2. QED
        BY <3>1, <4>1 DEF Covered, Missing
    <3>2. QED
      BY <3>1 DEF LogComplete
  <2>3. QED
    BY <2>1, <2>2 DEF StoreSound
<1>2. StoreInit => StoreInv
  BY StoreStart
<1>3. StoreInv /\ [StoreNext]_storeVars => StoreInv'
  BY StoreSteps
<1>4. StoreInv => StoreSound
  BY <1>1
<1>5. QED
  BY <1>2, <1>3, <1>4, PTL DEF StoreSpec
=============================================================================
