-------------------------- MODULE EventQueueProofs --------------------------
(***************************************************************************)
(* Safety of the event queue for every cap, chunk length and number of     *)
(* producers, and for any number of sends: what the host reads is what was *)
(* sent, in order, less presentation events whose number it is told.       *)
(***************************************************************************)
EXTENDS EventQueue, FiniteSetTheorems, FunctionTheorems, SequenceTheorems, WellFoundedInduction, TLAPS

-----------------------------------------------------------------------------
(* The inductive invariant, in terms of the stream: what the host has read *)
(* and what is still in the queue.                                         *)

EventType == [kind : Kinds \cup {"overflow"}, ids : Seq(Nat), count : Nat]

\* The ids of a stream ascend, within an event and from one event to the next.
Ascending(s) ==
  \A i, j \in DOMAIN s :
    /\ \A a, b \in DOMAIN s[i].ids : a < b => s[i].ids[a] < s[i].ids[b]
    /\ i < j => \A x \in Range(s[i].ids), y \in Range(s[j].ids) : x < y

\* Its ids are those of sends that were made, and only notices count.
Numbered(s, n) ==
  \A i \in DOMAIN s :
    /\ Range(s[i].ids) \subseteq 1..n
    /\ s[i].kind # "overflow" => s[i].count = 0

\* It still has every structural event among the sends q.
Keeps(s, q) ==
  \A n \in DOMAIN q : q[n] \in {"ask", "idle"} =>
    \E i \in DOMAIN s : s[i].kind = q[n] /\ n \in Range(s[i].ids)

Types ==
  /\ events \in Seq(EventType) /\ got \in Seq(EventType) /\ sent \in Seq(Kinds)
  /\ compactable \in Nat /\ dropped \in Nat /\ lost \in Nat

Presented(s) == {i \in DOMAIN s : is_compactable(s[i])}

Counted == compactable = Cardinality(Presented(events)) /\ compactable <= EVENT_QUEUE_CAP

IInv ==
  /\ Types /\ Numbered(Stream, Len(sent)) /\ Ascending(Stream)
  /\ receiver_open => Keeps(Stream, sent)
  /\ Counted /\ LossAnnounced

-----------------------------------------------------------------------------
(* Numbers and sums.                                                       *)

LEMMA Least ==
  ASSUME NEW S, S \subseteq Nat, S # {}
  PROVE  \E x \in S : \A y \in S : x <= y
<1> DEFINE Less == {ss \in Nat \X Nat : ss[1] < ss[2]}
<1>1. IsWellFoundedOn(Less, Nat)
  BY NatLessThanWellFounded, Zenon DEF OpToRel
<1> HIDE DEF Less
<1>2. PICK x \in S : \A y \in S : ~(<<y, x>> \in Less)
  BY <1>1, WFMin
<1>3. ASSUME NEW y \in S PROVE x <= y
  <2>1. <<y, x>> \in Nat \X Nat
    OBVIOUS
  <2>2. <<y, x>> \notin Less
    BY <1>2
  <2>3. QED
    BY <2>1, <2>2 DEF Less
<1>4. QED
  BY <1>3

LEMMA EventFields ==
  ASSUME NEW s \in Seq(EventType)
  PROVE  /\ Len(s) \in Nat /\ DOMAIN s = 1..Len(s)
         /\ \A n \in 1..Len(s) : /\ s[n] \in EventType /\ s[n].count \in Nat /\ s[n].ids \in Seq(Nat)
                                 /\ s[n].kind \in Kinds \cup {"overflow"}
<1>1. Len(s) \in Nat /\ DOMAIN s = 1..Len(s) /\ \A n \in 1..Len(s) : s[n] \in EventType
  BY ElementOfSeq, LenProperties
<1>2. \A e \in EventType : e.count \in Nat /\ e.ids \in Seq(Nat) /\ e.kind \in Kinds \cup {"overflow"}
  BY Zenon DEF EventType
<1>3. QED
  BY <1>1, <1>2

\* f sums up the counts of s.
Sums(f, s) ==
  /\ f \in [0..Len(s) -> Nat] /\ f[0] = 0
  /\ \A n \in 1..Len(s) : f[n] = f[n - 1] + s[n].count

LEMMA SumsExist ==
  ASSUME NEW s \in Seq(EventType)
  PROVE  \E f : Sums(f, s)
<1> DEFINE Upto(f, m) == f \in [0..m -> Nat] /\ f[0] = 0 /\ \A n \in 1..m : f[n] = f[n - 1] + s[n].count
           Bad == {m \in 0..Len(s) : ~\E f : Upto(f, m)}
<1>0. Len(s) \in Nat /\ \A n \in 1..Len(s) : s[n].count \in Nat
  BY EventFields
<1>1. SUFFICES Bad = {}
  <2>1. Len(s) \in 0..Len(s)
    BY <1>0
  <2>2. PICK f : Upto(f, Len(s))
    BY <1>1, <2>1
  <2>3. Sums(f, s)
    BY <2>2 DEF Sums
  <2>4. QED
    BY <2>3
<1>2. SUFFICES ASSUME Bad # {} PROVE FALSE
  OBVIOUS
<1>3. PICK m \in Bad : \A y \in Bad : m <= y
  <2>1. Bad \subseteq Nat
    BY <1>0
  <2>2. QED
    BY <1>2, <2>1, Least, Zenon
<1>4. m # 0
  <2>1. Upto([n \in 0..0 |-> 0], 0)
    OBVIOUS
  <2>2. QED
    BY <2>1
<1>5. m \in 1..Len(s) /\ m - 1 \in 0..Len(s) /\ m - 1 \notin Bad
  <2>1. m \in 0..Len(s)
    OBVIOUS
  <2> HIDE DEF Bad
  <2>2. m \in 1..Len(s) /\ m - 1 \in 0..Len(s) /\ ~(m <= m - 1)
    BY <1>0, <1>4, <2>1
  <2>3. QED
    BY <1>3, <2>2
<1>6. PICK f : Upto(f, m - 1)
  BY <1>5
<1> DEFINE g == [n \in 0..m |-> IF n = m THEN f[m - 1] + s[m].count ELSE f[n]]
<1>7. Upto(g, m)
  <2>1. \A n \in 0..(m - 1) : f[n] \in Nat /\ g[n] = f[n]
    BY <1>5, <1>6
  <2>2. g[m] = f[m - 1] + s[m].count /\ f[m - 1] \in Nat
    BY <1>5, <1>6
  <2>3. g \in [0..m -> Nat]
    <3>1. \A n \in 0..m : g[n] \in Nat
      <4>1. f[m - 1] + s[m].count \in Nat
        BY <1>0, <1>5, <2>2
      <4>2. \A n \in 0..m : n = m \/ n \in 0..(m - 1)
        BY <1>5
      <4>3. QED
        BY <2>1, <2>2, <4>1, <4>2
    <3>2. QED
      BY <3>1
  <2>4. ASSUME NEW n \in 1..m PROVE g[n] = g[n - 1] + s[n].count
    <3>1. CASE n = m
      BY <1>5, <2>1, <2>2, <3>1
    <3>2. CASE n # m
      BY <1>5, <1>6, <2>1, <3>2
    <3>3. QED
      BY <3>1, <3>2
  <2>5. g[0] = 0
    BY <1>5, <1>6, <2>1
  <2>6. QED
    BY <2>3, <2>4, <2>5
<1>8. QED
  BY <1>3, <1>7

LEMMA SumsUnique ==
  ASSUME NEW s \in Seq(EventType), NEW f, NEW g, Sums(f, s), Sums(g, s)
  PROVE  f = g
<1> DEFINE Bad == {m \in 0..Len(s) : f[m] # g[m]}
<1>0. Len(s) \in Nat
  OBVIOUS
<1>1. SUFFICES Bad = {}
  BY <1>1 DEF Sums
<1>2. SUFFICES ASSUME Bad # {} PROVE FALSE
  OBVIOUS
<1>3. PICK m \in Bad : \A y \in Bad : m <= y
  <2>1. Bad \subseteq Nat
    BY <1>0
  <2>2. QED
    BY <1>2, <2>1, Least, Zenon
<1>4. m # 0
  BY DEF Sums
<1>5. m \in 1..Len(s) /\ m - 1 \in 0..Len(s) /\ m - 1 \notin Bad
  BY <1>0, <1>3, <1>4
<1>6. f[m - 1] = g[m - 1]
  BY <1>5
<1>7. QED
  BY <1>5, <1>6 DEF Sums

LEMMA AnnouncedIs ==
  ASSUME NEW s \in Seq(EventType), NEW f, Sums(f, s)
  PROVE  Announced(s) = f[Len(s)]
<1> DEFINE Rec(h) == h = [n \in 0..Len(s) |-> IF n = 0 THEN 0 ELSE h[n - 1] + s[n].count]
<1>0. Len(s) \in Nat /\ \A n \in 1..Len(s) : s[n].count \in Nat
  BY EventFields
<1>1. Rec(f)
  BY <1>0 DEF Sums
<1>2. ASSUME NEW h, Rec(h) PROVE h = f
  <2> DEFINE Bad == {m \in 0..Len(s) : f[m] # h[m]}
  <2>1. DOMAIN h = 0..Len(s) /\ h = [n \in 0..Len(s) |-> h[n]]
    BY <1>2
  <2>2. f = [n \in 0..Len(s) |-> f[n]]
    BY DEF Sums
  <2>3. SUFFICES Bad = {}
    BY <2>1, <2>2, <2>3
  <2>4. SUFFICES ASSUME Bad # {} PROVE FALSE
    OBVIOUS
  <2>5. PICK m \in Bad : \A y \in Bad : m <= y
    <3>1. Bad \subseteq Nat
      BY <1>0
    <3>2. QED
      BY <2>4, <3>1, Least, Zenon
  <2>6. \A n \in 0..Len(s) : h[n] = IF n = 0 THEN 0 ELSE h[n - 1] + s[n].count
    BY <1>2
  <2>7. m # 0
    BY <1>0, <2>6 DEF Sums
  <2>8. m \in 1..Len(s) /\ m - 1 \in 0..Len(s) /\ m - 1 \notin Bad
    BY <1>0, <2>5, <2>7
  <2>9. f[m - 1] = h[m - 1]
    BY <2>8
  <2>10. QED
    BY <2>6, <2>8, <2>9 DEF Sums
<1>3. (CHOOSE h : Rec(h)) = f
  BY <1>1, <1>2
<1>4. Announced(s) = (CHOOSE h : Rec(h))[Len(s)]
  BY DEF Announced
<1>5. QED
  BY <1>3, <1>4

LEMMA AnnouncedAppend ==
  ASSUME NEW s \in Seq(EventType), NEW e \in EventType
  PROVE  /\ Announced(s) \in Nat
         /\ Announced(Append(s, e)) = Announced(s) + e.count
<1>0. Len(s) \in Nat /\ \A n \in 1..Len(s) : s[n].count \in Nat
  BY EventFields
<1>1. PICK f : Sums(f, s)
  BY SumsExist
<1>2. f[Len(s)] \in Nat /\ e.count \in Nat /\ Announced(s) = f[Len(s)]
  <2>1. e.count \in Nat
    BY Zenon DEF EventType
  <2>2. QED
    BY <1>0, <1>1, <2>1, AnnouncedIs DEF Sums
<1> DEFINE t == Append(s, e)
           g == [n \in 0..(Len(s) + 1) |-> IF n = Len(s) + 1 THEN f[Len(s)] + e.count ELSE f[n]]
<1>3. /\ t \in Seq(EventType) /\ Len(t) = Len(s) + 1 /\ t[Len(s) + 1] = e
      /\ \A n \in 1..Len(s) : t[n] = s[n]
  BY AppendProperties
<1> HIDE DEF t
<1>4. \A n \in 0..Len(s) : f[n] \in Nat /\ g[n] = f[n]
  BY <1>0, <1>1, SMTT(60) DEF Sums
<1>5. g[Len(s) + 1] = f[Len(s)] + e.count /\ DOMAIN g = 0..Len(t) /\ g = [n \in DOMAIN g |-> g[n]]
  BY <1>0, <1>3
<1> HIDE DEF g
<1>6. \A n \in 0..Len(t) : g[n] \in Nat
  <2>1. \A n \in 0..Len(t) : n = Len(s) + 1 \/ n \in 0..Len(s)
    BY <1>0, <1>3
  <2>2. f[Len(s)] + e.count \in Nat
    BY <1>2
  <2>3. QED
    BY <1>4, <1>5, <2>1, <2>2
<1>7. ASSUME NEW n \in 1..Len(t) PROVE g[n] = g[n - 1] + t[n].count
  <2>1. CASE n = Len(s) + 1
    <3>1. n - 1 = Len(s) /\ n - 1 \in 0..Len(s)
      BY <1>0, <2>1
    <3>2. QED
      BY <1>3, <1>4, <1>5, <2>1, <3>1
  <2>2. CASE n # Len(s) + 1
    <3>1. n \in 1..Len(s) /\ n - 1 \in 0..Len(s) /\ n \in 0..Len(s)
      BY <1>0, <1>3, <2>2
    <3>2. f[n] = f[n - 1] + s[n].count
      BY <1>1, <3>1 DEF Sums
    <3>3. QED
      BY <1>3, <1>4, <3>1, <3>2
  <2>3. QED
    BY <2>1, <2>2
<1>8. g[0] = 0
  BY <1>0, <1>1, <1>4 DEF Sums
<1>9. Sums(g, t)
  BY <1>5, <1>6, <1>7, <1>8 DEF Sums
<1>10. Announced(t) = f[Len(s)] + e.count
  BY <1>3, <1>5, <1>9, AnnouncedIs
<1>11. QED
  BY <1>2, <1>10 DEF t

\* t is s without its k-th event.
Without(s, k, t) ==
  /\ t \in Seq(EventType) /\ k \in 1..Len(s) /\ Len(t) = Len(s) - 1
  /\ \A n \in 1..Len(t) : t[n] = IF n < k THEN s[n] ELSE s[n + 1]

LEMMA AnnouncedWithout ==
  ASSUME NEW s \in Seq(EventType), NEW t, NEW k, Without(s, k, t), s[k].count = 0
  PROVE  Announced(t) = Announced(s)
<1>0. /\ Len(s) \in Nat /\ Len(t) \in Nat /\ Len(t) = Len(s) - 1 /\ k \in 1..Len(s)
      /\ t \in Seq(EventType)
  BY DEF Without
<1>1. PICK f : Sums(f, s)
  BY SumsExist
<1> DEFINE g == [n \in 0..Len(t) |-> IF n < k THEN f[n] ELSE f[n + 1]]
<1>2. /\ \A n \in 0..Len(t) : g[n] = (IF n < k THEN f[n] ELSE f[n + 1]) /\ g[n] \in Nat
      /\ DOMAIN g = 0..Len(t) /\ g = [n \in DOMAIN g |-> g[n]]
  <2>1. \A n \in 0..Len(s) : f[n] \in Nat
    BY <1>1 DEF Sums
  <2>2. QED
    BY <1>0, <2>1
<1> HIDE DEF g
<1>3. \A n \in 1..Len(s) : f[n] = f[n - 1] + s[n].count
  BY <1>1 DEF Sums
<1>4. f[k] = f[k - 1]
  <2>1. k - 1 \in 0..Len(s)
    BY <1>0
  <2>2. f[k - 1] \in Nat
    BY <1>1, <2>1 DEF Sums
  <2>3. QED
    BY <1>0, <1>3, <2>2
<1>5. ASSUME NEW n \in 1..Len(t) PROVE g[n] = g[n - 1] + t[n].count
  <2>0. n \in 0..Len(t) /\ n - 1 \in 0..Len(t) /\ n \in 1..Len(s) /\ n + 1 \in 1..Len(s) /\ (n + 1) - 1 = n
    BY <1>0
  <2>1. CASE n < k
    BY <1>2, <1>3, <2>0, <2>1, <1>0, SMTT(60) DEF Without
  <2>2. CASE n = k
    <3>1. g[n] = f[n + 1] /\ g[n - 1] = f[n - 1] /\ t[n] = s[n + 1]
      BY <1>0, <1>2, <2>0, <2>2 DEF Without
    <3>2. f[n + 1] = f[n] + s[n + 1].count
      BY <1>3, <2>0
    <3>3. QED
      BY <1>4, <2>2, <3>1, <3>2
  <2>3. CASE n > k
    <3>1. g[n] = f[n + 1] /\ g[n - 1] = f[n] /\ t[n] = s[n + 1]
      BY <1>0, <1>2, <2>0, <2>3, SMTT(60) DEF Without
    <3>2. f[n + 1] = f[n] + s[n + 1].count
      BY <1>3, <2>0
    <3>3. QED
      BY <3>1, <3>2
  <2>4. QED
    BY <1>0, <2>1, <2>2, <2>3
<1>6. g[0] = 0
  <2>1. 0 \in 0..Len(t) /\ 0 < k
    BY <1>0
  <2>2. g[0] = f[0]
    BY <1>2, <2>1
  <2>3. QED
    BY <1>1, <2>2 DEF Sums
<1>7. Sums(g, t)
  BY <1>2, <1>5, <1>6 DEF Sums
<1>8. g[Len(t)] = f[Len(s)]
  <2>1. CASE Len(t) < k
    BY <1>0, <1>2, <1>4, <2>1, SMTT(60)
  <2>2. CASE ~(Len(t) < k)
    BY <1>0, <1>2, <2>2
  <2>3. QED
    BY <2>1, <2>2
<1>9. QED
  BY <1>0, <1>1, <1>7, <1>8, AnnouncedIs

LEMMA AnnouncedSame ==
  ASSUME NEW s \in Seq(EventType), NEW t \in Seq(EventType), Len(t) = Len(s),
         \A n \in 1..Len(s) : t[n].count = s[n].count
  PROVE  Announced(t) = Announced(s)
<1>1. PICK f : Sums(f, s)
  BY SumsExist
<1>2. Sums(f, t)
  BY <1>1 DEF Sums
<1>3. QED
  BY <1>1, <1>2, AnnouncedIs

-----------------------------------------------------------------------------
(* Order and structure, when an event is added, merged into or evicted.    *)

LEMMA Added ==
  ASSUME NEW s \in Seq(EventType), NEW e \in EventType
  PROVE  /\ Append(s, e) \in Seq(EventType) /\ Len(Append(s, e)) = Len(s) + 1
         /\ Len(s) \in Nat /\ DOMAIN s = 1..Len(s) /\ DOMAIN Append(s, e) = 1..(Len(s) + 1)
         /\ Append(s, e)[Len(s) + 1] = e /\ \A n \in 1..Len(s) : Append(s, e)[n] = s[n]
BY AppendProperties

LEMMA AddKeepsOrder ==
  ASSUME NEW s \in Seq(EventType), NEW n \in Nat, Numbered(s, n), Ascending(s),
         NEW e \in EventType, e.ids = <<n + 1>> \/ e.ids = <<>>,
         e.kind # "overflow" => e.count = 0
  PROVE  Ascending(Append(s, e)) /\ Numbered(Append(s, e), n + 1)
<1> DEFINE t == Append(s, e)
<1>1. /\ Len(s) \in Nat /\ DOMAIN s = 1..Len(s) /\ DOMAIN t = 1..(Len(s) + 1) /\ t[Len(s) + 1] = e
      /\ \A i \in 1..Len(s) : t[i] = s[i]
  BY Added
<1> HIDE DEF t
<1>2. Range(e.ids) \subseteq {n + 1} /\ \A a, b \in DOMAIN e.ids : ~(a < b)
  BY DEF Range
<1>3. \A i \in 1..Len(s) : Range(s[i].ids) \subseteq 1..n
  BY <1>1 DEF Numbered
<1>4. Numbered(t, n + 1)
  <2> SUFFICES ASSUME NEW i \in DOMAIN t
               PROVE  Range(t[i].ids) \subseteq 1..(n + 1) /\ (t[i].kind # "overflow" => t[i].count = 0)
    BY DEF Numbered
  <2>1. CASE i = Len(s) + 1
    BY <1>1, <1>2, <2>1
  <2>2. CASE i # Len(s) + 1
    <3>1. i \in 1..Len(s)
      BY <1>1, <2>2
    <3>2. QED
      BY <1>1, <1>3, <3>1 DEF Numbered
  <2>3. QED
    BY <2>1, <2>2
<1>5. Ascending(t)
  <2> SUFFICES ASSUME NEW i \in DOMAIN t, NEW j \in DOMAIN t
               PROVE  /\ \A a, b \in DOMAIN t[i].ids : a < b => t[i].ids[a] < t[i].ids[b]
                      /\ i < j => \A x \in Range(t[i].ids), y \in Range(t[j].ids) : x < y
    BY DEF Ascending
  <2>1. \A a, b \in DOMAIN t[i].ids : a < b => t[i].ids[a] < t[i].ids[b]
    <3>1. CASE i = Len(s) + 1
      BY <1>1, <1>2, <3>1
    <3>2. CASE i \in 1..Len(s)
      BY <1>1, <3>2 DEF Ascending
    <3>3. QED
      BY <1>1, <3>1, <3>2
  <2>2. ASSUME i < j, NEW x \in Range(t[i].ids), NEW y \in Range(t[j].ids) PROVE x < y
    <3>1. i \in 1..Len(s)
      BY <1>1, <2>2
    <3>2. CASE j = Len(s) + 1
      <4>1. y = n + 1 /\ x \in 1..n
        BY <1>1, <1>2, <1>3, <2>2, <3>1, <3>2
      <4>2. QED
        BY <4>1
    <3>3. CASE j \in 1..Len(s)
      BY <1>1, <2>2, <3>1, <3>3 DEF Ascending
    <3>4. QED
      BY <1>1, <3>2, <3>3
  <2>3. QED
    BY <2>1, <2>2
<1>6. QED
  BY <1>4, <1>5 DEF t

LEMMA AddKeepsStructure ==
  ASSUME NEW s \in Seq(EventType), NEW e \in EventType, NEW q \in Seq(Kinds), NEW k \in Kinds,
         Keeps(s, q), k \in {"ask", "idle"} => e.kind = k /\ e.ids = <<Len(q) + 1>>
  PROVE  Keeps(Append(s, e), Append(q, k))
<1> DEFINE t == Append(s, e)  r == Append(q, k)
<1>1. /\ Len(s) \in Nat /\ DOMAIN s = 1..Len(s) /\ DOMAIN t = 1..(Len(s) + 1) /\ t[Len(s) + 1] = e
      /\ \A i \in 1..Len(s) : t[i] = s[i]
  BY Added
<1>2. /\ Len(q) \in Nat /\ DOMAIN q = 1..Len(q) /\ DOMAIN r = 1..(Len(q) + 1) /\ r[Len(q) + 1] = k
      /\ \A i \in 1..Len(q) : r[i] = q[i]
  BY AppendProperties
<1> HIDE DEF t, r
<1>3. SUFFICES ASSUME NEW n \in DOMAIN r, r[n] \in {"ask", "idle"}
               PROVE  \E i \in DOMAIN t : t[i].kind = r[n] /\ n \in Range(t[i].ids)
  BY DEF Keeps, t, r
<1>4. CASE n = Len(q) + 1
  <2>1. n \in Range(e.ids) /\ e.kind = r[n]
    BY <1>2, <1>3, <1>4 DEF Range
  <2>2. QED
    BY <1>1, <2>1
<1>5. CASE n # Len(q) + 1
  <2>1. n \in DOMAIN q /\ r[n] = q[n]
    BY <1>2, <1>5
  <2>2. PICK i \in DOMAIN s : s[i].kind = q[n] /\ n \in Range(s[i].ids)
    BY <1>3, <2>1 DEF Keeps
  <2>3. i \in DOMAIN t /\ t[i] = s[i]
    BY <1>1
  <2>4. QED
    BY <2>1, <2>2, <2>3
<1>6. QED
  BY <1>4, <1>5

\* Eviction closes up the stream: it neither reorders it nor, when what goes is a
\* presentation event, loses anything structural.
LEMMA EvictKeeps ==
  ASSUME NEW s \in Seq(EventType), NEW t, NEW k, Without(s, k, t), NEW n, Numbered(s, n), Ascending(s)
  PROVE  /\ Ascending(t) /\ Numbered(t, n)
         /\ \A q : Keeps(s, q) /\ s[k].kind \notin {"ask", "idle"} => Keeps(t, q)
<1>1. /\ Len(s) \in Nat /\ DOMAIN s = 1..Len(s) /\ Len(t) = Len(s) - 1 /\ DOMAIN t = 1..Len(t)
      /\ k \in 1..Len(s)
  BY DEF Without
<1> DEFINE from(i) == IF i < k THEN i ELSE i + 1
<1>2. \A i \in DOMAIN t : from(i) \in DOMAIN s /\ t[i] = s[from(i)]
  BY <1>1 DEF Without
<1>3. \A i, j \in DOMAIN t : i < j => from(i) < from(j)
  BY <1>1
<1>4. \A m \in DOMAIN s : m # k => \E i \in DOMAIN t : from(i) = m
  <2> SUFFICES ASSUME NEW m \in DOMAIN s, m # k PROVE \E i \in DOMAIN t : from(i) = m
    OBVIOUS
  <2>1. CASE m < k
    <3>1. m \in DOMAIN t /\ from(m) = m
      BY <1>1, <2>1
    <3>2. QED
      BY <3>1
  <2>2. CASE m > k
    <3>1. m - 1 \in DOMAIN t /\ from(m - 1) = m
      BY <1>1, <2>2
    <3>2. QED
      BY <3>1
  <2>3. QED
    BY <1>1, <2>1, <2>2
<1> HIDE DEF from
<1>5. Numbered(t, n)
  BY <1>2 DEF Numbered
<1>6. Ascending(t)
  BY <1>2, <1>3 DEF Ascending
<1>7. ASSUME NEW q, Keeps(s, q), s[k].kind \notin {"ask", "idle"} PROVE Keeps(t, q)
  <2> SUFFICES ASSUME NEW m \in DOMAIN q, q[m] \in {"ask", "idle"}
               PROVE  \E i \in DOMAIN t : t[i].kind = q[m] /\ m \in Range(t[i].ids)
    BY DEF Keeps
  <2>1. PICK j \in DOMAIN s : s[j].kind = q[m] /\ m \in Range(s[j].ids)
    BY <1>7 DEF Keeps
  <2>2. j # k
    BY <1>7, <2>1
  <2>3. QED
    BY <1>2, <1>4, <2>1, <2>2
<1>8. QED
  BY <1>5, <1>6, <1>7

\* A delta merged into the last event of the stream.
LEMMA MergeKeeps ==
  ASSUME NEW s \in Seq(EventType), NEW t \in Seq(EventType), NEW n \in Nat, Numbered(s, n), Ascending(s),
         NEW m \in Nat \ {0}, Len(s) = m, Len(t) = m, \A i \in 1..(m - 1) : t[i] = s[i],
         t[m].kind = s[m].kind, t[m].count = s[m].count,
         NEW old \in Seq(Nat), s[m].ids = old, NEW new, new = Append(old, n + 1), t[m].ids = new
  PROVE  /\ Ascending(t) /\ Numbered(t, n + 1)
         /\ \A q \in Seq(Kinds), k \in Kinds : Keeps(s, q) /\ k \notin {"ask", "idle"} => Keeps(t, Append(q, k))
<1>1. DOMAIN s = 1..m /\ DOMAIN t = 1..m /\ \A i \in 1..m : i = m \/ i \in 1..(m - 1)
  BY LenProperties
<1>2. /\ Len(old) \in Nat /\ DOMAIN old = 1..Len(old) /\ DOMAIN new = 1..(Len(old) + 1)
      /\ new[Len(old) + 1] = n + 1 /\ \A a \in 1..Len(old) : new[a] = old[a]
  BY AppendProperties
<1>3. \A i \in 1..m : Range(s[i].ids) \subseteq 1..n
  BY <1>1 DEF Numbered
<1>4. \A a \in 1..Len(old) : old[a] \in 1..n
  <2>1. Range(old) \subseteq 1..n
    BY <1>3
  <2>2. QED
    BY <1>2, <2>1 DEF Range
<1>5. Range(new) \subseteq Range(old) \cup {n + 1} /\ Range(old) \subseteq Range(new)
  BY <1>2 DEF Range
<1>6. \A i \in 1..(m - 1) : t[i] = s[i]
  OBVIOUS
<1>7. s[m].ids = old /\ t[m].ids = new /\ t[m].kind = s[m].kind /\ t[m].count = s[m].count
  OBVIOUS
<1>8. Numbered(t, n + 1)
  <2> SUFFICES ASSUME NEW i \in 1..m
               PROVE  Range(t[i].ids) \subseteq 1..(n + 1) /\ (t[i].kind # "overflow" => t[i].count = 0)
    BY <1>1 DEF Numbered
  <2>0. s[i].kind # "overflow" => s[i].count = 0
    BY <1>1 DEF Numbered
  <2>1. CASE i = m
    <3>1. Range(new) \subseteq 1..(n + 1)
      <4>1. Range(old) \subseteq 1..n /\ 1..n \subseteq 1..(n + 1) /\ n + 1 \in 1..(n + 1)
        BY <1>3
      <4>2. QED
        BY <1>5, <4>1
    <3>2. QED
      BY <2>0, <2>1, <3>1
  <2>2. CASE i \in 1..(m - 1)
    <3>1. t[i] = s[i] /\ Range(s[i].ids) \subseteq 1..n
      BY <1>3, <1>6, <2>2
    <3>2. QED
      BY <2>0, <3>1
  <2>3. QED
    BY <1>1, <2>1, <2>2
<1>9. Ascending(t)
  <2> SUFFICES ASSUME NEW i \in 1..m, NEW j \in 1..m
               PROVE  /\ \A a, b \in DOMAIN t[i].ids : a < b => t[i].ids[a] < t[i].ids[b]
                      /\ i < j => \A x \in Range(t[i].ids), y \in Range(t[j].ids) : x < y
    BY <1>1 DEF Ascending
  <2>1. ASSUME NEW a \in DOMAIN t[i].ids, NEW b \in DOMAIN t[i].ids, a < b PROVE t[i].ids[a] < t[i].ids[b]
    <3>1. CASE i \in 1..(m - 1)
      BY <1>1, <1>6, <2>1, <3>1 DEF Ascending
    <3>2. CASE i = m
      <4>1. a \in 1..Len(old) /\ new[a] = old[a] /\ old[a] \in 1..n
        BY <1>2, <1>4, <1>7, <2>1, <3>2
      <4>2. CASE b = Len(old) + 1
        BY <1>2, <1>7, <3>2, <4>1, <4>2
      <4>3. CASE b # Len(old) + 1
        <5>1. b \in 1..Len(old) /\ new[b] = old[b]
          BY <1>2, <1>7, <2>1, <3>2, <4>3
        <5>2. old[a] < old[b]
          <6>1. m \in DOMAIN s /\ a \in DOMAIN s[m].ids /\ b \in DOMAIN s[m].ids
            BY <1>1, <1>2, <4>1, <5>1
          <6>2. s[m].ids[a] < s[m].ids[b]
            BY <2>1, <6>1 DEF Ascending
          <6>3. QED
            BY <6>2
        <5>3. QED
          BY <1>7, <3>2, <4>1, <5>1, <5>2
      <4>4. QED
        BY <4>2, <4>3
    <3>3. QED
      BY <1>1, <3>1, <3>2
  <2>2. ASSUME i < j, NEW x \in Range(t[i].ids), NEW y \in Range(t[j].ids) PROVE x < y
    <3>1. i \in 1..(m - 1) /\ x \in Range(s[i].ids) /\ x \in 1..n
      BY <1>1, <1>3, <1>6, <2>2
    <3>2. CASE j \in 1..(m - 1)
      BY <1>1, <1>6, <2>2, <3>1, <3>2 DEF Ascending
    <3>3. CASE j = m
      <4>1. y \in Range(old) \/ y = n + 1
        BY <1>5, <1>7, <2>2, <3>3
      <4>2. y \in Range(old) => x < y
        BY <1>1, <1>7, <2>2, <3>1, <3>3 DEF Ascending
      <4>3. QED
        BY <3>1, <4>1, <4>2
    <3>4. QED
      BY <1>1, <3>2, <3>3
  <2>3. QED
    BY <2>1, <2>2
<1>10. ASSUME NEW q \in Seq(Kinds), NEW k \in Kinds, Keeps(s, q), k \notin {"ask", "idle"}
       PROVE  Keeps(t, Append(q, k))
  <2> DEFINE r == Append(q, k)
  <2>1. /\ Len(q) \in Nat /\ DOMAIN q = 1..Len(q) /\ DOMAIN r = 1..(Len(q) + 1) /\ r[Len(q) + 1] = k
        /\ \A i \in 1..Len(q) : r[i] = q[i]
    BY AppendProperties
  <2> HIDE DEF r
  <2>2. SUFFICES ASSUME NEW c \in DOMAIN r, r[c] \in {"ask", "idle"}
                 PROVE  \E i \in DOMAIN t : t[i].kind = r[c] /\ c \in Range(t[i].ids)
    BY DEF Keeps, r
  <2>3. c \in DOMAIN q /\ r[c] = q[c]
    BY <1>10, <2>1, <2>2
  <2>4. PICK i \in DOMAIN s : s[i].kind = q[c] /\ c \in Range(s[i].ids)
    BY <1>10, <2>2, <2>3 DEF Keeps
  <2>5. i \in DOMAIN t /\ t[i].kind = s[i].kind /\ Range(s[i].ids) \subseteq Range(t[i].ids)
    BY <1>1, <1>5, <1>6, <1>7
  <2>6. QED
    BY <2>3, <2>4, <2>5
<1>11. QED
  BY <1>8, <1>9, <1>10

LEMMA NoticeKeeps ==
  ASSUME NEW s \in Seq(EventType), NEW n \in Nat, Numbered(s, n), Ascending(s),
         NEW e \in EventType, e.ids = <<>>, e.kind = "overflow"
  PROVE  /\ Ascending(Append(s, e)) /\ Numbered(Append(s, e), n)
         /\ \A q : Keeps(s, q) => Keeps(Append(s, e), q)
<1> DEFINE t == Append(s, e)
<1>1. /\ Len(s) \in Nat /\ DOMAIN s = 1..Len(s) /\ DOMAIN t = 1..(Len(s) + 1) /\ t[Len(s) + 1] = e
      /\ \A i \in 1..Len(s) : t[i] = s[i]
  BY Added
<1>2. Ascending(t)
  BY AddKeepsOrder
<1> HIDE DEF t
<1>3. Range(e.ids) = {} /\ \A i \in DOMAIN t : i = Len(s) + 1 \/ i \in DOMAIN s
  BY <1>1 DEF Range
<1>4. Numbered(t, n)
  BY <1>1, <1>3 DEF Numbered
<1>5. ASSUME NEW q, Keeps(s, q) PROVE Keeps(t, q)
  <2>1. DOMAIN s \subseteq DOMAIN t /\ \A i \in DOMAIN s : t[i] = s[i]
    BY <1>1
  <2>2. QED
    BY <1>5, <2>1 DEF Keeps
<1>6. QED
  BY <1>2, <1>4, <1>5 DEF t

-----------------------------------------------------------------------------
(* The counter.                                                            *)

LEMMA PresentedFinite ==
  ASSUME NEW s \in Seq(EventType)
  PROVE  IsFiniteSet(Presented(s)) /\ Cardinality(Presented(s)) \in Nat
<1>1. Len(s) \in Nat /\ Presented(s) \subseteq 1..Len(s)
  BY LenProperties DEF Presented
<1>2. IsFiniteSet(1..Len(s))
  BY <1>1, FS_Interval
<1>3. QED
  BY <1>1, <1>2, FS_Subset, FS_CardinalityType

LEMMA PresentedAdded ==
  ASSUME NEW s \in Seq(EventType), NEW e \in EventType
  PROVE  Cardinality(Presented(Append(s, e)))
           = IF is_compactable(e) THEN Cardinality(Presented(s)) + 1 ELSE Cardinality(Presented(s))
<1> DEFINE t == Append(s, e)
<1>1. /\ Len(s) \in Nat /\ DOMAIN s = 1..Len(s) /\ DOMAIN t = 1..(Len(s) + 1) /\ t[Len(s) + 1] = e
      /\ \A i \in 1..Len(s) : t[i] = s[i]
  BY Added
<1> HIDE DEF t
<1>2. CASE is_compactable(e)
  <2>1. Presented(t) = Presented(s) \cup {Len(s) + 1} /\ Len(s) + 1 \notin Presented(s)
    BY <1>1, <1>2 DEF Presented
  <2>2. Cardinality(Presented(s) \cup {Len(s) + 1}) = Cardinality(Presented(s)) + 1
    BY <2>1, PresentedFinite, FS_AddElement
  <2>3. QED
    BY <1>2, <2>1, <2>2 DEF t
<1>3. CASE ~is_compactable(e)
  <2>1. Presented(t) = Presented(s)
    BY <1>1, <1>3 DEF Presented
  <2>2. QED
    BY <1>3, <2>1 DEF t
<1>4. QED
  BY <1>2, <1>3

LEMMA PresentedEvicted ==
  ASSUME NEW s \in Seq(EventType), NEW t, NEW k, Without(s, k, t)
  PROVE  Cardinality(Presented(t))
           = IF is_compactable(s[k]) THEN Cardinality(Presented(s)) - 1 ELSE Cardinality(Presented(s))
<1>1. /\ Len(s) \in Nat /\ DOMAIN s = 1..Len(s) /\ Len(t) = Len(s) - 1 /\ DOMAIN t = 1..Len(t)
      /\ k \in 1..Len(s) /\ t \in Seq(EventType)
  BY DEF Without
<1> DEFINE from(i) == IF i < k THEN i ELSE i + 1
           S == Presented(t)
           T == Presented(s) \ {k}
           f == [i \in S |-> from(i)]
<1>2. \A i \in DOMAIN t : from(i) \in DOMAIN s /\ from(i) # k /\ t[i] = s[from(i)]
  BY <1>1 DEF Without
<1>3. f \in [S -> T]
  BY <1>2 DEF Presented
<1>4. \A i, j \in S : f[i] = f[j] => i = j
  <2>1. S \subseteq Nat
    BY <1>1 DEF Presented
  <2>2. QED
    BY <1>1, <2>1
<1>5. ASSUME NEW m \in T PROVE \E i \in S : f[i] = m
  <2>1. m \in 1..Len(s) /\ m # k /\ is_compactable(s[m])
    BY <1>1 DEF Presented
  <2>2. CASE m < k
    <3>1. m \in DOMAIN t /\ from(m) = m
      BY <1>1, <2>1, <2>2
    <3>2. QED
      BY <1>2, <2>1, <3>1 DEF Presented
  <2>3. CASE m > k
    <3>1. m - 1 \in DOMAIN t /\ from(m - 1) = m
      BY <1>1, <2>1, <2>3
    <3>2. m - 1 \in S
      BY <1>2, <2>1, <3>1 DEF Presented
    <3>3. QED
      BY <3>1, <3>2
  <2>4. QED
    BY <1>1, <2>1, <2>2, <2>3
<1> HIDE DEF f, S, T
<1>6. f \in Bijection(S, T)
  BY <1>3, <1>4, <1>5, Fun_IsBij, Zenon
<1>7. Cardinality(T) = Cardinality(S)
  <2>1. ExistsBijection(S, T)
    BY <1>6, Fun_ExistsBij
  <2>2. IsFiniteSet(S)
    BY <1>1, PresentedFinite DEF S
  <2>3. QED
    BY <2>1, <2>2, FS_Bijection
<1>8. Cardinality(T) = IF k \in Presented(s) THEN Cardinality(Presented(s)) - 1 ELSE Cardinality(Presented(s))
  BY PresentedFinite, FS_RemoveElement DEF T
<1>9. k \in Presented(s) <=> is_compactable(s[k])
  BY <1>1 DEF Presented
<1>10. QED
  BY <1>7, <1>8, <1>9 DEF S

-----------------------------------------------------------------------------
(* Eviction and reading, as events of the stream.                          *)

\* make_compactable_room takes out one presentation event when the queue is full.
LEMMA Evicted ==
  ASSUME Types, Counted
  PROVE  /\ ~Full => Room = events
         /\ Full => \E k : Without(events, k, Room) /\ is_compactable(events[k])
<1>0. events \in Seq(EventType) /\ Len(events) \in Nat /\ DOMAIN events = 1..Len(events)
  BY LenProperties DEF Types
<1>1. ASSUME ~Full PROVE Room = events
  BY <1>1 DEF Room
<1>2. ASSUME Full PROVE \E k : Without(events, k, Room) /\ is_compactable(events[k])
  <2> DEFINE I == {i \in 1..Len(events) : is_compactable(events[i])}
             k == SelectInSeq(events, is_compactable)
  <2>1. I # {} /\ I \subseteq Nat
    <3>1. Presented(events) = I
      BY <1>0 DEF Presented
    <3>2. Cardinality(I) = compactable
      BY <3>1 DEF Counted
    <3>3. compactable # 0
      BY <1>2, QueueAssumption DEF Full, Types
    <3>4. I # {}
      BY <3>2, <3>3, FS_EmptySet
    <3>5. QED
      BY <1>0, <3>4
  <2>2. k = Min(I)
    BY <2>1 DEF SelectInSeq
  <2>3. Min(I) \in I
    <3> HIDE DEF I
    <3>1. \E x \in I : \A y \in I : x <= y
      BY <2>1, Least
    <3>2. QED
      BY <3>1 DEF Min
  <2>4. k \in 1..Len(events) /\ is_compactable(events[k])
    BY <2>2, <2>3
  <2>5. Room = RemoveAt(events, k)
    BY <1>0, <1>2, <2>4 DEF Room
  <2> HIDE DEF k
  <2> DEFINE a == SubSeq(events, 1, k - 1)  b == SubSeq(events, k + 1, Len(events))
  <2>6. /\ a \in Seq(EventType) /\ Len(a) = k - 1 /\ \A i \in 1..(k - 1) : a[i] = events[i]
    <3>1. \A i \in 1..(k - 1) : events[i] \in EventType
      BY <1>0, <2>4, EventFields
    <3>2. QED
      BY <1>0, <2>4, <3>1, SubSeqProperties
  <2>7. /\ b \in Seq(EventType) /\ Len(b) = Len(events) - k
        /\ \A i \in 1..(Len(events) - k) : b[i] = events[k + i]
    <3>1. \A i \in (k + 1)..Len(events) : events[i] \in EventType
      BY <1>0, <2>4, EventFields
    <3>2. /\ b \in Seq(EventType) /\ Len(b) = IF k + 1 <= Len(events) THEN Len(events) - (k + 1) + 1 ELSE 0
          /\ \A i \in 1..(Len(events) - (k + 1) + 1) : b[i] = events[k + 1 + i - 1]
      BY <1>0, <2>4, <3>1, SubSeqProperties
    <3>3. Len(events) - (k + 1) + 1 = Len(events) - k /\ (k + 1 <= Len(events) \/ Len(events) - k = 0)
      <4>1. \A n \in Nat : \A j \in 1..n : n - (j + 1) + 1 = n - j /\ (j + 1 <= n \/ n - j = 0)
        OBVIOUS
      <4>2. QED
        BY <1>0, <2>4, <4>1, Zenon
    <3>4. Len(b) = Len(events) - k
      BY <3>2, <3>3
    <3>5. ASSUME NEW i \in 1..(Len(events) - k) PROVE b[i] = events[k + i]
      <4>1. k + 1 + i - 1 = k + i
        BY <1>0, <2>4
      <4>2. QED
        BY <3>2, <3>3, <4>1
    <3>6. QED
      BY <3>2, <3>4, <3>5
  <2> HIDE DEF a, b
  <2>8. Room = a \o b
    BY <2>5 DEF RemoveAt, a, b
  <2>9. /\ Room \in Seq(EventType) /\ Len(Room) = Len(events) - 1
        /\ \A i \in 1..Len(Room) : Room[i] = IF i <= k - 1 THEN a[i] ELSE b[i - (k - 1)]
    <3>1. /\ Room \in Seq(EventType) /\ Len(Room) = Len(a) + Len(b)
          /\ \A i \in 1..(Len(a) + Len(b)) : Room[i] = IF i <= Len(a) THEN a[i] ELSE b[i - Len(a)]
      BY <2>6, <2>7, <2>8, ConcatProperties
    <3>2. Len(a) = k - 1 /\ Len(a) + Len(b) = Len(events) - 1
      BY <1>0, <2>4, <2>6, <2>7
    <3>3. QED
      BY <3>1, <3>2
  <2>10. ASSUME NEW n \in 1..Len(Room) PROVE Room[n] = IF n < k THEN events[n] ELSE events[n + 1]
    <3>1. CASE n < k
      BY <1>0, <2>4, <2>6, <2>9, <3>1
    <3>2. CASE ~(n < k)
      <4>1. n - (k - 1) \in 1..(Len(events) - k) /\ k + (n - (k - 1)) = n + 1
        BY <1>0, <2>4, <2>9, <3>2
      <4>2. Room[n] = b[n - (k - 1)]
        BY <2>4, <2>9, <3>2
      <4>3. QED
        BY <2>7, <3>2, <4>1, <4>2
    <3>3. QED
      BY <3>1, <3>2
  <2>11. QED
    BY <2>4, <2>9, <2>10 DEF Without
<1>3. QED
  BY <1>1, <1>2

\* What leaves the queue leaves the stream at the same place.
LEMMA EvictedFromStream ==
  ASSUME Types, NEW k, NEW r, Without(events, k, r)
  PROVE  Without(Stream, Len(got) + k, got \o r) /\ Stream[Len(got) + k] = events[k]
<1>1. /\ events \in Seq(EventType) /\ got \in Seq(EventType) /\ r \in Seq(EventType) /\ k \in 1..Len(events)
      /\ Len(got) \in Nat /\ Len(events) \in Nat /\ Len(r) = Len(events) - 1
      /\ \A n \in 1..Len(r) : r[n] = IF n < k THEN events[n] ELSE events[n + 1]
  BY DEF Types, Without
<1>2. /\ Stream \in Seq(EventType) /\ Len(Stream) = Len(got) + Len(events)
      /\ \A i \in 1..(Len(got) + Len(events)) : Stream[i] = IF i <= Len(got) THEN got[i] ELSE events[i - Len(got)]
  BY <1>1, ConcatProperties DEF Stream
<1> DEFINE t == got \o r
<1>3. /\ t \in Seq(EventType) /\ Len(t) = Len(got) + Len(r)
      /\ \A i \in 1..(Len(got) + Len(r)) : t[i] = IF i <= Len(got) THEN got[i] ELSE r[i - Len(got)]
  BY <1>1, ConcatProperties
<1> HIDE DEF t
<1>4. ASSUME NEW n \in 1..Len(t) PROVE t[n] = IF n < Len(got) + k THEN Stream[n] ELSE Stream[n + 1]
  <2>0. n \in 1..(Len(got) + Len(r)) /\ n \in Nat
    BY <1>3
  <2>1. CASE n <= Len(got)
    <3>1. n < Len(got) + k /\ n \in 1..(Len(got) + Len(events))
      BY <1>1, <2>0, <2>1
    <3>2. t[n] = got[n] /\ Stream[n] = got[n]
      BY <1>2, <1>3, <2>0, <2>1, <3>1
    <3>3. QED
      BY <3>1, <3>2
  <2>2. CASE n > Len(got)
    <3>1. n - Len(got) \in 1..Len(r) /\ (n + 1) - Len(got) = (n - Len(got)) + 1
      BY <1>1, <1>3, <2>2
    <3>2. t[n] = r[n - Len(got)]
      <4>1. ~(n <= Len(got))
        BY <1>1, <2>0, <2>2
      <4>2. QED
        BY <1>3, <2>0, <4>1
    <3>3. CASE n < Len(got) + k
      <4>1. n - Len(got) < k /\ n \in 1..(Len(got) + Len(events)) /\ ~(n <= Len(got))
        BY <1>1, <1>3, <2>2, <3>3
      <4>2. QED
        BY <1>1, <1>2, <3>1, <3>2, <3>3, <4>1
    <3>4. CASE ~(n < Len(got) + k)
      <4>1. ~(n - Len(got) < k) /\ n + 1 \in 1..(Len(got) + Len(events)) /\ ~(n + 1 <= Len(got))
        BY <1>1, <1>3, <2>2, <3>4
      <4>2. QED
        BY <1>1, <1>2, <3>1, <3>2, <3>4, <4>1
    <3>5. QED
      BY <3>3, <3>4
  <2>3. QED
    BY <1>1, <1>3, <2>1, <2>2
<1>5. Len(got) + k \in 1..Len(Stream) /\ Len(t) = Len(Stream) - 1 /\ Stream[Len(got) + k] = events[k]
  <2>1. Len(got) + k \in 1..(Len(got) + Len(events)) /\ ~(Len(got) + k <= Len(got)) /\ (Len(got) + k) - Len(got) = k
    BY <1>1
  <2>2. QED
    BY <1>1, <1>2, <1>3, <2>1
<1>6. QED
  BY <1>3, <1>4, <1>5 DEF Without, t

-----------------------------------------------------------------------------
(* The steps.                                                              *)

LEMMA InitIInv == Init => IInv
<1> SUFFICES ASSUME Init PROVE IInv
  OBVIOUS
<1> USE DEF Init
<1>1. Types
  BY EmptySeq DEF Types
<1>2. Stream = <<>> /\ DOMAIN Stream = {} /\ Len(sent) = 0 /\ DOMAIN sent = {}
  BY DEF Stream
<1>3. Numbered(Stream, Len(sent)) /\ Ascending(Stream) /\ Keeps(Stream, sent)
  BY <1>2 DEF Numbered, Ascending, Keeps
<1>4. Counted
  <2>1. Presented(events) = {}
    BY DEF Presented
  <2>2. QED
    BY <2>1, FS_EmptySet, QueueAssumption DEF Counted
<1>5. LossAnnounced
  <2> DEFINE f == [n \in 0..0 |-> 0]
  <2>1. Sums(f, <<>>) /\ f[0] = 0 /\ <<>> \in Seq(EventType)
    BY DEF Sums
  <2>2. Announced(<<>>) = 0
    BY <2>1, AnnouncedIs
  <2>3. QED
    BY <1>2, <2>2 DEF LossAnnounced
<1>6. QED
  BY <1>1, <1>3, <1>4, <1>5 DEF IInv

LEMMA Quiet ==
  ASSUME IInv, UNCHANGED <<events, compactable, dropped, receiver_open, got, sent, lost>>
  PROVE  IInv'
<1>1. Stream' = Stream
  BY DEF Stream
<1>2. Types' /\ Counted'
  BY DEF IInv, Types, Counted
<1>3. LossAnnounced'
  BY <1>1 DEF IInv, LossAnnounced
<1>4. QED
  BY <1>1, <1>2, <1>3 DEF IInv

\* Reading moves an event from the queue to the host: the stream stays as it is.
LEMMA PopStep == IInv /\ Pop /\ UNCHANGED <<receiver_open, sent, lost>> => IInv'
<1> SUFFICES ASSUME IInv, Pop, UNCHANGED <<receiver_open, sent, lost>> PROVE IInv'
  OBVIOUS
<1>0. /\ events \in Seq(EventType) /\ got \in Seq(EventType) /\ events # <<>> /\ compactable \in Nat
      /\ events' = Tail(events) /\ got' = Append(got, Head(events)) /\ dropped' = dropped
  BY DEF IInv, Types, Pop
<1>1. /\ Head(events) \in EventType /\ Tail(events) \in Seq(EventType) /\ Head(events) = events[1]
      /\ Len(Tail(events)) = Len(events) - 1 /\ Len(events) \in Nat \ {0}
      /\ \A i \in 1..(Len(events) - 1) : Tail(events)[i] = events[i + 1]
  BY <1>0, HeadTailProperties
<1>2. Stream' = Stream
  BY <1>0, <1>1, HeadTailProperties DEF Stream
<1>3. Without(events, 1, events')
  BY <1>0, <1>1 DEF Without
<1>4. Cardinality(Presented(events')) =
        IF is_compactable(Head(events)) THEN Cardinality(Presented(events)) - 1 ELSE Cardinality(Presented(events))
  BY <1>0, <1>1, <1>3, PresentedEvicted
<1>5. Cardinality(Presented(events')) \in Nat
  BY <1>0, <1>1, PresentedFinite
<1>6. compactable' = Cardinality(Presented(events')) /\ compactable' <= EVENT_QUEUE_CAP /\ compactable' \in Nat
  <2>1. compactable = Cardinality(Presented(events)) /\ compactable <= EVENT_QUEUE_CAP
    BY DEF IInv, Counted
  <2>2. compactable' = IF is_compactable(Head(events)) THEN compactable - 1 ELSE compactable
    BY DEF Pop
  <2>3. QED
    BY <1>0, <1>4, <1>5, <2>1, <2>2, QueueAssumption
<1>7. Types'
  BY <1>0, <1>1, <1>6, Added DEF IInv, Types
<1>8. LossAnnounced'
  <2> SUFFICES ASSUME receiver_open PROVE Announced(Stream') + dropped' = lost' /\ ((events' # <<>> /\ Last(events').kind = "idle") => dropped' = 0)
    BY DEF LossAnnounced
  <2>1. Announced(Stream') + dropped' = lost'
    BY <1>0, <1>2 DEF IInv, LossAnnounced
  <2>2. ASSUME events' # <<>> PROVE Last(events') = Last(events)
    <3>1. Len(events') # 0 /\ Len(events') \in Nat
      BY <1>0, <1>1, <2>2, EmptySeq
    <3>2. Len(events') \in 1..(Len(events) - 1) /\ Len(events') + 1 = Len(events)
      BY <1>0, <1>1, <3>1
    <3>3. QED
      BY <1>0, <1>1, <3>2 DEF Last
  <2>3. QED
    BY <1>0, <2>1, <2>2 DEF IInv, LossAnnounced
<1>9. QED
  BY <1>2, <1>6, <1>7, <1>8 DEF IInv, Counted

LEMMA Dropped == IInv /\ DropReceiver => IInv'
<1> SUFFICES ASSUME IInv, DropReceiver PROVE IInv'
  OBVIOUS
<1>1. /\ events \in Seq(EventType) /\ got \in Seq(EventType) /\ Len(events) \in Nat /\ Len(got) \in Nat
      /\ events' = <<>> /\ compactable' = 0 /\ ~receiver_open'
      /\ UNCHANGED <<dropped, got, sent, lost>>
  BY DEF IInv, Types, DropReceiver, history
<1>2. Stream' = got
  BY <1>1 DEF Stream
<1>3. DOMAIN got \subseteq DOMAIN Stream /\ \A i \in DOMAIN got : Stream[i] = got[i]
  BY <1>1 DEF Stream
<1>4. Numbered(got, Len(sent)) /\ Ascending(got)
  BY <1>3 DEF IInv, Numbered, Ascending
<1>5. Counted'
  <2>1. Presented(events') = {}
    BY <1>1 DEF Presented
  <2>2. Cardinality({}) = 0 /\ 0 <= EVENT_QUEUE_CAP
    BY FS_EmptySet, QueueAssumption
  <2>3. QED
    BY <1>1, <2>1, <2>2 DEF Counted
<1>6. Types'
  BY <1>1, EmptySeq DEF IInv, Types
<1>7. QED
  BY <1>1, <1>2, <1>4, <1>5, <1>6 DEF IInv, LossAnnounced

\* A send that appends its event to what is left of the queue, b.
LEMMA Grown ==
  ASSUME Types, NEW b \in Seq(EventType), NEW k \in Kinds,
         Numbered(got \o b, Len(sent)), Ascending(got \o b), receiver_open => Keeps(got \o b, sent),
         events' = Append(b, Event(k, Len(sent) + 1)), sent' = Append(sent, k),
         UNCHANGED <<got, receiver_open>>
  PROVE  /\ events' \in Seq(EventType) /\ got' \in Seq(EventType) /\ sent' \in Seq(Kinds)
         /\ Numbered(Stream', Len(sent')) /\ Ascending(Stream') /\ (receiver_open' => Keeps(Stream', sent'))
         /\ Announced(Stream') = Announced(got \o b)
         /\ Cardinality(Presented(events')) =
              IF k \in {"text", "reasoning", "iter"} THEN Cardinality(Presented(b)) + 1
                                                     ELSE Cardinality(Presented(b))
         /\ events' # <<>> /\ Last(events').kind = k
<1> DEFINE e == Event(k, Len(sent) + 1)  s == got \o b
<1>0. got \in Seq(EventType) /\ sent \in Seq(Kinds) /\ Len(sent) \in Nat
  BY DEF Types
<1>1. e \in EventType /\ e.ids = <<Len(sent) + 1>> /\ e.kind = k /\ e.count = 0 /\ e.kind # "overflow"
  BY <1>0 DEF Event, EventType, Kinds
<1>2. s \in Seq(EventType)
  BY <1>0, ConcatProperties
<1>3. Stream' = Append(s, e)
  BY <1>0, <1>1 DEF Stream
<1>4. sent' \in Seq(Kinds) /\ Len(sent') = Len(sent) + 1
  BY <1>0, AppendProperties
<1>5. is_compactable(e) <=> k \in {"text", "reasoning", "iter"}
  BY <1>1 DEF is_compactable
<1> HIDE DEF e, s
<1>a. events' = Append(b, e) /\ Numbered(s, Len(sent)) /\ Ascending(s) /\ (receiver_open => Keeps(s, sent))
  BY DEF e, s
<1>6. Ascending(Append(s, e)) /\ Numbered(Append(s, e), Len(sent) + 1)
  BY <1>0, <1>1, <1>2, <1>a, AddKeepsOrder
<1>7. receiver_open => Keeps(Append(s, e), Append(sent, k))
  BY <1>0, <1>1, <1>2, <1>a, AddKeepsStructure
<1>8. Announced(Append(s, e)) = Announced(s)
  BY <1>1, <1>2, AnnouncedAppend
<1>9. events' \in Seq(EventType) /\ events' # <<>> /\ Last(events') = e
  BY <1>1, <1>a, Added DEF Last
<1>10. Cardinality(Presented(Append(b, e))) =
         IF is_compactable(e) THEN Cardinality(Presented(b)) + 1 ELSE Cardinality(Presented(b))
  BY <1>1, PresentedAdded
<1>11. QED
  BY <1>0, <1>1, <1>3, <1>4, <1>5, <1>a, <1>6, <1>7, <1>8, <1>9, <1>10 DEF s

\* The parts of the invariant a send rests on.
LEMMA Parts ==
  ASSUME IInv
  PROVE  /\ Types /\ events \in Seq(EventType) /\ got \in Seq(EventType) /\ sent \in Seq(Kinds)
         /\ Len(events) \in Nat /\ Len(sent) \in Nat /\ Stream \in Seq(EventType) /\ Stream = got \o events
         /\ compactable \in Nat /\ dropped \in Nat /\ lost \in Nat /\ compactable <= EVENT_QUEUE_CAP
         /\ compactable = Cardinality(Presented(events))
         /\ Numbered(Stream, Len(sent)) /\ Ascending(Stream) /\ (receiver_open => Keeps(Stream, sent))
         /\ Announced(Stream) \in Nat
         /\ (receiver_open => Announced(Stream) + dropped = lost)
<1>1. /\ events \in Seq(EventType) /\ got \in Seq(EventType) /\ sent \in Seq(Kinds)
      /\ compactable \in Nat /\ dropped \in Nat /\ lost \in Nat
  BY DEF IInv, Types
<1>2. Stream \in Seq(EventType)
  BY <1>1, ConcatProperties DEF Stream
<1>3. PICK f : Sums(f, Stream)
  BY <1>2, SumsExist
<1>4. Announced(Stream) \in Nat
  <2>1. Len(Stream) \in 0..Len(Stream)
    BY <1>2
  <2>2. f[Len(Stream)] \in Nat
    BY <1>3, <2>1 DEF Sums
  <2>3. QED
    BY <1>2, <1>3, <2>2, AnnouncedIs
<1>5. QED
  BY <1>1, <1>2, <1>4 DEF IInv, Counted, LossAnnounced, Stream

\* What the four kinds of send have in common.
Sending(s, k) ==
  /\ k \in Kinds /\ sent' = Append(sent, k) /\ receiver_open
  /\ UNCHANGED <<got, receiver_open>>

LEMMA SendAsk ==
  ASSUME IInv, NEW s, NEW k, Sending(s, k), k = "ask",
         events' = Append(events, Event(k, Len(sent) + 1)), UNCHANGED <<compactable, dropped, lost>>
  PROVE  IInv'
<1>1. /\ events' \in Seq(EventType) /\ got' \in Seq(EventType) /\ sent' \in Seq(Kinds)
      /\ Numbered(Stream', Len(sent')) /\ Ascending(Stream') /\ (receiver_open' => Keeps(Stream', sent'))
      /\ Announced(Stream') = Announced(got \o events)
      /\ Cardinality(Presented(events')) = Cardinality(Presented(events))
      /\ Last(events').kind = k
  BY Parts, Grown DEF Sending
<1>2. Types' /\ Counted'
  BY <1>1, Parts DEF Types, Counted
<1>3. LossAnnounced'
  BY <1>1, Parts DEF LossAnnounced, Sending
<1>4. QED
  BY <1>1, <1>2, <1>3 DEF IInv

LEMMA SendIdle ==
  ASSUME IInv, NEW s, NEW k, Sending(s, k), k = "idle",
         events' = events \o (IF dropped > 0 THEN <<Overflow(dropped)>> ELSE <<>>)
                          \o <<Event(k, Len(sent) + 1)>>,
         dropped' = 0, UNCHANGED <<compactable, lost>>
  PROVE  IInv'
<1> DEFINE b == IF dropped > 0 THEN Append(events, Overflow(dropped)) ELSE events
           n == Overflow(dropped)
<1>0. n \in EventType /\ n.ids = <<>> /\ n.kind = "overflow" /\ n.count = dropped /\ ~is_compactable(n)
  BY Parts DEF Overflow, EventType, is_compactable
<1>1. /\ b \in Seq(EventType) /\ Cardinality(Presented(b)) = Cardinality(Presented(events))
      /\ Numbered(got \o b, Len(sent)) /\ Ascending(got \o b) /\ (receiver_open => Keeps(got \o b, sent))
      /\ Announced(got \o b) = Announced(Stream) + dropped
      /\ events' = Append(b, Event(k, Len(sent) + 1))
  <2>1. CASE dropped > 0
    <3>1. b = Append(events, n)
      BY <2>1
    <3>2. b \in Seq(EventType) /\ got \o b = Append(Stream, n)
      BY <1>0, <3>1, Parts, Added, SMTT(60)
    <3>3. Cardinality(Presented(b)) = Cardinality(Presented(events))
      BY <1>0, <3>1, Parts, PresentedAdded
    <3>4. Numbered(Append(Stream, n), Len(sent)) /\ Ascending(Append(Stream, n))
          /\ (receiver_open => Keeps(Append(Stream, n), sent))
      BY <1>0, Parts, NoticeKeeps
    <3>5. Announced(Append(Stream, n)) = Announced(Stream) + dropped
      BY <1>0, Parts, AnnouncedAppend
    <3>6. events' = Append(b, Event(k, Len(sent) + 1))
      BY <1>0, <2>1, Parts
    <3>7. QED
      BY <3>2, <3>3, <3>4, <3>5, <3>6
  <2>2. CASE ~(dropped > 0)
    <3>1. b = events /\ dropped = 0
      BY <2>2, Parts
    <3>2. events' = Append(events, Event(k, Len(sent) + 1))
      BY <2>2, Parts
    <3>3. Announced(Stream) = Announced(Stream) + dropped
      BY <3>1, Parts
    <3>4. QED
      BY <3>1, <3>2, <3>3, Parts
  <2>3. QED
    BY <2>1, <2>2
<1> HIDE DEF b
<1>2. /\ events' \in Seq(EventType) /\ got' \in Seq(EventType) /\ sent' \in Seq(Kinds)
      /\ Numbered(Stream', Len(sent')) /\ Ascending(Stream') /\ (receiver_open' => Keeps(Stream', sent'))
      /\ Announced(Stream') = Announced(got \o b)
      /\ Cardinality(Presented(events')) = Cardinality(Presented(b))
  BY <1>1, Parts, Grown DEF Sending
<1>3. Types' /\ Counted'
  BY <1>1, <1>2, Parts DEF Types, Counted
<1>4. LossAnnounced'
  BY <1>1, <1>2, Parts DEF LossAnnounced, Sending
<1>5. QED
  BY <1>2, <1>3, <1>4 DEF IInv

LEMMA SendPresentation ==
  ASSUME IInv, NEW s, NEW k, Sending(s, k), k \in {"text", "reasoning", "iter"},
         events' = Append(Room, Event(k, Len(sent) + 1)),
         compactable' = (IF Room # events THEN compactable ELSE compactable + 1),
         dropped' = (IF Room # events THEN dropped + 1 ELSE dropped),
         lost' = (IF Room # events THEN lost + 1 ELSE lost)
  PROVE  IInv'
<1>0. Types /\ Counted
  BY DEF IInv
<1>1. /\ Room \in Seq(EventType)
      /\ Numbered(got \o Room, Len(sent)) /\ Ascending(got \o Room)
      /\ (receiver_open => Keeps(got \o Room, sent))
      /\ Announced(got \o Room) = Announced(Stream)
      /\ Full => Room # events /\ Cardinality(Presented(Room)) = Cardinality(Presented(events)) - 1
      /\ ~Full => Room = events
  <2>1. CASE ~Full
    <3>1. Room = events
      BY <1>0, <2>1, Evicted
    <3>2. QED
      BY <2>1, <3>1, Parts
  <2>2. CASE Full
    <3>1. PICK j : Without(events, j, Room) /\ is_compactable(events[j])
      BY <1>0, <2>2, Evicted
    <3>2. Without(Stream, Len(got) + j, got \o Room) /\ Stream[Len(got) + j] = events[j]
      BY <1>0, <3>1, EvictedFromStream
    <3>3. events[j].kind \notin {"ask", "idle"} /\ events[j].kind # "overflow"
      BY <3>1 DEF is_compactable
    <3>4. Stream[Len(got) + j].count = 0
      <4>1. Len(got) + j \in DOMAIN Stream
        BY <3>2, Parts, LenProperties DEF Without
      <4>2. QED
        BY <3>2, <3>3, <4>1, Parts DEF Numbered
    <3>5. Announced(got \o Room) = Announced(Stream)
      BY <3>2, <3>4, Parts, AnnouncedWithout
    <3>6. Numbered(got \o Room, Len(sent)) /\ Ascending(got \o Room)
          /\ (receiver_open => Keeps(got \o Room, sent))
      BY <3>2, <3>3, Parts, EvictKeeps
    <3>7. Cardinality(Presented(Room)) = Cardinality(Presented(events)) - 1
      BY <3>1, Parts, PresentedEvicted
    <3>8. Room \in Seq(EventType) /\ Room # events
      <4>1. Room \in Seq(EventType) /\ Len(Room) = Len(events) - 1
        BY <3>1 DEF Without
      <4>2. QED
        BY <4>1, Parts
    <3>9. QED
      BY <2>2, <3>5, <3>6, <3>7, <3>8
  <2>3. QED
    BY <2>1, <2>2
<1>2. /\ events' \in Seq(EventType) /\ got' \in Seq(EventType) /\ sent' \in Seq(Kinds)
      /\ Numbered(Stream', Len(sent')) /\ Ascending(Stream') /\ (receiver_open' => Keeps(Stream', sent'))
      /\ Announced(Stream') = Announced(got \o Room)
      /\ Cardinality(Presented(events')) = Cardinality(Presented(Room)) + 1
      /\ Last(events').kind = k
  BY <1>0, <1>1, Grown DEF Sending
<1>3. Counted' /\ compactable' \in Nat
  <2>1. CASE Full
    <3>1. compactable' = compactable
      BY <1>1, <2>1
    <3>2. QED
      BY <1>1, <1>2, <2>1, <3>1, Parts, SMTT(60) DEF Counted
  <2>2. CASE ~Full
    <3>1. compactable' = compactable + 1 /\ compactable < EVENT_QUEUE_CAP
      BY <1>1, <2>2, Parts, QueueAssumption DEF Full
    <3>2. QED
      BY <1>1, <1>2, <2>2, <3>1, Parts, QueueAssumption, SMTT(60) DEF Counted
  <2>3. QED
    BY <2>1, <2>2
<1>4. dropped' \in Nat /\ lost' \in Nat /\ Announced(Stream') + dropped' = lost'
  BY <1>1, <1>2, Parts, SMTT(60) DEF Sending
<1>5. Types'
  BY <1>2, <1>3, <1>4 DEF Types
<1>6. LossAnnounced'
  BY <1>2, <1>4 DEF LossAnnounced
<1>7. QED
  BY <1>2, <1>3, <1>5, <1>6 DEF IInv

LEMMA Replaced ==
  ASSUME NEW s \in Seq(EventType), NEW m \in 1..Len(s), NEW e \in EventType
  PROVE  /\ ReplaceAt(s, m, e) \in Seq(EventType) /\ Len(ReplaceAt(s, m, e)) = Len(s)
         /\ ReplaceAt(s, m, e)[m] = e
BY ExceptSeq DEF ReplaceAt

LEMMA NotReplaced ==
  ASSUME NEW s \in Seq(EventType), NEW m \in 1..Len(s), NEW e, NEW j \in 1..Len(s), j # m
  PROVE  ReplaceAt(s, m, e)[j] = s[j]
BY DEF ReplaceAt

LEMMA ReplacedLast ==
  ASSUME events \in Seq(EventType), NEW m, m = Len(events), m \in Nat \ {0}, NEW e \in EventType,
         events' = ReplaceAt(events, m, e)
  PROVE  /\ events' \in Seq(EventType) /\ Len(events') = m /\ DOMAIN events' = 1..m /\ events'[m] = e
         /\ \A i \in 1..(m - 1) : events'[i] = events[i]
<1>1. m \in 1..Len(events) /\ \A i \in 1..(m - 1) : i \in 1..Len(events) /\ i # m
  OBVIOUS
<1>2. events' \in Seq(EventType) /\ Len(events') = Len(events) /\ events'[m] = e
  BY <1>1, Replaced, Zenon
<1>3. \A j \in 1..Len(events) : j # m => events'[j] = events[j]
  <2>1. ASSUME NEW j \in 1..Len(events), j # m PROVE ReplaceAt(events, m, e)[j] = events[j]
    BY <1>1, <2>1, NotReplaced
  <2>2. QED
    BY <2>1
<1>4. QED
  BY <1>1, <1>2, <1>3, LenProperties

LEMMA LastEvent ==
  ASSUME IInv, NEW k, Merges(k)
  PROVE  /\ k \in {"text", "reasoning"} /\ Len(events) \in Nat \ {0} /\ DOMAIN events = 1..Len(events)
         /\ Last(events) = events[Len(events)] /\ events[Len(events)] \in EventType
         /\ events[Len(events)].ids \in Seq(Nat) /\ events[Len(events)].kind = k
<1>1. k \in {"text", "reasoning"} /\ Last(events).kind = k /\ events # <<>>
  BY DEF Merges
<1>2. Len(events) \in Nat \ {0}
  BY <1>1, Parts, EmptySeq
<1>3. QED
  BY <1>1, <1>2, Parts, EventFields DEF Last

LEMMA MergedEvent ==
  ASSUME IInv, NEW k, Merges(k)
  PROVE  \E e \in EventType : /\ e = [Last(events) EXCEPT !.ids = Append(Last(events).ids, Len(sent) + 1)]
                              /\ e.kind = k /\ e.count = events[Len(events)].count
                              /\ e.ids = Append(events[Len(events)].ids, Len(sent) + 1)
<1>1. Append(events[Len(events)].ids, Len(sent) + 1) \in Seq(Nat)
  BY LastEvent, Parts, AppendProperties
<1>2. \A o \in EventType, x \in Seq(Nat) :
        LET e == [o EXCEPT !.ids = x] IN e \in EventType /\ e.kind = o.kind /\ e.count = o.count /\ e.ids = x
  BY DEF EventType
<1>3. Last(events) \in EventType /\ Last(events) = events[Len(events)] /\ Last(events).kind = k
  BY LastEvent
<1>4. PICK e : e = [Last(events) EXCEPT !.ids = Append(Last(events).ids, Len(sent) + 1)]
  OBVIOUS
<1>5. e \in EventType /\ e.kind = Last(events).kind /\ e.count = Last(events).count
      /\ e.ids = Append(Last(events).ids, Len(sent) + 1)
  BY <1>1, <1>2, <1>3, <1>4
<1>6. QED
  BY <1>3, <1>4, <1>5

LEMMA SendMerge ==
  ASSUME IInv, NEW s, NEW k, Sending(s, k), Merges(k), NEW e \in EventType,
         e.kind = k, e.count = events[Len(events)].count,
         e.ids = Append(events[Len(events)].ids, Len(sent) + 1),
         events' = ReplaceAt(events, Len(events), e),
         UNCHANGED <<compactable, dropped, lost>>
  PROVE  IInv'
<1> DEFINE m == Len(events)  old == events[Len(events)].ids  new == Append(old, Len(sent) + 1)
<1>1. /\ m \in Nat \ {0} /\ DOMAIN events = 1..m /\ events[m] \in EventType /\ old \in Seq(Nat)
      /\ events[m].kind = k /\ k \in {"text", "reasoning"}
  BY LastEvent, Zenon
<1>2. new \in Seq(Nat)
  BY <1>1, Parts, AppendProperties
<1>4. e \in EventType /\ e.kind = k /\ e.count = events[m].count /\ e.ids = new
  OBVIOUS
<1>5. /\ events' \in Seq(EventType) /\ Len(events') = m /\ DOMAIN events' = 1..m /\ events'[m] = e
      /\ \A i \in 1..(m - 1) : events'[i] = events[i]
  <2>1. Len(events) = m /\ events \in Seq(EventType) /\ events' = ReplaceAt(events, m, e)
    BY <1>1, Parts
  <2> HIDE DEF m, old, new
  <2>2. QED
    BY <1>1, <2>1, ReplacedLast, ZenonT(60)
<1> HIDE DEF m, old, new
<1>6. Presented(events') = Presented(events)
  <2>1. \A i \in 1..m : events'[i].kind = events[i].kind
    BY <1>1, <1>4, <1>5
  <2>2. QED
    BY <1>1, <1>5, <2>1 DEF Presented, is_compactable
<1> DEFINE g == Len(got)  t == got \o events'
<1>7. /\ g \in Nat /\ Len(Stream) = g + m
      /\ \A i \in 1..(g + m) : Stream[i] = IF i <= g THEN got[i] ELSE events[i - g]
  BY <1>1, Parts, ConcatProperties DEF m
<1>8. /\ t \in Seq(EventType) /\ Len(t) = g + m
      /\ \A i \in 1..(g + m) : t[i] = IF i <= g THEN got[i] ELSE events'[i - g]
  <2>1. /\ t \in Seq(EventType) /\ Len(t) = Len(got) + Len(events')
        /\ \A i \in 1..(Len(got) + Len(events')) : t[i] = IF i <= Len(got) THEN got[i] ELSE events'[i - Len(got)]
    BY <1>5, Parts, ConcatProperties, ZenonT(60)
  <2>2. QED
    BY <1>5, <2>1
<1>9. Stream' = t
  BY DEF Stream, Sending
<1> HIDE DEF t, g
<1> DEFINE M == g + m
<1>10. /\ M \in Nat \ {0} /\ \A i \in 1..(M - 1) : t[i] = Stream[i]
       /\ t[M] = e /\ Stream[M] = events[m] /\ Len(t) = M /\ Len(Stream) = M
  <2>1. ASSUME NEW i \in 1..(M - 1) PROVE t[i] = Stream[i]
    <3>1. i \in 1..(g + m) /\ (i <= g \/ (~(i <= g) /\ i - g \in 1..(m - 1)))
      BY <1>1, <1>7
    <3>2. QED
      BY <1>5, <1>7, <1>8, <3>1
  <2>2. M \in Nat \ {0} /\ g + m \in 1..(g + m) /\ ~(g + m <= g) /\ (g + m) - g = m
    BY <1>1, <1>7
  <2>3. QED
    BY <1>5, <1>7, <1>8, <2>1, <2>2
<1> HIDE DEF M
<1>11. Stream[M].ids = old /\ new = Append(old, Len(sent) + 1)
  BY <1>10 DEF old, new, m
<1>12. /\ Ascending(t) /\ Numbered(t, Len(sent) + 1)
       /\ \A q \in Seq(Kinds), kk \in Kinds : Keeps(Stream, q) /\ kk \notin {"ask", "idle"} => Keeps(t, Append(q, kk))
  <2>1. Stream \in Seq(EventType) /\ Len(sent) \in Nat /\ Numbered(Stream, Len(sent)) /\ Ascending(Stream)
    BY Parts
  <2>2. t[M].kind = Stream[M].kind /\ t[M].count = Stream[M].count /\ t[M].ids = new
    BY <1>1, <1>4, <1>10
  <2>3. QED
    BY <1>1, <1>8, <1>10, <1>11, <2>1, <2>2, MergeKeeps, ZenonT(60)
<1>13. Announced(t) = Announced(Stream)
  <2>1. \A i \in 1..M : t[i].count = Stream[i].count
    <3>1. \A i \in 1..M : i = M \/ i \in 1..(M - 1)
      BY <1>10
    <3>2. t[M].count = Stream[M].count
      BY <1>4, <1>10
    <3>3. QED
      BY <1>10, <3>1, <3>2
  <2>2. QED
    BY <1>8, <1>10, <2>1, Parts, AnnouncedSame
<1>14. sent' \in Seq(Kinds) /\ Len(sent') = Len(sent) + 1
  BY Parts, AppendProperties DEF Sending
<1>15. Types' /\ Counted'
  BY <1>5, <1>6, <1>14, Parts DEF Types, Counted, Sending
<1>16. receiver_open' => Keeps(Stream', sent')
  BY <1>1, <1>9, <1>12, Parts DEF Sending
<1>17. LossAnnounced'
  <2>1. Last(events').kind # "idle"
    BY <1>1, <1>4, <1>5 DEF Last
  <2>2. QED
    BY <1>9, <1>13, <2>1, Parts DEF LossAnnounced, Sending
<1>18. QED
  BY <1>9, <1>12, <1>14, <1>15, <1>16, <1>17 DEF IInv

LEMMA SendStep == ASSUME IInv, NEW s, NEW k \in Kinds, Send(s, k) PROVE IInv'
<1>1. Sending(s, k)
  BY DEF Send, Sending
<1>2. CASE Merges(k)
  <2>1. /\ events' = ReplaceAt(events, Len(events), [Last(events) EXCEPT !.ids = Append(@, Len(sent) + 1)])
        /\ UNCHANGED <<compactable, dropped, lost>>
    BY <1>2 DEF Send
  <2>2. PICK e \in EventType : /\ e = [Last(events) EXCEPT !.ids = Append(Last(events).ids, Len(sent) + 1)]
                               /\ e.kind = k /\ e.count = events[Len(events)].count
                               /\ e.ids = Append(events[Len(events)].ids, Len(sent) + 1)
    BY <1>2, MergedEvent
  <2>3. events' = ReplaceAt(events, Len(events), e)
    BY <2>1, <2>2
  <2>4. QED
    BY <1>1, <1>2, <2>1, <2>2, <2>3, SendMerge, Zenon
<1>3. CASE ~Merges(k) /\ k = "idle"
  <2>1. /\ events' = events \o (IF dropped > 0 THEN <<Overflow(dropped)>> ELSE <<>>) \o <<Event(k, Len(sent) + 1)>>
        /\ dropped' = 0 /\ UNCHANGED <<compactable, lost>>
    BY <1>3 DEF Send
  <2>2. QED
    BY <1>1, <1>3, <2>1, SendIdle
<1>4. CASE ~Merges(k) /\ k \in {"text", "reasoning", "iter"}
  <2>1. /\ events' = Append(Room, Event(k, Len(sent) + 1))
        /\ compactable' = (IF Room # events THEN compactable ELSE compactable + 1)
        /\ dropped' = (IF Room # events THEN dropped + 1 ELSE dropped)
        /\ lost' = (IF Room # events THEN lost + 1 ELSE lost)
    BY <1>4 DEF Send
  <2>2. QED
    BY <1>1, <1>4, <2>1, SendPresentation
<1>5. CASE ~Merges(k) /\ k = "ask"
  <2>1. events' = Append(events, Event(k, Len(sent) + 1)) /\ UNCHANGED <<compactable, dropped, lost>>
    BY <1>5 DEF Send
  <2>2. QED
    BY <1>1, <1>5, <2>1, SendAsk
<1>6. QED
  BY <1>2, <1>3, <1>4, <1>5 DEF Kinds

LEMMA IInvKept == IInv /\ [Next]_vars => IInv'
<1> SUFFICES ASSUME IInv, [Next]_vars PROVE IInv'
  OBVIOUS
<1> USE DEF queue, notify, history
<1>1. ASSUME NEW s \in Senders, NEW k \in Kinds, Send(s, k) PROVE IInv'
  BY <1>1, SendStep
<1>2. ASSUME NEW s \in Senders, NotifyOne(s) \/ DropSender(s) \/ NotifyWaiters(s) PROVE IInv'
  BY <1>2, Quiet DEF NotifyOne, DropSender, NotifyWaiters
<1>3. ASSUME NEW s \in Senders, NEW t \in Senders, Clone(s, t) PROVE IInv'
  BY <1>3, Quiet DEF Clone
<1>4. CASE TryRecv
  BY <1>4, PopStep DEF TryRecv
<1>5. CASE RecvTry
  <2>1. CASE Pop
    BY <1>5, <2>1, PopStep DEF RecvTry
  <2>2. CASE UNCHANGED <<queue, got>>
    BY <1>5, <2>2, Quiet DEF RecvTry
  <2>3. QED
    BY <1>5, <2>1, <2>2 DEF RecvTry
<1>6. CASE RecvStart \/ RecvCheck \/ RecvAwait
  BY <1>6, Quiet DEF RecvStart, RecvCheck, RecvAwait
<1>7. CASE DropReceiver
  BY <1>7, Dropped
<1>8. CASE Over \/ UNCHANGED vars
  BY <1>8, Quiet DEF Over, vars
<1>9. QED
  BY <1>1, <1>2, <1>3, <1>4, <1>5, <1>6, <1>7, <1>8 DEF Next, Consume

-----------------------------------------------------------------------------
(* The theorem.                                                            *)

\* What the host reads is what the producers sent, in order and with every
\* structural event, whatever the cap evicted; the evictions it is told of and
\* those still to announce are all there were; the counter is exact (event.rs).
THEOREM QueueSoundAlways == Spec => []QueueSound
<1>1. IInv => QueueSound
  <2> SUFFICES ASSUME IInv PROVE QueueSound
    OBVIOUS
  <2>1. OrderPreserved
    BY DEF IInv, OrderPreserved, Ascending
  <2>2. StructuralKept
    BY DEF IInv, StructuralKept, Keeps
  <2>3. CounterExact
    BY DEF IInv, Counted, CounterExact, Presented
  <2>4. LossAnnounced
    BY DEF IInv
  <2>5. QED
    BY <2>1, <2>2, <2>3, <2>4 DEF QueueSound
<1>2. Init => IInv
  BY InitIInv
<1>3. IInv /\ [Next]_vars => IInv'
  BY IInvKept
<1>4. QED
  BY <1>1, <1>2, <1>3, PTL DEF Spec
=============================================================================
