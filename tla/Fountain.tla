------------------------------ MODULE Fountain ------------------------------
(***************************************************************************)
(* The erasure code of a DLR cold start: dlr-coding's gf256, fountain and  *)
(* bulk, and the receiver that adds a BULK frame's symbols to a            *)
(* generation's decoder and tries to decode after every frame.             *)
(*                                                                         *)
(* A payload is cut into generations of K symbols; a generation is sent as *)
(* its K symbols and some random combinations of them, and is decoded by   *)
(* peeling symbols that cover one source and solving what is left.  Frames *)
(* are lost, repeated and reordered by the network.                        *)
(*                                                                         *)
(* The field is GF(SIZE) with the construction of the code; the pseudo-    *)
(* random generator and its degree distribution are a choice from Draws.   *)
(***************************************************************************)
EXTENDS Integers, SequencesExt, Bitwise

CONSTANTS
  SIZE,        \* elements of the field: 256 in the code
  POLY,        \* the reducing polynomial: 0x11B in the code
  NIBBLE,      \* 2^(half the bits of an element): 16 in the code
  LANES,       \* elements a vector kernel handles at a time
  K,           \* BulkConfig.gen_size
  S,           \* BulkConfig.symbol_size
  REPAIR,      \* repair symbols of a generation
  Bodies,    \* the payloads to send
  Draws,       \* the covers a repair symbol may have: 1..K -> coefficient, 0 for none
  MaxFrames    \* bound on the BULK frames handled, by the number of generations

Elem == 0..(SIZE - 1)

-----------------------------------------------------------------------------
\* gf256

\* Walking the field with generator 3 = x + 1; the table is doubled.
exp[i \in 0..(2 * SIZE - 2)] ==
  IF i = 0 THEN 1
  ELSE IF i >= SIZE - 1 THEN exp[i - (SIZE - 1)]
  ELSE LET g == exp[i - 1]
           g2 == (2 * g) ^^ (IF 2 * g >= SIZE THEN POLY ELSE 0)
       IN  (g2 ^^ g) % SIZE

log_table == [g \in Elem |-> IF g = 0 THEN 0 ELSE CHOOSE i \in 0..(SIZE - 2) : exp[i] = g]

gf_add == [p \in Elem \X Elem |-> p[1] ^^ p[2]]

gf_mul == [p \in Elem \X Elem |->
             IF p[1] = 0 \/ p[2] = 0 THEN 0 ELSE exp[log_table[p[1]] + log_table[p[2]]]]

gf_inv(a) == IF a = 0 THEN 0 ELSE exp[SIZE - 1 - log_table[a]]

\* What a vector kernel computes from the two tables of mul_nibble_tables.
kernel(a, x) == gf_add[gf_mul[a, x % NIBBLE], gf_mul[a, (x \div NIBBLE) * NIBBLE]]

times(a, x, i, n) == IF i <= n - (n % LANES) THEN kernel(a, x) ELSE gf_mul[a, x]

\* dst[i] ^= a * src[i], as far as both reach.
axpy(dst, a, src) ==
  LET n == IF Len(src) < Len(dst) THEN Len(src) ELSE Len(dst)
  IN  [i \in 1..Len(dst) |->
        IF i > n THEN dst[i]
        ELSE gf_add[dst[i], IF a = 1 THEN src[i] ELSE times(a, src[i], i, n)]]

\* Mutant of scal: the coefficient is not divided out.
scal_skipped(a, dst) == dst

scal(a, dst) ==
  [i \in 1..Len(dst) |-> IF a = 1 THEN dst[i] ELSE times(a, dst[i], i, Len(dst))]

\* gf_gauss_eliminate: the reduced matrix and its rank over the first k columns.
gf_gauss_eliminate(rows, k) ==
  FoldLeft(LAMBDA acc, col :
    LET mat == acc.mat
        below == {r \in (acc.rank + 1)..Len(mat) : mat[r][col] # 0}
    IN  IF below = {} THEN acc
        ELSE LET p == CHOOSE r \in below : \A q \in below : r <= q
                 swapped == [mat EXCEPT ![acc.rank + 1] = mat[p], ![p] = mat[acc.rank + 1]]
                 prow == scal(gf_inv(swapped[acc.rank + 1][col]), swapped[acc.rank + 1])
             IN  [rank |-> acc.rank + 1,
                  mat |-> [r \in 1..Len(mat) |->
                             IF r = acc.rank + 1 THEN prow
                             ELSE axpy(swapped[r], swapped[r][col], prow)]],
    [rank |-> 0, mat |-> rows], [c \in 1..k |-> c])

-----------------------------------------------------------------------------
\* The encoder

gens(payload) ==
  LET syms == (Len(payload) + S - 1) \div S
  IN  (syms + K - 1) \div K

\* The i-th source symbol of generation g: a slice of the padded payload.
src(payload, g, i) ==
  [j \in 1..S |->
     LET at == ((g - 1) * K + (i - 1)) * S + j
     IN  IF at <= Len(payload) THEN payload[at] ELSE 0]

\* A symbol on the wire: which sources it covers, with their coefficients.
CodedSymbol(cover, data) == [cover |-> cover, data |-> data]

systematic(payload, g, i) ==
  CodedSymbol([c \in 1..K |-> IF c = i THEN 1 ELSE 0], src(payload, g, i))

repair_symbol(payload, g, cover) ==
  CodedSymbol(cover,
    FoldLeft(LAMBDA acc, i : axpy(acc, cover[i], src(payload, g, i)),
             [j \in 1..S |-> 0], [i \in 1..K |-> i]))

produce(payload, g, covers) ==
  [n \in 1..(K + REPAIR) |->
     IF n <= K THEN systematic(payload, g, n)
     ELSE repair_symbol(payload, g, covers[n - K])]

-----------------------------------------------------------------------------
\* The decoder

Covered(sym) == {i \in 1..K : sym.cover[i] # 0}

\* A revealed source is <<x>>, a hidden one <<>>.
Hidden == <<>>

\* The symbols whose degree a source revealed by si brings down.
Hit(st, si, target) ==
  {sj \in DOMAIN st.syms : sj # si /\ st.degree[sj] # 0 /\ target \in Covered(st.syms[sj])}

\* A symbol of degree one gives its source x away; the source is then taken out
\* of every other symbol.  The symbol keeps its cover, and its payload is moved out.
Reveal(st, si, target, x, hit) ==
  [syms |-> [sj \in DOMAIN st.syms |->
       IF sj = si THEN [st.syms[sj] EXCEPT !.data = <<>>]
       ELSE IF sj \in hit
       THEN CodedSymbol([st.syms[sj].cover EXCEPT ![target] = 0],
                        axpy(st.syms[sj].data, st.syms[sj].cover[target], x))
       ELSE st.syms[sj]],
   revealed |-> [st.revealed EXCEPT ![target] = <<x>>],
   degree |-> [sj \in DOMAIN st.syms |->
                 IF sj = si THEN 0 ELSE st.degree[sj] - (IF sj \in hit THEN 1 ELSE 0)],
   queue |-> Tail(st.queue)
     \o SelectSeq([n \in DOMAIN st.syms |-> n], LAMBDA n : n \in hit /\ st.degree[n] = 2)]

RevealFirst(st, si, target) ==
  Reveal(st, si, target, scal(gf_inv(st.syms[si].cover[target]), st.syms[si].data), Hit(st, si, target))

\* One pop of the queue.
RECURSIVE Peel(_)
Peel(st) ==
  IF st.queue = <<>> THEN st
  ELSE
    LET si == Head(st.queue)
        open == {i \in Covered(st.syms[si]) : st.revealed[i] = Hidden}
    IN  Peel(IF st.degree[si] = 0 THEN [st EXCEPT !.queue = Tail(@)]
             ELSE IF open = {} THEN [st EXCEPT !.queue = Tail(@), !.degree[si] = 0]
             ELSE RevealFirst(st, si, CHOOSE i \in open : TRUE))

\* The rows of what peeling left: symbols with a payload and a hidden source.
residual(st, unknowns) ==
  LET left == SelectSeq(st.syms, LAMBDA sym :
                sym.data # <<>> /\ \E i \in Covered(sym) : st.revealed[i] = Hidden)
  IN  [n \in DOMAIN left |->
         [c \in 1..Len(unknowns) |-> left[n].cover[unknowns[c]]] \o left[n].data]

Underdetermined == [ok |-> FALSE, out |-> <<>>]

Unknowns(st) == SelectSeq([i \in 1..K |-> i], LAMBDA i : st.revealed[i] = Hidden)

\* The sources, revealed or solved for.
Solution(st, unknowns, solved) ==
  IF solved.rank < Len(unknowns) THEN Underdetermined
  ELSE [ok |-> TRUE,
        out |-> [i \in 1..K |->
                   IF st.revealed[i] # Hidden THEN st.revealed[i][1]
                   ELSE SubSeq(solved.mat[CHOOSE c \in DOMAIN unknowns : unknowns[c] = i],
                               Len(unknowns) + 1, Len(unknowns) + S)]]

Eliminate(st, unknowns) ==
  Solution(st, unknowns, gf_gauss_eliminate(residual(st, unknowns), Len(unknowns)))

\* peel_symbols: what it returns, and what it leaves of the symbols.
Peeled(st) == [syms |-> st.syms, result |-> Eliminate(st, Unknowns(st))]

peel_symbols(syms) ==
  LET degree == [n \in DOMAIN syms |-> Cardinality(Covered(syms[n]))]
  IN  Peeled(Peel([syms |-> syms, revealed |-> [i \in 1..K |-> Hidden], degree |-> degree,
                   queue |-> SelectSeq([n \in DOMAIN syms |-> n], LAMBDA n : degree[n] = 1)]))

decode(syms) ==
  IF Len(syms) < K THEN [syms |-> syms, result |-> Underdetermined] ELSE peel_symbols(syms)

-----------------------------------------------------------------------------
VARIABLES
  data,       \* the payload being sent
  wire,       \* per generation, the symbols the encoder produced
  decoder,    \* per generation, FountainDecoder.syms
  fed,        \* per generation, the symbols fed to the decoder it has now, by index
  whole,      \* per generation, whether the last decode began with every payload in place
  got,        \* per generation, the last answer of decode
  frames,     \* BULK frames handled
  batch       \* the answer of bulk::decode, or Waiting

fountainVars == <<data, wire, decoder, fed, whole, got, frames, batch>>

Gens == 1..gens(data)
Waiting == [ok |-> FALSE, out |-> <<0>>]

\* bulk::encode: every generation is produced on its own.
FountainInit ==
  /\ data \in Bodies
  /\ \E covers \in [Gens -> [1..REPAIR -> Draws]] :
       wire = [g \in Gens |-> produce(data, g, covers[g])]
  /\ decoder = [g \in Gens |-> <<>>]
  /\ fed = [g \in Gens |-> {}]
  /\ whole = [g \in Gens |-> TRUE]
  /\ got = [g \in Gens |-> Underdetermined]
  /\ frames = 0
  /\ batch = Waiting

\* handle_bulk: a frame's symbols are added and decode is tried; a decoder that
\* succeeded is dropped.
handle_bulk(g, some) ==
  \E syms \in {decoder[g] \o [n \in DOMAIN some |-> wire[g][some[n]]]} :
    \E d \in {decode(syms)} :
      /\ got' = [got EXCEPT ![g] = d.result]
      /\ decoder' = [decoder EXCEPT ![g] = IF d.result.ok THEN <<>> ELSE d.syms]
      /\ fed' = [fed EXCEPT ![g] = @ \cup ToSet(some)]
      /\ whole' = [whole EXCEPT ![g] = \A n \in DOMAIN syms : syms[n].data # <<>>]

\* A frame with some of a generation's symbols arrives.  A generation that was
\* decoded is left alone: a late frame starts a decoder of its own, as the first.
BulkFrame ==
  \E g \in Gens, some \in SUBSET (1..(K + REPAIR)) :
    /\ some # {} /\ frames < MaxFrames[gens(data)] /\ batch = Waiting /\ ~ got[g].ok
    /\ frames' = frames + 1
    /\ handle_bulk(g, SetToSortSeq(some, <))
    /\ UNCHANGED <<data, wire, batch>>

\* bulk::decode on whatever arrived: the generations seen, in order of their
\* numbers, each with a decoder of its own, cut to the original length.  One that
\* is lost whole is not missed: the next one takes its place.
Arrived(g, some) == [n \in 1..Cardinality(some) |-> wire[g][SetToSortSeq(some, <)[n]]]

Cut(all) == SubSeq(all, 1, IF Len(all) < Len(data) THEN Len(all) ELSE Len(data))

Joined(parts) ==
  IF \E n \in DOMAIN parts : ~ parts[n].ok THEN Underdetermined
  ELSE [ok |-> TRUE, out |-> Cut(FlattenSeq([n \in DOMAIN parts |-> FlattenSeq(parts[n].out)]))]

Seen(some) == SetToSortSeq({g \in Gens : some[g] # {}}, <)

bulk_decode(some) ==
  LET seen == Seen(some)
  IN  Joined([n \in DOMAIN seen |-> decode(Arrived(seen[n], some[seen[n]])).result])

BulkDecode ==
  \E some \in [Gens -> SUBSET (1..(K + REPAIR))] :
    /\ batch = Waiting /\ frames = 0
    /\ batch' = bulk_decode(some)
    /\ fed' = some
    /\ UNCHANGED <<data, wire, decoder, whole, got, frames>>

FountainNext == BulkFrame \/ BulkDecode

FountainSpec == FountainInit /\ [][FountainNext]_fountainVars

-----------------------------------------------------------------------------
\* The sources of generation g.
Source(g) == [i \in 1..K |-> src(data, g, i)]

\* Whether the symbols fed for g leave one solution: no combination of sources
\* other than zero is invisible to all of them.
Determined(g) ==
  \A v \in [1..K -> Elem] :
    (\A n \in fed[g] :
       FoldLeft(LAMBDA acc, i : gf_add[acc, gf_mul[wire[g][n].cover[i], v[i]]], 0, [i \in 1..K |-> i]) = 0)
    => \A i \in 1..K : v[i] = 0

\* Which symbols were lost does not matter: whenever those that arrived
\* determine the generation, decode gives exactly what was sent, by peeling,
\* elimination or both, and otherwise it says so, at a first attempt and at every
\* later one as long as the failed ones moved no payload out; and a batch gives
\* the sources of the generations it saw, which is the payload without its
\* padding unless one was lost whole (peel_symbols, decode, bulk::decode).
DecodesWhatWasSent ==
  /\ \A g \in Gens : whole[g] /\ fed[g] # {} /\ batch = Waiting =>
       /\ got[g].ok <=> Determined(g)
       /\ got[g].ok => got[g].out = Source(g)
  /\ batch # Waiting =>
       /\ batch.ok <=> \A n \in DOMAIN Seen(fed) : Determined(Seen(fed)[n])
       /\ batch.ok => batch.out = Cut(FlattenSeq([n \in DOMAIN Seen(fed) |->
                                               FlattenSeq(Source(Seen(fed)[n]))]))
       /\ batch.ok /\ Len(Seen(fed)) = gens(data) => batch.out = data

\* "receiver decodes once enough arrives, regardless of which were lost": an
\* attempt that came too early does not spoil a later one.
LaterDecodeCorrect == \A g \in Gens : got[g].ok => got[g].out = Source(g)
=============================================================================
