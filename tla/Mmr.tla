--------------------------------- MODULE Mmr ---------------------------------
(***************************************************************************)
(* The Merkle Mountain Range beside the log (dlr core mmr.rs): perfect     *)
(* trees in a shared arena that is only ever appended to, their merges     *)
(* when a leaf is appended, inclusion proofs and their check.  A hash is   *)
(* the term it is the hash of.                                             *)
(***************************************************************************)
EXTENDS Naturals, Sequences, SequencesExt

CONSTANTS LeafIds, MaxLeaves

VARIABLES
  trees,     \* Mmr.trees: root (arena index), height, base
  arena,     \* Mmr.arena: hash and the indices of the children, 0 for none
  leafIds,   \* ghost: the ids appended
  roots      \* ghost: the root after each append
mmrVars == <<trees, arena, leafIds, roots>>

leaf_h(id) == <<"L", id>>
parent(left, right) == <<"M", left, right>>
leaf_range(t) == t.base..(t.base + 2^t.height - 1)

MmrInit == trees = <<>> /\ arena = <<>> /\ leafIds = <<>> /\ roots = <<>>

\* Mutant of Merged: the range of the merged tree begins at its right half.
MergedRight(p, t, at) == [root |-> at, height |-> p.height + 1, base |-> t.base]

Merged(p, t, at) == [root |-> at, height |-> p.height + 1, base |-> p.base]

\* append: while the last tree has the new one's height, the two become the
\* children of a new node.
RECURSIVE Merge(_, _, _)
Merge(ts, ar, t) ==
  IF ts = <<>> \/ Last(ts).height # t.height THEN [trees |-> Append(ts, t), arena |-> ar]
  ELSE LET p == Last(ts)
           node == [hash |-> parent(ar[p.root].hash, ar[t.root].hash), left |-> p.root, right |-> t.root]
       IN  Merge(Front(ts), Append(ar, node), Merged(p, t, Len(ar) + 1))

\* root: the peaks, bagged from the left.
root_of(ts, ar) ==
  IF ts = <<>> THEN <<"Z">>
  ELSE FoldLeft(LAMBDA acc, t : parent(acc, ar[t.root].hash), ar[Head(ts).root].hash, Tail(ts))

AppendLeaf(id) ==
  /\ Len(leafIds) < MaxLeaves
  /\ LET ar == Append(arena, [hash |-> leaf_h(id), left |-> 0, right |-> 0])
         m == Merge(trees, ar, [root |-> Len(ar), height |-> 0, base |-> Len(leafIds)])
     IN  /\ trees' = m.trees /\ arena' = m.arena
         /\ roots' = Append(roots, root_of(m.trees, m.arena))
  /\ leafIds' = Append(leafIds, id)

MmrNext == \E id \in LeafIds : AppendLeaf(id)
MmrSpec == MmrInit /\ [][MmrNext]_mmrVars

-----------------------------------------------------------------------------
\* The walk from the peak down to the leaf: the siblings passed, leaf first.
RECURSIVE Walk(_, _, _)
Walk(node, height, leaf) ==
  IF height = 0 THEN <<>>
  ELSE LET half == 2^(height - 1)
           n == arena[node]
       IN  IF leaf < half THEN Append(Walk(n.left, height - 1, leaf), <<arena[n.right].hash, FALSE>>)
           ELSE Append(Walk(n.right, height - 1, leaf - half), <<arena[n.left].hash, TRUE>>)

Covering(i) == SelectSeq(trees, LAMBDA t : i \in leaf_range(t))

inclusion_proof(i) ==
  LET ts == Covering(i) IN
  IF ts = <<>> THEN <<>> ELSE Walk(ts[1].root, ts[1].height, i - ts[1].base)

peak_from_proof(id, proof) ==
  FoldLeft(LAMBDA acc, p : IF p[2] THEN parent(p[1], acc) ELSE parent(acc, p[1]), leaf_h(id), proof)

verify_inclusion(i, id) ==
  Covering(i) # <<>> /\ peak_from_proof(id, inclusion_proof(i)) = arena[Covering(i)[1].root].hash

-----------------------------------------------------------------------------
\* After any appends, position i is proved to hold an id exactly if that id was
\* appended there; no position beyond the log is proved to hold anything; and no
\* two lengths of the log have the same root.
ProofsExact ==
  /\ \A i \in 0..Len(leafIds), id \in LeafIds :
       verify_inclusion(i, id) <=> i < Len(leafIds) /\ leafIds[i + 1] = id
  /\ \A i, j \in DOMAIN roots : roots[i] = roots[j] => i = j
=============================================================================
