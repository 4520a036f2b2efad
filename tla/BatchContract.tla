--------------------------- MODULE BatchContract ---------------------------
(***************************************************************************)
(* What the agent loop relies on when it hands a batch of tool calls to    *)
(* execute_batch: every call settles exactly once, the host is told about  *)
(* each settlement exactly once, and when the batch closes - because it    *)
(* ran to its end, or because the turn was cancelled or ran out of time -  *)
(* there is one answer per call, in call order, equal to what the host was *)
(* told.                                                                   *)
(***************************************************************************)
EXTENDS Naturals, Sequences

\* The four variants of ToolResultBody (rc-core/src/turn.rs).
Bodies == {"ok", "error", "denied", "interrupted"}

VARIABLES
  size,     \* number of calls of the batch
  open,     \* TRUE until the batch hands over its answers
  told,     \* told[i]: the bodies the host was told for call i
  answers   \* the answers handed over, in call order

contractVars == <<size, open, told, answers>>

Init ==
  /\ size \in Nat
  /\ open = TRUE
  /\ told = [i \in 1..size |-> <<>>]
  /\ answers = <<>>

\* A set of calls settle while the batch is open.
Settle ==
  /\ open
  /\ \E S \in SUBSET (1..size), b \in [1..size -> Bodies] :
       /\ \A i \in S : told[i] = <<>>
       /\ told' = [i \in 1..size |-> IF i \in S THEN <<b[i]>> ELSE told[i]]
  /\ UNCHANGED <<size, open, answers>>

\* Whatever has not settled yet settles now, and the answers are handed over.
Close ==
  /\ open
  /\ open' = FALSE
  /\ answers' \in [1..size -> Bodies]
  /\ \A i \in 1..size : told[i] \in {<<>>, <<answers'[i]>>}
  /\ told' = [i \in 1..size |-> <<answers'[i]>>]
  /\ UNCHANGED size

Next == Settle \/ Close

Spec == Init /\ [][Next]_contractVars
=============================================================================
