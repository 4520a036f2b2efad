------------------------------- MODULE MCWire -------------------------------
(***************************************************************************)
(* What lies between the agent loop and the model, for TLC.  The parts     *)
(* share no state: a behaviour is one of the provider client (with tool    *)
(* calls in the streams, or with reasoning tags in the text), of a DLR     *)
(* chat between shim and receiver, of the sidecar's store with its log, of *)
(* the filter that finds known blocks, of the mountain range over the log, *)
(* or of a fountain-coded transfer, chosen at the start; the other parts   *)
(* rest in one initial state.                                              *)
(***************************************************************************)
EXTENDS MCFountain, Dedup, Provider, DlrChat, DlrStore, Mmr

VARIABLE part

(* Provider: the lines of a stream; of two calls the second stays open.    *)
Plain(k) == [kind |-> k]
MCLines ==
  {Plain(k) : k \in {"text", "blank", "think", "unthink", "reasoning", "usage", "bad"}}
    \cup {[kind |-> "tool", i |-> t[1], frag |-> t[2]] :
             t \in {<<1, "open">>, <<1, "close">>, <<2, "open">>}}
    \cup [kind : {"finish"}, reason : {"stop", "tool_calls"}]

\* what the lines of a body are, by part
LinesOf == [calls |-> {l \in MCLines : l.kind \in {"text", "bad", "tool", "finish"}},
            tags |-> {Plain(k) : k \in {"text", "blank", "think", "unthink", "reasoning", "usage"}}
                       \cup {[kind |-> "finish", reason |-> "stop"]}]
OfItsLines == Range(said') \cup {buf'} \subseteq LinesOf[part] \cup {NoLine}

-----------------------------------------------------------------------------
wireVars == <<part, providerVars, chatVars, storeVars, dedupVars, mmrVars, fountainVars>>

Init ==
  /\ part \in {"calls", "tags", "chat", "store", "dedup", "mmr", "fountain"}
  /\ ChatInit /\ StoreInit /\ DedupInit /\ MmrInit
  /\ ProviderInit /\ IF part = "calls" THEN gzip = (dlr # "required") ELSE ~gzip /\ dlr = "off"
  /\ FountainInit /\ (part # "fountain" =>
                        Gens = {1} /\ \A n \in 1..REPAIR : wire[1][K + n].cover = <<2, 1, 0>>)

Next ==
  /\ part' = part
  /\ \/ part \in DOMAIN LinesOf /\ ProviderNext /\ OfItsLines /\ UNCHANGED <<chatVars, storeVars, dedupVars, mmrVars, fountainVars>>
     \/ part = "chat" /\ ChatNext /\ UNCHANGED <<providerVars, storeVars, dedupVars, mmrVars, fountainVars>>
     \/ part = "store" /\ StoreNext /\ UNCHANGED <<providerVars, chatVars, dedupVars, mmrVars, fountainVars>>
     \/ part = "dedup" /\ DedupNext /\ UNCHANGED <<providerVars, chatVars, storeVars, mmrVars, fountainVars>>
     \/ part = "mmr" /\ MmrNext /\ UNCHANGED <<providerVars, chatVars, storeVars, dedupVars, fountainVars>>
     \/ part = "fountain" /\ FountainNext /\ UNCHANGED <<providerVars, chatVars, storeVars, dedupVars, mmrVars>>

Spec == Init /\ [][Next]_wireVars

(* DlrStore: two sessions that share a block.                              *)
SomeBatches == [s \in Sessions |-> IF s = "s" THEN {<<"b">>, <<"a", "b">>} ELSE {<<"a">>}]

(* Dedup: four buckets of one slot that may become eight, ids that share a *)
(* fingerprint or a bucket; the multiplier has the low bits of the code's. *)
SomeHash == [id \in DedupIds |-> id]
SomeFpHash == [fp \in 1..(FPS - 1) |-> (3 * fp) % FPS]
=============================================================================
