--------------------------- MODULE MCIntentRouter ----------------------------
(* Instances of IntentRouter for TLC. *)
EXTENDS IntentRouter, TLC

CONSTANTS w1, w2, i1, i2

(* Two of the three default intents: the order of more adds nothing. *)
MCDefaults == <<"memory.prune", "memory.recall">>

MCSymmetry == Permutations(Workers) \cup Permutations(Ids)
=============================================================================
