----------------------------- MODULE Inference -------------------------------
(***************************************************************************)
(* The inference kernel (core/kernel/inference/router.py): which models a  *)
(* completion tries, and in which order.  A model is named by its part of  *)
(* the alias the code uses, a message by what extract_intent looks at.     *)
(***************************************************************************)
EXTENDS Naturals, Sequences

CONSTANT Messages   \* messages, as records of what extract_intent looks at

\* "mini" is openrouter/openai/gpt-4o-mini, "direct" is openai/gpt-4o-mini.
MODEL_MAP == [research |-> "auto", code |-> "sonnet", simple |-> "mini", default |-> "mini"]

FALLBACK_CHAIN == <<"mini", "direct">>

(* An intent type outside the map, none included, gets the default model. *)
SelectModel(intent) ==
    MODEL_MAP[IF intent \in DOMAIN MODEL_MAP THEN intent ELSE "default"]

\* research, code: the message has a keyword of the class; short: at most six words
ASSUME MessagesAssumption ==
    Messages \subseteq [research : BOOLEAN, code : BOOLEAN, short : BOOLEAN]

(* Keywords come before length, and research before code. *)
ExtractIntent(m) ==
    IF m.research THEN "research"
    ELSE IF m.code THEN "code"
    ELSE IF m.short THEN "simple" ELSE "research"

(* What complete() goes through; the same model may come twice. *)
Chain(intent) == <<SelectModel(intent)>> \o FALLBACK_CHAIN

Models == {"auto", "sonnet", "mini", "direct"}

=============================================================================
