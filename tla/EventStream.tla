----------------------------- MODULE EventStream -----------------------------
(***************************************************************************)
(* What dispatching promises about the stream of events, without routers,  *)
(* workers or counters: a store with one pending state, where dispatches   *)
(*                                                                         *)
(*    run their handler, write a record once, make it an event, answer.    *)
(*                                                                         *)
(* The handler runs before there is a record, and the record is on disk    *)
(* before it becomes an event.  A commit keeps all that is visible; a      *)
(* rollback takes back all that is not kept, and so does a crash, which    *)
(* ends every dispatch under way.  An answer is given for an event that is *)
(* kept, or for a record that is spoilt: deleted, or hit by a rollback.    *)
(***************************************************************************)
CONSTANT Ids

VARIABLES
    phase,      \* phase[i]: how far dispatch i is
    visible,    \* visible[i]: what its record is in the pending state
    kept,       \* kept[i]: what it is on disk
    spoilt,     \* dispatches whose record was deleted or rolled back
    answered    \* dispatches that were answered

vars == <<phase, visible, kept, spoilt, answered>>

Init ==
    /\ phase = [i \in Ids |-> "new"]
    /\ visible = [i \in Ids |-> "none"] /\ kept = [i \in Ids |-> "none"]
    /\ spoilt = {} /\ answered = {}

Handle(i) ==
    /\ phase[i] = "new"
    /\ phase' = [phase EXCEPT ![i] = "handled"]
    /\ UNCHANGED <<visible, kept, spoilt, answered>>

Write(i) ==
    /\ phase[i] = "handled"
    /\ phase' = [phase EXCEPT ![i] = "written"]
    /\ visible' = [visible EXCEPT ![i] = "record"]
    /\ UNCHANGED <<kept, spoilt, answered>>

Tag(i) ==
    /\ visible[i] = "record" /\ kept[i] = "record"
    /\ visible' = [visible EXCEPT ![i] = "event"]
    /\ UNCHANGED <<phase, kept, spoilt, answered>>

Erase(i) ==
    /\ visible[i] # "none"
    /\ visible' = [visible EXCEPT ![i] = "none"]
    /\ spoilt' = spoilt \cup {i}
    /\ UNCHANGED <<phase, kept, answered>>

Commit ==
    /\ kept' = visible
    /\ UNCHANGED <<phase, visible, spoilt, answered>>

(* A commit may come with the answer. *)
Answer(i) ==
    /\ phase[i] = "written"
    /\ kept' \in {kept, visible}
    /\ kept'[i] = "event" \/ i \in spoilt
    /\ answered' = answered \cup {i}
    /\ UNCHANGED <<phase, visible, spoilt>>

RollBack ==
    /\ visible' = kept
    /\ spoilt' = spoilt \cup {i \in Ids : visible[i] # kept[i]}
    /\ UNCHANGED <<phase, kept, answered>>

Crash ==
    /\ visible' = kept
    /\ UNCHANGED <<phase, kept, spoilt, answered>>

Next ==
    \/ \E i \in Ids : Handle(i) \/ Write(i) \/ Tag(i) \/ Erase(i) \/ Answer(i)
    \/ Commit
    \/ RollBack
    \/ Crash

Spec == Init /\ [][Next]_vars
=============================================================================
