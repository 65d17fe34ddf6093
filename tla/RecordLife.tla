------------------------------ MODULE RecordLife ------------------------------
(***************************************************************************)
(* What the Memory Vault promises about each of its records, with one      *)
(* shared transaction and no workers, tenants or plans in sight:           *)
(*                                                                         *)
(*    new --> written --> durable --> erased --> gone                      *)
(*                                                                         *)
(* A commit takes every written and every erased record one step on; the   *)
(* loss of a transaction takes both back, so that a written record is gone *)
(* and an erased one durable again.  A record that is gone stays gone, and *)
(* a durable one never disappears without having been erased.              *)
(***************************************************************************)
CONSTANT Ids

VARIABLE status     \* status[id]: where the record stands

Statuses == {"new", "written", "durable", "erased", "gone"}

Init == status = [id \in Ids |-> "new"]

Write(id) ==
    /\ status[id] = "new"
    /\ status' = [status EXCEPT ![id] = "written"]

Erase(id) ==
    \/ /\ status[id] = "written"
       /\ status' = [status EXCEPT ![id] = "gone"]
    \/ /\ status[id] = "durable"
       /\ status' = [status EXCEPT ![id] = "erased"]

Commit ==
    status' = [id \in Ids |-> CASE status[id] = "written" -> "durable"
                                [] status[id] = "erased"  -> "gone"
                                [] OTHER -> status[id]]

LoseTransaction ==
    status' = [id \in Ids |-> CASE status[id] = "written" -> "gone"
                                [] status[id] = "erased"  -> "durable"
                                [] OTHER -> status[id]]

(* Every step moves some record: an empty transaction is no step at all. *)
Next ==
    /\ status' # status
    /\ \/ \E id \in Ids : Write(id) \/ Erase(id)
       \/ Commit
       \/ LoseTransaction

Spec == Init /\ [][Next]_status
=============================================================================
