----------------------------- MODULE MemoryVault -----------------------------
(***************************************************************************)
(* The Memory Vault (core/kernel/memory/vault.py) as the routers use it    *)
(* (api/routers/memory.py, and AutonomyEngine.record through create()).    *)
(*                                                                         *)
(* FastAPI runs the synchronous handlers on a pool of worker threads, and  *)
(* all of them share the vault's one sqlite3 connection                    *)
(* (check_same_thread=False).  A statement is atomic; a handler is not.    *)
(* The connection has at most one open transaction, so rows written by one *)
(* worker are visible to the others before anyone commits, and a commit by *)
(* one worker makes the pending rows of all of them durable.               *)
(*                                                                         *)
(* A row is abstracted to its identifier and its owner: content, tags and  *)
(* created_at do not matter to what is claimed here.                       *)
(***************************************************************************)
EXTENDS Integers, FiniteSets

CONSTANTS
    Workers,            \* threads of the request pool
    Tenants,            \* tenants that exist in the directory
    MemoryIds,          \* values secrets.token_hex may draw
    Plans,              \* plan names a tenant may carry, known or not
    PLAN_RECORD_CAPS,   \* cap of each plan of the ladder
    None,               \* "no value" for the locals of an idle worker
    MaxFaults           \* bound on process crashes and failing statements

ASSUME VaultAssumption ==
    /\ IsFiniteSet(Workers) /\ Workers # {}
    /\ "free" \in DOMAIN PLAN_RECORD_CAPS
    /\ \A p \in DOMAIN PLAN_RECORD_CAPS : PLAN_RECORD_CAPS[p] \in Nat \ {0}
    /\ None \notin Tenants \cup MemoryIds
    /\ MaxFaults \in Nat

VARIABLES
    plan,       \* plan[t]: the tenant's plan in the auth directory
    live,       \* rows the shared connection sees, committed or not
    disk,       \* rows a process started now would find
    owner,      \* owner[id]: tenant_id column of a row
    used,       \* identifiers already drawn
    pc,         \* pc[w]: where the handler on worker w stands
    caller,     \* caller[w]: tenant of the request on worker w
    cap,        \* cap[w]: local variable of create()
    target,     \* target[w]: memory_id the request works on
    faults,     \* crashes and failing statements so far
    stored,     \* history: identifiers returned by a successful create
    removed,    \* history: identifiers whose delete answered "deleted"
    gone,       \* history: identifiers a DELETE statement ever matched
    undone,     \* history: identifiers whose pending change was rolled back
    allowed     \* history: allowed[t], largest cap t was ever entitled to

rowVars  == <<live, disk, owner, used>>
callVars == <<pc, caller, cap, target>>
histVars == <<stored, removed, gone, undone, allowed>>
vars     == <<plan, rowVars, callVars, faults, histVars>>

-----------------------------------------------------------------------------
(* A plan name outside the ladder counts as the free plan. *)
Cap(p) == IF p \in DOMAIN PLAN_RECORD_CAPS THEN PLAN_RECORD_CAPS[p]
                                          ELSE PLAN_RECORD_CAPS["free"]

RowsOf(rows, t) == {id \in rows : owner[id] = t}

(* Mutant of HasRoom: `count > cap` raises instead of `count >= cap`. *)
HasRoomOffByOne(w) == Cardinality(RowsOf(live, caller[w])) <= cap[w]

HasRoom(w) == Cardinality(RowsOf(live, caller[w])) < cap[w]

(* Mutant of Matches: the DELETE forgets `AND tenant_id = ?`. *)
MatchesAnyTenant(t, id) == id \in live

Matches(t, id) == id \in live /\ owner[id] = t

Idle(w) ==
    /\ pc'     = [pc EXCEPT ![w] = "idle"]
    /\ caller' = [caller EXCEPT ![w] = None]
    /\ cap'    = [cap EXCEPT ![w] = 0]
    /\ target' = [target EXCEPT ![w] = None]

Init ==
    /\ plan \in [Tenants -> Plans]
    /\ live = {} /\ disk = {} /\ used = {}
    /\ owner = [id \in MemoryIds |-> None]
    /\ pc = [w \in Workers |-> "idle"]
    /\ caller = [w \in Workers |-> None]
    /\ cap = [w \in Workers |-> 0]
    /\ target = [w \in Workers |-> None]
    /\ faults = 0
    /\ stored = {} /\ removed = {} /\ gone = {} /\ undone = {}
    /\ allowed = [t \in Tenants |-> Cap(plan[t])]

-----------------------------------------------------------------------------
(* AuthService.set_plan changes the plan while requests are running. *)
SetPlan(t, p) ==
    /\ plan[t] # p
    /\ plan' = [plan EXCEPT ![t] = p]
    /\ allowed' = [allowed EXCEPT ![t] = IF Cap(p) > @ THEN Cap(p) ELSE @]
    /\ UNCHANGED <<rowVars, callVars, faults, stored, removed, gone, undone>>

(* A create request reads the plan, then enters create() with it. *)
BeginCreate(w, t) ==
    /\ pc[w] = "idle"
    /\ pc' = [pc EXCEPT ![w] = "create"]
    /\ caller' = [caller EXCEPT ![w] = t]
    /\ cap' = [cap EXCEPT ![w] = Cap(plan[t])]
    /\ UNCHANGED <<plan, rowVars, target, faults, histVars>>

(* SELECT COUNT( * ), and the comparison with the cap that follows it. *)
CountRoom(w) ==
    /\ pc[w] = "create"
    /\ HasRoom(w)
    /\ pc' = [pc EXCEPT ![w] = "counted"]
    /\ UNCHANGED <<plan, rowVars, caller, cap, target, faults, histVars>>

(* VaultFullError: answered with 402, nothing is written. *)
CountFull(w) ==
    /\ pc[w] = "create"
    /\ ~HasRoom(w)
    /\ Idle(w)
    /\ UNCHANGED <<plan, rowVars, faults, histVars>>

(* Mutant of InsertRow: an identifier that is free now is used again. *)
InsertReusing(w) ==
    /\ pc[w] = "counted"
    /\ \E id \in MemoryIds \ live :
        /\ live' = live \cup {id}
        /\ used' = used \cup {id}
        /\ owner' = [owner EXCEPT ![id] = caller[w]]
        /\ target' = [target EXCEPT ![w] = id]
    /\ pc' = [pc EXCEPT ![w] = "inserted"]
    /\ UNCHANGED <<plan, disk, caller, cap, faults, histVars>>

(* Mutant of InsertRow: the tenant_id column is left unset. *)
InsertWithoutOwner(w) ==
    /\ pc[w] = "counted"
    /\ \E id \in MemoryIds \ used :
        /\ live' = live \cup {id}
        /\ used' = used \cup {id}
        /\ target' = [target EXCEPT ![w] = id]
    /\ pc' = [pc EXCEPT ![w] = "inserted"]
    /\ UNCHANGED <<plan, disk, owner, caller, cap, faults, histVars>>

(* The INSERT opens the shared transaction, or joins the one that is open. *)
InsertRow(w) ==
    /\ pc[w] = "counted"
    /\ \E id \in MemoryIds \ used :
        /\ live' = live \cup {id}
        /\ used' = used \cup {id}
        /\ owner' = [owner EXCEPT ![id] = caller[w]]
        /\ target' = [target EXCEPT ![w] = id]
    /\ pc' = [pc EXCEPT ![w] = "inserted"]
    /\ UNCHANGED <<plan, disk, caller, cap, faults, histVars>>

(* Mutant of CommitCreate: create() returns without commit(). *)
CreateWithoutCommit(w) ==
    /\ pc[w] = "inserted"
    /\ stored' = stored \cup {target[w]}
    /\ Idle(w)
    /\ UNCHANGED <<plan, rowVars, faults, removed, gone, undone, allowed>>

(* commit() writes out everything pending, and the record is returned. *)
CommitCreate(w) ==
    /\ pc[w] = "inserted"
    /\ disk' = live
    /\ stored' = stored \cup {target[w]}
    /\ Idle(w)
    /\ UNCHANGED <<plan, live, owner, used, faults, removed, gone, undone, allowed>>

(* DELETE ... WHERE memory_id = ? AND tenant_id = ? *)
DeleteRow(w, t, id) ==
    /\ pc[w] = "idle"
    /\ Matches(t, id)
    /\ live' = live \ {id}
    /\ gone' = gone \cup {id}
    /\ pc' = [pc EXCEPT ![w] = "deleted"]
    /\ caller' = [caller EXCEPT ![w] = t]
    /\ target' = [target EXCEPT ![w] = id]
    /\ UNCHANGED <<plan, disk, owner, used, cap, faults, stored, removed, undone, allowed>>

(* The same statement for an identifier no row of the tenant has: it opens  *)
(* a transaction, or joins the one that is open, and changes nothing.       *)
DeleteMisses(w) ==
    /\ pc[w] = "idle"
    /\ pc' = [pc EXCEPT ![w] = "missed"]
    /\ UNCHANGED <<plan, rowVars, caller, cap, target, faults, histVars>>

(* Mutant of CommitDelete: delete() returns without commit(). *)
DeleteWithoutCommit(w) ==
    /\ pc[w] \in {"deleted", "missed"}
    /\ removed' = IF pc[w] = "deleted" THEN removed \cup {target[w]} ELSE removed
    /\ Idle(w)
    /\ UNCHANGED <<plan, rowVars, faults, stored, gone, undone, allowed>>

(* commit(), then rowcount decides between "deleted" and 404. *)
CommitDelete(w) ==
    /\ pc[w] \in {"deleted", "missed"}
    /\ disk' = live
    /\ removed' = IF pc[w] = "deleted" THEN removed \cup {target[w]} ELSE removed
    /\ Idle(w)
    /\ UNCHANGED <<plan, live, owner, used, faults, stored, gone, undone, allowed>>

(* The INSERT raises: another process holds the write lock for too long, or *)
(* two workers both issued the implicit BEGIN.  Answered with 500.          *)
InsertRaises(w) ==
    /\ pc[w] = "counted"
    /\ Idle(w)
    /\ UNCHANGED <<plan, rowVars, faults, histVars>>

(* commit() raises: it saw an open transaction, but another worker's commit *)
(* closed it before the COMMIT ran.  The request ends with 500 although     *)
(* its statement is durable.                                                *)
CommitRaises(w) ==
    /\ pc[w] \in {"inserted", "deleted", "missed"}
    /\ disk = live
    /\ Idle(w)
    /\ UNCHANGED <<plan, rowVars, faults, histVars>>

(* A statement of worker w hits a full disk or an I/O error.  SQLite then   *)
(* rolls the whole transaction back, which takes the pending changes of     *)
(* every other worker with it; only w learns of it (500).                   *)
StatementRollsBack(w) ==
    /\ faults < MaxFaults
    /\ faults' = faults + 1
    /\ live' = disk
    /\ undone' = undone \cup (live \ disk) \cup (disk \ live)
    /\ Idle(w)
    /\ UNCHANGED <<plan, disk, owner, used, stored, removed, gone, allowed>>

(* The process dies and is started again on the same file. *)
Crash ==
    /\ faults < MaxFaults
    /\ faults' = faults + 1
    /\ live' = disk
    /\ pc' = [w \in Workers |-> "idle"]
    /\ caller' = [w \in Workers |-> None]
    /\ cap' = [w \in Workers |-> 0]
    /\ target' = [w \in Workers |-> None]
    /\ UNCHANGED <<plan, disk, owner, used, histVars>>

WorkerStep(w) ==
    \/ \E t \in Tenants : BeginCreate(w, t)
    \/ CountRoom(w)
    \/ CountFull(w)
    \/ InsertRow(w)
    \/ CommitCreate(w)
    \/ \E t \in Tenants, id \in MemoryIds : DeleteRow(w, t, id)
    \/ DeleteMisses(w)
    \/ CommitDelete(w)
    \/ InsertRaises(w)
    \/ CommitRaises(w)
    \/ StatementRollsBack(w)

Next ==
    \/ \E w \in Workers : WorkerStep(w)
    \/ \E t \in Tenants, p \in Plans : SetPlan(t, p)
    \/ Crash

Spec == Init /\ [][Next]_vars

-----------------------------------------------------------------------------
(* Types of the variables; every stored row has a tenant. *)
TypeOK ==
    /\ plan \in [Tenants -> Plans]
    /\ live \subseteq used /\ disk \subseteq used /\ used \subseteq MemoryIds
    /\ owner \in [MemoryIds -> Tenants \cup {None}]
    /\ \A id \in used : owner[id] \in Tenants
    /\ pc \in [Workers -> {"idle", "create", "counted", "inserted", "deleted", "missed"}]
    /\ caller \in [Workers -> Tenants \cup {None}]
    /\ \A w \in Workers : pc[w] \in {"create", "counted"} => caller[w] \in Tenants
    /\ cap \in [Workers -> Nat]
    /\ target \in [Workers -> MemoryIds \cup {None}]
    /\ \A w \in Workers : pc[w] \in {"inserted", "deleted"} => target[w] \in used
    /\ faults \in 0..MaxFaults
    /\ stored \subseteq used /\ removed \subseteq used
    /\ gone \subseteq used /\ undone \subseteq used
    /\ allowed \in [Tenants -> Nat]

(* "Durable": a record create() has returned survives every crash, unless a *)
(* DELETE statement has matched it, although rows are written and committed *)
(* by different workers.  The one exception the shared transaction leaves:  *)
(* a failing statement of another worker undid the insert before its commit.*)
AckedCreateDurable == stored \subseteq disk \cup gone \cup undone

(* A record whose delete was answered "deleted" never comes back, neither   *)
(* to the running process nor after a crash, with the same exception.       *)
AckedDeleteFinal == removed \cap (live \cup disk) \subseteq undone

(* Count and insert are two statements, so create() can exceed the cap; it  *)
(* exceeds it by less than one record per worker, however long it runs.     *)
OvershootBounded ==
    \A t \in Tenants :
        Cardinality(RowsOf(live, t)) <= allowed[t] + Cardinality(Workers) - 1

(* Tenant isolation: a row disappears from the connection's view only by a  *)
(* DELETE its own tenant issued, or by a fault before it was committed.     *)
OnlyOwnerDeletes ==
    [][\A id \in live \ live' :
         \/ faults' # faults /\ id \notin disk
         \/ \E w \in Workers :
              pc[w] = "idle" /\ pc'[w] = "deleted"
              /\ target'[w] = id /\ caller'[w] = owner[id]]_vars

(* Where a record stands, from what the connection and the file hold. *)
Status(id) ==
    CASE id \notin used                -> "new"
      [] id \in live /\ id \notin disk -> "written"
      [] id \in live /\ id \in disk    -> "durable"
      [] id \notin live /\ id \in disk -> "erased"
      [] OTHER                         -> "gone"

Life == INSTANCE RecordLife
            WITH Ids <- MemoryIds, status <- [id \in MemoryIds |-> Status(id)]

(* The vault implements the life cycle of records: workers that insert,     *)
(* delete and commit on one connection, crashes and rollbacks never make a  *)
(* durable record vanish, and never bring one back that is gone.            *)
RecordsLiveOnce == Life!Spec

=============================================================================
