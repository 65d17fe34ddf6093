---------------------------- MODULE AuthDirectory ----------------------------
(***************************************************************************)
(* The directory of tenants and users: register_tenant, add_user, set_plan *)
(* and the two reads of a login, authenticate and create_token, of         *)
(* AuthService (core/auth/service.py) over the two backends of             *)
(* default_store (core/kernel/memory/store.py).                            *)
(*                                                                         *)
(* Every operation loads the whole directory, changes it and stores it     *)
(* again, on a pool of worker threads and without a lock.  What a change   *)
(* does depends on the backend: RedisStore.get decodes a copy of its own,  *)
(* InMemoryStore.get returns the one dict everybody shares, and an absent  *)
(* directory becomes a fresh dict that nobody shares until it is stored.   *)
(* Directories are therefore objects, and workers hold references.         *)
(*                                                                         *)
(* A user is reduced to its tenant, a tenant to its plan: names, password  *)
(* hashes and roles do not matter to what is claimed here.                 *)
(***************************************************************************)
EXTENDS Integers, FiniteSets

CONSTANTS
    Workers,    \* threads of the request pool
    Boot,       \* the object an in-memory store in use holds at the start
    Emails,     \* addresses users register with
    TenantIds,  \* values secrets.token_hex may draw
    Plans,      \* plan names clients send; register does not validate them
    PlanNames,  \* keys of PLAN_LIMITS
    Backends,   \* backends default_store may pick
    None

ASSUME DirectoryAssumption ==
    /\ Boot \notin Workers
    /\ None \notin TenantIds \cup Plans \cup Workers \cup {Boot}
    /\ Backends \subseteq {"memory", "redis"}

Objects == Workers \cup {Boot}

VARIABLES
    backend,    \* the store the running process picked
    db,         \* what Redis holds under auth:directory, None when absent
    root,       \* what the in-memory store holds: an object, or None
    heap,       \* heap[o]: contents of directory object o
    ref,        \* ref[w]: local variable directory of the call on worker w
    pc,         \* pc[w]: where the call on worker w stands
    call,       \* call[w]: operation and arguments of that call
    drawn,      \* tenant ids drawn so far
    acked,      \* history: users the API said it created, by backend
    twice,      \* history: addresses registered twice in one store
    warm        \* history: this process has had a directory in memory from the start

vars == <<backend, db, root, heap, ref, pc, call, drawn, acked, twice, warm>>

-----------------------------------------------------------------------------
Directories == [tenants : [TenantIds -> Plans \cup {None}],
                users   : [Emails -> TenantIds \cup {None}]]

ASSUME NoneAssumption == None \notin Directories

Empty == [tenants |-> [t \in TenantIds |-> None], users |-> [e \in Emails |-> None]]

NoCall == [op |-> "none", email |-> None, tenant |-> None, plan |-> None]

(* The directory as a new request would see it. *)
Stored == IF backend = "redis" THEN db ELSE IF root = None THEN None ELSE heap[root]

(* The directory object of the call on w. *)
Mine(w) == heap[ref[w]]

Mutate(w, dir) == heap' = [heap EXCEPT ![ref[w]] = dir]

Finish(w) ==
    /\ pc' = [pc EXCEPT ![w] = "idle"]
    /\ ref' = [ref EXCEPT ![w] = None]
    /\ call' = [call EXCEPT ![w] = NoCall]

Start(newDb, newRoot, newHeap) ==
    /\ db = newDb /\ root = newRoot /\ heap = newHeap
    /\ ref = [w \in Workers |-> None]
    /\ pc = [w \in Workers |-> "idle"]
    /\ call = [w \in Workers |-> NoCall]
    /\ acked = {} /\ twice = {}

(* Nobody has registered yet. *)
ColdInit ==
    /\ backend \in Backends
    /\ drawn = {} /\ warm = FALSE
    /\ Start(None, None, [o \in Objects |-> Empty])

(* The in-memory store already holds a tenant with its admin. *)
WarmInit ==
    /\ backend = "memory" /\ backend \in Backends /\ warm = TRUE
    /\ \E t \in TenantIds, e \in Emails, p \in Plans :
        /\ drawn = {t}
        /\ Start(None, Boot, [o \in Objects |->
              IF o = Boot THEN [tenants |-> [Empty.tenants EXCEPT ![t] = p],
                                users   |-> [Empty.users EXCEPT ![e] = t]]
                          ELSE Empty])

Init == ColdInit \/ WarmInit

-----------------------------------------------------------------------------
(* Mutant of Load: an absent directory is not replaced by an empty one. *)
LoadRaw(w) ==
    IF backend = "memory" /\ root # None
    THEN /\ ref' = [ref EXCEPT ![w] = root]
         /\ UNCHANGED heap
    ELSE /\ ref' = [ref EXCEPT ![w] = w]
         /\ heap' = [heap EXCEPT ![w] = Stored]

(* Mutant of Load: the in-memory store hands out copies as well. *)
LoadCopy(w) ==
    /\ ref' = [ref EXCEPT ![w] = w]
    /\ heap' = [heap EXCEPT ![w] = IF Stored = None THEN Empty ELSE Stored]

(* self._directory(): a reference to the shared dict, or a dict of one's own. *)
Load(w) ==
    IF backend = "memory" /\ root # None
    THEN /\ ref' = [ref EXCEPT ![w] = root]
         /\ UNCHANGED heap
    ELSE /\ ref' = [ref EXCEPT ![w] = w]
         /\ heap' = [heap EXCEPT ![w] = IF Stored = None THEN Empty ELSE Stored]

Begin(w, c) ==
    /\ pc[w] = "idle"
    /\ Load(w)
    /\ pc' = [pc EXCEPT ![w] = "loaded"]
    /\ call' = [call EXCEPT ![w] = c]
    /\ UNCHANGED <<backend, db, root, drawn, acked, twice, warm>>

BeginRegister(w, e, p) ==
    Begin(w, [op |-> "register", email |-> e, tenant |-> None, plan |-> p])

(* The tenant comes from the admin's token, which outlives a restart. *)
BeginAddUser(w, e, t) ==
    /\ t \in drawn
    /\ Begin(w, [op |-> "add_user", email |-> e, tenant |-> t, plan |-> None])

(* An unknown plan is refused before the directory is loaded. *)
BeginSetPlan(w, t, p) ==
    /\ t \in drawn /\ p \in PlanNames
    /\ Begin(w, [op |-> "set_plan", email |-> None, tenant |-> t, plan |-> p])

(* POST /auth/token: the password is checked against the directory. *)
BeginLogin(w, e) ==
    Begin(w, [op |-> "login", email |-> e, tenant |-> None, plan |-> None])

(* Mutant of Refused: the address is not looked up. *)
RefusedWithoutLookup(w) ==
    /\ call[w].op \in {"add_user", "set_plan"}
    /\ Mine(w).tenants[call[w].tenant] = None

(* Mutant of Refused: add_user trusts the tenant of the token. *)
RefusedByAddress(w) ==
    \/ /\ call[w].op \in {"register", "add_user"}
       /\ Mine(w).users[call[w].email] # None
    \/ /\ call[w].op = "set_plan"
       /\ Mine(w).tenants[call[w].tenant] = None

(* 409 for a known address, 404 for an unknown tenant. *)
Refused(w) ==
    \/ /\ call[w].op \in {"register", "add_user"}
       /\ Mine(w).users[call[w].email] # None
    \/ /\ call[w].op \in {"add_user", "set_plan"}
       /\ Mine(w).tenants[call[w].tenant] = None

(* A login is refused with 401: an unknown address, or a wrong password. *)
Refuse(w) ==
    /\ pc[w] = "loaded"
    /\ Refused(w) \/ call[w].op = "login"
    /\ Finish(w)
    /\ UNCHANGED <<backend, db, root, heap, drawn, acked, twice, warm>>

(* The checks pass; register draws its tenant id. *)
Accept(w) ==
    /\ pc[w] = "loaded"
    /\ call[w].op # "login" /\ ~Refused(w)
    /\ IF call[w].op = "register"
       THEN \E t \in TenantIds \ drawn :
                /\ drawn' = drawn \cup {t}
                /\ call' = [call EXCEPT ![w].tenant = t]
       ELSE UNCHANGED <<drawn, call>>
    /\ pc' = [pc EXCEPT ![w] = IF call[w].op = "register" THEN "new" ELSE "accepted"]
    /\ UNCHANGED <<backend, db, root, heap, ref, acked, twice, warm>>

(* directory["tenants"][tenant_id] = ...; the password is hashed after it. *)
PutTenant(w) ==
    /\ pc[w] = "new"
    /\ Mutate(w, [Mine(w) EXCEPT !.tenants[call[w].tenant] = call[w].plan])
    /\ pc' = [pc EXCEPT ![w] = "accepted"]
    /\ UNCHANGED <<backend, db, root, ref, call, drawn, acked, twice, warm>>

(* directory["users"][email] = ... *)
PutUser(w) ==
    /\ pc[w] = "accepted" /\ call[w].op \in {"register", "add_user"}
    /\ Mutate(w, [Mine(w) EXCEPT !.users[call[w].email] = call[w].tenant])
    /\ pc' = [pc EXCEPT ![w] = "changed"]
    /\ UNCHANGED <<backend, db, root, ref, call, drawn, acked, twice, warm>>

(* tenant["plan"] = plan *)
PutPlan(w) ==
    /\ pc[w] = "accepted" /\ call[w].op = "set_plan"
    /\ Mutate(w, [Mine(w) EXCEPT !.tenants[call[w].tenant] = call[w].plan])
    /\ pc' = [pc EXCEPT ![w] = "changed"]
    /\ UNCHANGED <<backend, db, root, ref, call, drawn, acked, twice, warm>>

(* self._save(directory): the whole directory replaces what was stored. *)
Save(w) ==
    /\ pc[w] = "changed"
    /\ IF backend = "redis"
       THEN db' = Mine(w) /\ UNCHANGED root
       ELSE root' = ref[w] /\ UNCHANGED db
    /\ pc' = [pc EXCEPT ![w] = "saved"]
    /\ UNCHANGED <<backend, heap, ref, call, drawn, acked, twice, warm>>

(* The response is read from the directory object once more. *)
Respond(w) ==
    LET c == call[w]
    IN  /\ pc[w] = "saved"
        /\ IF c.op = "set_plan"
           THEN UNCHANGED <<acked, twice>>
           ELSE /\ acked' = acked \cup {[backend |-> backend, email |-> c.email,
                                         tenant |-> Mine(w).users[c.email]]}
                /\ twice' = IF \E a \in acked : a.backend = backend /\ a.email = c.email
                            THEN twice \cup {c.email} ELSE twice
        /\ Finish(w)
        /\ UNCHANGED <<backend, db, root, heap, drawn, warm>>

(* authenticate returns the user; only its address goes on to create_token. *)
Authenticate(w) ==
    /\ pc[w] = "loaded" /\ call[w].op = "login"
    /\ Mine(w).users[call[w].email] # None
    /\ pc' = [pc EXCEPT ![w] = "checked"]
    /\ UNCHANGED <<backend, db, root, heap, ref, call, drawn, acked, twice, warm>>

(* The user is in the directory that create_token reads by itself. *)
StillThere(e) == Stored # None /\ Stored.users[e] # None

IssueToken(w) ==
    /\ pc[w] = "checked" /\ StillThere(call[w].email)
    /\ Finish(w)
    /\ UNCHANGED <<backend, db, root, heap, drawn, acked, twice, warm>>

(* A KeyError: the route answers 500 to a password it has just accepted. *)
TokenRaises(w) ==
    /\ pc[w] = "checked" /\ ~StillThere(call[w].email)
    /\ Finish(w)
    /\ UNCHANGED <<backend, db, root, heap, drawn, acked, twice, warm>>

(* The process restarts and picks a backend; memory forgets. *)
Restart ==
    /\ backend' \in Backends
    /\ root' = None
    /\ heap' = [o \in Objects |-> Empty]
    /\ ref' = [w \in Workers |-> None]
    /\ pc' = [w \in Workers |-> "idle"]
    /\ call' = [w \in Workers |-> NoCall]
    /\ acked' = {a \in acked : a.backend = "redis"}
    /\ warm' = FALSE
    /\ UNCHANGED <<db, drawn, twice>>

WorkerStep(w) ==
    \/ \E e \in Emails, p \in Plans : BeginRegister(w, e, p)
    \/ \E e \in Emails, t \in TenantIds : BeginAddUser(w, e, t)
    \/ \E t \in TenantIds, p \in Plans : BeginSetPlan(w, t, p)
    \/ \E e \in Emails : BeginLogin(w, e)
    \/ Refuse(w)
    \/ Accept(w)
    \/ PutTenant(w)
    \/ PutUser(w)
    \/ PutPlan(w)
    \/ Save(w)
    \/ Respond(w)
    \/ Authenticate(w)
    \/ IssueToken(w)
    \/ TokenRaises(w)

Next == (\E w \in Workers : WorkerStep(w)) \/ Restart

Spec == Init /\ [][Next]_vars

-----------------------------------------------------------------------------
(* Types: what a store, an object or a call may hold under either backend. *)
TypeOK ==
    /\ backend \in Backends
    /\ db \in Directories \cup {None}
    /\ root \in Objects \cup {None}
    /\ heap \in [Objects -> Directories]
    /\ ref \in [Workers -> Objects \cup {None}]
    /\ pc \in [Workers -> {"idle", "loaded", "new", "accepted", "changed", "saved", "checked"}]
    /\ call \in [Workers -> [op : {"none", "register", "add_user", "set_plan", "login"},
                             email : Emails \cup {None}, tenant : TenantIds \cup {None},
                             plan : Plans \cup {None}]]
    /\ drawn \subseteq TenantIds
    /\ acked \subseteq [backend : Backends, email : Emails \cup {None},
                         tenant : TenantIds \cup {None}]
    /\ twice \subseteq Emails \cup {None} /\ warm \in BOOLEAN

Consistent(dir) == \A e \in Emails : dir.users[e] # None => dir.tenants[dir.users[e]] # None

(* Every user of a directory has its tenant in the same directory: in the   *)
(* store, in Redis, and in whatever a worker is still holding.  Otherwise   *)
(* the user could log in and then find no tenant on each metered call.      *)
UsersHaveTenants ==
    /\ db # None => Consistent(db)
    /\ \A o \in Objects : Consistent(heap[o])

(* A registration reaches Redis as a whole: no crash and no race leaves a   *)
(* tenant there that no user belongs to.                                    *)
NoOrphanInRedis ==
    db # None => \A t \in TenantIds :
        db.tenants[t] # None => \E e \in Emails : db.users[e] = t

(* "POST /auth/register - create tenant + admin user (201)": a user the API *)
(* said it created, and its tenant, are in the store it was created in.     *)
AckedKept ==
    \A a \in acked :
        LET dir == IF a.backend = "redis" THEN db
                   ELSE IF root = None THEN Empty ELSE heap[root]
        IN  dir.users[a.email] # None /\ dir.tenants[a.tenant] # None

(* The second registration of an address is refused with 409. *)
EmailRegisteredOnce == twice = {}

(* As long as a process lives whose in-memory directory was in use already, *)
(* no race between its workers loses a user the API said it created, or the *)
(* tenant of one: all of them change the one shared object.                 *)
WarmStoreKeepsAcked == warm => AckedKept

(* In that life a login whose password was accepted gets its token: the     *)
(* user authenticate returned is still there at create_token's own read,    *)
(* whatever the other workers store in between.                             *)
WarmLoginsGetTokens ==
    warm => \A w \in Workers : pc[w] = "checked" => StillThere(call[w].email)

(* The plan of t in the in-memory store. *)
PlanOf(t) == IF root = None THEN None ELSE heap[root].tenants[t]

(* In the same life a tenant's stored plan changes only by a set_plan call  *)
(* for that tenant, so no registration undoes anybody's upgrade, however    *)
(* long ago it loaded the directory.                                        *)
WarmPlanChangedBySetPlan ==
    [][warm /\ warm' => \A t \in TenantIds :
         PlanOf(t)' # PlanOf(t) /\ PlanOf(t) # None =>
            \E w \in Workers : /\ pc'[w] # pc[w] /\ call[w].op = "set_plan"
                               /\ call[w].tenant = t /\ PlanOf(t)' = call[w].plan]_vars

=============================================================================
