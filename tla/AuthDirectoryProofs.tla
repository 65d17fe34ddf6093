------------------------- MODULE AuthDirectoryProofs -------------------------
(***************************************************************************)
(* Proofs, for any number of workers, addresses and tenants and for both   *)
(* backends.                                                               *)
(*   CallInv     what the arguments of a running call look like;           *)
(*   PrivateInv  until something is stored in memory, and always on Redis, *)
(*               a worker holds an object of its own;                      *)
(*   UserInv     every object is consistent, and a call about to enter a   *)
(*               user holds an object that has the tenant already;         *)
(*   WarmInv     once a directory is stored in memory, all calls of that   *)
(*               life share it, and it holds every acknowledged user;      *)
(*   FreshInv    tenants about to be entered there are new and distinct;   *)
(*   OrphanInv   on Redis, the only tenant without a user in a worker's    *)
(*               copy is the one its own registration has just entered;    *)
(*   SerialInv   with a single worker, its object is the stored directory  *)
(*               with the changes of its own call.                         *)
(***************************************************************************)
EXTENDS AuthDirectory, TLAPS

CallInv ==
    \A w \in Workers :
        /\ pc[w] # "idle" => ref[w] \in Objects /\ call[w].op # "none"
        /\ pc[w] # "idle" /\ call[w].op # "set_plan" => call[w].email \in Emails
        /\ pc[w] # "idle" /\ call[w].op \in {"add_user", "set_plan"} =>
              call[w].tenant \in TenantIds
        /\ pc[w] # "idle" /\ call[w].op \in {"register", "set_plan"} => call[w].plan \in Plans
        /\ pc[w] \in {"new", "accepted", "changed", "saved"} =>
              call[w].tenant \in TenantIds /\ call[w].op # "login"
        /\ pc[w] = "checked" => call[w].op = "login"
        /\ pc[w] = "new" => call[w].op = "register"

PrivateInv ==
    /\ root # None => backend = "memory"
    /\ root = None => \A w \in Workers : ref[w] \in {w, None}

Basic == TypeOK /\ CallInv /\ PrivateInv

LEMMA DirectoryType == Empty \in Directories
  BY DEF Empty, Directories

LEMMA StoredType ==
    ASSUME TypeOK PROVE Stored \in Directories \cup {None}
  BY DEF TypeOK, Stored

(* A write into one's directory object keeps it a directory. *)
LEMMA MutateType ==
    ASSUME TypeOK, NEW w \in Workers, ref[w] \in Objects,
           NEW t \in TenantIds \cup {None}, NEW p \in Plans \cup {None}, NEW e
    PROVE  /\ [Mine(w) EXCEPT !.tenants[t] = p] \in Directories
           /\ [Mine(w) EXCEPT !.users[e] = t] \in Directories
<1>1. Mine(w) \in Directories
  BY DEF TypeOK, Mine
<1>2. QED
  BY <1>1 DEF Directories

LEMMA InitBasic ==
    ASSUME Init PROVE Basic /\ db = None /\ \A o \in Objects : Consistent(heap[o])
<1>1. Consistent(Empty)
  BY DEF Consistent, Empty
<1>2. CASE ColdInit
  BY <1>1, <1>2, DirectoryType
     DEF ColdInit, Start, Basic, TypeOK, CallInv, PrivateInv, NoCall
<1>3. CASE WarmInit
  <2>1. PICK t \in TenantIds, e \in Emails, p \in Plans :
          /\ drawn = {t}
          /\ Start(None, Boot, [o \in Objects |->
              IF o = Boot THEN [tenants |-> [Empty.tenants EXCEPT ![t] = p],
                                users   |-> [Empty.users EXCEPT ![e] = t]]
                          ELSE Empty])
    BY <1>3 DEF WarmInit
  <2> DEFINE B == [tenants |-> [Empty.tenants EXCEPT ![t] = p],
                   users   |-> [Empty.users EXCEPT ![e] = t]]
  <2>2. B \in Directories /\ Consistent(B)
    BY DirectoryAssumption DEF Empty, Directories, Consistent
  <2>3. /\ heap = [o \in Objects |-> IF o = Boot THEN B ELSE Empty]
        /\ backend = "memory" /\ backend \in Backends /\ warm = TRUE
        /\ db = None /\ root = Boot /\ acked = {} /\ twice = {}
        /\ ref = [w \in Workers |-> None] /\ pc = [w \in Workers |-> "idle"]
        /\ call = [w \in Workers |-> NoCall]
    BY <1>3, <2>1 DEF WarmInit, Start
  <2> HIDE DEF B
  <2>4. QED
    BY <1>1, <2>1, <2>2, <2>3, DirectoryType, DirectoryAssumption
       DEF Basic, TypeOK, CallInv, PrivateInv, NoCall, Objects
<1>4. QED
  BY <1>2, <1>3 DEF Init

LEMMA BasicBegin ==
    ASSUME Basic, NEW w \in Workers, NEW c, Begin(w, c),
           c \in [op : {"register", "add_user", "set_plan", "login"},
                  email : Emails \cup {None}, tenant : TenantIds \cup {None},
                  plan : Plans \cup {None}],
           c.op # "set_plan" => c.email \in Emails,
           c.op \in {"add_user", "set_plan"} => c.tenant \in TenantIds,
           c.op \in {"register", "set_plan"} => c.plan \in Plans
    PROVE  Basic'
<1> USE DEF Basic, TypeOK, CallInv, PrivateInv, Objects
<1>1. /\ backend' = backend /\ db' = db /\ root' = root /\ drawn' = drawn
      /\ acked' = acked /\ twice' = twice /\ warm' = warm
      /\ pc' = [pc EXCEPT ![w] = "loaded"] /\ call' = [call EXCEPT ![w] = c]
  BY DEF Begin
<1>2. CASE backend = "memory" /\ root # None
  BY <1>1, <1>2 DEF Begin, Load
<1>3. CASE ~(backend = "memory" /\ root # None)
  <2>1. /\ ref' = [ref EXCEPT ![w] = w]
        /\ heap' = [heap EXCEPT ![w] = IF Stored = None THEN Empty ELSE Stored]
    BY <1>3 DEF Begin, Load
  <2>2. heap' \in [Objects -> Directories]
    BY <2>1, StoredType, DirectoryType
  <2>3. QED
    BY <1>1, <2>1, <2>2
<1>4. QED
  BY <1>2, <1>3

(* The end of a login touches nothing but the worker's own call. *)
LEMMA LoginEnds ==
    ASSUME NEW w \in Workers, IssueToken(w) \/ TokenRaises(w)
    PROVE  pc[w] = "checked" /\ Finish(w)
           /\ UNCHANGED <<backend, db, root, heap, drawn, acked, twice, warm>>
  BY DEF IssueToken, TokenRaises

LEMMA BasicStep == Basic /\ [Next]_vars => Basic'
<1> SUFFICES ASSUME Basic, [Next]_vars PROVE Basic'
  OBVIOUS
<1>1. ASSUME NEW w \in Workers, NEW e \in Emails, NEW p \in Plans, BeginRegister(w, e, p)
      PROVE  Basic'
  BY <1>1, BasicBegin DEF BeginRegister
<1>2. ASSUME NEW w \in Workers, NEW e \in Emails, NEW t \in TenantIds, BeginAddUser(w, e, t)
      PROVE  Basic'
  BY <1>2, BasicBegin DEF BeginAddUser
<1>3. ASSUME NEW w \in Workers, NEW t \in TenantIds, NEW p \in Plans, BeginSetPlan(w, t, p)
      PROVE  Basic'
  BY <1>3, BasicBegin DEF BeginSetPlan
<1>14. ASSUME NEW w \in Workers, NEW e \in Emails, BeginLogin(w, e) PROVE Basic'
  BY <1>14, BasicBegin DEF BeginLogin
<1> USE DEF Basic, TypeOK, CallInv, PrivateInv
<1>15. ASSUME NEW w \in Workers, Authenticate(w) PROVE Basic'
  BY <1>15 DEF Authenticate
<1>16. ASSUME NEW w \in Workers, IssueToken(w) \/ TokenRaises(w) PROVE Basic'
  BY SMTT(30), <1>16, LoginEnds DEF Finish, NoCall
<1>4. ASSUME NEW w \in Workers, Refuse(w) PROVE Basic'
  BY <1>4 DEF Refuse, Finish, NoCall
<1>5. ASSUME NEW w \in Workers, Accept(w) PROVE Basic'
  BY <1>5 DEF Accept
<1>6. ASSUME NEW w \in Workers, PutTenant(w) PROVE Basic'
  <2>1. heap' \in [Objects -> Directories]
    BY <1>6, MutateType DEF PutTenant, Mutate
  <2>2. QED
    BY <1>6, <2>1 DEF PutTenant
<1>7. ASSUME NEW w \in Workers, PutUser(w) PROVE Basic'
  <2>1. heap' \in [Objects -> Directories]
    BY <1>7, MutateType DEF PutUser, Mutate
  <2>2. QED
    BY <1>7, <2>1 DEF PutUser
<1>8. ASSUME NEW w \in Workers, PutPlan(w) PROVE Basic'
  <2>1. heap' \in [Objects -> Directories]
    BY <1>8, MutateType DEF PutPlan, Mutate
  <2>2. QED
    BY <1>8, <2>1 DEF PutPlan
<1>9. ASSUME NEW w \in Workers, Save(w) PROVE Basic'
  <2>1. /\ ref[w] \in Objects /\ ref[w] # None
        /\ Mine(w) \in Directories
    BY <1>9, DirectoryAssumption DEF Save, Mine, Objects
  <2>2. CASE backend = "redis"
    BY <1>9, <2>1, <2>2 DEF Save
  <2>3. CASE backend = "memory"
    BY <1>9, <2>1, <2>3 DEF Save
  <2>4. QED
    BY <2>2, <2>3, DirectoryAssumption
<1>10. ASSUME NEW w \in Workers, Respond(w) PROVE Basic'
  <2>1. Mine(w) \in Directories /\ call[w].email \in Emails \cup {None}
    BY <1>10 DEF Respond, Mine
  <2>2. call[w].op # "set_plan" => Mine(w).users[call[w].email] \in TenantIds \cup {None}
    BY <1>10, <2>1 DEF Respond, Directories
  <2>3. /\ acked' \subseteq [backend : Backends, email : Emails \cup {None},
                            tenant : TenantIds \cup {None}]
        /\ twice' \subseteq Emails \cup {None}
    BY <1>10, <2>1, <2>2 DEF Respond
  <2>4. QED
    BY <1>10, <2>3 DEF Respond, Finish, NoCall
<1>11. CASE Restart
  BY <1>11, DirectoryType DEF Restart, NoCall
<1>12. CASE UNCHANGED vars
  BY <1>12 DEF vars
<1>13. QED
  BY <1>1, <1>2, <1>3, <1>4, <1>5, <1>6, <1>7, <1>8, <1>9, <1>10, <1>11,
     <1>12, <1>14, <1>15, <1>16 DEF Next, WorkerStep

(* Directories, objects and calls keep their types in both backends. *)
THEOREM TypeCorrect == Spec => []TypeOK
<1>1. Init => Basic
  BY InitBasic
<1>2. QED
  BY <1>1, BasicStep, PTL DEF Spec, Basic

-----------------------------------------------------------------------------
(* A call about to enter a user works on an object that has the tenant. *)
UserInv ==
    /\ UsersHaveTenants
    /\ \A w \in Workers :
         pc[w] = "accepted" => Mine(w).tenants[call[w].tenant] # None

(* Writing a tenant's plan, or a user of a tenant that is there, into one   *)
(* object keeps all objects consistent and loses no tenant.                 *)
LEMMA TenantWritten ==
    ASSUME Basic, UserInv, NEW w \in Workers, ref[w] \in Objects,
           NEW t \in TenantIds, NEW p \in Plans,
           Mutate(w, [Mine(w) EXCEPT !.tenants[t] = p])
    PROVE  \A o \in Objects :
              /\ Consistent(heap'[o])
              /\ \A u \in TenantIds : heap[o].tenants[u] # None => heap'[o].tenants[u] # None
              /\ heap'[ref[w]].tenants[t] # None
<1>1. Mine(w) \in Directories /\ heap \in [Objects -> Directories] /\ p # None
  BY DirectoryAssumption DEF Basic, TypeOK, Mine
<1>2. heap' = [heap EXCEPT ![ref[w]] = [Mine(w) EXCEPT !.tenants[t] = p]]
  BY DEF Mutate
<1>3. \A o \in Objects : Consistent(heap[o])
  BY DEF UserInv, UsersHaveTenants
<1>4. QED
  BY <1>1, <1>2, <1>3 DEF Consistent, Directories, Mine

LEMMA UserWritten ==
    ASSUME Basic, UserInv, NEW w \in Workers, ref[w] \in Objects,
           NEW t \in TenantIds, NEW e \in Emails, Mine(w).tenants[t] # None,
           Mutate(w, [Mine(w) EXCEPT !.users[e] = t])
    PROVE  \A o \in Objects :
              Consistent(heap'[o]) /\ heap'[o].tenants = heap[o].tenants
<1>1. Mine(w) \in Directories /\ heap \in [Objects -> Directories]
  BY DEF Basic, TypeOK, Mine
<1>2. heap' = [heap EXCEPT ![ref[w]] = [Mine(w) EXCEPT !.users[e] = t]]
  BY DEF Mutate
<1>3. \A o \in Objects : Consistent(heap[o])
  BY DEF UserInv, UsersHaveTenants
<1>4. QED
  BY <1>1, <1>2, <1>3 DEF Consistent, Directories, Mine

LEMMA UserBegin ==
    ASSUME Basic, UserInv, NEW w \in Workers, NEW c, Begin(w, c)
    PROVE  UserInv'
<1> USE DEF UserInv, UsersHaveTenants
<1>1. Consistent(Empty)
  BY DEF Consistent, Empty
<1>2. Stored # None => Consistent(Stored)
  BY DEF Stored, Basic, TypeOK
<1>3. CASE backend = "memory" /\ root # None
  BY <1>3 DEF Begin, Load, Mine, Basic, TypeOK
<1>4. CASE ~(backend = "memory" /\ root # None)
  <2>1. /\ heap' = [heap EXCEPT ![w] = IF Stored = None THEN Empty ELSE Stored]
        /\ ref' = [ref EXCEPT ![w] = w] /\ db' = db
        /\ pc' = [pc EXCEPT ![w] = "loaded"] /\ call' = [call EXCEPT ![w] = c]
    BY <1>4 DEF Begin, Load
  <2>2. \A v \in Workers : pc[v] = "accepted" => ref[v] = v
    BY <1>4, DirectoryAssumption DEF Basic, PrivateInv, CallInv, Objects
  <2>3. \A o \in Objects : Consistent(heap'[o])
    BY <1>1, <1>2, <2>1 DEF Basic, TypeOK
  <2>4. ASSUME NEW v \in Workers, pc'[v] = "accepted"
        PROVE  heap'[ref'[v]].tenants[call'[v].tenant] # None
    <3>1. v # w /\ pc[v] = "accepted"
      BY <2>1, <2>4 DEF Basic, TypeOK
    <3>2. heap'[ref'[v]] = heap[ref[v]] /\ call'[v] = call[v]
      BY <2>1, <2>2, <3>1 DEF Basic, TypeOK
    <3>3. QED
      BY <3>1, <3>2 DEF Mine
  <2>5. QED
    BY <2>1, <2>3, <2>4 DEF Mine
<1>5. QED
  BY <1>3, <1>4

LEMMA UserStep == Basic /\ UserInv /\ [Next]_vars => UserInv'
<1> SUFFICES ASSUME Basic, UserInv, [Next]_vars PROVE UserInv'
  OBVIOUS
<1>1. ASSUME NEW w \in Workers, NEW c, Begin(w, c) PROVE UserInv'
  BY <1>1, UserBegin
<1>2. ASSUME NEW w \in Workers, Refuse(w) PROVE UserInv'
  BY <1>2 DEF Refuse, Finish, UserInv, UsersHaveTenants, Mine, Basic, TypeOK
<1>12. ASSUME NEW w \in Workers, Authenticate(w) \/ IssueToken(w) \/ TokenRaises(w)
       PROVE  UserInv'
  BY <1>12, LoginEnds DEF Authenticate, Finish, UserInv, UsersHaveTenants, Mine, Basic,
                          TypeOK
<1>3. ASSUME NEW w \in Workers, Accept(w) PROVE UserInv'
  <2>1. heap' = heap /\ db' = db /\ ref' = ref
    BY <1>3 DEF Accept
  <2>2. pc'[w] = "accepted" =>
            call'[w] = call[w] /\ Mine(w).tenants[call[w].tenant] # None
    <3>1. CASE call[w].op = "register"
      BY <1>3, <3>1 DEF Accept, Basic, TypeOK
    <3>2. CASE call[w].op \in {"add_user", "set_plan"}
      BY <1>3, <3>2 DEF Accept, Refused
    <3>3. QED
      BY <1>3, <3>1, <3>2 DEF Accept, Basic, TypeOK, CallInv
  <2>3. \A v \in Workers : v # w => pc'[v] = pc[v] /\ call'[v] = call[v]
    BY <1>3 DEF Accept, Basic, TypeOK
  <2>4. QED
    BY <2>1, <2>2, <2>3 DEF UserInv, UsersHaveTenants, Mine
<1>4. ASSUME NEW w \in Workers, PutTenant(w) PROVE UserInv'
  <2>1. /\ ref[w] \in Objects /\ call[w].tenant \in TenantIds /\ call[w].plan \in Plans
        /\ Mutate(w, [Mine(w) EXCEPT !.tenants[call[w].tenant] = call[w].plan])
        /\ db' = db /\ ref' = ref /\ call' = call /\ pc' = [pc EXCEPT ![w] = "accepted"]
    BY <1>4 DEF PutTenant, Basic, CallInv
  <2>2. \A o \in Objects :
            /\ Consistent(heap'[o])
            /\ \A u \in TenantIds : heap[o].tenants[u] # None => heap'[o].tenants[u] # None
            /\ heap'[ref[w]].tenants[call[w].tenant] # None
    BY <2>1, TenantWritten
  <2>3. QED
    BY <2>1, <2>2 DEF UserInv, UsersHaveTenants, Mine, Basic, TypeOK, CallInv
<1>5. ASSUME NEW w \in Workers, PutUser(w) PROVE UserInv'
  <2>1. /\ ref[w] \in Objects /\ call[w].tenant \in TenantIds /\ call[w].email \in Emails
        /\ Mine(w).tenants[call[w].tenant] # None
        /\ Mutate(w, [Mine(w) EXCEPT !.users[call[w].email] = call[w].tenant])
        /\ db' = db /\ ref' = ref /\ call' = call /\ pc' = [pc EXCEPT ![w] = "changed"]
    BY <1>5 DEF PutUser, Basic, CallInv, UserInv
  <2>2. \A o \in Objects : Consistent(heap'[o]) /\ heap'[o].tenants = heap[o].tenants
    BY <2>1, UserWritten
  <2>3. QED
    BY <2>1, <2>2 DEF UserInv, UsersHaveTenants, Mine, Basic, TypeOK, CallInv
<1>6. ASSUME NEW w \in Workers, PutPlan(w) PROVE UserInv'
  <2>1. /\ ref[w] \in Objects /\ call[w].tenant \in TenantIds /\ call[w].plan \in Plans
        /\ Mutate(w, [Mine(w) EXCEPT !.tenants[call[w].tenant] = call[w].plan])
        /\ db' = db /\ ref' = ref /\ call' = call /\ pc' = [pc EXCEPT ![w] = "changed"]
    BY <1>6 DEF PutPlan, Basic, CallInv
  <2>2. \A o \in Objects :
            /\ Consistent(heap'[o])
            /\ \A u \in TenantIds : heap[o].tenants[u] # None => heap'[o].tenants[u] # None
    BY <2>1, TenantWritten
  <2>3. QED
    BY <2>1, <2>2 DEF UserInv, UsersHaveTenants, Mine, Basic, TypeOK, CallInv
<1>7. ASSUME NEW w \in Workers, Save(w) PROVE UserInv'
  <2>1. /\ heap' = heap /\ ref' = ref /\ call' = call /\ pc' = [pc EXCEPT ![w] = "saved"]
        /\ db' \in {db, heap[ref[w]]} /\ ref[w] \in Objects
    BY <1>7 DEF Save, Mine, Basic, CallInv
  <2>2. QED
    BY <2>1 DEF UserInv, UsersHaveTenants, Mine, Basic, TypeOK
<1>8. ASSUME NEW w \in Workers, Respond(w) PROVE UserInv'
  BY <1>8 DEF Respond, Finish, UserInv, UsersHaveTenants, Mine, Basic, TypeOK
<1>9. CASE Restart
  BY <1>9 DEF Restart, UserInv, UsersHaveTenants, Consistent, Empty
<1>10. CASE UNCHANGED vars
  BY <1>10 DEF vars, UserInv, UsersHaveTenants, Mine
<1>11. QED
  BY <1>1, <1>2, <1>3, <1>4, <1>5, <1>6, <1>7, <1>8, <1>9, <1>10, <1>12
     DEF Next, WorkerStep, BeginRegister, BeginAddUser, BeginSetPlan, BeginLogin

(* No interleaving, lost update, crash or change of backend leaves a user   *)
(* without its tenant, in any store or in any worker's hands.               *)
THEOREM UsersAlwaysHaveTenants == Spec => []UsersHaveTenants
<1>1. Init => Basic
  BY InitBasic
<1>2. Init => UserInv
  <2>1. Init => \A w \in Workers : pc[w] = "idle"
    BY DEF Init, ColdInit, WarmInit, Start
  <2>2. QED
    BY <2>1, InitBasic DEF UserInv, UsersHaveTenants
<1>3. QED
  BY <1>1, <1>2, BasicStep, UserStep, PTL DEF Spec, UserInv

-----------------------------------------------------------------------------
HasUser(dir, t) == \E e \in Emails : dir.users[e] = t

(* On Redis a worker's object is a copy of its own, in which every tenant   *)
(* has a user except the one the worker has just entered itself; and until  *)
(* it enters its user, the address is free in that copy.                    *)
OrphanInv ==
    /\ NoOrphanInRedis
    /\ backend = "redis" => \A w \in Workers : pc[w] # "idle" =>
         /\ ref[w] = w
         /\ \A t \in TenantIds : heap[w].tenants[t] # None =>
                \/ HasUser(heap[w], t)
                \/ pc[w] = "accepted" /\ call[w].op = "register" /\ call[w].tenant = t
         /\ pc[w] \in {"new", "accepted"} /\ call[w].op # "set_plan" =>
                heap[w].users[call[w].email] = None
         /\ pc[w] = "accepted" /\ call[w].op # "register" =>
                heap[w].tenants[call[w].tenant] # None

LEMMA OrphanBegin ==
    ASSUME Basic, OrphanInv, NEW w \in Workers, NEW c, Begin(w, c)
    PROVE  OrphanInv'
<1>1. /\ backend' = backend /\ db' = db
      /\ pc' = [pc EXCEPT ![w] = "loaded"] /\ call' = [call EXCEPT ![w] = c]
  BY DEF Begin
<1>2. CASE backend = "redis"
  <2>1. root = None
    BY <1>2 DEF Basic, PrivateInv
  <2>2. /\ ref' = [ref EXCEPT ![w] = w]
        /\ heap' = [heap EXCEPT ![w] = IF db = None THEN Empty ELSE db]
    BY <1>2, <2>1 DEF Begin, Load, Stored
  <2>3. \A t \in TenantIds : heap'[w].tenants[t] # None => HasUser(heap'[w], t)
    BY <2>2 DEF OrphanInv, NoOrphanInRedis, HasUser, Empty, Basic, TypeOK, Objects
  <2>4. QED
    BY <1>1, <2>2, <2>3 DEF OrphanInv, NoOrphanInRedis, Basic, TypeOK, Objects
<1>3. CASE backend # "redis"
  BY <1>1, <1>3 DEF OrphanInv, NoOrphanInRedis
<1>4. QED
  BY <1>2, <1>3

LEMMA OrphanStep == Basic /\ OrphanInv /\ [Next]_vars => OrphanInv'
<1> SUFFICES ASSUME Basic, OrphanInv, [Next]_vars PROVE OrphanInv'
  OBVIOUS
<1> USE DEF OrphanInv, NoOrphanInRedis
<1>1. ASSUME NEW w \in Workers, NEW c, Begin(w, c) PROVE OrphanInv'
  BY <1>1, OrphanBegin
<1>2. ASSUME NEW w \in Workers, Refuse(w) PROVE OrphanInv'
  BY <1>2 DEF Refuse, Finish, Basic, TypeOK
<1>12. ASSUME NEW w \in Workers, Authenticate(w) \/ IssueToken(w) \/ TokenRaises(w)
       PROVE  OrphanInv'
  BY <1>12, LoginEnds DEF Authenticate, Finish, Basic, TypeOK
<1>3. ASSUME NEW w \in Workers, Accept(w) PROVE OrphanInv'
  <2>1. /\ heap' = heap /\ db' = db /\ ref' = ref /\ backend' = backend
        /\ \A v \in Workers : v # w => pc'[v] = pc[v] /\ call'[v] = call[v]
        /\ call'[w].op = call[w].op /\ call'[w].email = call[w].email
        /\ call[w].op # "register" => call'[w] = call[w]
        /\ pc[w] = "loaded"
        /\ pc'[w] = IF call[w].op = "register" THEN "new" ELSE "accepted"
    BY <1>3 DEF Accept, Basic, TypeOK
  <2>2. ASSUME backend = "redis"
        PROVE  /\ call[w].op # "set_plan" => heap[w].users[call[w].email] = None
               /\ call[w].op # "register" => heap[w].tenants[call[w].tenant] # None
    BY <1>3, <2>1, <2>2 DEF Accept, Refused, Mine, Basic, TypeOK, CallInv
  <2>3. QED
    BY <2>1, <2>2
<1>4. ASSUME NEW w \in Workers, PutTenant(w) PROVE OrphanInv'
  <2>1. /\ db' = db /\ ref' = ref /\ backend' = backend /\ call' = call
        /\ pc[w] = "new" /\ pc' = [pc EXCEPT ![w] = "accepted"]
        /\ call[w].op = "register" /\ call[w].tenant \in TenantIds
    BY <1>4 DEF PutTenant, Basic, CallInv
  <2>2. ASSUME backend = "redis"
        PROVE  /\ ref[w] = w
               /\ \A v \in Workers : v # w => heap'[v] = heap[v]
               /\ heap'[w].users = heap[w].users
               /\ \A t \in TenantIds : t # call[w].tenant =>
                     heap'[w].tenants[t] = heap[w].tenants[t]
    <3>1. heap' = [heap EXCEPT ![w] =
                    [heap[w] EXCEPT !.tenants[call[w].tenant] = call[w].plan]]
      BY <1>4, <2>1, <2>2 DEF PutTenant, Mutate, Mine
    <3>2. heap[w] \in Directories
      BY DEF Basic, TypeOK, Objects
    <3>3. QED
      BY <2>1, <2>2, <3>1, <3>2 DEF Directories, Basic, TypeOK, Objects
  <2>3. QED
    BY <2>1, <2>2 DEF HasUser, Basic, TypeOK
<1>5. ASSUME NEW w \in Workers, PutUser(w) PROVE OrphanInv'
  <2>1. /\ db' = db /\ ref' = ref /\ backend' = backend /\ call' = call
        /\ pc[w] = "accepted" /\ pc' = [pc EXCEPT ![w] = "changed"]
        /\ call[w].op # "set_plan"
        /\ call[w].tenant \in TenantIds /\ call[w].email \in Emails
    BY <1>5 DEF PutUser, Basic, CallInv
  <2>2. ASSUME backend = "redis"
        PROVE  /\ ref[w] = w
               /\ \A v \in Workers : v # w => heap'[v] = heap[v]
               /\ heap'[w].tenants = heap[w].tenants
               /\ heap'[w].users[call[w].email] = call[w].tenant
               /\ \A e \in Emails : e # call[w].email =>
                     heap'[w].users[e] = heap[w].users[e]
    <3>1. heap' = [heap EXCEPT ![w] =
                    [heap[w] EXCEPT !.users[call[w].email] = call[w].tenant]]
      BY <1>5, <2>1, <2>2 DEF PutUser, Mutate, Mine
    <3>2. heap[w] \in Directories
      BY DEF Basic, TypeOK, Objects
    <3>3. QED
      BY <2>1, <2>2, <3>1, <3>2 DEF Directories, Basic, TypeOK, Objects
  <2>3. ASSUME backend = "redis", NEW t \in TenantIds, heap'[w].tenants[t] # None
        PROVE  HasUser(heap'[w], t)
    <3>1. CASE t = call[w].tenant
      BY <2>1, <2>2, <2>3, <3>1 DEF HasUser
    <3>2. CASE t # call[w].tenant
      <4>1. PICK e \in Emails : heap[w].users[e] = t
        BY <2>1, <2>2, <2>3, <3>2 DEF HasUser
      <4>2. e # call[w].email
        BY <2>1, <2>3, <4>1, DirectoryAssumption
      <4>3. QED
        BY <2>2, <2>3, <4>1, <4>2 DEF HasUser
    <3>3. QED
      BY <3>1, <3>2
  <2>4. QED
    BY <2>1, <2>2, <2>3 DEF Basic, TypeOK
<1>6. ASSUME NEW w \in Workers, PutPlan(w) PROVE OrphanInv'
  <2>1. /\ db' = db /\ ref' = ref /\ backend' = backend /\ call' = call
        /\ pc[w] = "accepted" /\ pc' = [pc EXCEPT ![w] = "changed"]
        /\ call[w].op = "set_plan" /\ call[w].tenant \in TenantIds
    BY <1>6 DEF PutPlan, Basic, CallInv
  <2>2. ASSUME backend = "redis"
        PROVE  /\ ref[w] = w
               /\ \A v \in Workers : v # w => heap'[v] = heap[v]
               /\ heap'[w].users = heap[w].users
               /\ \A t \in TenantIds : heap'[w].tenants[t] # None => heap[w].tenants[t] # None
    <3>1. heap' = [heap EXCEPT ![w] =
                    [heap[w] EXCEPT !.tenants[call[w].tenant] = call[w].plan]]
      BY <1>6, <2>1, <2>2 DEF PutPlan, Mutate, Mine
    <3>2. heap[w] \in Directories
      BY DEF Basic, TypeOK, Objects
    <3>3. QED
      BY SMTT(30), <2>1, <2>2, <3>1, <3>2 DEF Directories, Basic, TypeOK, Objects
  <2>3. QED
    BY <2>1, <2>2 DEF HasUser, Basic, TypeOK
<1>7. ASSUME NEW w \in Workers, Save(w) PROVE OrphanInv'
  <2>1. /\ heap' = heap /\ ref' = ref /\ call' = call /\ backend' = backend
        /\ pc[w] = "changed" /\ pc' = [pc EXCEPT ![w] = "saved"]
        /\ db' = IF backend = "redis" THEN heap[ref[w]] ELSE db
    BY <1>7 DEF Save, Mine
  <2>2. QED
    BY <2>1 DEF HasUser, Basic, TypeOK
<1>8. ASSUME NEW w \in Workers, Respond(w) PROVE OrphanInv'
  BY <1>8 DEF Respond, Finish, Basic, TypeOK
<1>9. CASE Restart
  BY <1>9 DEF Restart
<1>10. CASE UNCHANGED vars
  BY <1>10 DEF vars
<1>11. QED
  BY ZenonT(60), <1>1, <1>2, <1>3, <1>4, <1>5, <1>6, <1>7, <1>8, <1>9, <1>10, <1>12
     DEF Next, WorkerStep, BeginRegister, BeginAddUser, BeginSetPlan, BeginLogin

(* A registration reaches Redis with its admin or not at all. *)
THEOREM RedisHasNoOrphans == Spec => []NoOrphanInRedis
<1>1. Init => Basic
  BY InitBasic
<1>2. Init => OrphanInv
  BY DEF Init, ColdInit, WarmInit, Start, OrphanInv, NoOrphanInRedis
<1>3. QED
  BY <1>1, <1>2, BasicStep, OrphanStep, PTL DEF Spec, OrphanInv

-----------------------------------------------------------------------------
(* Once a directory is stored in memory, all calls of that life share it.   *)
WarmInv ==
    /\ backend = "memory" /\ root = Boot
    /\ \A w \in Workers : pc[w] # "idle" => ref[w] = Boot
    /\ \A w \in Workers : pc[w] \in {"changed", "saved"} /\ call[w].op # "set_plan" =>
          heap[Boot].users[call[w].email] # None
    /\ \A w \in Workers : pc[w] = "checked" => heap[Boot].users[call[w].email] # None
    /\ AckedKept
    /\ \A a \in acked : a.backend = "memory" /\ a.email \in Emails /\ a.tenant \in TenantIds

LEMMA WarmStep ==
    ASSUME Basic, UserInv, WarmInv, NEW w \in Workers, WorkerStep(w)
    PROVE  WarmInv'
<1> DEFINE D == heap[Boot]
           K == \A a \in acked : D.users[a.email] # None /\ D.tenants[a.tenant] # None
<1>0. /\ backend = "memory" /\ root = Boot /\ Boot # None /\ D \in Directories /\ K
      /\ \A v \in Workers : pc[v] # "idle" => ref[v] = Boot
      /\ heap \in [Objects -> Directories] /\ Boot \in Objects
  BY DirectoryAssumption DEF WarmInv, AckedKept, Basic, TypeOK, Objects
<1> HIDE DEF D
<1>1. ASSUME NEW c, Begin(w, c) PROVE WarmInv'
  BY <1>0, <1>1 DEF Begin, Load, WarmInv, AckedKept, Basic, TypeOK
<1>2. CASE Refuse(w)
  BY <1>2 DEF Refuse, Finish, WarmInv, AckedKept, Basic, TypeOK
<1>9. CASE Authenticate(w)
  BY <1>0, <1>9 DEF Authenticate, Mine, WarmInv, AckedKept, Basic, TypeOK
<1>10. CASE IssueToken(w) \/ TokenRaises(w)
  BY <1>10, LoginEnds DEF Finish, WarmInv, AckedKept, Basic, TypeOK
<1>3. CASE Accept(w)
  BY <1>3 DEF Accept, WarmInv, AckedKept, Basic, TypeOK
<1>4. CASE PutTenant(w) \/ PutPlan(w)
  <2>1. /\ call[w].tenant \in TenantIds /\ call[w].plan \in Plans
        /\ heap' = [heap EXCEPT ![Boot] = [D EXCEPT !.tenants[call[w].tenant] = call[w].plan]]
        /\ backend' = backend /\ root' = root /\ ref' = ref /\ call' = call /\ acked' = acked
        /\ \A v \in Workers : v # w => pc'[v] = pc[v]
        /\ pc'[w] \notin {"idle", "checked"} /\ pc[w] # "idle"
        /\ pc'[w] = "changed" => call[w].op = "set_plan"
        /\ pc'[w] # "saved"
    BY <1>0, <1>4 DEF PutTenant, PutPlan, Mutate, Mine, D, Basic, TypeOK, CallInv
  <2>2. /\ heap'[Boot].users = D.users
        /\ \A t \in TenantIds : D.tenants[t] # None => heap'[Boot].tenants[t] # None
    BY <1>0, <2>1, DirectoryAssumption DEF Directories
  <2>3. \A a \in acked : heap'[Boot].users[a.email] # None /\ heap'[Boot].tenants[a.tenant] # None
    BY <1>0, <2>2 DEF WarmInv
  <2>4. QED
    BY <1>0, <2>1, <2>2, <2>3 DEF WarmInv, AckedKept, D
<1>5. CASE PutUser(w)
  <2>1. /\ call[w].tenant \in TenantIds /\ call[w].email \in Emails
        /\ heap' = [heap EXCEPT ![Boot] = [D EXCEPT !.users[call[w].email] = call[w].tenant]]
        /\ backend' = backend /\ root' = root /\ ref' = ref /\ call' = call /\ acked' = acked
        /\ \A v \in Workers : v # w => pc'[v] = pc[v]
        /\ pc'[w] = "changed" /\ pc[w] # "idle"
    BY <1>0, <1>5 DEF PutUser, Mutate, Mine, D, Basic, TypeOK, CallInv
  <2>2. /\ heap'[Boot].tenants = D.tenants
        /\ \A e \in Emails : D.users[e] # None => heap'[Boot].users[e] # None
        /\ heap'[Boot].users[call[w].email] # None
    BY <1>0, <2>1, DirectoryAssumption DEF Directories
  <2>3. \A a \in acked : heap'[Boot].users[a.email] # None /\ heap'[Boot].tenants[a.tenant] # None
    BY <1>0, <2>2 DEF WarmInv
  <2>4. \A v \in Workers : pc[v] \in {"changed", "saved"} /\ call[v].op # "set_plan" =>
            heap'[Boot].users[call[v].email] # None
    BY <1>0, <2>2 DEF WarmInv, Basic, CallInv, D
  <2>6. \A v \in Workers : pc[v] = "checked" => heap'[Boot].users[call[v].email] # None
    BY <1>0, <2>2 DEF WarmInv, Basic, CallInv, D
  <2>5. QED
    BY <1>0, <2>1, <2>2, <2>3, <2>4, <2>6 DEF WarmInv, AckedKept, D
<1>6. CASE Save(w)
  BY <1>0, <1>6 DEF Save, WarmInv, AckedKept, Basic, TypeOK
<1>7. CASE Respond(w)
  <2>1. /\ heap' = heap /\ backend' = backend /\ root' = root
        /\ \A v \in Workers : v # w => pc'[v] = pc[v] /\ ref'[v] = ref[v] /\ call'[v] = call[v]
        /\ pc'[w] = "idle"
    BY <1>7 DEF Respond, Finish, Basic, TypeOK
  <2>2. ASSUME NEW a \in acked'
        PROVE  /\ a.backend = "memory" /\ a.email \in Emails /\ a.tenant \in TenantIds
               /\ D.users[a.email] # None /\ D.tenants[a.tenant] # None
    <3>1. CASE a \in acked
      BY <1>0, <3>1 DEF WarmInv
    <3>2. CASE a \notin acked
      <4>1. /\ call[w].op # "set_plan" /\ pc[w] = "saved"
            /\ a = [backend |-> backend, email |-> call[w].email,
                    tenant |-> Mine(w).users[call[w].email]]
        BY <1>7, <2>2, <3>2 DEF Respond
      <4>2. /\ Mine(w) = D /\ call[w].email \in Emails
            /\ D.users[call[w].email] # None
        BY <1>0, <4>1 DEF Mine, D, Basic, CallInv, WarmInv
      <4>3. D.users[call[w].email] \in TenantIds
        BY <1>0, <4>2 DEF Directories
      <4>4. D.tenants[D.users[call[w].email]] # None
        BY <1>0, <4>2 DEF UserInv, UsersHaveTenants, Consistent, D
      <4>5. QED
        BY <1>0, <4>1, <4>2, <4>3, <4>4
    <3>3. QED
      BY <3>1, <3>2
  <2>3. QED
    BY <1>0, <2>1, <2>2 DEF WarmInv, AckedKept, D
<1>8. QED
  BY <1>1, <1>2, <1>3, <1>4, <1>5, <1>6, <1>7, <1>9, <1>10
     DEF WorkerStep, BeginRegister, BeginAddUser, BeginSetPlan, BeginLogin

LEMMA WorkerKeepsLife ==
    ASSUME NEW w \in Workers, WorkerStep(w) PROVE warm' = warm
  BY DEF WorkerStep, BeginRegister, BeginAddUser, BeginSetPlan, BeginLogin, Begin, Refuse,
         Accept, PutTenant, PutUser, PutPlan, Save, Respond, Authenticate, IssueToken,
         TokenRaises

LEMMA WarmHolds == Spec => []((Basic /\ UserInv) /\ (warm => WarmInv))
<1>1. Init => Basic /\ UserInv /\ (warm => WarmInv)
  <2> SUFFICES ASSUME Init PROVE Basic /\ UserInv /\ (warm => WarmInv)
    OBVIOUS
  <2>1. /\ \A w \in Workers : pc[w] = "idle"
        /\ acked = {} /\ (warm => backend = "memory" /\ root = Boot)
    BY DEF Init, ColdInit, WarmInit, Start
  <2>2. QED
    BY <2>1, InitBasic DEF UserInv, UsersHaveTenants, WarmInv, AckedKept
<1>2. Basic /\ UserInv /\ (warm => WarmInv) /\ [Next]_vars
        => Basic' /\ UserInv' /\ (warm => WarmInv)'
  <2> SUFFICES ASSUME Basic, UserInv, warm => WarmInv, [Next]_vars, warm'
               PROVE  WarmInv'
    BY BasicStep, UserStep
  <2>1. CASE UNCHANGED vars
    BY <2>1 DEF vars, WarmInv, AckedKept
  <2>2. ASSUME NEW w \in Workers, WorkerStep(w) PROVE WarmInv'
    BY <2>2, WorkerKeepsLife, WarmStep
  <2>3. CASE Restart
    BY <2>3 DEF Restart
  <2>4. QED
    BY <2>1, <2>2, <2>3 DEF Next
<1>3. QED
  BY <1>1, <1>2, PTL DEF Spec

(* With the in-memory store in use, an accepted password yields a token. *)
THEOREM WarmLoginsSucceed == Spec => []WarmLoginsGetTokens
<1>1. Basic /\ WarmInv => \A w \in Workers : pc[w] = "checked" => StillThere(call[w].email)
  <2> SUFFICES ASSUME Basic, WarmInv, NEW w \in Workers, pc[w] = "checked"
               PROVE  StillThere(call[w].email)
    OBVIOUS
  <2>1. Stored = heap[Boot] /\ heap[Boot] \in Directories
    BY DirectoryAssumption DEF WarmInv, Stored, Basic, TypeOK, Objects
  <2>2. Stored # None
    BY <2>1, NoneAssumption
  <2>3. QED
    BY <2>1, <2>2 DEF StillThere, WarmInv
<1>2. Basic /\ (warm => WarmInv) => WarmLoginsGetTokens
  BY <1>1 DEF WarmLoginsGetTokens
<1>3. QED
  BY <1>2, WarmHolds, PTL

(* With the in-memory store, once it holds a directory, no interleaving of  *)
(* registrations, new users and plan changes loses an acknowledged user or  *)
(* tenant while the process lives.                                          *)
THEOREM AckedStayWhileWarm == Spec => []WarmStoreKeepsAcked
<1>1. WarmInv => AckedKept
  BY DEF WarmInv
<1>2. (warm => WarmInv) => WarmStoreKeepsAcked
  BY <1>1 DEF WarmStoreKeepsAcked
<1>3. QED
  BY <1>2, WarmHolds, PTL

-----------------------------------------------------------------------------
(* A tenant about to be entered is new to the shared object, and no two     *)
(* registrations are about to enter the same one.                           *)
FreshInv ==
    /\ \A t \in TenantIds : heap[Boot].tenants[t] # None => t \in drawn
    /\ \A w \in Workers : pc[w] = "new" =>
          call[w].tenant \in drawn /\ heap[Boot].tenants[call[w].tenant] = None
    /\ \A v, w \in Workers : v # w /\ pc[v] = "new" /\ pc[w] = "new" =>
          call[v].tenant # call[w].tenant

LEMMA FreshStep ==
    ASSUME Basic, UserInv, WarmInv, FreshInv, NEW w \in Workers, WorkerStep(w)
    PROVE  FreshInv'
<1> DEFINE D == heap[Boot]
<1>0. /\ backend = "memory" /\ root = Boot /\ Boot # None /\ D \in Directories
      /\ \A v \in Workers : pc[v] # "idle" => ref[v] = Boot
      /\ heap \in [Objects -> Directories] /\ Boot \in Objects
  BY DirectoryAssumption DEF WarmInv, Basic, TypeOK, Objects
<1> HIDE DEF D
<1>1. ASSUME NEW c, Begin(w, c) PROVE FreshInv'
  BY <1>0, <1>1 DEF Begin, Load, FreshInv, Basic, TypeOK
<1>2. CASE Refuse(w)
  BY <1>2 DEF Refuse, Finish, FreshInv, Basic, TypeOK
<1>8. CASE Authenticate(w)
  BY <1>8 DEF Authenticate, FreshInv, Basic, TypeOK
<1>9. CASE IssueToken(w) \/ TokenRaises(w)
  <2>1. /\ heap' = heap /\ drawn' = drawn /\ pc'[w] = "idle"
        /\ \A v \in Workers : v # w => pc'[v] = pc[v] /\ call'[v] = call[v]
    BY <1>9, LoginEnds DEF Finish, Basic, TypeOK
  <2>2. QED
    BY <2>1 DEF FreshInv
<1>3. CASE Accept(w)
  <2>1. CASE call[w].op = "register"
    <3>1. PICK t \in TenantIds \ drawn :
             drawn' = drawn \cup {t} /\ call' = [call EXCEPT ![w].tenant = t]
      BY <1>3, <2>1 DEF Accept
    <3>2. /\ heap' = heap /\ call'[w].tenant = t
          /\ \A v \in Workers : v # w => pc'[v] = pc[v] /\ call'[v] = call[v]
      BY <1>3, <3>1 DEF Accept, Basic, TypeOK
    <3>3. QED
      BY <3>1, <3>2 DEF FreshInv
  <2>2. CASE call[w].op # "register"
    BY <1>3, <2>2 DEF Accept, FreshInv, Basic, TypeOK
  <2>3. QED
    BY <2>1, <2>2
<1>4. CASE PutTenant(w) \/ PutPlan(w)
  <2>1. /\ call[w].tenant \in TenantIds
        /\ heap' = [heap EXCEPT ![Boot] = [D EXCEPT !.tenants[call[w].tenant] = call[w].plan]]
        /\ call' = call /\ drawn' = drawn
        /\ \A v \in Workers : v # w => pc'[v] = pc[v]
        /\ pc'[w] # "new"
    BY <1>0, <1>4 DEF PutTenant, PutPlan, Mutate, Mine, D, Basic, TypeOK, CallInv
  <2>2. \A t \in TenantIds : t # call[w].tenant => heap'[Boot].tenants[t] = D.tenants[t]
    BY <1>0, <2>1 DEF Directories
  <2>3. call[w].tenant \in drawn
        /\ \A v \in Workers : v # w /\ pc[v] = "new" => call[v].tenant # call[w].tenant
    <3>1. CASE PutTenant(w)
      BY <3>1 DEF PutTenant, FreshInv
    <3>2. CASE PutPlan(w)
      <4>1. D.tenants[call[w].tenant] # None
        BY <1>0, <3>2 DEF PutPlan, UserInv, Mine, D
      <4>2. QED
        BY <2>1, <4>1 DEF FreshInv, D
    <3>3. QED
      BY <1>4, <3>1, <3>2
  <2>4. QED
    BY <2>1, <2>2, <2>3 DEF FreshInv, D, Basic, CallInv
<1>5. CASE PutUser(w)
  <2>1. heap'[Boot].tenants = D.tenants
    BY <1>0, <1>5 DEF PutUser, Mutate, Mine, D, Directories, Basic, TypeOK, CallInv
  <2>2. QED
    BY <1>5, <2>1 DEF PutUser, FreshInv, D, Basic, TypeOK
<1>6. CASE Save(w) \/ Respond(w)
  BY <1>6 DEF Save, Respond, Finish, FreshInv, Basic, TypeOK
<1>7. QED
  BY <1>1, <1>2, <1>3, <1>4, <1>5, <1>6, <1>8, <1>9
     DEF WorkerStep, BeginRegister, BeginAddUser, BeginSetPlan, BeginLogin

LEMMA FreshHolds == Spec => [](warm => FreshInv)
<1>1. Init => (warm => FreshInv)
  <2>1. CASE ColdInit
    BY <2>1 DEF ColdInit
  <2>2. ASSUME WarmInit PROVE FreshInv
    <3>1. PICK t \in TenantIds, e \in Emails, p \in Plans :
            /\ drawn = {t}
            /\ Start(None, Boot, [o \in Objects |->
                IF o = Boot THEN [tenants |-> [Empty.tenants EXCEPT ![t] = p],
                                  users   |-> [Empty.users EXCEPT ![e] = t]]
                            ELSE Empty])
      BY <2>2 DEF WarmInit
    <3>2. heap[Boot].tenants = [Empty.tenants EXCEPT ![t] = p]
          /\ pc = [w \in Workers |-> "idle"]
      BY <3>1 DEF Start, Objects
    <3>3. QED
      BY <3>1, <3>2 DEF FreshInv, Empty
  <2>3. QED
    BY <2>1, <2>2 DEF Init
<1>2. Basic /\ UserInv /\ (warm => WarmInv) /\ (warm => FreshInv) /\ [Next]_vars
        => (warm => FreshInv)'
  <2> SUFFICES ASSUME Basic, UserInv, warm => WarmInv, warm => FreshInv, [Next]_vars, warm'
               PROVE  FreshInv'
    OBVIOUS
  <2>1. CASE UNCHANGED vars
    BY <2>1 DEF vars, FreshInv
  <2>2. ASSUME NEW w \in Workers, WorkerStep(w) PROVE FreshInv'
    BY <2>2, WorkerKeepsLife, FreshStep
  <2>3. CASE Restart
    BY <2>3 DEF Restart
  <2>4. QED
    BY <2>1, <2>2, <2>3 DEF Next
<1>3. QED
  BY <1>1, <1>2, WarmHolds, PTL DEF Spec

(* In the same life the stored plan of a tenant changes only by a set_plan  *)
(* call for that tenant: nobody's upgrade is undone by another request.     *)
THEOREM PlansChangeBySetPlan == Spec => WarmPlanChangedBySetPlan
<1> DEFINE OnlyBySetPlan ==
             warm /\ warm' => \A t \in TenantIds :
             PlanOf(t)' # PlanOf(t) /\ PlanOf(t) # None =>
                \E w \in Workers : /\ pc'[w] # pc[w] /\ call[w].op = "set_plan"
                                   /\ call[w].tenant = t /\ PlanOf(t)' = call[w].plan
<1>1. ASSUME Basic, UserInv, warm => WarmInv, (warm => WarmInv)', warm => FreshInv, Next
      PROVE  OnlyBySetPlan
  <2> SUFFICES ASSUME warm, warm', NEW t \in TenantIds,
                      PlanOf(t)' # PlanOf(t), PlanOf(t) # None
               PROVE  \E w \in Workers : /\ pc'[w] # pc[w] /\ call[w].op = "set_plan"
                                         /\ call[w].tenant = t /\ PlanOf(t)' = call[w].plan
    OBVIOUS
  <2>1. PICK w \in Workers : WorkerStep(w)
    BY <1>1 DEF Next, Restart
  <2> DEFINE D == heap[Boot]
  <2>2. /\ PlanOf(t) = D.tenants[t] /\ PlanOf(t)' = D'.tenants[t]
        /\ D \in Directories /\ Boot # None /\ Boot \in Objects
        /\ heap \in [Objects -> Directories]
        /\ \A v \in Workers : pc[v] # "idle" => ref[v] = Boot
        /\ root = Boot /\ backend = "memory"
    <3>1. WarmInv /\ WarmInv' /\ Boot # None /\ Boot \in Objects /\ D \in Directories
      BY <1>1, DirectoryAssumption DEF Objects, Basic, TypeOK
    <3>2. QED
      BY <1>1, <3>1 DEF PlanOf, WarmInv, Basic, TypeOK
  <2> HIDE DEF D
  <2>3. CASE PutPlan(w)
    <3>1. /\ heap' = [heap EXCEPT ![Boot] =
                        [D EXCEPT !.tenants[call[w].tenant] = call[w].plan]]
          /\ call[w].op = "set_plan" /\ pc[w] = "accepted" /\ pc'[w] = "changed"
          /\ call[w].tenant \in TenantIds
      BY <1>1, <2>2, <2>3 DEF PutPlan, Mutate, Mine, D, Basic, TypeOK, CallInv
    <3>2. D'.tenants = [D.tenants EXCEPT ![call[w].tenant] = call[w].plan]
      BY <2>2, <3>1 DEF D, Directories
    <3>3. call[w].tenant = t /\ PlanOf(t)' = call[w].plan
      BY <2>2, <3>1, <3>2 DEF Directories
    <3>4. QED
      BY <3>1, <3>3
  <2>4. CASE PutTenant(w)
    <3>1. /\ heap' = [heap EXCEPT ![Boot] =
                        [D EXCEPT !.tenants[call[w].tenant] = call[w].plan]]
          /\ D.tenants[call[w].tenant] = None /\ call[w].tenant \in TenantIds
      BY <1>1, <2>2, <2>4 DEF PutTenant, Mutate, Mine, D, Basic, CallInv, FreshInv
    <3>2. D'.tenants = [D.tenants EXCEPT ![call[w].tenant] = call[w].plan]
      BY <2>2, <3>1 DEF D, Directories
    <3>3. QED
      BY <2>2, <3>1, <3>2 DEF Directories
  <2>5. CASE PutUser(w)
    <3>1. D'.tenants = D.tenants
      BY <1>1, <2>2, <2>5 DEF PutUser, Mutate, Mine, D, Directories, Basic, CallInv
    <3>2. QED
      BY <2>2, <3>1
  <2>6. ASSUME heap' = heap PROVE FALSE
    BY <2>2, <2>6 DEF D
  <2>7. ASSUME NEW c, Begin(w, c) PROVE FALSE
    BY <2>2, <2>6, <2>7 DEF Begin, Load
  <2>8. ASSUME \/ Refuse(w) \/ Accept(w) \/ Save(w) \/ Respond(w)
               \/ Authenticate(w) \/ IssueToken(w) \/ TokenRaises(w)
        PROVE  FALSE
    BY <2>6, <2>8 DEF Refuse, Accept, Save, Respond, Authenticate, IssueToken, TokenRaises
  <2>9. QED
    BY <2>1, <2>3, <2>4, <2>5, <2>7, <2>8
       DEF WorkerStep, BeginRegister, BeginAddUser, BeginSetPlan, BeginLogin
<1>2. QED
  BY <1>1, WarmHolds, FreshHolds, PTL DEF Spec, WarmPlanChangedBySetPlan

-----------------------------------------------------------------------------
(* A worker that changes its directory object takes nothing out of it. *)
LEMMA NothingTakenOut ==
    ASSUME Basic, NEW w \in Workers, PutTenant(w) \/ PutPlan(w) \/ PutUser(w)
    PROVE  \A o \in Objects :
              /\ \A e \in Emails : heap[o].users[e] # None => heap'[o].users[e] # None
              /\ \A t \in TenantIds : heap[o].tenants[t] # None => heap'[o].tenants[t] # None
<1>1. /\ Mine(w) \in Directories /\ heap \in [Objects -> Directories] /\ ref[w] \in Objects
      /\ call[w].tenant \in TenantIds /\ call[w].tenant # None
  BY DirectoryAssumption
     DEF Basic, TypeOK, CallInv, Mine, PutTenant, PutPlan, PutUser
<1>2. CASE PutTenant(w) \/ PutPlan(w)
  <2>1. /\ heap' = [heap EXCEPT ![ref[w]] =
                       [Mine(w) EXCEPT !.tenants[call[w].tenant] = call[w].plan]]
        /\ call[w].plan # None
    BY <1>2, DirectoryAssumption DEF PutTenant, PutPlan, Mutate, Basic, CallInv
  <2>2. QED
    BY <1>1, <2>1 DEF Directories, Mine
<1>3. CASE PutUser(w)
  <2>1. heap' = [heap EXCEPT ![ref[w]] =
                   [Mine(w) EXCEPT !.users[call[w].email] = call[w].tenant]]
    BY <1>3 DEF PutUser, Mutate
  <2>2. QED
    BY <1>1, <2>1 DEF Directories, Mine
<1>4. QED
  BY <1>2, <1>3

(* Directory dir knows the user and the tenant of an acknowledgement. *)
Knows(dir, a) == dir.users[a.email] # None /\ dir.tenants[a.tenant] # None

(* With one worker, the object of a call is the directory of its store with *)
(* the call's own changes: it knows every acknowledged user of that store,  *)
(* and a user about to be entered is not one of them.                       *)
SerialInv ==
    /\ twice = {}
    /\ \A a \in acked :
         /\ a.email \in Emails /\ a.tenant \in TenantIds
         /\ a.backend = "redis" => db # None /\ Knows(db, a)
         /\ a.backend = "memory" =>
               backend = "memory" /\ root # None /\ Knows(heap[root], a)
    /\ \A w \in Workers : pc[w] # "idle" =>
         /\ root # None => ref[w] = root
         /\ \A a \in acked : a.backend = backend => Knows(Mine(w), a)
    /\ \A w \in Workers :
         pc[w] \in {"new", "accepted", "changed", "saved"} /\ call[w].op # "set_plan" =>
            \A a \in acked : a.backend = backend => a.email # call[w].email
    /\ \A w \in Workers : pc[w] \in {"changed", "saved"} /\ call[w].op # "set_plan" =>
         Mine(w).users[call[w].email] # None
    /\ \A w \in Workers : pc[w] = "saved" =>
         IF backend = "redis" THEN db = Mine(w) ELSE root = ref[w]

LEMMA SerialStep ==
    ASSUME Basic, UserInv, SerialInv, NEW w \in Workers, WorkerStep(w),
           \A v \in Workers : v = w
    PROVE  SerialInv'
<1>0. /\ heap \in [Objects -> Directories] /\ root \in Objects \cup {None}
      /\ db \in Directories \cup {None} /\ backend \in {"memory", "redis"}
      /\ (root # None => backend = "memory") /\ w \in Objects
  BY DirectoryAssumption DEF Basic, TypeOK, PrivateInv, Objects
<1>1. ASSUME NEW c, Begin(w, c) PROVE SerialInv'
  <2>1. /\ UNCHANGED <<backend, db, root, acked, twice>>
        /\ pc' = [pc EXCEPT ![w] = "loaded"] /\ pc'[w] = "loaded"
    BY <1>1 DEF Begin, Basic, TypeOK
  <2>2. CASE backend = "memory" /\ root # None
    BY <1>0, <1>1, <2>1, <2>2 DEF Begin, Load, SerialInv, Mine, Basic, TypeOK
  <2>3. CASE ~(backend = "memory" /\ root # None)
    <3>1. /\ root = None /\ heap' = [heap EXCEPT ![w] = IF Stored = None THEN Empty ELSE Stored]
          /\ ref' = [ref EXCEPT ![w] = w]
      BY <1>0, <1>1, <2>3 DEF Begin, Load
    <3>2. Mine(w)' = IF Stored = None THEN Empty ELSE Stored
      BY <1>0, <3>1 DEF Mine, Basic, TypeOK
    <3>3. \A a \in acked : a.backend = backend => Knows(Mine(w)', a)
      BY <1>0, <3>1, <3>2 DEF SerialInv, Stored
    <3>4. QED
      BY <2>1, <3>1, <3>3 DEF SerialInv
  <2>4. QED
    BY <2>2, <2>3
<1>2. CASE Refuse(w)
  BY <1>2 DEF Refuse, Finish, SerialInv, Basic, TypeOK
<1>3. CASE Authenticate(w)
  BY <1>3 DEF Authenticate, Mine, SerialInv, Basic, TypeOK
<1>4. CASE IssueToken(w) \/ TokenRaises(w)
  BY <1>4, LoginEnds DEF Finish, SerialInv, Basic, TypeOK
<1>5. CASE Accept(w)
  <2>1. /\ UNCHANGED <<backend, db, root, heap, ref, acked, twice>>
        /\ pc[w] = "loaded" /\ pc'[w] \in {"new", "accepted"} /\ Mine(w)' = Mine(w)
        /\ call'[w].op = call[w].op /\ call'[w].email = call[w].email
        /\ call[w].op \in {"register", "add_user"} => Mine(w).users[call[w].email] = None
        /\ call[w].op \in {"register", "add_user", "set_plan"}
    BY <1>5 DEF Accept, Refused, Mine, Basic, TypeOK, CallInv
  <2>2. QED
    BY <2>1 DEF SerialInv, Knows
<1>6. CASE PutTenant(w) \/ PutPlan(w) \/ PutUser(w)
  <2>1. /\ UNCHANGED <<backend, db, root, ref, call, acked, twice>>
        /\ pc[w] \in {"new", "accepted"} /\ pc'[w] \in {"accepted", "changed"}
        /\ ref[w] \in Objects
    BY <1>6 DEF PutTenant, PutPlan, PutUser, Basic, TypeOK, CallInv
  <2>2. \A o \in Objects, a \in acked : Knows(heap[o], a) => Knows(heap'[o], a)
    BY <1>6, NothingTakenOut DEF Knows, SerialInv
  <2>3. pc'[w] = "changed" /\ call[w].op # "set_plan" =>
           heap'[ref[w]].users[call[w].email] # None
    <3> SUFFICES ASSUME pc'[w] = "changed", call[w].op # "set_plan"
                 PROVE  heap'[ref[w]].users[call[w].email] # None
      OBVIOUS
    <3>1. /\ heap' = [heap EXCEPT ![ref[w]] =
                         [Mine(w) EXCEPT !.users[call[w].email] = call[w].tenant]]
          /\ call[w].email \in Emails /\ call[w].tenant # None
      BY <1>6, DirectoryAssumption
         DEF PutTenant, PutPlan, PutUser, Mutate, Basic, TypeOK, CallInv
    <3>2. QED
      BY <1>0, <2>1, <3>1 DEF Mine, Directories
  <2>4. QED
    BY <1>0, <2>1, <2>2, <2>3 DEF SerialInv, Mine
<1>7. CASE Save(w)
  <2>1. /\ UNCHANGED <<backend, heap, ref, call, acked, twice>>
        /\ pc[w] = "changed" /\ pc'[w] = "saved" /\ ref[w] \in Objects
        /\ Mine(w)' = Mine(w) /\ Mine(w) \in Directories
        /\ IF backend = "redis" THEN db' = Mine(w) /\ root' = root
                                ELSE root' = ref[w] /\ db' = db
    BY <1>7 DEF Save, Mine, Basic, TypeOK, CallInv
  <2>2. Mine(w) # None /\ ref[w] # None
    BY <2>1, NoneAssumption, DirectoryAssumption DEF Objects
  <2>3. CASE backend = "redis"
    BY <1>0, <2>1, <2>2, <2>3 DEF SerialInv
  <2>4. CASE backend = "memory"
    BY <1>0, <2>1, <2>2, <2>4 DEF SerialInv, Mine
  <2>5. QED
    BY <1>0, <2>3, <2>4
<1>8. CASE Respond(w)
  <2> DEFINE c == call[w]
             new == [backend |-> backend, email |-> c.email, tenant |-> Mine(w).users[c.email]]
  <2>1. /\ UNCHANGED <<backend, db, root, heap>>
        /\ pc[w] = "saved" /\ pc'[w] = "idle"
        /\ IF c.op = "set_plan" THEN acked' = acked /\ twice' = twice
           ELSE /\ acked' = acked \cup {new}
                /\ ~(\E a \in acked : a.backend = backend /\ a.email = c.email) => twice' = twice
    BY <1>8 DEF Respond, Finish, Basic, TypeOK
  <2>2. twice' = {}
    BY <2>1 DEF SerialInv
  <2>3. ASSUME c.op # "set_plan"
        PROVE  /\ new.email \in Emails /\ new.tenant \in TenantIds /\ new.backend = backend
               /\ Knows(Mine(w), new)
    <3>1. /\ Mine(w) \in Directories /\ c.email \in Emails /\ ref[w] \in Objects
          /\ Mine(w).users[c.email] # None
      BY <1>0, <2>1, <2>3 DEF Mine, SerialInv, Basic, CallInv
    <3>2. Mine(w).users[c.email] \in TenantIds
      BY <3>1 DEF Directories
    <3>3. Mine(w).tenants[Mine(w).users[c.email]] # None
      BY <3>1 DEF UserInv, UsersHaveTenants, Consistent, Mine
    <3>4. QED
      BY <3>1, <3>2, <3>3 DEF Knows
  <2>4. /\ backend = "redis" => db = Mine(w) /\ db # None
        /\ backend = "memory" => root = ref[w] /\ root # None /\ Mine(w) = heap[root]
    <3>1. Mine(w) \in Directories /\ ref[w] \in Objects
      BY <1>0, <2>1 DEF Mine, Basic, CallInv
    <3>2. QED
      BY <2>1, <3>1, NoneAssumption, DirectoryAssumption DEF SerialInv, Mine, Objects
  <2>5. ASSUME NEW a \in acked'
        PROVE  /\ a.email \in Emails /\ a.tenant \in TenantIds
               /\ a.backend = "redis" => db # None /\ Knows(db, a)
               /\ a.backend = "memory" =>
                     backend = "memory" /\ root # None /\ Knows(heap[root], a)
    <3>1. CASE a \in acked
      BY <3>1 DEF SerialInv
    <3>2. CASE a \notin acked
      <4>1. c.op # "set_plan" /\ a = new
        BY <2>1, <2>5, <3>2
      <4>2. QED
        BY <1>0, <2>3, <2>4, <4>1
    <3>3. QED
      BY <3>1, <3>2
  <2>6. QED
    BY <2>1, <2>2, <2>5 DEF SerialInv
<1>9. QED
  BY <1>1, <1>2, <1>3, <1>4, <1>5, <1>6, <1>7, <1>8
     DEF WorkerStep, BeginRegister, BeginAddUser, BeginSetPlan, BeginLogin

(* A server with a single worker keeps every user and tenant it said it     *)
(* created, in either backend and through restarts, and registers no        *)
(* address twice: losing or repeating a registration takes two workers.     *)
THEOREM SerialRegistrationsKept ==
    ASSUME \A v, w \in Workers : v = w
    PROVE  Spec => [](AckedKept /\ EmailRegisteredOnce)
<1>1. Init => Basic /\ UserInv /\ SerialInv
  <2> SUFFICES ASSUME Init PROVE Basic /\ UserInv /\ SerialInv
    OBVIOUS
  <2>1. acked = {} /\ twice = {} /\ \A w \in Workers : pc[w] = "idle"
    BY DEF Init, ColdInit, WarmInit, Start
  <2>2. QED
    BY <2>1, InitBasic DEF UserInv, UsersHaveTenants, SerialInv
<1>2. Basic /\ UserInv /\ SerialInv /\ [Next]_vars => Basic' /\ UserInv' /\ SerialInv'
  <2> SUFFICES ASSUME Basic, UserInv, SerialInv, [Next]_vars PROVE SerialInv'
    BY BasicStep, UserStep
  <2>1. ASSUME NEW w \in Workers, WorkerStep(w) PROVE SerialInv'
    BY <2>1, SerialStep
  <2>2. CASE Restart
    <3>1. /\ db' = db /\ twice' = twice /\ \A w \in Workers : pc'[w] = "idle"
          /\ \A a \in acked' : a \in acked /\ a.backend = "redis"
      BY <2>2 DEF Restart
    <3>2. QED
      BY <3>1 DEF SerialInv
  <2>3. CASE UNCHANGED vars
    BY <2>3 DEF vars, SerialInv, Mine
  <2>4. QED
    BY <2>1, <2>2, <2>3 DEF Next
<1>3. Basic /\ SerialInv => AckedKept /\ EmailRegisteredOnce
  <2> SUFFICES ASSUME Basic, SerialInv, NEW a \in acked
               PROVE  LET dir == IF a.backend = "redis" THEN db
                                 ELSE IF root = None THEN Empty ELSE heap[root]
                      IN  dir.users[a.email] # None /\ dir.tenants[a.tenant] # None
    BY DEF AckedKept, EmailRegisteredOnce, SerialInv
  <2>1. a.backend \in {"memory", "redis"}
    BY DirectoryAssumption DEF Basic, TypeOK
  <2>2. QED
    BY <2>1 DEF SerialInv, Knows
<1>4. QED
  BY <1>1, <1>2, <1>3, PTL DEF Spec

=============================================================================
