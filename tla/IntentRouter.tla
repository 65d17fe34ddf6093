---------------------------- MODULE IntentRouter -----------------------------
(***************************************************************************)
(* POST /v1/autonomy/dispatch: the cached router of                        *)
(* api/routers/autonomy.py and IntentRouter.dispatch                       *)
(* (core/autonomy/intent.py) with AutonomyEngine.record and its counters   *)
(* (core/autonomy/engine.py).                                              *)
(*                                                                         *)
(* Requests run on worker threads and the router is built by whoever comes *)
(* first.  A dispatch is a chain of separately committed writes: whatever  *)
(* the handler did, the record, a counter, the tags that make the record   *)
(* an event.  All of them go through the one connection of the vault, so   *)
(* any request's commit makes the pending changes of all durable, and a    *)
(* statement that fails on a full disk or an I/O error rolls all of them   *)
(* back, as in MemoryVault.                                                *)
(*                                                                         *)
(* Rows and counters are keyed by tenant, so this is the view of one       *)
(* tenant, and of its rows those that dispatches record: the others only   *)
(* matter as they fill the vault.  The handlers' own work is in Retention. *)
(* Of the two counters record() bumps one is modelled.                     *)
(***************************************************************************)
EXTENDS Integers, Sequences, FiniteSets

CONSTANTS
    Workers,    \* threads of the request pool; also the router each may build
    Defaults,   \* intents install_defaults binds, in its order
    Unbound,    \* other intents clients send
    Ids,        \* dispatches; also the identifiers of their records
    None        \* no router, no intent, no dispatch

Names == {Defaults[k] : k \in DOMAIN Defaults}

ASSUME RouterAssumption ==
    /\ IsFiniteSet(Ids)
    /\ Defaults \in Seq(Names)
    /\ Unbound \cap Names = {}
    /\ None \notin Workers \cup Names \cup Unbound \cup Ids

VARIABLES
    published,  \* the module variable _intent_router
    bound,      \* bound[o]: keys of _handlers of router o
    pc,         \* pc[w]: where the request on worker w stands
    id,         \* id[w]: the dispatch it works on
    intent,     \* intent[w]: req.intent
    router,     \* router[w]: the router it installs handlers on, then uses
    next,       \* next[w]: position in install_defaults
    seen,       \* seen[w]: counter value _bump has read
    live,       \* records the connection sees, committed or not
    disk,       \* records a process started now would find
    tagged,     \* records the connection sees the event tags on
    durable,    \* records with committed event tags
    count,      \* the counter "records" of the tenant
    outcome,    \* history: outcome[i], status of dispatch i
    created,    \* history: records ever inserted
    removed,    \* history: records a DELETE ever matched
    undone,     \* history: records whose pending insert or tag was rolled back
    answered    \* history: dispatches answered with 200

routerVars == <<published, bound>>
callVars   == <<pc, id, intent, router, next, seen>>
rowVars    == <<live, disk, tagged, durable>>
histVars   == <<outcome, created, removed, undone, answered>>
storeVars  == <<rowVars, count>>
vars       == <<routerVars, callVars, storeVars, histVars>>

-----------------------------------------------------------------------------
Building  == {"creating", "published", "installing"}
Writing   == {"inserted", "recorded", "counting", "counted", "tagged"}
Recording == {"handled"} \cup Writing

Commit == disk' = live /\ durable' = tagged /\ UNCHANGED <<live, tagged>>

RollBack ==
    /\ live' = disk /\ tagged' = durable /\ UNCHANGED <<disk, durable>>
    /\ undone' = undone \cup (live \ disk) \cup (tagged \ durable)

Goto(w, label) == pc' = [pc EXCEPT ![w] = label]

Leave(w) ==
    /\ Goto(w, "idle")
    /\ id' = [id EXCEPT ![w] = None]
    /\ intent' = [intent EXCEPT ![w] = None]
    /\ router' = [router EXCEPT ![w] = None]
    /\ next' = [next EXCEPT ![w] = 1]
    /\ seen' = [seen EXCEPT ![w] = 0]

Init ==
    /\ published = None
    /\ bound = [o \in Workers |-> {}]
    /\ pc = [w \in Workers |-> "idle"]
    /\ id = [w \in Workers |-> None]
    /\ intent = [w \in Workers |-> None]
    /\ router = [w \in Workers |-> None]
    /\ next = [w \in Workers |-> 1]
    /\ seen = [w \in Workers |-> 0]
    /\ live = {} /\ disk = {} /\ tagged = {} /\ durable = {}
    /\ count = 0
    /\ outcome = [i \in Ids |-> "none"]
    /\ created = {} /\ removed = {} /\ undone = {} /\ answered = {}

-----------------------------------------------------------------------------
(* A dispatch arrives; its record, if any, will be i. *)
BeginDispatch(w, i, name) ==
    /\ pc[w] = "idle"
    /\ outcome[i] = "none" /\ \A v \in Workers : id[v] # i
    /\ Goto(w, "routing")
    /\ id' = [id EXCEPT ![w] = i]
    /\ intent' = [intent EXCEPT ![w] = name]
    /\ UNCHANGED <<routerVars, router, next, seen, storeVars, histVars>>

(* if _intent_router is None *)
LookUpRouter(w) ==
    /\ pc[w] = "routing"
    /\ Goto(w, IF published = None THEN "creating" ELSE "returning")
    /\ UNCHANGED <<routerVars, id, intent, router, next, seen, storeVars, histVars>>

(* The new router is published before anything is bound. *)
Publish(w) ==
    /\ pc[w] = "creating"
    /\ published' = w
    /\ bound' = [bound EXCEPT ![w] = {}]
    /\ Goto(w, "published")
    /\ UNCHANGED <<id, intent, router, next, seen, storeVars, histVars>>

(* install_defaults is called on what the module variable holds now. *)
BeginInstall(w) ==
    /\ pc[w] = "published"
    /\ router' = [router EXCEPT ![w] = published]
    /\ Goto(w, "installing")
    /\ UNCHANGED <<routerVars, id, intent, next, seen, storeVars, histVars>>

(* Mutant of BindNext: the last capability is forgotten. *)
BindAllButOne(w) ==
    /\ pc[w] = "installing"
    /\ IF next[w] < Len(Defaults)
       THEN /\ bound' = [bound EXCEPT ![router[w]] = @ \cup {Defaults[next[w]]}]
            /\ next' = [next EXCEPT ![w] = @ + 1]
            /\ UNCHANGED <<pc, router>>
       ELSE /\ Goto(w, "returning")
            /\ router' = [router EXCEPT ![w] = None]
            /\ UNCHANGED <<bound, next>>
    /\ UNCHANGED <<published, id, intent, seen, storeVars, histVars>>

(* One register() of install_defaults, or its end. *)
BindNext(w) ==
    /\ pc[w] = "installing"
    /\ IF next[w] <= Len(Defaults)
       THEN /\ bound' = [bound EXCEPT ![router[w]] = @ \cup {Defaults[next[w]]}]
            /\ next' = [next EXCEPT ![w] = @ + 1]
            /\ UNCHANGED <<pc, router>>
       ELSE /\ Goto(w, "returning")
            /\ router' = [router EXCEPT ![w] = None]
            /\ UNCHANGED <<bound, next>>
    /\ UNCHANGED <<published, id, intent, seen, storeVars, histVars>>

(* return _intent_router reads the module variable once more. *)
ReturnRouter(w) ==
    /\ pc[w] = "returning"
    /\ router' = [router EXCEPT ![w] = published]
    /\ Goto(w, "routed")
    /\ UNCHANGED <<routerVars, id, intent, next, seen, storeVars, histVars>>

-----------------------------------------------------------------------------
(* The handler, if there is one, runs and returns or raises; both become    *)
(* the status of the dispatch.                                              *)
Handle(w) ==
    /\ pc[w] = "routed"
    /\ \E status \in IF intent[w] \in bound[router[w]] THEN {"ok", "error"} ELSE {"error"} :
          outcome' = [outcome EXCEPT ![id[w]] = status]
    /\ Goto(w, "handled")
    /\ UNCHANGED <<routerVars, id, intent, router, next, seen, storeVars,
                   created, removed, undone, answered>>

(* record(): create() finds room and inserts ... *)
InsertRecord(w) ==
    /\ pc[w] = "handled"
    /\ live' = live \cup {id[w]}
    /\ created' = created \cup {id[w]}
    /\ Goto(w, "inserted")
    /\ UNCHANGED <<routerVars, id, intent, router, next, seen, disk, tagged, durable, count,
                   outcome, removed, undone, answered>>

(* Mutant of CommitRecord: create() leaves the commit to the next one. *)
CreateUncommitted(w) ==
    /\ pc[w] = "inserted"
    /\ Goto(w, "recorded")
    /\ UNCHANGED <<routerVars, id, intent, router, next, seen, storeVars, histVars>>

(* ... and commits, and with it whatever is pending on the connection. *)
CommitRecord(w) ==
    /\ pc[w] = "inserted"
    /\ Commit
    /\ Goto(w, "recorded")
    /\ UNCHANGED <<routerVars, id, intent, router, next, seen, count, histVars>>

(* VaultFullError passes through dispatch and through the route: 500.  How  *)
(* many other rows the tenant has is open.                                  *)
VaultFull(w) ==
    /\ pc[w] = "handled"
    /\ Leave(w)
    /\ UNCHANGED <<routerVars, storeVars, histVars>>

(* _bump reads the counter ... *)
ReadCount(w) ==
    /\ pc[w] = "recorded"
    /\ seen' = [seen EXCEPT ![w] = count]
    /\ Goto(w, "counting")
    /\ UNCHANGED <<routerVars, id, intent, router, next, storeVars, histVars>>

(* Mutant of WriteCount: both counters of record() share one key. *)
WriteCountTwice(w) ==
    /\ pc[w] = "counting"
    /\ count' = seen[w] + 2
    /\ Goto(w, "counted")
    /\ UNCHANGED <<routerVars, id, intent, router, next, seen, rowVars, histVars>>

(* ... and stores one more. *)
WriteCount(w) ==
    /\ pc[w] = "counting"
    /\ count' = seen[w] + 1
    /\ Goto(w, "counted")
    /\ UNCHANGED <<routerVars, id, intent, router, next, seen, rowVars, histVars>>

(* Mutant of TagEvent: the record is not looked for first. *)
TagBlindly(w) ==
    /\ pc[w] = "counted"
    /\ tagged' = tagged \cup {id[w]}
    /\ Goto(w, "tagged")
    /\ UNCHANGED <<routerVars, id, intent, router, next, seen, live, disk, durable, count,
                   histVars>>

(* _tag_event: the tags are read and written back; the UPDATE of a record   *)
(* that has been deleted since the SELECT changes nothing.                  *)
TagEvent(w) ==
    /\ pc[w] = "counted"
    /\ tagged' = IF id[w] \in live THEN tagged \cup {id[w]} ELSE tagged
    /\ Goto(w, "tagged")
    /\ UNCHANGED <<routerVars, id, intent, router, next, seen, live, disk, durable, count,
                   histVars>>

(* The SELECT finds no record: dispatch answers without a commit. *)
AnswerUntagged(w) ==
    /\ pc[w] = "counted" /\ id[w] \notin live
    /\ answered' = answered \cup {id[w]}
    /\ Leave(w)
    /\ UNCHANGED <<routerVars, storeVars, outcome, created, removed, undone>>

(* Mutant of Answer: _tag_event does not commit. *)
AnswerUncommitted(w) ==
    /\ pc[w] = "tagged"
    /\ answered' = answered \cup {id[w]}
    /\ Leave(w)
    /\ UNCHANGED <<routerVars, storeVars, outcome, created, removed, undone>>

(* commit(), and the answer that names the event. *)
Answer(w) ==
    /\ pc[w] = "tagged"
    /\ Commit
    /\ answered' = answered \cup {id[w]}
    /\ Leave(w)
    /\ UNCHANGED <<routerVars, count, outcome, created, removed, undone>>

(* A statement, a commit or a counter of record() or _tag_event raises and  *)
(* undoes nothing: 500.  What is pending waits for the next commit.         *)
StoreRaises(w) ==
    /\ pc[w] \in Recording
    /\ Leave(w)
    /\ UNCHANGED <<routerVars, storeVars, histVars>>

(* A statement or a commit raises and rolls everything back that is pending *)
(* on the connection; only w learns of it (500).                            *)
StoreRollsBack(w) ==
    /\ pc[w] \in {"handled", "inserted", "counted", "tagged"}
    /\ RollBack
    /\ Leave(w)
    /\ UNCHANGED <<routerVars, count, outcome, created, removed, answered>>

(* The tenant, or a retention pass, deletes a record, uncommitted so far.   *)
EraseRow(i) ==
    /\ i \in live
    /\ live' = live \ {i} /\ tagged' = tagged \ {i}
    /\ removed' = removed \cup {i}
    /\ UNCHANGED <<routerVars, callVars, disk, durable, count, outcome, created, undone,
                   answered>>

(* Any other request on the connection commits ... *)
VaultCommits ==
    /\ Commit
    /\ UNCHANGED <<routerVars, callVars, count, histVars>>

(* ... or fails, and rolls back what is pending. *)
VaultRollsBack ==
    /\ RollBack
    /\ UNCHANGED <<routerVars, callVars, count, outcome, created, removed, answered>>

(* The process dies and starts again: routers and requests are gone, and so *)
(* is what nobody committed.                                                *)
Restart ==
    /\ published' = None
    /\ bound' = [o \in Workers |-> {}]
    /\ pc' = [w \in Workers |-> "idle"]
    /\ id' = [w \in Workers |-> None]
    /\ intent' = [w \in Workers |-> None]
    /\ router' = [w \in Workers |-> None]
    /\ next' = [w \in Workers |-> 1]
    /\ seen' = [w \in Workers |-> 0]
    /\ live' = disk /\ tagged' = durable
    /\ UNCHANGED <<disk, durable, count, histVars>>

WorkerStep(w) ==
    \/ \E i \in Ids, name \in Names \cup Unbound : BeginDispatch(w, i, name)
    \/ LookUpRouter(w)
    \/ Publish(w)
    \/ BeginInstall(w)
    \/ BindNext(w)
    \/ ReturnRouter(w)
    \/ Handle(w)
    \/ InsertRecord(w)
    \/ CommitRecord(w)
    \/ VaultFull(w)
    \/ ReadCount(w)
    \/ WriteCount(w)
    \/ TagEvent(w)
    \/ AnswerUntagged(w)
    \/ Answer(w)
    \/ StoreRaises(w)
    \/ StoreRollsBack(w)

VaultStep == (\E i \in Ids : EraseRow(i)) \/ VaultCommits \/ VaultRollsBack

Next == (\E w \in Workers : WorkerStep(w)) \/ VaultStep \/ Restart

Spec == Init /\ [][Next]_vars

-----------------------------------------------------------------------------
(* Types; a request that is past a step has what the step gave it, and      *)
(* event tags sit on records that exist.                                    *)
TypeOK ==
    /\ published \in Workers \cup {None}
    /\ bound \in [Workers -> SUBSET Names]
    /\ pc \in [Workers -> Building \cup Recording \cup
                          {"idle", "routing", "returning", "routed"}]
    /\ id \in [Workers -> Ids \cup {None}]
    /\ intent \in [Workers -> Names \cup Unbound \cup {None}]
    /\ router \in [Workers -> Workers \cup {None}]
    /\ next \in [Workers -> Nat \ {0}]
    /\ seen \in [Workers -> Nat]
    /\ \A w \in Workers :
          /\ pc[w] # "idle" => id[w] \in Ids
          /\ pc[w] \in {"installing", "routed"} => router[w] \in Workers
          /\ pc[w] \in {"published", "installing", "returning"} => published # None
    /\ live \subseteq created /\ disk \subseteq created /\ created \subseteq Ids
    /\ tagged \subseteq live /\ durable \subseteq disk
    /\ count \in Nat
    /\ outcome \in [Ids -> {"none", "ok", "error"}]
    /\ removed \subseteq created /\ undone \subseteq created /\ answered \subseteq Ids

(* However many threads build a router at once, and whichever of theirs     *)
(* stays, it has every default capability as soon as nobody is building.    *)
RouterSettles ==
    published # None /\ (\A w \in Workers : pc[w] \notin Building) => bound[published] = Names

(* The event a dispatch was answered with is in the stream, now and after a *)
(* crash, until somebody deletes the record.  The exception is a dispatch   *)
(* whose insert or tag another request's failure rolled back before the     *)
(* commit: it is answered all the same.                                     *)
AnsweredEventsStay == answered \subseteq (tagged \cap durable) \cup removed \cup undone

(* The metrics never count a record that was not made: racing threads and   *)
(* failing requests lose counts and do not invent them.                     *)
CountNotInvented == count <= Cardinality(created)

(* Where dispatch i stands, and what a reader of rows with tags sees of it. *)
Phase(i) == IF i \in created THEN "written" ELSE IF outcome[i] # "none" THEN "handled" ELSE "new"

Content(i, rows, tags) == IF i \in tags THEN "event" ELSE IF i \in rows THEN "record" ELSE "none"

Stream == INSTANCE EventStream WITH
    phase   <- [i \in Ids |-> Phase(i)],
    visible <- [i \in Ids |-> Content(i, live, tagged)],
    kept    <- [i \in Ids |-> Content(i, disk, durable)],
    spoilt  <- removed \cup undone

(* Dispatching implements the stream of events: whichever thread commits or *)
(* rolls back the changes of which, and wherever a dispatch stops, no event *)
(* is made twice, without its handler or on an uncommitted record, and an   *)
(* answer names an event on disk unless its record is spoilt.               *)
EventsFlowOnce == Stream!Spec

=============================================================================
