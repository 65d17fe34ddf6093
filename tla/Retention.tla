------------------------------ MODULE Retention ------------------------------
(***************************************************************************)
(* The retention pass: AutonomyEngine.prune (core/autonomy/engine.py) run  *)
(* by request workers and by the MaintenanceScheduler                      *)
(* (core/autonomy/scheduler.py, started by the lifespan of api/main.py).   *)
(*                                                                         *)
(* A pass searches once and then deletes row by row, so records come, go   *)
(* and grow older between the search and each delete.  Ages are counted in *)
(* units and saturate at Stale, which makes an endless life of the system  *)
(* a finite graph.  The listing order of search() is the relation newer;   *)
(* it holds among visible rows only.                                       *)
(*                                                                         *)
(* A pass has three callers: POST /autonomy/prune, whose arguments the     *)
(* schema bounds, the intent memory.prune, whose payload nobody checks,    *)
(* and the scheduler.  A statement and its commit are one step here; of    *)
(* what MemoryVault lets happen between them, an insert that is rolled     *)
(* back is a row that disappears, and a delete that is rolled back fails   *)
(* to delete.                                                              *)
(***************************************************************************)
EXTENDS Integers, FiniteSets

CONSTANTS
    Tenants,        \* tenants that may register
    Records,        \* identities of rows
    Watched,        \* rows the liveness properties follow: rows are interchangeable
    Workers,        \* threads that may run a pass for a request
    Scheduler,      \* the maintenance task on the event loop
    SearchLimit,    \* the search limit of a pass (200 in the code)
    RecordCap,      \* RecordCap[t]: most rows t can have, its cap and what creates race in
    Keeps,          \* keep_recent of POST /autonomy/prune
    DispatchKeeps,  \* keep_recent in the payload of memory.prune
    SchedulerKeeps, \* values APEX_AUTONOMY_KEEP_RECENT may have at a start-up
    KeepFloor,      \* a number of recent rows; passes with a smaller keep_recent are told apart
    MaxAges,        \* max_age_hours of POST /autonomy/prune
    DispatchAges,   \* max_age_hours in the payload of memory.prune
    SchedulerAge,   \* max_age_hours of the scheduler
    Stale,          \* age at which ages stop being told apart
    None,           \* no tenant
    MaxFaults       \* bound on restarts and on deletes that fail or are undone

Pruners == Workers \cup {Scheduler}

ASSUME RetentionAssumption ==
    /\ IsFiniteSet(Records) /\ Watched \subseteq Records
    /\ Scheduler \notin Workers /\ None \notin Tenants
    /\ SearchLimit \in Nat \ {0} /\ RecordCap \in [Tenants -> Nat] /\ MaxFaults \in Nat
    /\ Keeps \subseteq Nat /\ DispatchKeeps \subseteq Int /\ SchedulerKeeps \subseteq Int
    /\ KeepFloor \in Nat /\ Stale \in Nat
    /\ MaxAges \subseteq 0..(Stale - 1)
    /\ \A a \in DispatchAges \cup {SchedulerAge} : a \in Int /\ a < Stale

VARIABLES
    registered, \* tenants in the auth directory
    covered,    \* tenant_ids of the scheduler, read once at start-up
    setting,    \* keep_recent of the scheduler, read with them
    live,       \* visible rows
    owner,      \* owner[r]: tenant of a row
    tagged,     \* tagged[r]: the row carries the autonomy tag
    age,        \* age[r]: units since created_at
    newer,      \* newer[r]: visible rows that search() lists before r
    queue,      \* tenants the scheduler's current pass has still to visit
    who,        \* who[p]: tenant of the pass p runs, None when it runs none
    maxAge,     \* maxAge[p]: max_age_hours of that pass
    keep,       \* keep[p]: keep_recent of that pass
    todo,       \* todo[p]: rows of the search result still to be deleted
    faults,     \* restarts, failed and undone deletes so far
    lost        \* history: lost[t], rows of t that disappeared, other than by passes that
                \* keep KeepFloor rows, while one of those ran; KeepFloor stands for more

rowVars  == <<live, owner, tagged, age, newer>>
passVars == <<who, maxAge, keep, todo>>
vars     == <<registered, covered, setting, rowVars, queue, passVars, faults, lost>>

-----------------------------------------------------------------------------
RowsOf(t) == {r \in live : owner[r] = t}

(* Mutant of Listed: the search of a pass forgets the tag. *)
ListedUntagged(t) == RowsOf(t)

Listed(t) == {r \in RowsOf(t) : tagged[r]}

(* Mutant of Newest: a slice that starts at the wrong end. *)
Oldest(S, n) == {r \in S : Cardinality({s \in S : r \in newer[s]}) < n}

(* Python's records[:n] of the rows S in listing order: the first n, or,    *)
(* for a negative n, all but the last -n.                                   *)
Newest(S, n) ==
    {r \in S : Cardinality(newer[r] \cap S) < IF n < 0 THEN Cardinality(S) + n ELSE n}

(* Mutant of ToDelete: keep_recent is applied to what the age test left. *)
ToDeleteAmongStale(t, a, k) ==
    LET window == {r \in Newest(Listed(t), SearchLimit) : age[r] > a}
    IN  window \ Newest(window, k)

(* What a pass decides from its one search: the stale rows of the window,   *)
(* except the keep_recent newest rows of the window.                        *)
ToDelete(t, a, k) ==
    LET window == Newest(Listed(t), SearchLimit)
    IN  {r \in window \ Newest(window, k) : age[r] > a}

Init ==
    /\ registered \in SUBSET Tenants
    /\ covered = registered
    /\ setting \in SchedulerKeeps
    /\ live = {}
    /\ owner = [r \in Records |-> None]
    /\ tagged = [r \in Records |-> FALSE]
    /\ age = [r \in Records |-> 0]
    /\ newer = [r \in Records |-> {}]
    /\ queue = {}
    /\ who = [p \in Pruners |-> None]
    /\ maxAge = [p \in Pruners |-> 0]
    /\ keep = [p \in Pruners |-> 0]
    /\ todo = [p \in Pruners |-> {}]
    /\ faults = 0
    /\ lost = [t \in Tenants |-> 0]

-----------------------------------------------------------------------------
(* POST /auth/register adds a tenant; the scheduler's list stays as it is. *)
Register(t) ==
    /\ t \notin registered
    /\ registered' = registered \cup {t}
    /\ UNCHANGED <<covered, setting, rowVars, queue, passVars, faults, lost>>

(* A row is added, by AutonomyEngine.record (tagged) or as a user memory.   *)
(* created_at has one-second resolution and is read before the INSERT, so   *)
(* among the rows of the current unit the new row may be listed anywhere.   *)
Insert(t, r, tag) ==
    /\ t \in registered
    /\ r \notin live /\ \A p \in Pruners : r \notin todo[p]
    /\ Cardinality(RowsOf(t)) < RecordCap[t]
    /\ live' = live \cup {r}
    /\ owner' = [owner EXCEPT ![r] = t]
    /\ tagged' = [tagged EXCEPT ![r] = tag]
    /\ age' = [age EXCEPT ![r] = 0]
    /\ \E after \in SUBSET live :
        /\ \A s \in live : age[s] > 0 => s \in after
        /\ \A s \in after, q \in live : s \in newer[q] => q \in after
        /\ newer' = [q \in Records |->
                        IF q = r THEN live \ after
                        ELSE IF q \in after THEN newer[q] \cup {r} ELSE newer[q]]
    /\ UNCHANGED <<registered, covered, setting, queue, passVars, faults, lost>>

(* Time passes. *)
Tick ==
    /\ age' = [r \in Records |-> IF r \in live /\ age[r] < Stale THEN age[r] + 1 ELSE age[r]]
    /\ UNCHANGED <<registered, covered, setting, live, owner, tagged, newer, queue, passVars,
                   faults, lost>>

(* A row disappears: from the table and from every later listing. *)
Remove(r) ==
    /\ live' = live \ {r}
    /\ owner' = [owner EXCEPT ![r] = None]
    /\ tagged' = [tagged EXCEPT ![r] = FALSE]
    /\ age' = [age EXCEPT ![r] = 0]
    /\ newer' = [q \in Records |-> IF q = r THEN {} ELSE newer[q] \ {r}]

(* The passes on t that keep at least KeepFloor rows. *)
Keepers(t) == {p \in Pruners : who[p] = t /\ keep[p] >= KeepFloor}

(* Tenants that lose a row no keeper deleted; with the last keeper of a     *)
(* tenant its losses are forgotten.                                         *)
Losses(losers) ==
    lost' = [t \in Tenants |->
               IF Keepers(t)' = {} THEN 0
               ELSE IF t \in losers /\ lost[t] < KeepFloor THEN lost[t] + 1 ELSE lost[t]]

(* DELETE /memories/{id} by the tenant itself, or the end of a row whose    *)
(* insert was not committed when another request's failure rolled it back.  *)
UserDelete(r) ==
    /\ r \in live
    /\ Remove(r)
    /\ UNCHANGED <<registered, covered, setting, queue, passVars, faults>>
    /\ Losses({owner[r]})

(* What p has still to delete for t: with nothing left its pass is over. *)
SetPass(p, t, a, k, rows) ==
    /\ who' = [who EXCEPT ![p] = IF rows = {} THEN None ELSE t]
    /\ maxAge' = [maxAge EXCEPT ![p] = IF rows = {} THEN 0 ELSE a]
    /\ keep' = [keep EXCEPT ![p] = IF rows = {} THEN 0 ELSE k]
    /\ todo' = [todo EXCEPT ![p] = rows]

(* A pass begins: the search, the protected set and the age test. *)
BeginPass(p, t, a, k) ==
    /\ who[p] = None
    /\ SetPass(p, t, a, k, ToDelete(t, a, k))
    /\ UNCHANGED <<registered, covered, setting, rowVars, faults, lost>>

(* POST /autonomy/prune. *)
RequestPass(p, t, a, k) ==
    /\ p \in Workers /\ t \in registered
    /\ a \in MaxAges /\ k \in Keeps
    /\ BeginPass(p, t, a, k)
    /\ UNCHANGED queue

(* POST /autonomy/dispatch of memory.prune.  A payload of other types makes *)
(* the handler raise before it deletes anything.                            *)
DispatchPass(p, t, a, k) ==
    /\ p \in Workers /\ t \in registered
    /\ a \in DispatchAges /\ k \in DispatchKeeps
    /\ BeginPass(p, t, a, k)
    /\ UNCHANGED queue

(* run_forever wakes up and run_once starts over its tenant list. *)
Wake ==
    /\ queue = {} /\ who[Scheduler] = None
    /\ covered # {}
    /\ queue' = covered
    /\ UNCHANGED <<registered, covered, setting, rowVars, passVars, faults, lost>>

(* run_once turns to the next tenant of its list. *)
SchedulerPass(t) ==
    /\ t \in queue
    /\ BeginPass(Scheduler, t, SchedulerAge, setting)
    /\ queue' = queue \ {t}

(* The loop takes the search result newest first; a row that is gone by     *)
(* now matches nothing.                                                     *)
Upcoming(p) == {r \in todo[p] : newer[r] \cap todo[p] = {}}

StrikeOff(p, r) == SetPass(p, who[p], maxAge[p], keep[p], todo[p] \ {r})

DeleteNext(p) ==
    /\ who[p] # None
    /\ \E r \in Upcoming(p) :
        /\ StrikeOff(p, r)
        /\ IF r \in live THEN Remove(r) ELSE UNCHANGED rowVars
        /\ Losses(IF r \in live /\ keep[p] < KeepFloor THEN {owner[r]} ELSE {})
    /\ UNCHANGED <<registered, covered, setting, queue, faults>>

(* Another request's failure rolls the DELETE back before it is committed:  *)
(* the pass goes on and the row is still there.                             *)
DeleteUndone(p) ==
    /\ who[p] # None
    /\ faults < MaxFaults
    /\ faults' = faults + 1
    /\ \E r \in Upcoming(p) : r \in live /\ StrikeOff(p, r)
    /\ Losses({})
    /\ UNCHANGED <<registered, covered, setting, rowVars, queue>>

(* A delete raises ("database is locked"): the request ends with 500,       *)
(* run_once logs the failure and goes on with its next tenant.              *)
PassFails(p) ==
    /\ who[p] # None
    /\ faults < MaxFaults
    /\ faults' = faults + 1
    /\ SetPass(p, None, 0, 0, {})
    /\ Losses({})
    /\ UNCHANGED <<registered, covered, setting, rowVars, queue>>

(* Mutant of Restart: the scheduler of the old process is used again. *)
RestartKeepsList ==
    /\ faults < MaxFaults
    /\ faults' = faults + 1
    /\ registered' \in {registered, {}}
    /\ queue' = {}
    /\ who' = [p \in Pruners |-> None]
    /\ maxAge' = [p \in Pruners |-> 0]
    /\ keep' = [p \in Pruners |-> 0]
    /\ todo' = [p \in Pruners |-> {}]
    /\ lost' = [t \in Tenants |-> 0]
    /\ UNCHANGED <<covered, setting, rowVars>>

(* The process restarts.  The vault is a file; the directory survives in    *)
(* Redis and is empty in memory; lifespan reads the tenant list anew, and   *)
(* the scheduler its settings from the environment.                         *)
Restart ==
    /\ faults < MaxFaults
    /\ faults' = faults + 1
    /\ registered' \in {registered, {}}
    /\ covered' = registered'
    /\ setting' \in SchedulerKeeps
    /\ queue' = {}
    /\ who' = [p \in Pruners |-> None]
    /\ maxAge' = [p \in Pruners |-> 0]
    /\ keep' = [p \in Pruners |-> 0]
    /\ todo' = [p \in Pruners |-> {}]
    /\ lost' = [t \in Tenants |-> 0]
    /\ UNCHANGED rowVars

PassStep ==
    \/ \E p \in Workers, t \in Tenants, a \in MaxAges, k \in Keeps : RequestPass(p, t, a, k)
    \/ \E p \in Workers, t \in Tenants, a \in DispatchAges, k \in DispatchKeeps :
          DispatchPass(p, t, a, k)
    \/ Wake
    \/ \E t \in Tenants : SchedulerPass(t)
    \/ \E p \in Pruners : DeleteNext(p) \/ DeleteUndone(p) \/ PassFails(p)

Next ==
    \/ \E t \in Tenants : Register(t)
    \/ \E t \in Tenants, r \in Records, tag \in BOOLEAN : Insert(t, r, tag)
    \/ Tick
    \/ \E r \in Records : UserDelete(r)
    \/ PassStep
    \/ Restart

Spec == Init /\ [][Next]_vars

(* The asyncio timer fires again and again, and run_once is synchronous     *)
(* code on the event loop: once started it goes on.                         *)
SchedulerFairness ==
    /\ WF_vars(Wake)
    /\ WF_vars(\E t \in Tenants : SchedulerPass(t))
    /\ WF_vars(DeleteNext(Scheduler))

FairSpec == Spec /\ SchedulerFairness

(* What comes of that, for the proofs, which cannot count the tenants of a  *)
(* sweep, the rows of a pass or the faults: as long as the scheduler knows  *)
(* the tenant of a row, the turn of that tenant comes again and again, and  *)
(* at some time nothing fails any more.                                     *)
TurnsCome(r) ==
    <>[](r \in live /\ owner[r] \in covered) => []<><<SchedulerPass(owner[r])>>_vars

FaultsCease == <>[][faults' = faults]_vars

SweepingSpec == Spec /\ FaultsCease /\ \A r \in Watched : TurnsCome(r)

-----------------------------------------------------------------------------
(* Types; the scheduler knows registered tenants only, and the listing      *)
(* order relates visible rows only.                                         *)
TypeOK ==
    /\ covered \subseteq registered /\ registered \subseteq Tenants
    /\ setting \in SchedulerKeeps
    /\ live \subseteq Records
    /\ owner \in [Records -> Tenants \cup {None}]
    /\ tagged \in [Records -> BOOLEAN]
    /\ age \in [Records -> 0..Stale]
    /\ newer \in [Records -> SUBSET live]
    /\ queue \subseteq Tenants
    /\ who \in [Pruners -> Tenants \cup {None}]
    /\ maxAge \in [Pruners -> Int] /\ keep \in [Pruners -> Int]
    /\ todo \in [Pruners -> SUBSET Records]
    /\ faults \in 0..MaxFaults
    /\ lost \in [Tenants -> 0..KeepFloor]

(* A row a pass of p deletes in the current step. *)
Pruned(p) == {r \in todo[p] : r \in live /\ r \notin todo'[p] /\ r \notin live'}

(* Whatever the other actors did since the search, a pass removes only rows *)
(* of its own tenant that carry the autonomy tag and are older than the age *)
(* it was asked for.                                                        *)
PruneSparing ==
    [][\A p \in Pruners : \A r \in Pruned(p) :
         owner[r] = who[p] /\ tagged[r] /\ age[r] > maxAge[p]]_vars

(* "Always keep the keep_recent most recent ones", for KeepFloor of them: a *)
(* pass with a keep_recent of at least KeepFloor removes a row only while   *)
(* KeepFloor newer autonomy records of the tenant are there, whatever other *)
(* passes delete that keep as many, since the search or before.  There may  *)
(* be one less per record that disappeared in another way while passes that *)
(* keep as many were running: deleted by the tenant or by a pass that keeps *)
(* fewer.  A negative keep_recent is such a pass: its slice protects all    *)
(* but a few rows of a long search result and nothing of a short one.       *)
KeepsRecent ==
    [][\A p \in Pruners : \A r \in Pruned(p) : keep[p] >= KeepFloor =>
         Cardinality(newer[r] \cap Listed(owner[r])) + lost[owner[r]] >= KeepFloor]_vars

(* A row the scheduler's settings say should go, and that its search sees; *)
(* a negative number of recent rows is none.                               *)
Excess(r) ==
    /\ r \in live /\ tagged[r] /\ age[r] > SchedulerAge
    /\ Cardinality(newer[r] \cap Listed(owner[r])) \in
          (IF setting < 0 THEN 0 ELSE setting)..(SearchLimit - 1)

(* Retention works for the tenants the scheduler knows: a stale row within  *)
(* the search window and beyond the newest keep_recent goes, or it stops    *)
(* being one of those, although passes fail and the process restarts.  With *)
(* a negative keep_recent each pass spares all but a few of the oldest      *)
(* rows, and still no stale row stays for good.                             *)
StaleGoes ==
    \A r \in Watched : (Excess(r) /\ owner[r] \in covered)
                          ~> (~Excess(r) \/ owner[r] \notin covered)

(* "... for every registered tenant". *)
StaleGoesForAll == \A r \in Watched : Excess(r) ~> ~Excess(r)

=============================================================================
