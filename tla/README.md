# Apex Foundry: TLA+ models, model checking and proofs

Apex Foundry is a FastAPI service in Python. Tenants register, are metered per
plan, buy plans through Stripe, keep memory records in a SQLite vault, talk to
agents, and dispatch "intents" to an autonomy engine whose records a background
task prunes. This directory holds TLA+ specifications of the parts of it that
keep state, TLC configurations that check them on small instances, and proofs
checked by TLAPS for every value of the constants. Paths below are relative to
the repository root.

Contents:
[how the program runs](#how-the-program-runs) ·
[components](#components) ·
[modules](#modules-and-their-correspondence-to-the-code) ·
[runs](#what-the-runs-check) ·
[bounds](#bounds) ·
[fairness](#fairness) ·
[proofs](#proofs) ·
[observations](#observations) ·
[not modelled](#what-is-not-modelled) ·
[plan](#plan)

To reproduce: `tlc -config MCBilling.cfg MCBilling.tla`, `tlapm BillingProofs.tla`,
and likewise for the other modules.

## How the program runs

Almost every route is a plain `def`, which FastAPI runs on a pool of worker
threads; only `POST /billing/webhook` is `async` and runs on the event loop, and
so does the maintenance task. Nothing in the repository takes a lock. What is
atomic is one call into a store: one dict operation, one Redis command, one
SQLite statement, one `commit()`. Each specification therefore has a program
counter per worker thread and one action per access to shared state; everything
a thread does on its own in between is folded into the neighbouring action.

Shared state lives in four places:

| where | what | survives a restart |
|---|---|---|
| `auth:directory` in the key-value store | tenants with their plans, users | with Redis; not with the in-memory store |
| `usage:<tenant>:<day>` in the key-value store | request counters | with Redis; not with the in-memory store |
| `chat:<tenant>:last` in the key-value store | the last exchange of a tenant | with Redis; not with the in-memory store |
| the vault's SQLite file, one connection shared by all threads | memory and autonomy records | what was committed |
| module variables | the router of intents, the scheduler's tenant list and settings, the agents read from `blueprints/`, singletons | no |

## Components

### Memory Vault (`core/kernel/memory/vault.py`, `api/routers/memory.py`)
State: a table of records, one SQLite connection with at most one open
transaction. Operations: `create` (count, insert, commit), `get`, `search`,
`delete` (delete, commit). Called by the memory routes, the autonomy engine and
the scheduler. Hard: a statement by one thread and the commit by another; the
count that was true a moment ago; a crash or a failing statement between two
statements. Correct if acknowledged creates and deletes are permanent, tenants
do not touch each other's records, and plan caps hold up to what racing threads
can add.

### Auth directory (`core/auth/service.py`, `api/routers/auth.py`)
State: one JSON document with all tenants and users. Operations:
`register_tenant`, `add_user`, `set_plan`, each loading the whole document and
storing it again; a login, which reads it in `authenticate` and again in
`create_token`; `get_tenant`, `list_tenants`. Called by
the auth routes, by billing (`set_plan`) and by every metered route
(`get_tenant`). Hard: `InMemoryStore.get` returns the one shared dict while
`RedisStore.get` decodes a copy, so a change is visible at once over one backend
and overwrites or is overwritten over the other; a 200,000 round password hash
sits between check and write. Correct if users and tenants stay consistent with
each other, and what was acknowledged stays.

### Usage metering (`AuthService.check_and_increment_usage`)
State: a counter per tenant and day. Operation: read the tenant, read the
counter, compare, write the counter; called by chat and by each autonomy route.
Hard: lost updates, plans that change under a call, midnight between the read
and the write, which compute the key separately. Correct if nobody is charged or
refused without reason, and the allowance bounds what it can bound.

### Chat, inference and agents (`api/routers/chat.py`, `core/kernel/inference/router.py`, `core/agents/`)
State: the agents registered from `blueprints/` when the process started, and one
stored exchange per tenant. Operations: `load_directory` at import; `chat`, which
is metered, picks an agent or none, goes through a chain of models until one
answers, and stores the exchange. Hard: a file that does not parse, half-way
through the directory; models that fail one after the other while other chats,
days and plans go on; chats of a tenant that end in another order than they
began. Correct if a chat is served by the agents of one deployment, fails only
when the whole chain has, and the stored exchange is never an older one than an
exchange that replaced it has seen.

### Autonomy engine and scheduler (`core/autonomy/engine.py`, `scheduler.py`, `api/main.py`)
State: records tagged `autonomy` in the vault, metrics counters, the list of
tenants and the settings the scheduler was started with. Operations: `record`, `recall`,
`prune`, `cycle`, `metrics`; `run_forever` and `run_once`. `prune` has three
callers: `POST /autonomy/prune`, whose arguments the schema bounds, the intent
`memory.prune`, whose payload nobody checks, and the scheduler. Hard: a pass decides
from one search and then deletes row by row while others insert, delete and
prune, some with arguments that keep nothing; a pass that fails half-way; a
restart; a list read once. Correct if a
pass never removes what it should keep, and stale rows do go.

### Intent router (`core/autonomy/intent.py`, `api/routers/autonomy.py`)
State: a lazily built singleton with handlers; per dispatch a record, counters
and tags, in separate commits. Operations: `register`, `install_defaults`,
`dispatch`, `events`, `get_router`. Hard: several first requests build the
router at once; a dispatch can stop between any two of its commits; its tags wait
on the vault's connection, where any request may commit them or roll them back.
Correct if
the router ends up complete, and an event that was answered stays.

### Billing (`api/routers/billing.py`)
State: none of its own; Stripe's sessions and events, and the tenant's plan.
Operations: `checkout`, `verify`, `webhook`, `list_plans`. Hard: events are late,
repeated and reordered, answers get lost, `verify` acts on an answer that may be
old, the webhook takes unsigned events when it has no secret and may raise on
signed ones, and other operations on the directory may put an old plan back.
Correct if, where signatures are checked, a paid plan comes from a completed
checkout, and a completed checkout takes effect when its event can be handled.

### Others
Key-value stores (`core/kernel/memory/store.py`) appear inside the modules above.
The tool registry, the Commander, schemas and health endpoints are listed under
[what is not modelled](#what-is-not-modelled).

## Modules and their correspondence to the code

Each component has a specification `X.tla`, instances for TLC in `MCX.tla` and
`MCX*.cfg`, and proofs in `XProofs.tla`. Operators whose comment begins
"Mutant of" are not part of a specification: each is a plausible mistake in the
operator it names, and putting it in that operator's place makes TLC find the
violation of the property it was written for. `PROJECT.json` pairs them, and maps
every other definition to the source lines it stands for. In every module
variables marked "history" only record what happened, for the properties.

### MemoryVault
`live` is what the shared connection sees, `disk` what a new process would find;
the difference is the open transaction. `create()` is `BeginCreate` (the route
reads the plan), `CountRoom` or `CountFull` (SELECT COUNT and the comparison,
402), `InsertRow`, `CommitCreate`; `delete()` is `DeleteRow` or `DeleteMisses`, then
`CommitDelete`. A
commit sets `disk` to all of `live`, other workers' rows included. `SetPlan`
changes a plan at any time. `InsertRaises`, `CommitRaises` and
`StatementRollsBack` are what sqlite3 does when a statement fails: an insert
refused, a commit that finds another thread has committed already, and the
automatic rollback of the whole transaction on a full disk or an I/O error.
`Crash` loses `live \ disk` and every request.

`RecordLife` is what the vault promises of each record, without workers, tenants
or plans: new, written, durable, erased, gone, with a commit and a loss of the
transaction that concern every record at once. `Status(id)` reads that off `live`,
`disk` and `used`, and `RecordsLiveOnce` is the refinement.

### Retention
A row has an owner, a tag, a saturating `age`, and `newer[r]`, the visible rows
`search()` lists before it; a new row may be listed anywhere among rows of the
current second. A pass (`who`, `maxAge`, `keep`) is `BeginPass` with its one
search and the list `todo` of what it decided to delete, then `DeleteNext` newest
first until the list is empty, or `PassFails`. Requests start one with
`RequestPass` (`POST /autonomy/prune`, arguments not negative) or `DispatchPass`
(the intent `memory.prune`, any integers, `intent.py:109-112`); the
scheduler with `Wake` and `SchedulerPass`, over the tenants in `covered`, which
only start-up (`Init`, `Restart`) sets, with the `setting` for `keep_recent`.
`Newest` is Python's slice `records[:n]`, negative `n` included. Around it, `Register`, `Insert`, `Tick`
and `UserDelete`. A statement and its commit are one step here, and the search
with the decision another. What another request's rollback does in between
is kept by its effect: a rolled-back insert is a row that disappears
(`UserDelete`), a rolled-back delete one that fails to (`DeleteUndone`).

`KeepsRecent` speaks of the passes that keep at least `KeepFloor` rows, for any
`KeepFloor`: such a pass removes a row only while `KeepFloor` newer ones are
there. `lost` counts the rows that other causes took while such passes ran: the
tenant, a rollback, and passes that keep fewer, such as one with a negative
`keep_recent`.

### Metering
`BeginCall` is `get_tenant` and the limit of the plan; `ReadUsage` or `Deny` the
read of today's counter and the comparison (429); `WriteUsage` sets the counter of
what is by then the current day to the value read plus one. `SetPlan`,
`Midnight` and `Restart` happen in between.

### Inference and Chat
`Inference` has the constants and the pure functions of the inference kernel:
`SelectModel`, `ExtractIntent`, and `Chain`, the models `complete()` goes through.
`Chat` EXTENDS `Metering` and conjoins each of its actions with what the route does
around it, so the two are one step: `BeginChat` (with `BeginCall`), `Meter`
(`ReadUsage`), `Refuse` (`Deny`, 429), and with `WriteUsage` the branches of the
route, `CompleteDirectly`, `RunSpecialist`, `RunCommander` (500), `UnknownAgent`
(404). After it `ModelFails` for each model in turn, `AllFail` (500), `StoreLast`, or
`StoreRaises` when Redis does not answer. `Boot`, `LoadNext`, `LoadRaises` and `Serve`
are `create_app()` reading the files in `disk`; `Deploy` exchanges the files at any
time but while they are being read, and `Crash` ends the process and every chat. A
file is reduced to a name, a tier and a model preference, or does not parse. The
registry is written at import only, which is why reading it shares a step with
the end of metering.

### AuthDirectory
A directory is an object in `heap`; `ref[w]` is the local variable `directory` of a
call. `Load` is the difference between the backends: a reference to the shared
object (`root`), a copy of what Redis holds (`db`), or a fresh dict nobody shares
when nothing is stored yet. After it come `Accept` or `Refuse` (404, 409), the
assignments into the object one by one (`PutTenant`, `PutUser`, `PutPlan`), `Save`,
and `Respond`, which reads the object once more. A login is `BeginLogin` and
`Authenticate` or `Refuse` (401) on the directory it loaded, then `IssueToken` or
`TokenRaises` (500) on a second one. A user is reduced to its
tenant, a tenant to its plan. `Restart` may pick the other backend, as
`default_store` does when Redis is unreachable. Behaviours start with nothing
stored (`ColdInit`) or with an in-memory directory in use (`WarmInit`).

### Billing
`CreateSession` and `ChooseFree` are the two branches of `checkout`; `Retrieve`
(which takes the session only if `Accepts`) and `Activate` or `ActivateRaises` are
`verify` around its call to Stripe. The webhook is one step because the handler
never awaits between reading the event and answering; which step it is depends on
the `mode` of the process:

- *signed*: `STRIPE_WEBHOOK_SECRET` is set and the event is a dict; `Webhook`.
- *opaque*: the secret is set, and the event the stripe package returns has no
  `get`, which is what `billing.py:136` says of StripeObject and line 194 prepares
  for; line 197 calls `event.get` all the same, so `WebhookRaises` answers every
  completed checkout with 500. Whether the installed stripe package is such a one
  is not decided in the repository, so both are modelled.
- *open*: no secret; real events are handled as in *signed*, and `WebhookUnverified`
  sets any plan of any known tenant for whoever posts the JSON
  (`billing.py:173-174`, `docs/monetization.md:42-44`).

A restart may change the mode. `LoadElsewhere` and `StoreElsewhere` are another
operation on the directory (a registration, say) that loads it and stores it
again, and so puts back plans, or leaves out tenants, of an earlier time: what
AuthDirectory shows over Redis.
Stripe and its customers (`CustomerCompletes`, `PaymentSettles`,
`SubscriptionEnds`, `Redeliver`, and an answer that is lost) are external and
modelled by what the code and `docs/monetization.md` rely on. `set_plan` on the
current directory is one step; one that works on an old copy is `StoreElsewhere`
followed by that step.

`Entitlement` is what billing promises, without sessions or events: tenants buy
plans; a plan is granted only to who bought it, or while the door is `open`, and
given up by choice; copies of all plans taken since the last start may be put back;
a new start may lose everything. `EntitlementsKept` is the refinement, with
`Bought` read off the completed sessions.

### IntentRouter
`LookUpRouter`, `Publish`, `BeginInstall`, `BindNext`, `ReturnRouter` are
`get_router` with each of its reads of the module variable; `Handle` runs the
handler, `InsertRecord` and `CommitRecord` or `VaultFull`, `ReadCount`, `WriteCount` are
`engine.record`, `TagEvent` (or `AnswerUntagged`, when the record is gone) and
`Answer` are `_tag_event` with its commit. `live` and `tagged` are what the shared
connection sees, `disk` and `durable` what is committed: the vault's transaction
with the tags in it. `StoreRaises` is an exception that undoes nothing,
`StoreRollsBack` one with which SQLite rolls the transaction back, the pending
inserts and tags of every other request included; the history `undone` keeps those.
`VaultStep` is the rest of the vault's traffic: rows erased, and commits and
rollbacks by requests that are no dispatches. The module is one tenant's view:
rows and counters are keyed by tenant.

`EventStream` is what dispatching promises of the stream, without threads,
routers or counters: a dispatch runs its handler once, writes a record once, and
makes it an event only when the record is on disk; a commit keeps what is visible, a
rollback or a crash takes back what is not kept; and an answer names an event
that is kept, unless its record is `spoilt`, deleted or hit by a rollback. The
refinement reads `visible` off `live` and `tagged` and `kept` off `disk` and
`durable`; `EventsFlowOnce` states it.

### How they compose
Chat contains Metering whole, and `ChatImplementsMeter` proves that the meter in
it behaves as Metering says. The other modules meet at operations that one shows in
full and another takes in fewer steps. No proof connects them; what the shorter
form covers of the longer one, and what it does not, is this:

| operation | in full in | in fewer steps in |
|---|---|---|
| `set_plan` | AuthDirectory: load, change, store, over both backends | Metering and MemoryVault: any plan at any time, so a lost or reverted one too. Billing: the change in one step, with lost and reverted plans by `StoreElsewhere`; `MaxHeld` bounds only how many old directories wait at a time. |
| create, delete and their commits | MemoryVault: count, insert, delete, commit, the rollback of a failing statement | IntentRouter: insert, delete, commit and rollback apart, but no count: `VaultFull` may refuse any record, and the cap's overshoot is not visible. Retention: the statement with its commit; rows racing past the cap are in `RecordCap`, a rolled-back insert is `UserDelete`, a rolled-back delete `DeleteUndone`. Not covered there: a row that a search misses because its delete is pending, and that a rollback brings back afterwards. |
| `record` and dispatch | IntentRouter | Retention: `Insert` at any time. |
| `prune` | Retention | IntentRouter: `EraseRow` and `VaultCommits` at any time, inside or outside of a handler. |

## What the runs check

Passing runs (expectation: no error):

| run | states | shows |
|---|---|---|
| `vault` | 1,796,627 | `AckedCreateDurable`: a create that was answered survives crashes until deleted, although its row was perhaps committed by another thread. `AckedDeleteFinal`: an answered delete is never undone. Both but for rows in `undone`, the ones a failing statement of another thread rolled back. `OvershootBounded`: racing creates exceed the cap by fewer rows than there are threads, and it does not add up over time. `OnlyOwnerDeletes`: tenant isolation. `RecordsLiveOnce`: the vault implements `RecordLife`, so a durable record never vanishes without having been erased, and none comes back. |
| `retention` | 364,180 | `PruneSparing`: whatever happened since the search, a pass removes only its tenant's tagged rows older than it was asked for. `KeepsRecent`: a pass with a `keep_recent` of at least one (the `KeepFloor` here) removes a row only while a newer autonomy record exists, beside passes of the intent and of the scheduler that keep none or have a negative `keep_recent`; one less for each row that disappeared meanwhile other than by passes that keep one. `StaleGoes` (liveness): a stale row within the search window of a tenant the scheduler knows goes, although a pass fails or the process restarts and rows keep coming, with a scheduler setting of 1 or of -1. |
| `chat` | 1,060,612 | `CounterSaturates`: the stored count never passes the largest allowance (it may fall again). `ChargedForRequestsMade`: the counter of any one day is at most the requests counted for the tenant in its whole life; races lose counts and add none, and what a midnight does is said under observations. `DenialEarned`: a refusal comes after at least as many requests as the plan allows. `AgentsOfOneDeployment`: whoever is served is served by the agents of one whole deployment. `LastNotSuperseded`: the stored exchange of a tenant is its own and not one that an exchange stored later had already seen. `FailoverComplete`: a chat is given up only after the preferred model and both fallbacks refused it, in this order. |
| `directory` | 571,871 | `UsersHaveTenants`: no store and no thread ever holds a user without its tenant. `NoOrphanInRedis`: no crash and no race leaves a tenant without a user in Redis. `WarmStoreKeepsAcked`, `WarmPlanChangedBySetPlan`, `WarmLoginsGetTokens`: over an in-memory directory in use, no interleaving loses an acknowledged user, undoes a plan change, or takes away the user of a login between its two reads. |
| `billing` | 447,792 | In all three modes of the webhook and across changes of them: `UpgradesBacked`: a plan becomes a paid one only through a completed checkout of that tenant for that plan, by an unverified webhook, or because another operation stores an old directory. `NoCheckoutForgotten`: the event of a completed checkout is waiting, or was answered and either took effect or met an unknown tenant. `CheckoutTakesEffect` (liveness): the webhook alone applies each completed checkout, unless the tenant is unknown when the event comes or a process runs whose webhook raises. `EntitlementsKept`: billing implements `Entitlement`, so with signatures checked no event, answer or restart grants a plan that was not bought, or takes one that was not given up, except by losing the whole directory; only an operation that stores an old directory does. |
| `intent` | 375,544 | `RouterSettles`: however many threads built a router, once nobody is building the one that stayed has every default. `AnsweredEventsStay`: an answered event is in the stream and on disk until deleted, unless its insert or tag was rolled back with somebody else's statement before the commit. `CountNotInvented`: the metric counts no record that was not inserted. `EventsFlowOnce`: dispatching implements `EventStream`, so no event is made twice or without its handler, none is undone once committed, and none is answered for that is not on disk, rolled-back and deleted records aside. |

Each passing run of a module also checks its type invariant, `TypeOK` (`ChatTypeOK`
for Chat, which contains that of Metering), which
includes the facts a reader needs to read the rest (a request past a step has
what the step gave it, an event belongs to a completed session).

Runs that find what a document or a test of the repository says to be untrue of
the code:

| run | property | the code | the statement |
|---|---|---|---|
| `metering_race` | `DailyAllowanceKept` | two calls read the same count and are both admitted | `README.md:33` "metered per plan (HTTP 429 over allowance)" |
| `directory_lost` | `AckedKept` | over Redis a concurrent registration stores a directory without the acknowledged one | `README.md:26` "create tenant + admin user (201)" |
| `directory_twice` | `EmailRegisteredOnce` | two registrations of one address are both answered 201 | `tests/unit/test_auth.py:62` expects 409 |
| `chat_commander` | `AgentsAreRun` | a chat with a tier 1 agent calls `run()`, which a Commander does not have; it is charged and ends with 500 | `docs/blueprints.md:58` "`/chat` calls `execute(goal)`" |
| `retention_late` | `StaleGoesForAll` | a tenant that registers after start-up is not pruned until the next restart | `core/autonomy/scheduler.py:3-4` "for every registered tenant" |
| `billing_unpaid` | `UpgradesPaidFor` | the webhook does not look at `payment_status`, `verify` does | `docs/monetization.md:27` "Successful payment → ... → entitlement" |

## Bounds

Every bound is a constant of its module, and the configurations set them.

- **Threads** (`Workers`): two in MemoryVault, Chat, AuthDirectory and
  IntentRouter, one request thread beside the scheduler in Retention, one
  `verify` thread in Billing (where the webhook, Stripe and the restarts
  interleave with it). The races here are of two threads; `OvershootBounded`
  and the metering invariants, where the number matters, are proved for any.
- **Tenants**: two, so that isolation can fail; one in `metering_race` and
  `billing_unpaid`, where the violation needs no more, and IntentRouter is the
  view of one.
- **Rows and identifiers**: three records in the vault against caps of 1 and 2
  (full, over by one, and a spare one); three rows in Retention with a search
  window of 2, so that rows beyond the window exist, caps of 3 and 1 for the two
  tenants, `keep_recent` 1 for `POST /autonomy/prune`, 0 or -1 for the intent (with an
  age of -1: everything is stale) and 1 or -1 for the scheduler. `StaleGoes` and
  `CheckoutTakesEffect` are checked of one row and one session (`Watched`): the
  identifiers are interchangeable, so the others behave alike. Only the
  subscription of that session may end (`Cancelled`): the event changes nothing, and
  one of them is enough to arrive between others. Two tenant
  identifiers in `directory` (three in the configuration of `directory_twice`,
  which starts warm), two dispatches in `intent`, one for each thread, and the vault
  may be full at any time.
- **Plans**: one of the ladder and one outside of it, which counts as free, so
  an upgrade and a downgrade are both possible; in `billing` one paid plan beside
  the free one, for two tenants and two sessions, and one old directory waiting at a
  time (`MaxHeld`).
- **Chats**: one text and one explicit intent, both about code, with `auto` and
  `code` as preferences, so that the chain begins with a fallback model in one case
  and not in the other; a commander, a specialist described by two files, and a
  name no file has; one deployment that parses and one of which the second file
  does not.
- **Time**: ages saturate at `Stale`, one above the largest age a pass asks for;
  two days (`MaxDay`) and three requests (`MaxRequests`) in Chat against limits of 1
  and 2: enough to use up either limit and be refused, and to carry a count over
  midnight. `metering_race` needs one day.
- **Faults** (`MaxFaults`): one crash, restart or failing statement in MemoryVault and
  Retention. The restarts of AuthDirectory, Billing, IntentRouter and
  Chat, the failing statements and rollbacks of IntentRouter, deployments, and
  failing models and stores are not counted.
- **Intents**: two of the three defaults: order matters, a third one does not.
- **Symmetry** over workers, tenants, rows, addresses and identifiers is used in
  the runs that check safety only, never in those with liveness (`retention`,
  `retention_late`, `billing`).

Deadlock is checked in every run; no specification stops.

## Fairness

- `Retention!SchedulerFairness`: weak fairness of the scheduler's own steps. The
  timer of `run_forever` fires again and again until shutdown, and `run_once`
  is synchronous code on the event loop, so a pass that has begun goes on. A
  pass may still fail (`PassFails` has no fairness and is bounded). Nothing is
  assumed of requests, of time, or of tenants. A pass is over with the last row of its
  list, so there is no step of its own to end it.
- `Billing!FairSpec`: weak fairness of an answered delivery of each pending
  `checkout.session.completed`: Stripe repeats an event until it gets a 2xx. An answered delivery is possible only where
  the webhook does not raise: of an opaque process nothing is assumed, and
  `CheckoutTakesEffect` says so. Nothing is assumed of `verify`, of customers, of the
  number of unanswered deliveries, or of how processes are set up.

The other specifications are checked for safety only and assume no fairness.

Weak fairness speaks of ENABLED, which the prover does not have. The liveness
theorems therefore start from what the fairness comes to, stated beside it:

- `Billing!Repeats`: an event that from some time on stays pending, in processes that
  are not opaque, is answered again and again. The answered delivery of a pending
  event is possible exactly when the process is not opaque, and always changes the
  state, so this is the same as the weak fairness of `FairSpec`.
- `Retention!TurnsCome` and `FaultsCease`: as long as the scheduler knows the tenant
  of a row, `run_once` comes to that tenant again and again, and at some time
  nothing fails any more. The first follows from `SchedulerFairness` because a sweep
  visits finitely many tenants and a pass deletes finitely many rows, the second
  because `MaxFaults` bounds the faults. Neither count is in the prover's reach. TLC
  confirms both on the instance of run `retention`, when
  `\A r \in Watched : TurnsCome(r)` and `FaultsCease` are checked instead of `StaleGoes`.

## Proofs

All of `*Proofs.tla` is checked to the last leaf, for any number of workers,
tenants, rows, plans and so on, from the assumptions named in each module
(`VaultAssumption`, `RetentionAssumption`, ...), which say little more than that
caps are positive, `None` is none of the values it stands in for, and sets whose
size is taken are finite.

| module | theorems | argument |
|---|---|---|
| MemoryVaultProofs | `TypeCorrect`, `AckedCreatesAreDurable`, `AckedDeletesAreFinal`, `OvershootIsBounded`, `SerialCapKept`, `RowsLeaveByTheirOwner`, `VaultKeepsRecordLives` | `DurableInv` and `RemovedInv` follow a row from its statement to the commit that covers it. `SlotsInv` counts, per tenant, the rows the connection or the disk has (a row only the disk has is being deleted by some worker, and a rollback could bring it back) plus the workers between count and insert; the sum never exceeds the largest cap plus one less than the workers. The cap alone is not inductive, since a worker that has counted still holds its permission. `SerialCapKept` is the case of one worker: only concurrency exceeds a cap. The refinement maps a commit, a rollback and a crash to steps of all records at once (`LifeStep`), and every other action to a step of one record or a stutter. |
| RetentionProofs | `TypeCorrect`, `PrunesSpareTheRest`, `PrunesKeepRecent`, `StaleRowsGo` | `PassInv`: what is left on a list still deserves to go. `KeepInv`: the listing is a strict order, and every row on the list of a pass that keeps at least `KeepFloor` has that many newer ones less `lost`. Such a pass that deletes a row another one relies on leaves the rows that were newer than it, which are newer than whatever it protected; a pass that keeps fewer, for example with a negative argument, adds to `lost`. Both theorems hold for any integer arguments of the three callers. The liveness is conditional on a scheduler setting of at least zero: `SearchFindsExcess` says that the rows newer than a stale row of the search result are in it too (`WindowClosed`, which needs the strict order), so the pass counts them as the property does and puts the row on its list; `DoomedStays` that only a fault takes it off again before it goes. A scheduler that has it on its list is inside that pass, so the next turn of the tenant, which `TurnsCome` promises, cannot come while the row is there. |
| MeteringProofs | `TypeCorrect`, `CounterNeverPassesAllowance`, `ChargesAreReal`, `DenialsAreEarned`, `SerialAllowanceKept` | `MeterInv`: the value a call has read stays below its limit and within the requests made, whatever others write. `SerialAllowanceKept` assumes a single worker, and shows that concurrency is the only way to exceed an allowance: neither a midnight nor a plan change does. |
| ChatProofs | `ChatImplementsMeter`, `ChatsAreMetered`, `ChatTypeCorrect`, `RegistriesAreWhole`, `LastExchangesAdvance`, `FailoverIsComplete` | Every step of Chat is a step of Metering or leaves the meter alone, so the theorems of MeteringProofs carry over by the refinement alone. `LoadInv`: the registry of a process that is reading is that of the first `loaded` files of `disk`, which does not change meanwhile. `ChainInv`: the models that refused and the models left are together the chain the chat began with. `LastNotSuperseded` from the numbers of chats (`LastInv`): no exchange that is stored, was superseded, or was seen by a chat when it began carries the number of a chat still in flight. |
| AuthDirectoryProofs | `TypeCorrect`, `UsersAlwaysHaveTenants`, `RedisHasNoOrphans`, `AckedStayWhileWarm`, `PlansChangeBySetPlan`, `WarmLoginsSucceed`, `SerialRegistrationsKept` | `UserInv`: a call about to enter a user holds an object that has its tenant, although another call may share the object. `OrphanInv`: over Redis the only tenant without a user in a copy is the one its own call has just entered. `WarmInv`, `FreshInv`: in a warm process all calls share one object which only grows, and tenants about to be entered are new; a user once found in that object is still in it at the second read. `SerialInv`: the object of a single worker is the stored directory with its own changes, so it knows every acknowledged user of that store. `SerialRegistrationsKept` is the counterpart of the runs `directory_lost` and `directory_twice`: with one worker neither happens, over either backend and across restarts that may change it. |
| BillingProofs | `TypeCorrect`, `UpgradesAreBacked`, `BillingKeepsEntitlements`, `NoCheckoutIsForgotten`, `CheckoutsTakeEffect` | `VerdictInv`: a verdict "paid" that `verify` is holding stays true, because nothing un-completes a session. The refinement needs it for the step that grants a plan. All five are proved for every set of modes and any number of directories held, so the unverified webhook, the raising one and lost plans are among the steps. `NoCheckoutForgotten` is inductive with them: an event leaves the pending ones only by an answered delivery (`EventsMove`), which has its effect in the same step (`DeliveryWorks`), and an effect is lost only with the tenant (`NothingTakenBack`). It makes the liveness short: a completed session without effect has its event pending, for as long as it has none, and where no process is opaque from some time on `Repeats` delivers it. |
| IntentRouterProofs | `TypeCorrect`, `RoutersSettle`, `AnsweredEventsAreKept`, `CountsAreReal`, `DispatchingKeepsTheStream` | `BuildInv`: the published router is complete or somebody is still filling it. `EventInv`: what a dispatch wrote is visible, removed, or hit by a rollback (`undone`); tags sit on committed records only; and what is on disk is visible or being deleted. `CountInv`: the counter, and each value read from it, is covered by records whose own increment is not pending. The refinement uses `EventInv`: a dispatch that answers finds its event on disk or spoilt, because its identifier has one owner and its record was committed before the tag; commits and rollbacks map to those of the stream. |

Every property of a passing run is proved. What is left to TLC: that fairness of
the single actions (`FairSpec`) implies the conditions the liveness theorems start
from (`RepeatingSpec`, `SweepingSpec`; ENABLED and counting, see
[fairness](#fairness)); `StaleGoes` for a scheduler started with a negative
`keep_recent`, where a row goes only after the rows behind it in as many passes as
that takes, which is an induction over them; and the violations.

## Observations

Behaviours the models have and that the properties above leave room for on
purpose. They follow from the code; where a document could be read otherwise it
is named.

- `create()` may exceed the plan's cap by racing (`OvershootBounded` says by how
  much); `api/routers/memory.py:4-5` says counts are capped.
- A failing statement of one thread can undo the uncommitted row of another,
  whose create or delete is then answered as done (`undone`).
- `prune` does not replace a protected record that the tenant, or a pass that keeps
  fewer, deletes while it runs (`lost`), and looks at the newest 200 autonomy records only.
- A metered call across midnight starts the new day with the old day's count, so the
  two days together can show more than was requested. A call that read the counter
  long ago sets it back, so it may fall after it has reached the limit, and later
  calls of the day are admitted.
- Over Redis, a registration that loaded the directory before an upgrade stores
  the old plan again (`StoreElsewhere`); the event was answered and does not come
  again.
- Without `STRIPE_WEBHOOK_SECRET` the webhook takes any JSON for an event and sets the
  plan of any tenant with no session behind it. That is documented
  (`billing.py:172-174`, `docs/monetization.md:42-44`) and tested
  (`tests/unit/test_api.py:253-267`); `UpgradesBacked` and `Entitlement` name it as the
  one way to a plan that was not bought. An event with an unknown plan ends with 500.
- `billing.py:197` calls `event.get` on whatever `construct_event` returned, which
  line 194 allows to be no dict. If it has no `get`, as line 136 says of StripeObject,
  every signed `checkout.session.completed` is answered 500, over and over, and
  plans are applied by `verify` only.
- A statement that fails and rolls back takes with it the tags another dispatch has
  written and not committed; that dispatch is answered 200 with an event that is not
  in the stream (`undone`).
- The payload of the intent `memory.prune` is not checked (`intent.py:111`;
  `AutonomyPruneRequest` has `ge=0`, `models.py:54`): with a negative `keep_recent` or age it deletes
  records that every other caller keeps, all of them with `keep_recent` 0.
- An event of a checkout completed before the tenant chose the free plan undoes
  that choice when it arrives. Events are not deduplicated.
- `customer.subscription.deleted` is acknowledged and ignored, so a cancelled
  subscription keeps its plan; `docs/monetization.md:39-40` asks to subscribe to it.
- The router is published before its handlers are bound, so a request in that
  window is told that a default intent is unknown, and that is recorded.
- A dispatch to a full vault runs its handler and then ends with 500 and no event.
- `core/autonomy/intent.py:4-5` speaks of a wildcard handler the code does not have.
- A chat is charged before its agent is looked up and before any model is asked;
  a 404 or a 500 is not refunded (`UnknownAgent`, `RunCommander`, `AllFail`).
- The chain of a simple or unclassified request tries one model twice (`Chain`), and
  `docs/architecture.md:65` speaks of a "direct OpenAI" fallback while every model of
  the chain goes through the one client for `OPENROUTER_BASE_URL`.
- The response of a chat names the model the intent maps to, not the one that
  answered, and with an agent not the one that was asked first.
- Between chats that overlap, the stored last exchange may be the one that began
  first; `LastNotSuperseded` orders only chats of which one began after the other
  was stored.
- With a negative `keep_recent` the scheduler protects the newest rows and takes
  the oldest stale ones in each pass, so in the long run it protects nothing.
- Over Redis, a login whose password was accepted may end with 500 after a lost
  update (`TokenRaises`).

## What is not modelled

- **Commander** (`plan`, `delegate`, `execute`) and `run_tool` of either agent: nothing
  in `api/` calls them; that the chat route calls something else is the finding of
  `chat_commander`.
- **Tool registry**: a dict filled at import, and a single HTTP request in a tool
  nothing calls.
- **Tokens and passwords**: hashing and signing are libraries. A password is right
  or wrong by choice in AuthDirectory, and a token is whatever tenant was drawn.
- **Blueprints changed while they are being read**: `Deploy` waits; a file that is
  exchanged half-way through `load_directory` gives a mixture by nature.
- **Answers that change nothing**: 400, 404, 502 and 503 of billing (a missing `stripe`
  package or key among them) and the ValueError of an unverified event with an unknown
  plan; the KeyError of `get_tenant` before a metered call (`service.py:136-140`), a 500
  without a charge; an exception of `_client()` (`inference/router.py:65`), which is
  outside the `try` of the failover and ends the chat before any model is asked.
- **A payload of other types for `memory.prune`**: the handler raises before it deletes
  anything, and the dispatch is recorded as an error (`Handle`).
- **An infinite `APEX_AUTONOMY_KEEP_RECENT`**, which raises at start-up: nothing is
  served, so there is nothing to check.
- **Schemas, health, configuration, `scripts/smoke_stripe.py`**: no state.
- **`recall`, `metrics`, `events`, `cycle`, `get`, `search`, `list_tenants`,
  `list_plans`**: read only, but for further metrics counters of the kind
  IntentRouter has. The text search of `vault.search` is outside all models; its
  order and its limit are in Retention.

## Plan

1. *(done)* MemoryVault, Retention, Metering, AuthDirectory, Billing,
   IntentRouter with their runs and safety proofs: the state that tenants
   would miss.
2. *(done)* Chat route with the inference kernel and the blueprint registry over the
   meter; the token route; the scheduler's settings with negative arguments.
3. *(done)* Abstract specifications: RecordLife for MemoryVault, Entitlement for
   Billing, EventStream for IntentRouter, Metering for Chat, each refinement
   checked and proved.
4. *(done)* The liveness of Billing and Retention from fairness stated without
   ENABLED, and for each race the runs exhibit the theorem that a single worker does
   not have it (`SerialAllowanceKept`, `SerialCapKept`, `SerialRegistrationsKept`).
5. *(done)* The webhook's modes and directories of old under Billing, the third caller
   of `prune` in Retention, and the vault's rollback under IntentRouter.
6. Compositions by INSTANCE instead of by description: the steps of AuthDirectory under
   Billing, the open transaction of MemoryVault under Retention.
7. The remaining metrics counters of the autonomy engine.
