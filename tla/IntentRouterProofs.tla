------------------------- MODULE IntentRouterProofs --------------------------
(***************************************************************************)
(* Proofs, for any number of workers, intents, dispatches and failures.    *)
(*   BuildInv   nobody touches a router that is still being created, an    *)
(*              installation has bound every intent before its position,   *)
(*              and the published router is complete or has an installer.  *)
(*   EventInv   a dispatch owns its identifier; after a step it has what   *)
(*              the step wrote, or a deletion or rollback to blame; only its *)
(*              own request tags a record, once it is committed; what is on  *)
(*              disk and not visible is being deleted.                       *)
(*   CountInv   the counter, and every value read from it, is covered by   *)
(*              records whose own increment is not pending.                *)
(* The last theorem is the refinement of EventStream, action by action:    *)
(* Phases, Visible, Kept and Spoilt are what it sees of a state.           *)
(***************************************************************************)
EXTENDS IntentRouter, FiniteSetTheorems, TLAPS

USE DEF Building, Writing, Recording, Goto, rowVars

LEMMA DefaultsType ==
    /\ Len(Defaults) \in Nat
    /\ DOMAIN Defaults = 1..Len(Defaults)
    /\ \A k \in 1..Len(Defaults) : Defaults[k] \in Names
    /\ Names = {Defaults[k] : k \in 1..Len(Defaults)}
  BY RouterAssumption DEF Names

LEMMA TypeCorrectStep == ASSUME TypeOK, [Next]_vars PROVE TypeOK'
<1> USE DEF TypeOK, routerVars, callVars, storeVars, histVars
<1>1. ASSUME NEW w \in Workers, WorkerStep(w) PROVE TypeOK'
  <2>1. ASSUME NEW i \in Ids, NEW name \in Names \cup Unbound, BeginDispatch(w, i, name)
        PROVE  TypeOK'
    BY <2>1 DEF BeginDispatch
  <2>2. CASE LookUpRouter(w)
    BY <2>2 DEF LookUpRouter
  <2>3. CASE Publish(w)
    BY <2>3, RouterAssumption DEF Publish
  <2>4. CASE BeginInstall(w)
    BY <2>4 DEF BeginInstall
  <2>5. CASE BindNext(w)
    <3>1. bound' \in [Workers -> SUBSET Names] /\ next' \in [Workers -> Nat \ {0}]
      <4>1. CASE next[w] <= Len(Defaults)
        <5>1. Defaults[next[w]] \in Names
          BY <4>1, DefaultsType
        <5>2. /\ bound' = [bound EXCEPT ![router[w]] = @ \cup {Defaults[next[w]]}]
              /\ next' = [next EXCEPT ![w] = @ + 1]
          BY <2>5, <4>1 DEF BindNext
        <5>3. next[w] \in Nat \ {0} /\ next[w] + 1 \in Nat \ {0}
          OBVIOUS
        <5>4. router[w] \in Workers
          BY <2>5 DEF BindNext
        <5>5. bound' \in [Workers -> SUBSET Names]
          BY <5>1, <5>2, <5>4
        <5>6. next' \in [Workers -> Nat \ {0}]
          BY <5>2, <5>3
        <5>7. QED
          BY <5>5, <5>6
      <4>2. CASE ~(next[w] <= Len(Defaults))
        BY <2>5, <4>2 DEF BindNext
      <4>3. QED
        BY <4>1, <4>2
    <3>2. QED
      BY ZenonT(60), <2>5, <3>1 DEF BindNext
  <2>6. CASE ReturnRouter(w)
    BY <2>6 DEF ReturnRouter
  <2>7. CASE Handle(w)
    BY <2>7 DEF Handle
  <2>8. CASE InsertRecord(w)
    BY <2>8 DEF InsertRecord
  <2>9. CASE CommitRecord(w)
    BY <2>9 DEF CommitRecord, Commit
  <2>10. CASE VaultFull(w)
    BY <2>10 DEF VaultFull, Leave
  <2>11. CASE ReadCount(w)
    BY <2>11 DEF ReadCount
  <2>12. CASE WriteCount(w)
    BY <2>12 DEF WriteCount
  <2>13. CASE TagEvent(w)
    BY <2>13 DEF TagEvent
  <2>14. CASE AnswerUntagged(w)
    BY <2>14 DEF AnswerUntagged, Leave
  <2>15. CASE Answer(w)
    BY <2>15 DEF Answer, Leave, Commit
  <2>16. CASE StoreRaises(w)
    BY <2>16 DEF StoreRaises, Leave
  <2>17. CASE StoreRollsBack(w)
    BY <2>17 DEF StoreRollsBack, Leave, RollBack
  <2>18. QED
    BY <1>1, <2>1, <2>2, <2>3, <2>4, <2>5, <2>6, <2>7, <2>8, <2>9, <2>10, <2>11, <2>12,
       <2>13, <2>14, <2>15, <2>16, <2>17 DEF WorkerStep
<1>2. ASSUME NEW i \in Ids, EraseRow(i) PROVE TypeOK'
  BY <1>2 DEF EraseRow
<1>3. CASE VaultCommits
  BY <1>3 DEF VaultCommits, Commit
<1>4. CASE VaultRollsBack
  BY <1>4 DEF VaultRollsBack, RollBack
<1>5. CASE Restart
  BY <1>5 DEF Restart
<1>6. CASE UNCHANGED vars
  BY <1>6 DEF vars
<1>7. QED
  BY <1>1, <1>2, <1>3, <1>4, <1>5, <1>6 DEF Next, VaultStep

(* Routers, requests, records, tags and counters keep their types. *)
THEOREM TypeCorrect == Spec => []TypeOK
<1>1. Init => TypeOK
  BY RouterAssumption DEF Init, TypeOK
<1>2. TypeOK /\ [Next]_vars => TypeOK'
  BY TypeCorrectStep
<1>3. QED
  BY <1>1, <1>2, PTL DEF Spec

-----------------------------------------------------------------------------
Installer(w) == pc[w] = "published" \/ (pc[w] = "installing" /\ router[w] = published)

BuildInv ==
    /\ published = None => \A w \in Workers : router[w] = None
    /\ \A w \in Workers : pc[w] = "creating" =>
          published # w /\ \A v \in Workers : router[v] # w
    /\ \A w \in Workers : pc[w] \in {"idle", "routing", "creating", "published"} =>
          next[w] = 1
    /\ \A w \in Workers : pc[w] = "installing" =>
          \A k \in 1..Len(Defaults) : k < next[w] => Defaults[k] \in bound[router[w]]
    /\ published # None =>
          bound[published] = Names \/ \E w \in Workers : Installer(w)

LEMMA BuildInvStep == ASSUME TypeOK, BuildInv, [Next]_vars PROVE BuildInv'
<1> USE DEF TypeOK, BuildInv, Installer, routerVars, callVars, storeVars, histVars
<1>1. ASSUME NEW w \in Workers, WorkerStep(w) PROVE BuildInv'
  <2>1. ASSUME NEW i \in Ids, NEW name \in Names \cup Unbound, BeginDispatch(w, i, name)
        PROVE  BuildInv'
    BY <2>1 DEF BeginDispatch
  <2>2. CASE LookUpRouter(w)
    BY <2>2, RouterAssumption DEF LookUpRouter
  <2>3. CASE Publish(w)
    BY <2>3, RouterAssumption DEF Publish
  <2>4. CASE BeginInstall(w)
    BY <2>4, RouterAssumption DEF BeginInstall
  <2>5. CASE BindNext(w)
    <3>1. CASE next[w] <= Len(Defaults)
      <4>1. /\ bound' = [bound EXCEPT ![router[w]] = @ \cup {Defaults[next[w]]}]
            /\ next' = [next EXCEPT ![w] = @ + 1]
            /\ UNCHANGED <<published, pc, router>>
        BY <2>5, <3>1 DEF BindNext
      <4>2. \A o \in Workers : bound[o] \subseteq bound'[o] /\ bound'[o] \subseteq Names
        BY <4>1, <2>5, <3>1, DefaultsType DEF BindNext
      <4>3. Defaults[next[w]] \in bound'[router[w]]
        BY <4>1, <2>5 DEF BindNext
      <4>4. ASSUME NEW v \in Workers, pc'[v] = "installing", NEW k \in 1..Len(Defaults),
                   k < next'[v]
            PROVE  Defaults[k] \in bound'[router'[v]]
        <5>1. CASE k < next[v]
          BY <4>1, <4>2, <4>4, <5>1
        <5>2. CASE ~(k < next[v])
          <6>1. v = w /\ k = next[w]
            BY <4>1, <4>4, <5>2
          <6>2. QED
            BY <4>1, <4>3, <6>1
        <5>3. QED
          BY <5>1, <5>2
      <4>5. QED
        BY SMTT(30), <2>5, <4>1, <4>2, <4>4 DEF BindNext
    <3>2. CASE ~(next[w] <= Len(Defaults))
      <4>1. Names \subseteq bound[router[w]]
        <5>1. \A k \in 1..Len(Defaults) : k < next[w]
          BY <3>2, DefaultsType
        <5>2. \A k \in 1..Len(Defaults) : Defaults[k] \in bound[router[w]]
          BY <2>5, <5>1 DEF BindNext
        <5>3. QED
          BY SMTT(30), <5>2, DefaultsType
      <4>2. bound[router[w]] = Names
        BY <2>5, <4>1 DEF BindNext
      <4>3. /\ UNCHANGED <<bound, next, published, id, intent, seen>>
            /\ router' = [router EXCEPT ![w] = None]
            /\ pc' = [pc EXCEPT ![w] = "returning"]
        BY <2>5, <3>2 DEF BindNext
      <4>4. published # None =>
               bound[published] = Names \/ \E v \in Workers \ {w} : Installer(v)
        BY <2>5, <4>2 DEF BindNext
      <4>5. (published # None =>
               bound[published] = Names \/ \E v \in Workers : Installer(v))'
        BY <4>3, <4>4
      <4>6. QED
        BY <4>3, <4>5, RouterAssumption
    <3>3. QED
      BY <3>1, <3>2
  <2>6. CASE ReturnRouter(w)
    BY <2>6 DEF ReturnRouter
  <2>7. CASE Handle(w)
    BY <2>7 DEF Handle
  <2>8. CASE InsertRecord(w)
    BY <2>8 DEF InsertRecord
  <2>9. CASE CommitRecord(w)
    BY <2>9 DEF CommitRecord, Commit
  <2>10. CASE VaultFull(w)
    <3>1. /\ UNCHANGED <<published, bound>> /\ pc[w] = "handled"
          /\ \A v \in Workers :
                /\ pc'[v] = IF v = w THEN "idle" ELSE pc[v]
                /\ router'[v] = IF v = w THEN None ELSE router[v]
                /\ next'[v] = IF v = w THEN 1 ELSE next[v]
      BY <2>10 DEF VaultFull, Leave
    <3>2. \A v \in Workers : Installer(v) => Installer(v)'
      BY <3>1
    <3>3. QED
      BY SMTT(30), <3>1, <3>2, RouterAssumption
  <2>11. CASE ReadCount(w)
    BY <2>11 DEF ReadCount
  <2>12. CASE WriteCount(w)
    BY <2>12 DEF WriteCount
  <2>13. CASE TagEvent(w)
    BY <2>13 DEF TagEvent
  <2>14. CASE AnswerUntagged(w)
    BY <2>14, RouterAssumption DEF AnswerUntagged, Leave
  <2>15. CASE Answer(w)
    BY <2>15, RouterAssumption DEF Answer, Leave, Commit
  <2>16. CASE StoreRaises(w)
    BY <2>16, RouterAssumption DEF StoreRaises, Leave
  <2>17. CASE StoreRollsBack(w)
    BY <2>17, RouterAssumption DEF StoreRollsBack, Leave, RollBack
  <2>18. QED
    BY <1>1, <2>1, <2>2, <2>3, <2>4, <2>5, <2>6, <2>7, <2>8, <2>9, <2>10, <2>11, <2>12,
       <2>13, <2>14, <2>15, <2>16, <2>17 DEF WorkerStep
<1>2. ASSUME NEW i \in Ids, EraseRow(i) PROVE BuildInv'
  BY <1>2 DEF EraseRow
<1>3. CASE VaultCommits
  BY <1>3 DEF VaultCommits, Commit
<1>4. CASE VaultRollsBack
  BY <1>4 DEF VaultRollsBack, RollBack
<1>5. CASE Restart
  BY <1>5, RouterAssumption DEF Restart
<1>6. CASE UNCHANGED vars
  BY <1>6 DEF vars
<1>7. QED
  BY <1>1, <1>2, <1>3, <1>4, <1>5, <1>6 DEF Next, VaultStep

(* A published router is complete once nobody is building one any more,     *)
(* however many threads raced to publish theirs.                            *)
THEOREM RoutersSettle == Spec => []RouterSettles
<1>1. Init => BuildInv
  BY RouterAssumption DEF Init, BuildInv
<1>2. TypeOK /\ BuildInv /\ [Next]_vars => BuildInv'
  BY BuildInvStep
<1>3. BuildInv => RouterSettles
  BY DEF BuildInv, RouterSettles, Installer
<1>4. QED
  BY <1>1, <1>2, <1>3, TypeCorrect, PTL DEF Spec

-----------------------------------------------------------------------------
EventInv ==
    /\ \A v, w \in Workers : v # w /\ pc[v] # "idle" => id[v] # id[w]
    /\ \A i \in created : outcome[i] # "none"
    /\ \A w \in Workers : pc[w] \in Writing => id[w] \in created
    /\ \A w \in Workers : pc[w] \notin Writing => id[w] \notin created
    /\ \A w \in Workers : pc[w] = "handled" => outcome[id[w]] # "none"
    /\ \A w \in Workers : pc[w] \in Writing => id[w] \in live \cup removed \cup undone
    /\ \A w \in Workers : pc[w] \in Writing \ {"inserted"} /\ id[w] \in live => id[w] \in disk
    /\ \A w \in Workers : pc[w] = "tagged" => id[w] \in tagged \cup removed \cup undone
    /\ \A w \in Workers : pc[w] \in Writing \ {"tagged"} => id[w] \notin tagged \cup durable
    /\ tagged \subseteq disk
    /\ durable \subseteq tagged \cup removed /\ disk \subseteq live \cup removed
    /\ AnsweredEventsStay

LEMMA EventInvStep == ASSUME TypeOK, EventInv, [Next]_vars PROVE EventInv'
<1> USE DEF TypeOK, EventInv, AnsweredEventsStay,
            routerVars, callVars, storeVars, histVars
<1>1. ASSUME NEW w \in Workers, WorkerStep(w) PROVE EventInv'
  <2>1. ASSUME NEW i \in Ids, NEW name \in Names \cup Unbound, BeginDispatch(w, i, name)
        PROVE  EventInv'
    BY <2>1 DEF BeginDispatch
  <2>2. CASE LookUpRouter(w)
    BY <2>2 DEF LookUpRouter
  <2>3. CASE Publish(w)
    BY <2>3 DEF Publish
  <2>4. CASE BeginInstall(w)
    BY <2>4 DEF BeginInstall
  <2>5. CASE BindNext(w)
    <3>1. /\ \A v \in Workers : pc'[v] = pc[v]
              \/ (pc[v] = "installing" /\ pc'[v] = "returning")
          /\ UNCHANGED <<id, rowVars, histVars>>
      BY <2>5 DEF BindNext
    <3>2. QED
      BY <3>1
  <2>6. CASE ReturnRouter(w)
    <3>1. /\ \A v \in Workers : pc'[v] = IF v = w THEN "routed" ELSE pc[v]
          /\ pc[w] = "returning"
          /\ UNCHANGED <<id, rowVars, histVars>>
      BY <2>6 DEF ReturnRouter
    <3>2. QED
      BY <3>1
  <2>7. CASE Handle(w)
    BY <2>7 DEF Handle
  <2>8. CASE InsertRecord(w)
    BY <2>8 DEF InsertRecord
  <2>9. CASE CommitRecord(w)
    BY <2>9 DEF CommitRecord, Commit
  <2>10. CASE VaultFull(w)
    BY <2>10, RouterAssumption DEF VaultFull, Leave
  <2>11. CASE ReadCount(w)
    BY <2>11 DEF ReadCount
  <2>12. CASE WriteCount(w)
    BY <2>12 DEF WriteCount
  <2>13. CASE TagEvent(w)
    BY <2>13 DEF TagEvent
  <2>14. CASE AnswerUntagged(w)
    BY <2>14, RouterAssumption DEF AnswerUntagged, Leave
  <2>15. CASE Answer(w)
    BY <2>15, RouterAssumption DEF Answer, Leave, Commit
  <2>16. CASE StoreRaises(w)
    BY <2>16, RouterAssumption DEF StoreRaises, Leave
  <2>17. CASE StoreRollsBack(w)
    BY <2>17, RouterAssumption DEF StoreRollsBack, Leave, RollBack
  <2>18. QED
    BY <1>1, <2>1, <2>2, <2>3, <2>4, <2>5, <2>6, <2>7, <2>8, <2>9, <2>10, <2>11, <2>12,
       <2>13, <2>14, <2>15, <2>16, <2>17 DEF WorkerStep
<1>2. ASSUME NEW i \in Ids, EraseRow(i) PROVE EventInv'
  BY <1>2 DEF EraseRow
<1>3. CASE VaultCommits
  BY <1>3 DEF VaultCommits, Commit
<1>4. CASE VaultRollsBack
  BY <1>4 DEF VaultRollsBack, RollBack
<1>5. CASE Restart
  BY <1>5, RouterAssumption DEF Restart
<1>6. CASE UNCHANGED vars
  BY <1>6 DEF vars
<1>7. QED
  BY <1>1, <1>2, <1>3, <1>4, <1>5, <1>6 DEF Next, VaultStep

LEMMA EventInvHolds == Spec => []EventInv
<1>1. Init => EventInv
  BY RouterAssumption DEF Init, EventInv, AnsweredEventsStay
<1>2. TypeOK /\ EventInv /\ [Next]_vars => EventInv'
  BY EventInvStep
<1>3. QED
  BY <1>1, <1>2, TypeCorrect, PTL DEF Spec

(* The event a dispatch was answered with stays in the stream, through      *)
(* crashes and other workers' commits and rollbacks, until its record is    *)
(* deleted, unless a rollback hit it before its own commit.                 *)
THEOREM AnsweredEventsAreKept == Spec => []AnsweredEventsStay
  BY EventInvHolds, PTL DEF EventInv

-----------------------------------------------------------------------------
(* Records whose own increment is still to come. *)
Uncounted == {id[w] : w \in {v \in Workers : pc[v] \in {"inserted", "recorded", "counting"}}}

Counted == created \ Uncounted

CountInv ==
    /\ count <= Cardinality(Counted)
    /\ \A w \in Workers : pc[w] = "counting" => seen[w] <= Cardinality(Counted)

LEMMA PartOfIds ==
    ASSUME NEW C \in SUBSET Ids, NEW U
    PROVE  /\ IsFiniteSet(C) /\ IsFiniteSet(C \ U)
           /\ Cardinality(C) \in Nat /\ Cardinality(C \ U) \in Nat
           /\ Cardinality(C \ U) <= Cardinality(C)
  BY RouterAssumption, FS_Subset, FS_CardinalityType

(* The set of counted records never shrinks, and grows by the record a      *)
(* worker writes the increment of.                                          *)
LEMMA CountedGrows ==
    ASSUME TypeOK, EventInv, [Next]_vars
    PROVE  /\ Counted \subseteq Counted'
           /\ \A w \in Workers : WriteCount(w) =>
                 id[w] \notin Counted /\ id[w] \in Counted'
<1> USE DEF TypeOK, EventInv, Counted, Uncounted, routerVars, callVars, storeVars, histVars
<1>1. ASSUME NEW w \in Workers, WorkerStep(w) PROVE Counted \subseteq Counted'
  <2> DEFINE Leaves == \/ VaultFull(w) \/ AnswerUntagged(w) \/ Answer(w)
                       \/ StoreRaises(w) \/ StoreRollsBack(w)
  <2>1. CASE InsertRecord(w)
    BY <2>1 DEF InsertRecord
  <2>2. CASE WriteCount(w)
    BY <2>2 DEF WriteCount
  <2>3. CASE Leaves
    BY <2>3 DEF VaultFull, AnswerUntagged, Answer, StoreRaises, StoreRollsBack, Leave
  <2>4. CASE ~(InsertRecord(w) \/ WriteCount(w) \/ Leaves)
    BY <1>1, <2>4 DEF WorkerStep, BeginDispatch, LookUpRouter, Publish, BeginInstall,
          BindNext, ReturnRouter, Handle, CommitRecord, ReadCount, TagEvent
  <2>5. QED
    BY <2>1, <2>2, <2>3, <2>4
<1>2. ASSUME NEW w \in Workers, WriteCount(w)
      PROVE  id[w] \notin Counted /\ id[w] \in Counted'
  BY <1>2 DEF WriteCount
<1>3. ASSUME VaultStep PROVE Counted \subseteq Counted'
  BY <1>3 DEF VaultStep, EraseRow, VaultCommits, VaultRollsBack
<1>4. ASSUME Restart PROVE Counted \subseteq Counted'
  <2>1. Uncounted' = {} /\ created' = created
    BY <1>4 DEF Restart
  <2>2. QED
    BY <2>1
<1>5. ASSUME UNCHANGED vars PROVE Counted \subseteq Counted'
  <2>1. Uncounted' = Uncounted /\ created' = created
    BY <1>5 DEF vars
  <2>2. QED
    BY <2>1
<1>6. QED
  BY <1>1, <1>2, <1>3, <1>4, <1>5 DEF Next

LEMMA CountInvStep ==
    ASSUME TypeOK, TypeOK', EventInv, CountInv, [Next]_vars PROVE CountInv'
<1> USE DEF CountInv, routerVars, callVars, storeVars, histVars
<1> DEFINE n == Cardinality(Counted)
           m == Cardinality(Counted')
<1>1. n \in Nat /\ m \in Nat /\ n <= m /\ IsFiniteSet(Counted) /\ IsFiniteSet(Counted')
  <2>1. created \in SUBSET Ids /\ created' \in SUBSET Ids
    BY DEF TypeOK
  <2>2. n \in Nat /\ IsFiniteSet(Counted)
    BY <2>1, PartOfIds DEF Counted
  <2>3. m \in Nat /\ IsFiniteSet(Counted')
    BY <2>1, PartOfIds DEF Counted
  <2>4. Counted \subseteq Counted'
    BY CountedGrows
  <2>5. QED
    BY <2>2, <2>3, <2>4, FS_Subset
<1>2. count \in Nat /\ (\A w \in Workers : seen[w] \in Nat)
  BY DEF TypeOK
<1>3. ASSUME NEW w \in Workers, WriteCount(w) PROVE CountInv'
  <2>1. id[w] \notin Counted /\ Counted \cup {id[w]} \subseteq Counted'
    BY <1>3, CountedGrows
  <2>2. n + 1 <= m
    BY <1>1, <2>1, FS_AddElement, FS_Subset
  <2>3. QED
    BY <1>1, <1>2, <1>3, <2>2 DEF WriteCount, TypeOK
<1>4. ASSUME NEW w \in Workers, ReadCount(w) PROVE CountInv'
  BY <1>1, <1>2, <1>4 DEF ReadCount, TypeOK
<1>5. ASSUME NEW w \in Workers, WorkerStep(w), ~WriteCount(w), ~ReadCount(w) PROVE CountInv'
  <2>1. /\ count' = count
        /\ \A v \in Workers : pc'[v] = "counting" => pc[v] = "counting" /\ seen'[v] = seen[v]
    <3> DEFINE Leaves == \/ VaultFull(w) \/ AnswerUntagged(w) \/ Answer(w)
                         \/ StoreRaises(w) \/ StoreRollsBack(w)
    <3>1. CASE Leaves
      BY <3>1 DEF TypeOK, VaultFull, AnswerUntagged, Answer, StoreRaises, StoreRollsBack, Leave
    <3>2. CASE BindNext(w)
      BY <3>2 DEF TypeOK, BindNext
    <3>3. CASE ~(Leaves \/ BindNext(w))
      BY <1>5, <3>3 DEF TypeOK, WorkerStep, BeginDispatch, LookUpRouter, Publish,
            BeginInstall, ReturnRouter, Handle, InsertRecord, CommitRecord, TagEvent
    <3>4. QED
      BY <3>1, <3>2, <3>3
  <2>2. QED
    BY <1>1, <1>2, <2>1
<1>6. CASE VaultStep
  BY <1>1, <1>2, <1>6 DEF VaultStep, EraseRow, VaultCommits, VaultRollsBack
<1>7. CASE Restart
  BY <1>1, <1>2, <1>7 DEF Restart
<1>8. CASE UNCHANGED vars
  BY <1>1, <1>2, <1>8 DEF vars
<1>9. QED
  BY <1>3, <1>4, <1>5, <1>6, <1>7, <1>8 DEF Next

(* The counter of the metrics never exceeds the records that were made,     *)
(* with any number of racing and failing requests.                          *)
THEOREM CountsAreReal == Spec => []CountNotInvented
<1>1. Init => CountInv
  <2>1. ASSUME Init PROVE Counted = {}
    BY <2>1 DEF Init, Counted
  <2>2. QED
    BY <2>1, FS_EmptySet DEF Init, CountInv
<1>2. TypeOK /\ TypeOK' /\ EventInv /\ CountInv /\ [Next]_vars => CountInv'
  BY CountInvStep
<1>3. TypeOK /\ CountInv => CountNotInvented
  <2>1. ASSUME TypeOK, CountInv PROVE CountNotInvented
    <3>1. created \in SUBSET Ids /\ count \in Nat
      BY <2>1 DEF TypeOK
    <3>2. /\ Cardinality(created) \in Nat /\ Cardinality(Counted) \in Nat
          /\ Cardinality(Counted) <= Cardinality(created)
      BY <3>1, PartOfIds DEF Counted
    <3>3. QED
      BY <2>1, <3>1, <3>2 DEF CountInv, CountNotInvented
  <2>2. QED
    BY <2>1
<1>4. QED
  BY <1>1, <1>2, <1>3, TypeCorrect, EventInvHolds, PTL DEF Spec

-----------------------------------------------------------------------------
Phases  == [i \in Ids |-> Phase(i)]
Visible == [i \in Ids |-> Content(i, live, tagged)]
Kept    == [i \in Ids |-> Content(i, disk, durable)]
Spoilt  == removed \cup undone

streamVars == <<outcome, created, rowVars, removed, undone, answered>>

(* What is visible of a record differs from what is kept exactly if its row *)
(* or its tag is pending.                                                   *)
LEMMA Pending ==
    ASSUME TypeOK, EventInv, NEW i \in Ids
    PROVE  /\ Visible[i] # Kept[i] => i \in (live \ disk) \cup (tagged \ durable) \cup removed
           /\ i \in (live \ disk) \cup (tagged \ durable) => Visible[i] # Kept[i]
  BY DEF TypeOK, EventInv, Visible, Kept, Content

(* Every step is one of the stream's, or a stutter. *)
LEMMA StreamStep ==
    ASSUME TypeOK, TypeOK', EventInv, EventInv', [Next]_vars
    PROVE  [Stream!Next]_<<Phases, Visible, Kept, Spoilt, answered>>
<1> DEFINE Same  == UNCHANGED <<Phases, Visible, Kept, Spoilt, answered>>
           Moves == \/ \E i \in Ids : \/ Stream!Handle(i) \/ Stream!Write(i) \/ Stream!Tag(i)
                                      \/ Stream!Erase(i) \/ Stream!Answer(i)
                    \/ Stream!Commit \/ Stream!RollBack \/ Stream!Crash
<1> USE DEF Spoilt
<1>1. UNCHANGED streamVars => Same
  BY DEF streamVars, Phases, Phase, Visible, Kept, Content
<1>2. ASSUME NEW w \in Workers, NEW i \in Ids, i = id[w], Handle(w) PROVE Stream!Handle(i) \/ Same
  <2>1. i \notin created
    BY <1>2 DEF Handle, EventInv
  <2>2. /\ outcome'[i] # "none" /\ \A j \in Ids \ {i} : outcome'[j] = outcome[j]
        /\ UNCHANGED <<created, rowVars, removed, undone, answered>>
    <3>1. PICK status \in {"ok", "error"} : outcome' = [outcome EXCEPT ![i] = status]
      BY <1>2 DEF Handle
    <3>2. outcome \in [Ids -> {"none", "ok", "error"}]
      BY DEF TypeOK
    <3>3. QED
      BY <1>2, <3>1, <3>2 DEF Handle, storeVars
  <2>3. Phases[i] \in {"new", "handled"} /\ Phases' = [Phases EXCEPT ![i] = "handled"]
    BY <2>1, <2>2 DEF Phases, Phase
  <2>4. UNCHANGED <<Visible, Kept, Spoilt, answered>>
    BY <2>2 DEF Visible, Kept, Content
  <2>5. CASE Phases[i] = "new"
    BY <2>3, <2>4, <2>5 DEF Stream!Handle, Phases, Visible, Kept
  <2>6. CASE Phases[i] = "handled"
    <3>1. Phases' = Phases
      BY <2>3, <2>6 DEF Phases
    <3>2. QED
      BY <2>4, <3>1
  <2>7. QED
    BY <2>3, <2>5, <2>6
<1>3. ASSUME NEW w \in Workers, NEW i \in Ids, i = id[w], InsertRecord(w) PROVE Stream!Write(i)
  <2>1. i \notin created /\ outcome[i] # "none" /\ i \notin tagged
    BY <1>3 DEF InsertRecord, EventInv, TypeOK
  <2>2. /\ created' = created \cup {i} /\ live' = live \cup {i}
        /\ UNCHANGED <<disk, tagged, durable, outcome, removed, undone, answered>>
    BY <1>3 DEF InsertRecord
  <2>3. Phases[i] = "handled" /\ Phases' = [Phases EXCEPT ![i] = "written"]
    BY <2>1, <2>2 DEF Phases, Phase
  <2>4. Visible' = [Visible EXCEPT ![i] = "record"]
    BY <2>1, <2>2 DEF Visible, Content
  <2>5. UNCHANGED <<Kept, Spoilt, answered>>
    BY <2>2 DEF Kept, Content
  <2>6. QED
    BY <2>3, <2>4, <2>5 DEF Stream!Write, Phases, Visible, Kept
<1>4. ASSUME NEW w \in Workers, NEW i \in Ids, i = id[w], TagEvent(w) PROVE Stream!Tag(i) \/ Same
  <2>1. UNCHANGED <<created, live, disk, durable, removed, undone, outcome, answered>>
    BY <1>4 DEF TagEvent, histVars
  <2>2. CASE i \in live
    <3>1. i \in disk /\ i \notin tagged /\ i \notin durable /\ tagged' = tagged \cup {i}
      BY <1>4, <2>2 DEF TagEvent, EventInv
    <3>2. /\ Visible[i] = "record" /\ Kept[i] = "record"
          /\ Visible' = [Visible EXCEPT ![i] = "event"]
      BY <2>1, <2>2, <3>1 DEF Visible, Kept, Content
    <3>3. UNCHANGED <<Phases, Kept, Spoilt, answered>>
      BY <2>1 DEF Phases, Phase, Kept, Content
    <3>4. QED
      BY <3>2, <3>3 DEF Stream!Tag, Phases, Visible, Kept
  <2>3. CASE i \notin live
    <3>1. tagged' = tagged
      BY <1>4, <2>3 DEF TagEvent
    <3>2. QED
      BY <1>1, <2>1, <3>1 DEF streamVars
  <2>4. QED
    BY <2>2, <2>3
<1>5. ASSUME NEW w \in Workers, NEW i \in Ids, i = id[w], AnswerUntagged(w) \/ Answer(w)
      PROVE  Stream!Answer(i)
  <2>1. i \in created /\ answered' = answered \cup {i}
    BY <1>5 DEF AnswerUntagged, Answer, EventInv
  <2>2. Phases[i] = "written" /\ UNCHANGED <<Phases, Visible, Spoilt>>
    BY <1>5, <2>1 DEF AnswerUntagged, Answer, Commit, storeVars, Phases, Phase, Visible, Content
  <2>3. Kept' \in {Kept, Visible} /\ (Kept'[i] = "event" \/ i \in Spoilt)
    <3>1. CASE AnswerUntagged(w)
      <4>1. i \in removed \cup undone
        BY <1>5, <3>1 DEF AnswerUntagged, EventInv
      <4>2. QED
        BY <3>1, <4>1 DEF AnswerUntagged, storeVars, Kept, Content
    <3>2. CASE Answer(w)
      <4>1. i \in tagged \cup removed \cup undone
        BY <1>5, <3>2 DEF Answer, EventInv
      <4>2. disk' = live /\ durable' = tagged
        BY <3>2 DEF Answer, Commit
      <4>3. QED
        BY <4>1, <4>2 DEF Kept, Visible, Content
    <3>3. QED
      BY <1>5, <3>1, <3>2
  <2>4. QED
    BY <2>1, <2>2, <2>3 DEF Stream!Answer, Phases, Visible, Kept
<1>6. ASSUME NEW i \in Ids, EraseRow(i) PROVE Stream!Erase(i)
  <2>1. /\ Visible[i] # "none" /\ Visible' = [Visible EXCEPT ![i] = "none"]
        /\ Spoilt' = Spoilt \cup {i}
    BY <1>6 DEF EraseRow, Visible, Content
  <2>2. UNCHANGED <<Phases, Kept, answered>>
    BY <1>6 DEF EraseRow, Phases, Phase, Kept, Content
  <2>3. QED
    BY <2>1, <2>2 DEF Stream!Erase, Phases, Visible, Kept
<1>7. ASSUME Commit, UNCHANGED histVars PROVE Stream!Commit
  <2>1. Kept' = Visible
    BY <1>7 DEF Commit, Kept, Visible, Content
  <2>2. UNCHANGED <<Phases, Visible, Spoilt, answered>>
    BY <1>7 DEF Commit, histVars, Phases, Phase, Visible, Content
  <2>3. QED
    BY <2>1, <2>2 DEF Stream!Commit, Phases, Visible, Kept
<1>8. ASSUME RollBack, UNCHANGED <<outcome, created, removed, answered>> PROVE Stream!RollBack
  <2>1. Visible' = Kept /\ UNCHANGED <<Phases, Kept, answered>>
    BY <1>8 DEF RollBack, Phases, Phase, Kept, Visible, Content
  <2>2. Spoilt' = Spoilt \cup {i \in Ids : Visible[i] # Kept[i]}
    <3>1. Spoilt' = Spoilt \cup (live \ disk) \cup (tagged \ durable)
      BY <1>8 DEF RollBack
    <3>2. live \subseteq Ids /\ tagged \subseteq Ids
      BY DEF TypeOK
    <3>3. QED
      BY <3>1, <3>2, Pending
  <2>3. QED
    BY <2>1, <2>2 DEF Stream!RollBack, Phases, Visible, Kept
<1>9. ASSUME Restart PROVE Stream!Crash
  <2>1. Visible' = Kept /\ UNCHANGED <<Phases, Kept, Spoilt, answered>>
    BY <1>9 DEF Restart, histVars, Phases, Phase, Kept, Visible, Content
  <2>2. QED
    BY <2>1 DEF Stream!Crash, Phases, Visible, Kept
<1>10. Moves \/ Same
  <2>1. ASSUME NEW w \in Workers,
               Handle(w) \/ InsertRecord(w) \/ TagEvent(w) \/ AnswerUntagged(w) \/ Answer(w)
        PROVE  Moves \/ Same
    <3>1. id[w] \in Ids
      BY <2>1 DEF Handle, InsertRecord, TagEvent, AnswerUntagged, Answer, TypeOK
    <3>2. QED
      BY <1>2, <1>3, <1>4, <1>5, <2>1, <3>1
  <2>2. ASSUME NEW w \in Workers, CommitRecord(w) \/ StoreRollsBack(w) PROVE Moves
    BY <1>7, <1>8, <2>2 DEF CommitRecord, StoreRollsBack, histVars
  <2>3. ASSUME NEW w \in Workers, WorkerStep(w),
               ~(Handle(w) \/ InsertRecord(w) \/ TagEvent(w) \/ AnswerUntagged(w) \/ Answer(w)
                 \/ CommitRecord(w) \/ StoreRollsBack(w))
        PROVE  UNCHANGED streamVars
    BY <2>3 DEF WorkerStep, BeginDispatch, LookUpRouter, Publish, BeginInstall, BindNext,
          ReturnRouter, VaultFull, ReadCount, WriteCount, StoreRaises,
          storeVars, histVars, streamVars
  <2>4. CASE VaultStep
    BY <1>6, <1>7, <1>8, <2>4 DEF VaultStep, VaultCommits, VaultRollsBack
  <2>5. CASE UNCHANGED vars
    BY <1>1, <2>5 DEF vars, storeVars, histVars, streamVars
  <2>6. QED
    BY <1>1, <1>9, <2>1, <2>2, <2>3, <2>4, <2>5 DEF Next
<1>11. QED
  BY <1>10 DEF Stream!Next, Phases, Visible, Kept

(* Dispatching implements the stream of events: a handler, one record, a    *)
(* tag on the committed record, a commit, in this order and none twice, for *)
(* any number of threads that commit and roll back each other's changes,    *)
(* failing statements and crashes.                                          *)
THEOREM DispatchingKeepsTheStream == Spec => EventsFlowOnce
<1>1. Init => Stream!Init
  BY DEF Init, Stream!Init, Phase, Content
<1>2. TypeOK /\ TypeOK' /\ EventInv /\ EventInv' /\ [Next]_vars => [Stream!Next]_(Stream!vars)
  BY StreamStep DEF Stream!vars, Phases, Visible, Kept, Spoilt
<1>3. QED
  BY <1>1, <1>2, TypeCorrect, EventInvHolds, PTL DEF Spec, EventsFlowOnce, Stream!Spec

=============================================================================
