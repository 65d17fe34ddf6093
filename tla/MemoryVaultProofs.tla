-------------------------- MODULE MemoryVaultProofs --------------------------
(***************************************************************************)
(* Proofs, for any number of workers, tenants, plans and faults, of what   *)
(* MemoryVault promises.  The argument has three independent parts, each   *)
(* an inductive invariant relative to TypeOK:                              *)
(*   DurableInv    an acknowledged create is visible and on disk, unless a *)
(*                 rollback undid it;                                      *)
(*   RemovedInv    a matched DELETE is visible at once and never undone    *)
(*                 after it has been acknowledged;                         *)
(*   SlotsInv      rows plus workers between count and insert stay within  *)
(*                 the cap plus one less than the number of workers, and a *)
(*                 row only the disk has is on its way out by a worker.    *)
(* The last theorem is the refinement: every step is one of RecordLife, or *)
(* leaves all records where they stand.                                    *)
(***************************************************************************)
EXTENDS MemoryVault, FiniteSetTheorems, TLAPS

LEMMA CapType == \A p : Cap(p) \in Nat
  BY VaultAssumption DEF Cap

(* The type invariant of the vault: every variable keeps its type, every    *)
(* row ever written has a tenant.                                           *)
THEOREM TypeCorrect == Spec => []TypeOK
<1>1. Init => TypeOK
  BY CapType, VaultAssumption DEF Init, TypeOK
<1>2. TypeOK /\ [Next]_vars => TypeOK'
  <2> SUFFICES ASSUME TypeOK, [Next]_vars PROVE TypeOK'
    OBVIOUS
  <2> USE DEF TypeOK
  <2>1. ASSUME NEW w \in Workers, NEW t \in Tenants, BeginCreate(w, t)
        PROVE  TypeOK'
    BY <2>1, CapType DEF BeginCreate, rowVars, histVars
  <2>2. ASSUME NEW w \in Workers, CountRoom(w) PROVE TypeOK'
    BY <2>2 DEF CountRoom, rowVars, histVars
  <2>3. ASSUME NEW w \in Workers, CountFull(w) PROVE TypeOK'
    BY <2>3 DEF CountFull, Idle, rowVars, histVars
  <2>4. ASSUME NEW w \in Workers, InsertRow(w) PROVE TypeOK'
    BY <2>4 DEF InsertRow, histVars
  <2>5. ASSUME NEW w \in Workers, CommitCreate(w) PROVE TypeOK'
    BY <2>5 DEF CommitCreate, Idle
  <2>6. ASSUME NEW w \in Workers, NEW t \in Tenants, NEW id \in MemoryIds,
               DeleteRow(w, t, id)
        PROVE  TypeOK'
    BY <2>6 DEF DeleteRow, Matches
  <2>7. ASSUME NEW w \in Workers, CommitDelete(w) PROVE TypeOK'
    BY <2>7 DEF CommitDelete, Idle
  <2>8. ASSUME NEW w \in Workers, InsertRaises(w) PROVE TypeOK'
    BY <2>8 DEF InsertRaises, Idle, rowVars, histVars
  <2>9. ASSUME NEW w \in Workers, CommitRaises(w) PROVE TypeOK'
    BY <2>9 DEF CommitRaises, Idle, rowVars, histVars
  <2>10. ASSUME NEW t \in Tenants, NEW p \in Plans, SetPlan(t, p) PROVE TypeOK'
    BY <2>10, CapType DEF SetPlan, rowVars, callVars
  <2>11. CASE Crash
    BY <2>11, VaultAssumption DEF Crash, histVars
  <2>12. ASSUME NEW w \in Workers, StatementRollsBack(w) PROVE TypeOK'
    BY <2>12, VaultAssumption DEF StatementRollsBack, Idle
  <2>13. CASE UNCHANGED vars
    BY <2>13 DEF vars, rowVars, callVars, histVars
  <2>14. ASSUME NEW w \in Workers, DeleteMisses(w) PROVE TypeOK'
    BY <2>14 DEF DeleteMisses, rowVars, histVars
  <2>15. QED
    BY <2>1, <2>2, <2>3, <2>4, <2>5, <2>6, <2>7, <2>8, <2>9, <2>10, <2>11,
       <2>12, <2>13, <2>14 DEF Next, WorkerStep
<1>3. QED
  BY <1>1, <1>2, PTL DEF Spec

-----------------------------------------------------------------------------
(* What every acknowledged or still unacknowledged insert looks like. *)
DurableInv ==
    /\ AckedCreateDurable
    /\ stored \subseteq live \cup gone \cup undone
    /\ \A w \in Workers : pc[w] = "inserted" => target[w] \in live \cup gone \cup undone

(* Durability of acknowledged creates, across any interleaving of the       *)
(* workers' statements, any crash and any rollback.                         *)
THEOREM AckedCreatesAreDurable == Spec => []AckedCreateDurable
<1>1. Init => DurableInv
  BY DEF Init, DurableInv, AckedCreateDurable
<1>2. TypeOK /\ DurableInv /\ [Next]_vars => DurableInv'
  <2> SUFFICES ASSUME TypeOK, DurableInv, [Next]_vars PROVE DurableInv'
    OBVIOUS
  <2> USE DEF TypeOK, DurableInv, AckedCreateDurable
  <2>1. ASSUME NEW w \in Workers, NEW t \in Tenants, BeginCreate(w, t)
        PROVE  DurableInv'
    BY <2>1 DEF BeginCreate, rowVars, histVars
  <2>2. ASSUME NEW w \in Workers, CountRoom(w) PROVE DurableInv'
    BY <2>2 DEF CountRoom, rowVars, histVars
  <2>3. ASSUME NEW w \in Workers, CountFull(w) PROVE DurableInv'
    BY <2>3 DEF CountFull, Idle, rowVars, histVars
  <2>4. ASSUME NEW w \in Workers, InsertRow(w) PROVE DurableInv'
    BY <2>4 DEF InsertRow, histVars
  <2>5. ASSUME NEW w \in Workers, CommitCreate(w) PROVE DurableInv'
    BY <2>5 DEF CommitCreate, Idle
  <2>6. ASSUME NEW w \in Workers, NEW t \in Tenants, NEW id \in MemoryIds,
               DeleteRow(w, t, id)
        PROVE  DurableInv'
    BY <2>6 DEF DeleteRow
  <2>7. ASSUME NEW w \in Workers, CommitDelete(w) PROVE DurableInv'
    BY <2>7 DEF CommitDelete, Idle
  <2>8. ASSUME NEW w \in Workers, InsertRaises(w) PROVE DurableInv'
    BY <2>8 DEF InsertRaises, Idle, rowVars, histVars
  <2>9. ASSUME NEW w \in Workers, CommitRaises(w) PROVE DurableInv'
    BY <2>9 DEF CommitRaises, Idle, rowVars, histVars
  <2>10. ASSUME NEW t \in Tenants, NEW p \in Plans, SetPlan(t, p)
         PROVE  DurableInv'
    BY <2>10 DEF SetPlan, rowVars, callVars
  <2>11. CASE Crash
    BY <2>11 DEF Crash, histVars
  <2>12. ASSUME NEW w \in Workers, StatementRollsBack(w) PROVE DurableInv'
    BY <2>12 DEF StatementRollsBack, Idle
  <2>13. CASE UNCHANGED vars
    BY <2>13 DEF vars, rowVars, callVars, histVars
  <2>14. ASSUME NEW w \in Workers, DeleteMisses(w) PROVE DurableInv'
    BY <2>14 DEF DeleteMisses, rowVars, histVars
  <2>15. QED
    BY <2>1, <2>2, <2>3, <2>4, <2>5, <2>6, <2>7, <2>8, <2>9, <2>10, <2>11,
       <2>12, <2>13, <2>14 DEF Next, WorkerStep
<1>3. DurableInv => AckedCreateDurable
  BY DEF DurableInv
<1>4. QED
  BY <1>1, <1>2, <1>3, TypeCorrect, PTL DEF Spec

-----------------------------------------------------------------------------
(* A row whose DELETE matched is invisible until a fault forgets it, and    *)
(* identifiers are never drawn twice, so it cannot come back.               *)
RemovedInv ==
    /\ AckedDeleteFinal
    /\ \A w \in Workers : pc[w] = "deleted" => target[w] \notin live \/ target[w] \in undone

(* An acknowledged delete is final, in the running process and on disk. *)
THEOREM AckedDeletesAreFinal == Spec => []AckedDeleteFinal
<1>1. Init => RemovedInv
  BY DEF Init, RemovedInv, AckedDeleteFinal
<1>2. TypeOK /\ RemovedInv /\ [Next]_vars => RemovedInv'
  <2> SUFFICES ASSUME TypeOK, RemovedInv, [Next]_vars PROVE RemovedInv'
    OBVIOUS
  <2> USE DEF TypeOK, RemovedInv, AckedDeleteFinal
  <2>1. ASSUME NEW w \in Workers, NEW t \in Tenants, BeginCreate(w, t)
        PROVE  RemovedInv'
    BY <2>1 DEF BeginCreate, rowVars, histVars
  <2>2. ASSUME NEW w \in Workers, CountRoom(w) PROVE RemovedInv'
    BY <2>2 DEF CountRoom, rowVars, histVars
  <2>3. ASSUME NEW w \in Workers, CountFull(w) PROVE RemovedInv'
    BY <2>3 DEF CountFull, Idle, rowVars, histVars
  <2>4. ASSUME NEW w \in Workers, InsertRow(w) PROVE RemovedInv'
    BY <2>4 DEF InsertRow, histVars
  <2>5. ASSUME NEW w \in Workers, CommitCreate(w) PROVE RemovedInv'
    BY <2>5 DEF CommitCreate, Idle
  <2>6. ASSUME NEW w \in Workers, NEW t \in Tenants, NEW id \in MemoryIds,
               DeleteRow(w, t, id)
        PROVE  RemovedInv'
    BY <2>6 DEF DeleteRow
  <2>7. ASSUME NEW w \in Workers, CommitDelete(w) PROVE RemovedInv'
    BY <2>7 DEF CommitDelete, Idle
  <2>8. ASSUME NEW w \in Workers, InsertRaises(w) PROVE RemovedInv'
    BY <2>8 DEF InsertRaises, Idle, rowVars, histVars
  <2>9. ASSUME NEW w \in Workers, CommitRaises(w) PROVE RemovedInv'
    BY <2>9 DEF CommitRaises, Idle, rowVars, histVars
  <2>10. ASSUME NEW t \in Tenants, NEW p \in Plans, SetPlan(t, p)
         PROVE  RemovedInv'
    BY <2>10 DEF SetPlan, rowVars, callVars
  <2>11. CASE Crash
    BY <2>11 DEF Crash, histVars
  <2>12. ASSUME NEW w \in Workers, StatementRollsBack(w) PROVE RemovedInv'
    BY <2>12 DEF StatementRollsBack, Idle
  <2>13. CASE UNCHANGED vars
    BY <2>13 DEF vars, rowVars, callVars, histVars
  <2>14. ASSUME NEW w \in Workers, DeleteMisses(w) PROVE RemovedInv'
    BY <2>14 DEF DeleteMisses, rowVars, histVars
  <2>15. QED
    BY <2>1, <2>2, <2>3, <2>4, <2>5, <2>6, <2>7, <2>8, <2>9, <2>10, <2>11,
       <2>12, <2>13, <2>14 DEF Next, WorkerStep
<1>3. RemovedInv => AckedDeleteFinal
  BY DEF RemovedInv
<1>4. QED
  BY <1>1, <1>2, <1>3, TypeCorrect, PTL DEF Spec

-----------------------------------------------------------------------------
(* A worker holds a slot for tenant t between its count and its insert. *)
Slots(t) == {w \in Workers : pc[w] = "counted" /\ caller[w] = t}

Limit(t) == allowed[t] + Cardinality(Workers) - 1

(* Rows of a tenant in the connection's view or on disk: a fault brings     *)
(* back what only the disk has.                                             *)
Kept(t) == RowsOf(live \cup disk, t)

(* Workers between their DELETE and its commit. *)
Deleting == {w \in Workers : pc[w] = "deleted"}

(* Rows a tenant has, may get back, or is about to have stay below the      *)
(* limit, and whatever may come back belongs to a worker that is deleting.  *)
SlotsInv ==
    /\ IsFiniteSet(live \cup disk)
    /\ \A t \in Tenants : Cap(plan[t]) <= allowed[t]
    /\ \A w \in Workers : pc[w] \in {"create", "counted"} => cap[w] <= allowed[caller[w]]
    /\ \A id \in disk \ live : \E w \in Deleting : target[w] = id
    /\ \A t \in Tenants : Cardinality(Kept(t)) + Cardinality(Slots(t)) <= Limit(t)

(* Rows of a finite table, and sets of workers, are finite. *)
LEMMA FiniteParts ==
    ASSUME IsFiniteSet(live \cup disk), NEW t
    PROVE  /\ IsFiniteSet(Kept(t)) /\ Cardinality(Kept(t)) \in Nat
           /\ RowsOf(live, t) \subseteq Kept(t)
           /\ IsFiniteSet(RowsOf(live, t)) /\ Cardinality(RowsOf(live, t)) \in Nat
           /\ Cardinality(RowsOf(live, t)) <= Cardinality(Kept(t))
           /\ IsFiniteSet(Slots(t)) /\ Cardinality(Slots(t)) \in Nat
           /\ Cardinality(Workers) \in Nat \ {0}
<1>1. /\ Kept(t) \subseteq live \cup disk /\ RowsOf(live, t) \subseteq Kept(t)
      /\ Slots(t) \subseteq Workers
  BY DEF RowsOf, Slots, Kept
<1>2. IsFiniteSet(Kept(t)) /\ Cardinality(Kept(t)) \in Nat
  BY <1>1, FS_Subset, FS_CardinalityType
<1>3. /\ IsFiniteSet(RowsOf(live, t)) /\ Cardinality(RowsOf(live, t)) \in Nat
      /\ Cardinality(RowsOf(live, t)) <= Cardinality(Kept(t))
  BY <1>1, <1>2, FS_Subset, FS_CardinalityType
<1>4. IsFiniteSet(Slots(t)) /\ Cardinality(Slots(t)) \in Nat
  BY <1>1, FS_Subset, FS_CardinalityType, VaultAssumption
<1>5. Cardinality(Workers) \in Nat \ {0}
  BY FS_CardinalityType, FS_EmptySet, VaultAssumption
<1>6. QED
  BY <1>1, <1>2, <1>3, <1>4, <1>5

(* A step that adds neither rows nor slots. *)
LEMMA KeptShrink ==
    ASSUME IsFiniteSet(live \cup disk), NEW t,
           live' \cup disk' \subseteq live \cup disk, owner' = owner,
           Slots(t)' \subseteq Slots(t)
    PROVE  /\ Cardinality(Kept(t)') <= Cardinality(Kept(t))
           /\ Cardinality(Slots(t)') <= Cardinality(Slots(t))
           /\ Cardinality(Kept(t)') \in Nat /\ Cardinality(Slots(t)') \in Nat
<1>1. Kept(t)' \subseteq Kept(t)
  BY DEF RowsOf, Kept
<1>2. IsFiniteSet(Kept(t)) /\ IsFiniteSet(Slots(t))
  BY FiniteParts
<1>3. IsFiniteSet(Kept(t)') /\ IsFiniteSet(Slots(t)')
  BY <1>1, <1>2, FS_Subset
<1>4. QED
  BY <1>1, <1>2, <1>3, FS_Subset, FS_CardinalityType

(* What may come back is no more than the workers that are deleting. *)
LEMMA KeptBounded ==
    ASSUME SlotsInv, NEW t
    PROVE  /\ IsFiniteSet(Deleting) /\ Cardinality(Deleting) \in Nat
           /\ Cardinality(Kept(t)) <= Cardinality(RowsOf(live, t)) + Cardinality(Deleting)
<1> DEFINE D == RowsOf(disk \ live, t)
           T == {target[w] : w \in Deleting}
<1>1. IsFiniteSet(Deleting) /\ Cardinality(Deleting) \in Nat
  BY FS_Subset, FS_CardinalityType, VaultAssumption DEF Deleting
<1>2. IsFiniteSet(T) /\ Cardinality(T) <= Cardinality(Deleting)
  <2> DEFINE f == [w \in Deleting |-> target[w]]
  <2>1. f \in Surjection(Deleting, T)
    BY DEF Surjection
  <2>2. QED
    BY <1>1, <2>1, FS_Surjection
<1>3. D \subseteq T
  BY DEF SlotsInv, RowsOf
<1>4. IsFiniteSet(D) /\ Cardinality(D) <= Cardinality(T)
  BY <1>2, <1>3, FS_Subset
<1>5. Kept(t) = RowsOf(live, t) \cup D /\ RowsOf(live, t) \cap D = {}
  BY DEF RowsOf, Kept
<1>6. IsFiniteSet(RowsOf(live, t)) /\ Cardinality(RowsOf(live, t)) \in Nat
  BY FiniteParts DEF SlotsInv
<1>7. Cardinality(D) \in Nat /\ Cardinality(T) \in Nat
  BY <1>2, <1>4, FS_CardinalityType
<1> HIDE DEF D, T
<1>8. Cardinality(Kept(t)) = Cardinality(RowsOf(live, t)) + Cardinality(D) - Cardinality({})
  BY <1>4, <1>5, <1>6, FS_Union
<1>9. Cardinality({}) = 0
  BY FS_EmptySet
<1>10. QED
  BY <1>1, <1>2, <1>4, <1>6, <1>7, <1>8, <1>9

(* However many requests race and whatever is rolled back, a tenant exceeds *)
(* the largest cap it was entitled to by less than one record per worker.   *)
THEOREM OvershootIsBounded == Spec => []OvershootBounded
<1>1. Init => SlotsInv
  <2> SUFFICES ASSUME Init PROVE SlotsInv
    OBVIOUS
  <2>1. IsFiniteSet(live \cup disk)
    BY FS_EmptySet DEF Init
  <2>2. ASSUME NEW t \in Tenants
        PROVE  /\ Cap(plan[t]) <= allowed[t]
               /\ Cardinality(Kept(t)) + Cardinality(Slots(t)) <= Limit(t)
    <3>1. Kept(t) = {} /\ Slots(t) = {}
      BY DEF Init, RowsOf, Slots, Kept
    <3>2. Cardinality({}) = 0
      BY FS_EmptySet
    <3>3. allowed[t] = Cap(plan[t]) /\ allowed[t] \in Nat
      BY CapType DEF Init
    <3>4. Cardinality(Workers) \in Nat \ {0}
      BY <2>1, FiniteParts
    <3>5. QED
      BY <3>1, <3>2, <3>3, <3>4 DEF Limit
  <2>3. QED
    BY <2>1, <2>2 DEF SlotsInv, Init
<1>2. TypeOK /\ SlotsInv /\ [Next]_vars => SlotsInv'
  <2> SUFFICES ASSUME TypeOK, SlotsInv, [Next]_vars PROVE SlotsInv'
    OBVIOUS
  <2> DEFINE Calm == /\ live' \cup disk' \subseteq live \cup disk /\ owner' = owner
                     /\ \A t \in Tenants : Slots(t)' \subseteq Slots(t)
                     /\ \A t \in Tenants : allowed'[t] \in Nat /\ allowed'[t] >= allowed[t]
                     /\ \A t \in Tenants : Cap(plan'[t]) <= allowed'[t]
                     /\ \A w \in Workers : pc'[w] \in {"create", "counted"}
                          => cap'[w] <= allowed'[caller'[w]]
                     /\ \A id \in disk' \ live' : \E w \in Deleting' : target'[w] = id
  <2>1. ASSUME Calm PROVE SlotsInv'
    <3>1. IsFiniteSet(live' \cup disk')
      BY <2>1, FS_Subset DEF SlotsInv
    <3>2. ASSUME NEW t \in Tenants
          PROVE  Cardinality(Kept(t)') + Cardinality(Slots(t)') <= Limit(t)'
      <4>1. Limit(t)' >= Limit(t) /\ Limit(t) \in Int /\ Limit(t)' \in Int
        BY <2>1, FiniteParts DEF Limit, TypeOK, SlotsInv
      <4>2. /\ Cardinality(Kept(t)') <= Cardinality(Kept(t))
            /\ Cardinality(Slots(t)') <= Cardinality(Slots(t))
            /\ Cardinality(Kept(t)') \in Nat /\ Cardinality(Slots(t)') \in Nat
        BY <2>1, KeptShrink DEF SlotsInv
      <4>3. QED
        BY <4>1, <4>2, FiniteParts DEF SlotsInv
    <3>3. QED
      BY <2>1, <3>1, <3>2 DEF SlotsInv
  <2>2. ASSUME NEW w \in Workers, NEW t \in Tenants, BeginCreate(w, t)
        PROVE  SlotsInv'
    <3>1. Calm
      BY <2>2 DEF BeginCreate, rowVars, histVars, Slots, SlotsInv, Deleting, TypeOK
    <3>2. QED
      BY <3>1, <2>1
  <2>3. ASSUME NEW w \in Workers, CountRoom(w) PROVE SlotsInv'
    <3> DEFINE u == caller[w]
    <3>1. /\ u \in Tenants /\ Cardinality(RowsOf(live, u)) < allowed[u]
          /\ live' = live /\ disk' = disk /\ owner' = owner /\ allowed' = allowed
          /\ plan' = plan /\ caller' = caller /\ cap' = cap /\ target' = target
          /\ pc[w] = "create" /\ pc' = [pc EXCEPT ![w] = "counted"]
      <4>1. u \in Tenants /\ cap[w] <= allowed[u] /\ cap[w] \in Nat /\ allowed[u] \in Nat
        BY <2>3 DEF CountRoom, SlotsInv, TypeOK
      <4>2. Cardinality(RowsOf(live, u)) < cap[w]
        BY <2>3 DEF CountRoom, HasRoom
      <4>3. Cardinality(RowsOf(live, u)) \in Nat
        BY FiniteParts DEF SlotsInv
      <4>4. QED
        BY <2>3, <4>1, <4>2, <4>3 DEF CountRoom, rowVars, histVars
    <3>2. ASSUME NEW t \in Tenants
          PROVE  Cardinality(Kept(t)') + Cardinality(Slots(t)') <= Limit(t)'
      <4>1. Kept(t)' = Kept(t) /\ Limit(t)' = Limit(t)
        BY <3>1 DEF RowsOf, Limit, Kept
      <4>2. CASE t = u
        <5>1. /\ Slots(t)' \subseteq Workers /\ Deleting \subseteq Workers
              /\ Slots(t)' \cap Deleting = {}
          BY <3>1 DEF Slots, Deleting, TypeOK
        <5>2. Cardinality(Slots(t)') + Cardinality(Deleting) <= Cardinality(Workers)
          <6> DEFINE A == Slots(t)'
                     B == Deleting
          <6>1. A \subseteq Workers /\ B \subseteq Workers /\ A \cap B = {}
            BY <5>1
          <6> HIDE DEF A, B
          <6>2. IsFiniteSet(A) /\ IsFiniteSet(B) /\ A \cup B \subseteq Workers
            BY <6>1, FS_Subset, VaultAssumption
          <6>3. Cardinality(A \cup B) <= Cardinality(Workers)
            BY <6>2, FS_Subset, VaultAssumption
          <6>4. Cardinality(A \cup B) = Cardinality(A) + Cardinality(B) - Cardinality({})
            BY <6>1, <6>2, FS_Union
          <6>5. /\ Cardinality({}) = 0
                /\ Cardinality(A) \in Nat /\ Cardinality(B) \in Nat
            BY <6>2, FS_EmptySet, FS_CardinalityType
          <6>6. Cardinality(A) + Cardinality(B) <= Cardinality(Workers)
            BY <6>3, <6>4, <6>5
          <6>7. QED
            BY <6>6 DEF A, B
        <5>3. Cardinality(Slots(t)') \in Nat
          BY <5>1, FS_Subset, FS_CardinalityType, VaultAssumption
        <5>4. /\ Cardinality(Deleting) \in Nat
              /\ Cardinality(Kept(t)) <= Cardinality(RowsOf(live, t)) + Cardinality(Deleting)
          BY KeptBounded
        <5>5. /\ Cardinality(RowsOf(live, t)) \in Nat /\ Cardinality(Kept(t)) \in Nat
              /\ Cardinality(Workers) \in Nat
          BY FiniteParts DEF SlotsInv
        <5>6. allowed[t] \in Nat /\ Cardinality(RowsOf(live, t)) < allowed[t]
          BY <3>1, <4>2 DEF TypeOK
        <5>7. QED
          BY <4>1, <5>2, <5>3, <5>4, <5>5, <5>6 DEF Limit
      <4>3. CASE t # u
        <5>1. Slots(t)' = Slots(t)
          BY <3>1, <4>3 DEF Slots, TypeOK
        <5>2. QED
          BY <4>1, <5>1 DEF SlotsInv
      <4>4. QED
        BY <4>2, <4>3
    <3>3. /\ Deleting' = Deleting
          /\ \A v \in Workers : pc'[v] \in {"create", "counted"} => pc[v] \in {"create", "counted"}
      BY <3>1 DEF Deleting, TypeOK
    <3>4. QED
      BY <3>1, <3>2, <3>3 DEF SlotsInv
  <2>4. ASSUME NEW w \in Workers, CountFull(w) PROVE SlotsInv'
    <3>1. Calm
      BY <2>4 DEF CountFull, Idle, rowVars, histVars, Slots, SlotsInv, Deleting, TypeOK
    <3>2. QED
      BY <3>1, <2>1
  <2>5. ASSUME NEW w \in Workers, InsertRow(w) PROVE SlotsInv'
    <3>1. PICK id \in MemoryIds \ used :
            /\ live' = live \cup {id} /\ owner' = [owner EXCEPT ![id] = caller[w]]
            /\ target' = [target EXCEPT ![w] = id]
      BY <2>5 DEF InsertRow
    <3>2. /\ disk' = disk /\ allowed' = allowed /\ plan' = plan /\ caller' = caller
          /\ cap' = cap /\ pc' = [pc EXCEPT ![w] = "inserted"]
          /\ pc[w] = "counted" /\ id \notin live \cup disk
      BY <2>5, <3>1 DEF InsertRow, histVars, TypeOK
    <3>3. IsFiniteSet(live' \cup disk')
      <4>1. live' \cup disk' = (live \cup disk) \cup {id}
        BY <3>1, <3>2
      <4>2. QED
        BY <4>1, FS_AddElement DEF SlotsInv
    <3>4. ASSUME NEW t \in Tenants
          PROVE  Cardinality(Kept(t)') + Cardinality(Slots(t)') <= Limit(t)'
      <4>1. Limit(t)' = Limit(t)
        BY <3>2 DEF Limit
      <4>2. CASE t = caller[w]
        <5>1. Kept(t)' = Kept(t) \cup {id} /\ id \notin Kept(t)
          BY <3>1, <3>2, <4>2 DEF RowsOf, Kept, TypeOK
        <5>2. Slots(t)' = Slots(t) \ {w} /\ w \in Slots(t)
          BY <3>2, <4>2 DEF Slots, TypeOK
        <5>3. Cardinality(Kept(t)') = Cardinality(Kept(t)) + 1
          BY <5>1, FiniteParts, FS_AddElement DEF SlotsInv
        <5>4. Cardinality(Slots(t)') = Cardinality(Slots(t)) - 1
          <6> DEFINE S == Slots(t)
          <6>1. IsFiniteSet(S) /\ w \in S
            BY <5>2, FiniteParts DEF SlotsInv
          <6> HIDE DEF S
          <6>2. Cardinality(S \ {w}) = Cardinality(S) - 1
            BY <6>1, FS_RemoveElement
          <6>3. QED
            BY <5>2, <6>2 DEF S
        <5>5. QED
          BY <4>1, <5>3, <5>4, FiniteParts DEF SlotsInv
      <4>3. CASE t # caller[w]
        <5>1. Kept(t)' = Kept(t) /\ Slots(t)' = Slots(t)
          BY <3>1, <3>2, <4>3 DEF RowsOf, Kept, Slots, TypeOK
        <5>2. QED
          BY <4>1, <5>1 DEF SlotsInv
      <4>4. QED
        BY <4>2, <4>3
    <3>5. \A i \in disk' \ live' : \E v \in Deleting' : target'[v] = i
      BY <3>1, <3>2 DEF SlotsInv, Deleting, TypeOK
    <3>6. QED
      BY <3>2, <3>3, <3>4, <3>5 DEF SlotsInv, TypeOK
  <2>6. ASSUME NEW w \in Workers, CommitCreate(w) PROVE SlotsInv'
    <3>1. Calm
      BY <2>6 DEF CommitCreate, Idle, Slots, SlotsInv, TypeOK
    <3>2. QED
      BY <3>1, <2>1
  <2>7. ASSUME NEW w \in Workers, NEW t \in Tenants, NEW id \in MemoryIds,
               DeleteRow(w, t, id)
        PROVE  SlotsInv'
    <3>1. \A i \in disk' \ live' : \E v \in Deleting' : target'[v] = i
      BY <2>7 DEF DeleteRow, SlotsInv, Deleting, TypeOK
    <3>2. Calm
      BY <2>7, <3>1 DEF DeleteRow, Slots, SlotsInv, TypeOK
    <3>3. QED
      BY <3>2, <2>1
  <2>8. ASSUME NEW w \in Workers, CommitDelete(w) PROVE SlotsInv'
    <3>1. Calm
      BY <2>8 DEF CommitDelete, Idle, Slots, SlotsInv, TypeOK
    <3>2. QED
      BY <3>1, <2>1
  <2>9. ASSUME NEW w \in Workers, InsertRaises(w) PROVE SlotsInv'
    <3>1. Calm
      BY <2>9 DEF InsertRaises, Idle, rowVars, histVars, Slots, SlotsInv, Deleting, TypeOK
    <3>2. QED
      BY <3>1, <2>1
  <2>10. ASSUME NEW w \in Workers, CommitRaises(w) PROVE SlotsInv'
    <3>1. Calm
      BY <2>10 DEF CommitRaises, Idle, rowVars, histVars, Slots, SlotsInv, TypeOK
    <3>2. QED
      BY <3>1, <2>1
  <2>11. ASSUME NEW t \in Tenants, NEW p \in Plans, SetPlan(t, p) PROVE SlotsInv'
    <3>1. \A u \in Tenants : allowed'[u] \in Nat /\ allowed'[u] >= allowed[u]
                              /\ Cap(plan'[u]) <= allowed'[u]
      BY <2>11, CapType DEF SetPlan, SlotsInv, TypeOK
    <3>2. Calm
      BY <2>11, <3>1 DEF SetPlan, rowVars, callVars, Slots, SlotsInv, Deleting, TypeOK
    <3>3. QED
      BY <3>2, <2>1
  <2>12. CASE Crash
    <3>1. Calm
      BY <2>12 DEF Crash, histVars, Slots, SlotsInv, TypeOK
    <3>2. QED
      BY <3>1, <2>1
  <2>13. ASSUME NEW w \in Workers, StatementRollsBack(w) PROVE SlotsInv'
    <3>1. Calm
      BY <2>13 DEF StatementRollsBack, Idle, Slots, SlotsInv, TypeOK
    <3>2. QED
      BY <3>1, <2>1
  <2>14. CASE UNCHANGED vars
    <3>1. Calm
      BY <2>14 DEF vars, rowVars, callVars, histVars, Slots, SlotsInv, Deleting, TypeOK
    <3>2. QED
      BY <3>1, <2>1
  <2>15. ASSUME NEW w \in Workers, DeleteMisses(w) PROVE SlotsInv'
    <3>1. Calm
      BY <2>15 DEF DeleteMisses, rowVars, histVars, Slots, SlotsInv, Deleting, TypeOK
    <3>2. QED
      BY <3>1, <2>1
  <2>16. QED
    BY <2>2, <2>3, <2>4, <2>5, <2>6, <2>7, <2>8, <2>9, <2>10, <2>11, <2>12,
       <2>13, <2>14, <2>15 DEF Next, WorkerStep
<1>3. TypeOK /\ SlotsInv => OvershootBounded
  <2> SUFFICES ASSUME TypeOK, SlotsInv, NEW t \in Tenants
               PROVE  Cardinality(RowsOf(live, t)) <= allowed[t] + Cardinality(Workers) - 1
    BY DEF OvershootBounded
  <2>1. QED
    BY FiniteParts DEF SlotsInv, Limit, TypeOK
<1>4. QED
  BY <1>1, <1>2, <1>3, TypeCorrect, PTL DEF Spec

(* A server with a single worker never exceeds a cap: the count and the     *)
(* insert that follows it are then as good as one statement, whatever is    *)
(* rolled back and wherever the process dies.                               *)
COROLLARY SerialCapKept ==
    ASSUME \A v, w \in Workers : v = w
    PROVE  Spec => [](\A t \in Tenants : Cardinality(RowsOf(live, t)) <= allowed[t])
<1>1. Cardinality(Workers) = 1
  <2>1. PICK w : w \in Workers
    BY VaultAssumption
  <2>2. Workers = {w}
    BY <2>1
  <2>3. QED
    BY <2>2, FS_Singleton
<1>2. TypeOK /\ OvershootBounded => \A t \in Tenants : Cardinality(RowsOf(live, t)) <= allowed[t]
  <2> SUFFICES ASSUME TypeOK, OvershootBounded, NEW t \in Tenants
               PROVE  Cardinality(RowsOf(live, t)) <= allowed[t]
    OBVIOUS
  <2>1. allowed[t] \in Nat /\ Cardinality(RowsOf(live, t)) <= allowed[t] + 1 - 1
    BY <1>1 DEF TypeOK, OvershootBounded
  <2>2. QED
    BY <2>1
<1>3. QED
  BY <1>2, TypeCorrect, OvershootIsBounded, PTL

-----------------------------------------------------------------------------
(* A row leaves the connection's view only by its own tenant's DELETE, or   *)
(* by a fault before it was committed.                                      *)
THEOREM RowsLeaveByTheirOwner == Spec => OnlyOwnerDeletes
<1> DEFINE Lost(id) == id \in live /\ id \notin live'
           Excused(id) == \/ faults' # faults /\ id \notin disk
                          \/ \E w \in Workers :
                               pc[w] = "idle" /\ pc'[w] = "deleted"
                               /\ target'[w] = id /\ caller'[w] = owner[id]
<1>1. TypeOK /\ [Next]_vars => [\A id \in live \ live' : Excused(id)]_vars
  <2> SUFFICES ASSUME TypeOK, Next, NEW id, Lost(id) PROVE Excused(id)
    OBVIOUS
  <2>1. ASSUME NEW w \in Workers, NEW t \in Tenants, NEW i \in MemoryIds,
               DeleteRow(w, t, i)
        PROVE  Excused(id)
    BY <2>1 DEF DeleteRow, Matches, TypeOK
  <2>2. ASSUME NEW w \in Workers, StatementRollsBack(w) PROVE Excused(id)
    BY <2>2 DEF StatementRollsBack, TypeOK
  <2>3. ASSUME NEW w \in Workers, InsertRow(w) PROVE FALSE
    BY <2>3 DEF InsertRow
  <2>4. ASSUME live' = live PROVE FALSE
    BY <2>4
  <2>5. CASE \E w \in Workers : WorkerStep(w)
    <3>1. PICK w \in Workers : WorkerStep(w)
      BY <2>5
    <3>2. ASSUME \/ \E t \in Tenants : BeginCreate(w, t)
                 \/ CountRoom(w) \/ CountFull(w) \/ CommitCreate(w) \/ CommitDelete(w)
                 \/ InsertRaises(w) \/ CommitRaises(w) \/ DeleteMisses(w)
          PROVE  FALSE
      BY <2>4, <3>2
         DEF BeginCreate, CountRoom, CountFull, CommitCreate, CommitDelete,
             InsertRaises, CommitRaises, DeleteMisses, rowVars
    <3>3. QED
      BY <2>1, <2>2, <2>3, <3>1, <3>2 DEF WorkerStep
  <2>6. CASE \E t \in Tenants, p \in Plans : SetPlan(t, p)
    BY <2>4, <2>6 DEF SetPlan, rowVars
  <2>7. CASE Crash
    BY <2>7 DEF Crash, TypeOK
  <2>8. QED
    BY <2>5, <2>6, <2>7 DEF Next
<1>2. QED
  BY <1>1, TypeCorrect, PTL DEF Spec, OnlyOwnerDeletes

-----------------------------------------------------------------------------
(* The status of a record as equivalences, which is how the proof uses it. *)
LEMMA StatusIs ==
    ASSUME TypeOK, NEW id \in MemoryIds
    PROVE  /\ Status(id) \in {"new", "written", "durable", "erased", "gone"}
           /\ Status(id) = "new" <=> id \notin used
           /\ Status(id) = "written" <=> id \in live /\ id \notin disk
           /\ Status(id) = "durable" <=> id \in live /\ id \in disk
           /\ Status(id) = "erased" <=> id \notin live /\ id \in disk
  BY DEF Status, TypeOK

(* Before and after a step. *)
LEMMA StatusWas ==
    ASSUME TypeOK, TypeOK', NEW id \in MemoryIds
    PROVE  /\ Status(id)' \in {"new", "written", "durable", "erased", "gone"}
           /\ Status(id)' = "new" <=> id \notin used'
           /\ Status(id)' = "written" <=> id \in live' /\ id \notin disk'
           /\ Status(id)' = "durable" <=> id \in live' /\ id \in disk'
           /\ Status(id)' = "erased" <=> id \notin live' /\ id \in disk'
  BY DEF Status, TypeOK

Statuses == [id \in MemoryIds |-> Status(id)]

LEMMA LifeStep ==
    ASSUME TypeOK, TypeOK', [Next]_vars
    PROVE  [Life!Next]_Statuses
<1>0. /\ \A id \in MemoryIds : Statuses[id] = Status(id) /\ Statuses'[id] = Status(id)'
      /\ DOMAIN Statuses = MemoryIds /\ DOMAIN Statuses' = MemoryIds
      /\ Statuses' = [id \in MemoryIds |-> Status(id)']
  BY DEF Statuses
<1>1. CASE UNCHANGED rowVars
  BY <1>1 DEF rowVars, Statuses, Status
<1>2. ASSUME NEW w \in Workers, InsertRow(w)
      PROVE  \E id \in MemoryIds : Life!Write(id)
  <2>1. PICK id \in MemoryIds \ used : live' = live \cup {id} /\ used' = used \cup {id}
    BY <1>2 DEF InsertRow
  <2>2. disk' = disk /\ id \notin disk /\ id \notin live
    BY <1>2, <2>1 DEF InsertRow, TypeOK
  <2>3. Status(id) = "new" /\ Status(id)' = "written"
    BY <2>1, <2>2, StatusIs, StatusWas
  <2>4. \A o \in MemoryIds \ {id} : Status(o)' = Status(o)
    BY <2>1, <2>2 DEF Status
  <2>5. QED
    BY <1>0, <2>3, <2>4 DEF Life!Write, Statuses
<1>3. ASSUME NEW w \in Workers, NEW t \in Tenants, NEW id \in MemoryIds, DeleteRow(w, t, id)
      PROVE  Life!Erase(id)
  <2>1. id \in live /\ live' = live \ {id} /\ disk' = disk /\ used' = used
    BY <1>3 DEF DeleteRow, Matches
  <2>2. \/ Status(id) = "written" /\ Status(id)' = "gone"
        \/ Status(id) = "durable" /\ Status(id)' = "erased"
    BY <2>1, StatusIs, StatusWas
  <2>3. \A o \in MemoryIds \ {id} : Status(o)' = Status(o)
    BY <2>1 DEF Status
  <2>4. QED
    BY <1>0, <2>2, <2>3 DEF Life!Erase, Statuses
<1>4. ASSUME disk' = live, live' = live, used' = used PROVE Life!Commit
  <2>1. \A id \in MemoryIds :
           Status(id)' = CASE Status(id) = "written" -> "durable"
                           [] Status(id) = "erased"  -> "gone"
                           [] OTHER -> Status(id)
    BY <1>4, StatusIs, StatusWas
  <2>2. QED
    BY <1>0, <2>1 DEF Life!Commit, Statuses
<1>5. ASSUME live' = disk, disk' = disk, used' = used PROVE Life!LoseTransaction
  <2>1. \A id \in MemoryIds :
           Status(id)' = CASE Status(id) = "written" -> "gone"
                           [] Status(id) = "erased"  -> "durable"
                           [] OTHER -> Status(id)
    BY <1>5, StatusIs, StatusWas
  <2>2. QED
    BY <1>0, <2>1 DEF Life!LoseTransaction, Statuses
<1>6. ASSUME NEW w \in Workers, CommitCreate(w) \/ CommitDelete(w) PROVE Life!Commit
  BY <1>4, <1>6 DEF CommitCreate, CommitDelete
<1>7. ASSUME NEW w \in Workers, StatementRollsBack(w) PROVE Life!LoseTransaction
  BY <1>5, <1>7 DEF StatementRollsBack
<1>8. ASSUME Crash PROVE Life!LoseTransaction
  BY <1>5, <1>8 DEF Crash
<1>9. ASSUME NEW w \in Workers, DeleteMisses(w) PROVE UNCHANGED rowVars
  BY <1>9 DEF DeleteMisses
<1>10. ASSUME NEW w \in Workers,
              \/ \E t \in Tenants : BeginCreate(w, t)
              \/ CountRoom(w) \/ CountFull(w) \/ InsertRaises(w) \/ CommitRaises(w)
       PROVE  UNCHANGED rowVars
  BY <1>10 DEF BeginCreate, CountRoom, CountFull, InsertRaises, CommitRaises
<1>11. ASSUME NEW t \in Tenants, NEW p \in Plans, SetPlan(t, p) PROVE UNCHANGED rowVars
  BY <1>11 DEF SetPlan
<1>12. CASE UNCHANGED vars
  BY <1>1, <1>12 DEF vars
<1>13. ASSUME \/ \E id \in MemoryIds : Life!Write(id) \/ Life!Erase(id)
              \/ Life!Commit
              \/ Life!LoseTransaction
       PROVE  [Life!Next]_Statuses
  BY <1>13 DEF Life!Next, Statuses
<1>14. QED
  BY <1>1, <1>2, <1>3, <1>6, <1>7, <1>8, <1>9, <1>10, <1>11, <1>12, <1>13
     DEF Next, WorkerStep

(* The vault implements the life cycle of records, for any number of        *)
(* workers, tenants, identifiers and faults.                                *)
THEOREM VaultKeepsRecordLives == Spec => RecordsLiveOnce
<1>1. Init => Life!Init
  BY DEF Init, Life!Init, Status
<1>2. TypeOK /\ TypeOK' /\ [Next]_vars => [Life!Next]_([id \in MemoryIds |-> Status(id)])
  BY LifeStep DEF Statuses
<1>3. QED
  BY <1>1, <1>2, TypeCorrect, PTL DEF Spec, RecordsLiveOnce, Life!Spec

=============================================================================
