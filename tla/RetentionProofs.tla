--------------------------- MODULE RetentionProofs ---------------------------
(***************************************************************************)
(* Proofs, for any number of tenants, rows, request workers and faults, of *)
(* what a retention pass never does, and of what the scheduler does in the *)
(* end.                                                                    *)
(*   PassInv   what is left on a pass's list still deserves deletion; it   *)
(*             gives PruneSparing.                                         *)
(*   KeepInv   listings are strictly ordered, and every row on the list of *)
(*             a keeper, a pass with a keep_recent of at least KeepFloor,    *)
(*             has KeepFloor newer ones, less what disappeared in other ways *)
(*             meanwhile; a delete by one keeper keeps that true for all     *)
(*             others, because the rows that protect the deleted one are     *)
(*             newer than whatever it protected.                             *)
(* For liveness, the search of the scheduler's pass finds a stale row      *)
(* (SearchFindsExcess), and from then on the row stays on the list of that *)
(* pass until it goes or something fails (DoomedStays), so that the turn   *)
(* of its tenant cannot come again before it is gone.                      *)
(***************************************************************************)
EXTENDS Retention, FiniteSetTheorems, TLAPS

(* A slice of the listing is part of the listing. *)
LEMMA ToDeleteListed ==
    ASSUME NEW t, NEW a, NEW k
    PROVE  \A r \in ToDelete(t, a, k) :
              r \in live /\ owner[r] = t /\ tagged[r] /\ age[r] > a
  BY DEF ToDelete, Newest, Listed, RowsOf

(* A pass keeps the rows on its list, and is over without any. *)
LEMMA SetPassType ==
    ASSUME TypeOK, NEW p \in Pruners, NEW t \in Tenants \cup {None}, NEW a \in Int,
           NEW k \in Int, NEW rows \in SUBSET Records, SetPass(p, t, a, k, rows)
    PROVE  /\ who' \in [Pruners -> Tenants \cup {None}]
           /\ maxAge' \in [Pruners -> Int] /\ keep' \in [Pruners -> Int]
           /\ todo' \in [Pruners -> SUBSET Records]
           /\ todo'[p] = rows
           /\ rows # {} => who'[p] = t /\ maxAge'[p] = a /\ keep'[p] = k
           /\ \A q \in Pruners \ {p} : /\ who'[q] = who[q] /\ maxAge'[q] = maxAge[q]
                                      /\ keep'[q] = keep[q] /\ todo'[q] = todo[q]
  BY DEF SetPass, TypeOK

(* Losses only grow while a keeper runs, by one or to KeepFloor.            *)
LEMMA LossesCount ==
    ASSUME TypeOK, NEW losers, Losses(losers)
    PROVE  /\ lost' \in [Tenants -> 0..KeepFloor]
           /\ \A t \in Tenants : Keepers(t)' # {} =>
                 /\ lost'[t] >= lost[t]
                 /\ t \in losers => lost'[t] >= lost[t] + 1 \/ lost'[t] = KeepFloor
  BY RetentionAssumption DEF Losses, TypeOK

(* Every step preserves the types. *)
LEMMA TypeCorrectStep ==
    ASSUME TypeOK, [Next]_vars PROVE TypeOK'
<1> USE RetentionAssumption DEF TypeOK
<1>1. ASSUME NEW t \in Tenants, Register(t) PROVE TypeOK'
  BY <1>1 DEF Register, rowVars, passVars
<1>2. ASSUME NEW t \in Tenants, NEW r \in Records, NEW tag \in BOOLEAN,
             Insert(t, r, tag)
      PROVE  TypeOK'
  <2>1. PICK after \in SUBSET live :
          newer' = [q \in Records |->
                      IF q = r THEN live \ after
                      ELSE IF q \in after THEN newer[q] \cup {r} ELSE newer[q]]
    BY <1>2 DEF Insert
  <2>2. newer' \in [Records -> SUBSET live']
    <3>1. ASSUME NEW q \in Records PROVE newer'[q] \in SUBSET live'
      BY <1>2, <2>1, <3>1 DEF Insert
    <3>2. QED
      BY <2>1, <3>1
  <2>3. QED
    BY <1>2, <2>2 DEF Insert, passVars
<1>3. CASE Tick
  BY <1>3 DEF Tick, passVars
<1>4. ASSUME NEW p \in Pruners, NEW t \in Tenants, NEW a \in Int, NEW k \in Int,
             BeginPass(p, t, a, k), queue' \subseteq queue
      PROVE  TypeOK'
  <2>1. ToDelete(t, a, k) \in SUBSET Records
    BY ToDeleteListed
  <2>2. SetPass(p, t, a, k, ToDelete(t, a, k))
    BY <1>4 DEF BeginPass
  <2>3. QED
    BY <1>4, <2>1, <2>2, SetPassType DEF BeginPass, rowVars
<1>5. CASE Wake
  BY <1>5 DEF Wake, rowVars, passVars
<1>6. ASSUME NEW p \in Pruners, NEW r \in todo[p], StrikeOff(p, r)
      PROVE  /\ who' \in [Pruners -> Tenants \cup {None}]
             /\ maxAge' \in [Pruners -> Int] /\ keep' \in [Pruners -> Int]
             /\ todo' \in [Pruners -> SUBSET Records]
  BY <1>6, SetPassType DEF StrikeOff
<1>7. ASSUME NEW p \in Pruners, DeleteNext(p) PROVE TypeOK'
  <2>1. PICK r \in todo[p] :
          /\ StrikeOff(p, r)
          /\ IF r \in live THEN Remove(r) ELSE UNCHANGED rowVars
          /\ Losses(IF r \in live /\ keep[p] < KeepFloor THEN {owner[r]} ELSE {})
    BY <1>7 DEF DeleteNext, Upcoming
  <2>2. /\ who' \in [Pruners -> Tenants \cup {None}]
        /\ maxAge' \in [Pruners -> Int] /\ keep' \in [Pruners -> Int]
        /\ todo' \in [Pruners -> SUBSET Records]
        /\ lost' \in [Tenants -> 0..KeepFloor]
        /\ UNCHANGED <<registered, covered, setting, queue, faults>>
    BY <1>6, <1>7, <2>1, LossesCount DEF DeleteNext
  <2>3. CASE r \in live
    <3>1. /\ live' = live \ {r}
          /\ owner' = [owner EXCEPT ![r] = None]
          /\ tagged' = [tagged EXCEPT ![r] = FALSE]
          /\ age' = [age EXCEPT ![r] = 0]
          /\ newer' = [q \in Records |-> IF q = r THEN {} ELSE newer[q] \ {r}]
      BY <2>1, <2>3 DEF Remove
    <3>2. newer' \in [Records -> SUBSET live']
      BY <3>1
    <3>3. /\ owner' \in [Records -> Tenants \cup {None}]
          /\ tagged' \in [Records -> BOOLEAN] /\ age' \in [Records -> 0..Stale]
      BY <3>1
    <3>4. QED
      BY <2>2, <3>1, <3>2, <3>3
  <2>4. CASE r \notin live
    BY <2>1, <2>2, <2>4 DEF rowVars
  <2>5. QED
    BY <2>3, <2>4
<1>8. ASSUME NEW p \in Pruners, DeleteUndone(p) PROVE TypeOK'
  <2>1. PICK r \in todo[p] : StrikeOff(p, r)
    BY <1>8 DEF DeleteUndone, Upcoming
  <2>2. QED
    BY <1>6, <1>8, <2>1, LossesCount DEF DeleteUndone, rowVars
<1>9. ASSUME NEW p \in Pruners, PassFails(p) PROVE TypeOK'
  BY <1>9, SetPassType, LossesCount DEF PassFails, rowVars
<1>10. CASE Restart
  BY <1>10 DEF Restart, rowVars
<1>11. ASSUME NEW r \in Records, UserDelete(r) PROVE TypeOK'
  <2>1. lost' \in [Tenants -> 0..KeepFloor]
    BY <1>11, LossesCount DEF UserDelete
  <2>2. newer' \in [Records -> SUBSET live']
    BY <1>11 DEF UserDelete, Remove
  <2>3. QED
    BY <1>11, <2>1, <2>2 DEF UserDelete, Remove, passVars
<1>12. CASE UNCHANGED vars
  BY <1>12 DEF vars, rowVars, passVars
<1>13. ASSUME NEW p \in Workers, NEW t \in Tenants, NEW a \in Int, NEW k \in Int,
              RequestPass(p, t, a, k) \/ DispatchPass(p, t, a, k)
       PROVE  TypeOK'
  BY <1>4, <1>13 DEF RequestPass, DispatchPass, Pruners
<1>14. ASSUME NEW t \in Tenants, SchedulerPass(t) PROVE TypeOK'
  BY <1>4, <1>14 DEF SchedulerPass, Pruners
<1> HIDE DEF TypeOK
<1>15. QED
  BY <1>1, <1>2, <1>3, <1>5, <1>7, <1>8, <1>9, <1>10, <1>11, <1>12, <1>13, <1>14,
     RetentionAssumption DEF Next, PassStep

(* The type invariant; ages stay within 0..Stale, listings hold visible rows. *)
THEOREM TypeCorrect == Spec => []TypeOK
<1>1. Init => TypeOK
  BY RetentionAssumption DEF Init, TypeOK, Pruners
<1>2. TypeOK /\ [Next]_vars => TypeOK'
  BY TypeCorrectStep
<1>3. QED
  BY <1>1, <1>2, PTL DEF Spec

-----------------------------------------------------------------------------
(* What is left on a pass's list, if it is still there, is a stale autonomy *)
(* record of the pass's tenant.                                             *)
PassInv ==
    \A p \in Pruners : \A r \in todo[p] \cap live :
        owner[r] = who[p] /\ tagged[r] /\ age[r] > maxAge[p]

LEMMA PassInvInductive ==
    ASSUME TypeOK, PassInv, [Next]_vars PROVE PassInv'
<1> USE RetentionAssumption DEF TypeOK, PassInv
<1>1. ASSUME NEW t \in Tenants, Register(t) PROVE PassInv'
  BY <1>1 DEF Register, rowVars, passVars
<1>2. ASSUME NEW t \in Tenants, NEW r \in Records, NEW tag \in BOOLEAN,
             Insert(t, r, tag)
      PROVE  PassInv'
  BY <1>2 DEF Insert, passVars
<1>3. CASE Tick
  BY <1>3 DEF Tick, passVars
<1>4. ASSUME NEW p \in Pruners, NEW t \in Tenants, NEW a \in Int, NEW k \in Int,
             BeginPass(p, t, a, k)
      PROVE  PassInv'
  <2>1. ToDelete(t, a, k) \in SUBSET Records
    BY ToDeleteListed
  <2>2. SetPass(p, t, a, k, ToDelete(t, a, k)) /\ UNCHANGED rowVars
    BY <1>4 DEF BeginPass
  <2>3. /\ todo'[p] = ToDelete(t, a, k)
        /\ ToDelete(t, a, k) # {} => who'[p] = t /\ maxAge'[p] = a
        /\ \A q \in Pruners \ {p} : who'[q] = who[q] /\ maxAge'[q] = maxAge[q]
                                   /\ todo'[q] = todo[q]
    BY <2>1, <2>2, SetPassType
  <2>4. QED
    BY <2>2, <2>3, ToDeleteListed DEF rowVars
<1>5. CASE Wake
  BY <1>5 DEF Wake, rowVars, passVars
<1>6. ASSUME NEW p \in Pruners, NEW r \in todo[p], StrikeOff(p, r)
      PROVE  \A q \in Pruners :
               /\ todo'[q] \subseteq todo[q]
               /\ todo'[q] # {} => who'[q] = who[q] /\ maxAge'[q] = maxAge[q]
  BY <1>6, SetPassType DEF StrikeOff
<1>7. ASSUME NEW p \in Pruners, DeleteNext(p) PROVE PassInv'
  <2>1. PICK r \in todo[p] :
          /\ StrikeOff(p, r)
          /\ IF r \in live THEN Remove(r) ELSE UNCHANGED rowVars
    BY <1>7 DEF DeleteNext, Upcoming
  <2>2. \A x \in live' : /\ x \in live /\ owner'[x] = owner[x] /\ tagged'[x] = tagged[x]
                         /\ age'[x] = age[x]
    BY <2>1 DEF Remove, rowVars
  <2>3. QED
    BY <1>6, <2>1, <2>2
<1>8. ASSUME NEW p \in Pruners, DeleteUndone(p) PROVE PassInv'
  <2>1. PICK r \in todo[p] : StrikeOff(p, r)
    BY <1>8 DEF DeleteUndone, Upcoming
  <2>2. QED
    BY <1>6, <1>8, <2>1 DEF DeleteUndone, rowVars
<1>9. ASSUME NEW p \in Pruners, PassFails(p) PROVE PassInv'
  BY <1>9, SetPassType DEF PassFails, rowVars
<1>10. CASE Restart
  BY <1>10 DEF Restart, rowVars
<1>11. ASSUME NEW r \in Records, UserDelete(r) PROVE PassInv'
  BY <1>11 DEF UserDelete, Remove, passVars
<1>12. CASE UNCHANGED vars
  BY <1>12 DEF vars, rowVars, passVars
<1>13. ASSUME NEW p \in Workers, NEW t \in Tenants, NEW a \in Int, NEW k \in Int,
              RequestPass(p, t, a, k) \/ DispatchPass(p, t, a, k)
       PROVE  PassInv'
  BY <1>4, <1>13 DEF RequestPass, DispatchPass, Pruners
<1>14. ASSUME NEW t \in Tenants, SchedulerPass(t) PROVE PassInv'
  BY <1>4, <1>14 DEF SchedulerPass, Pruners
<1> HIDE DEF TypeOK, PassInv
<1>15. QED
  BY <1>1, <1>2, <1>3, <1>5, <1>7, <1>8, <1>9, <1>10, <1>11, <1>12, <1>13, <1>14,
     RetentionAssumption DEF Next, PassStep

(* A pass removes nothing but stale autonomy records of its own tenant.     *)
THEOREM PrunesSpareTheRest == Spec => PruneSparing
<1>1. Init => PassInv
  BY DEF Init, PassInv
<1>2. TypeOK /\ PassInv /\ [Next]_vars => PassInv'
  BY PassInvInductive
<1>3. TypeOK /\ PassInv /\ [Next]_vars =>
        [\A p \in Pruners : \A r \in Pruned(p) :
            owner[r] = who[p] /\ tagged[r] /\ age[r] > maxAge[p]]_vars
  BY DEF PassInv, Pruned
<1>4. QED
  BY <1>1, <1>2, <1>3, TypeCorrect, PTL DEF Spec, PruneSparing

-----------------------------------------------------------------------------
(* The newer autonomy records of its tenant that protect a row. *)
Protectors(r) == newer[r] \cap Listed(owner[r])

OrderOK ==
    /\ \A r \in live : r \notin newer[r]
    /\ \A r, s \in live : s \in newer[r] => newer[s] \subseteq newer[r]
    /\ \A r, s \in live : r = s \/ r \in newer[s] \/ s \in newer[r]

KeepInv ==
    /\ OrderOK
    /\ PassInv
    /\ \A p \in Pruners : keep[p] >= KeepFloor => \A r \in todo[p] \cap live :
          Cardinality(Protectors(r)) + lost[who[p]] >= KeepFloor
    /\ \A p \in Pruners : who[p] = None => todo[p] = {}

(* More protectors, no fewer of them. *)
LEMMA MoreProtectors ==
    ASSUME NEW A, NEW B, A \subseteq B, B \subseteq Records, NEW n \in Nat,
           Cardinality(A) + n >= KeepFloor
    PROVE  Cardinality(B) + n >= KeepFloor
<1>1. IsFiniteSet(B) /\ IsFiniteSet(A)
  BY FS_Subset, RetentionAssumption
<1>2. Cardinality(A) <= Cardinality(B) /\ Cardinality(A) \in Nat /\ Cardinality(B) \in Nat
  BY <1>1, FS_Subset, FS_CardinalityType
<1>3. QED
  BY <1>2, RetentionAssumption

(* A pass with rows on its list has a tenant, whose losses are a number. *)
LEMMA LostType ==
    ASSUME TypeOK, KeepInv, NEW p \in Pruners, todo[p] # {}
    PROVE  who[p] \in Tenants /\ lost[who[p]] \in Nat
BY RetentionAssumption DEF TypeOK, KeepInv

(* A row on a fresh list is not among the k newest of the search result. *)
LEMMA FreshListProtected ==
    ASSUME TypeOK, NEW t, NEW a, NEW k \in Nat, KeepFloor <= k,
           NEW r \in ToDelete(t, a, k)
    PROVE  Cardinality(newer[r] \cap Listed(t)) + 0 >= KeepFloor
<1> DEFINE W == Newest(Listed(t), SearchLimit)
<1>1. W \subseteq Listed(t) /\ Listed(t) \subseteq Records
  BY DEF Newest, Listed, RowsOf, TypeOK
<1>2. ~(Cardinality(newer[r] \cap W) < k)
  BY DEF ToDelete, Newest
<1>3. Cardinality(newer[r] \cap W) \in Nat
  <2>1. IsFiniteSet(newer[r] \cap W)
    BY <1>1, FS_Subset, RetentionAssumption
  <2>2. QED
    BY <2>1, FS_CardinalityType
<1>4. Cardinality(newer[r] \cap W) + 0 >= KeepFloor
  BY <1>2, <1>3, RetentionAssumption
<1>5. QED
  BY <1>1, <1>4, MoreProtectors

(* A new row takes a place in the order; nobody loses a protector. *)
LEMMA InsertKeeps ==
    ASSUME TypeOK, KeepInv, NEW t \in Tenants, NEW x \in Records, NEW tag \in BOOLEAN,
           Insert(t, x, tag), PassInv'
    PROVE  KeepInv'
<1>1. PICK after \in SUBSET live :
        /\ \A s \in after, q \in live : s \in newer[q] => q \in after
        /\ newer' = [q \in Records |->
                        IF q = x THEN live \ after
                        ELSE IF q \in after THEN newer[q] \cup {x} ELSE newer[q]]
  BY DEF Insert
<1>2. /\ x \notin live /\ live' = live \cup {x}
      /\ who' = who /\ keep' = keep /\ todo' = todo /\ lost' = lost
      /\ \A p \in Pruners : x \notin todo[p]
      /\ \A q \in live : owner'[q] = owner[q] /\ tagged'[q] = tagged[q]
  BY DEF Insert, TypeOK, passVars
<1>3. /\ newer'[x] = live \ after
      /\ \A q \in live \cap after : newer'[q] = newer[q] \cup {x}
      /\ \A q \in live \ after : newer'[q] = newer[q]
      /\ \A q \in live : newer[q] \subseteq live
  BY <1>1, <1>2 DEF TypeOK
<1>4. OrderOK'
  <2>0. OrderOK
    BY DEF KeepInv
  <2>1. ASSUME NEW r \in live' PROVE r \notin newer'[r]
    <3>1. CASE r = x
      BY <1>2, <1>3, <3>1
    <3>2. CASE r \in live
      BY <1>2, <1>3, <2>0, <3>2 DEF OrderOK
    <3>3. QED
      BY <1>2, <3>1, <3>2
  <2>2. ASSUME NEW r \in live', NEW s \in live', s \in newer'[r]
        PROVE  newer'[s] \subseteq newer'[r]
    <3>1. CASE r = x
      BY <1>1, <1>2, <1>3, <2>2, <3>1 DEF KeepInv, OrderOK
    <3>2. CASE r # x /\ s = x
      <4>1. r \in live /\ r \in after
        BY <1>2, <1>3, <2>2, <3>2
      <4>2. live \ after \subseteq newer[r]
        BY <1>1, <2>0, <4>1 DEF OrderOK
      <4>3. QED
        BY <1>3, <3>2, <4>1, <4>2
    <3>3. CASE r # x /\ s # x
      <4>1. r \in live /\ s \in live /\ s \in newer[r]
        BY <1>2, <1>3, <2>2, <3>3
      <4>2. newer[s] \subseteq newer[r] /\ (s \in after => r \in after)
        BY <1>1, <2>0, <4>1 DEF OrderOK
      <4>3. CASE s \in after
        BY <1>3, <4>1, <4>2, <4>3
      <4>4. CASE s \notin after
        BY <1>3, <4>1, <4>2, <4>4
      <4>5. QED
        BY <4>3, <4>4
    <3>4. QED
      BY <3>1, <3>2, <3>3
  <2>3. ASSUME NEW r \in live', NEW s \in live'
        PROVE  r = s \/ r \in newer'[s] \/ s \in newer'[r]
    <3>1. CASE r \in live /\ s \in live
      BY <1>3, <2>0, <3>1 DEF OrderOK
    <3>2. CASE r = x \/ s = x
      BY <1>2, <1>3, <3>2
    <3>3. QED
      BY <1>2, <3>1, <3>2
  <2>4. QED
    BY <2>1, <2>2, <2>3 DEF OrderOK
<1>5. ASSUME NEW p \in Pruners, keep'[p] >= KeepFloor, NEW r \in todo'[p] \cap live'
      PROVE  Cardinality(Protectors(r)') + lost'[who'[p]] >= KeepFloor
  <2>1. r \in todo[p] \cap live
    BY <1>2, <1>5
  <2>2. Protectors(r) \subseteq Protectors(r)'
    BY <1>2, <1>3, <2>1 DEF Protectors, Listed, RowsOf
  <2>3. Protectors(r)' \subseteq Records
    BY <1>2 DEF Protectors, Listed, RowsOf, TypeOK
  <2>4. lost[who[p]] \in Nat /\ Cardinality(Protectors(r)) + lost[who[p]] >= KeepFloor
    BY <1>2, <1>5, <2>1, LostType DEF KeepInv
  <2>5. QED
    BY <1>2, <2>2, <2>3, <2>4, MoreProtectors
<1>6. QED
  BY <1>2, <1>4, <1>5 DEF KeepInv

(* What every row on a list loses when the row x disappears: at most x. *)
LEMMA RemoveKeepsOrder ==
    ASSUME TypeOK, KeepInv, NEW x \in live, Remove(x)
    PROVE  /\ OrderOK'
           /\ \A r \in live' : /\ r \in live /\ r # x
                               /\ Protectors(r)' = Protectors(r) \ {x}
                               /\ Protectors(r)' \subseteq Records
<1>1. /\ live' = live \ {x}
      /\ \A q \in live' : /\ newer'[q] = newer[q] \ {x} /\ owner'[q] = owner[q]
                          /\ tagged'[q] = tagged[q]
  BY DEF Remove, TypeOK
<1>2. OrderOK'
  BY <1>1 DEF KeepInv, OrderOK
<1>3. ASSUME NEW r \in live'
      PROVE  /\ r \in live /\ r # x
             /\ Protectors(r)' = Protectors(r) \ {x}
             /\ Protectors(r)' \subseteq Records
  <2>1. Protectors(r)' = Protectors(r) \ {x}
    BY <1>1, <1>3 DEF Protectors, Listed, RowsOf
  <2>2. QED
    BY <1>1, <1>3, <2>1 DEF Protectors, Listed, RowsOf, TypeOK
<1>4. QED
  BY <1>2, <1>3

(* The rows on a list, what protects them, and the losses counted for them. *)
LEMMA ListType ==
    ASSUME TypeOK, KeepInv, NEW p \in Pruners, NEW r \in todo[p] \cap live
    PROVE  /\ who[p] \in Tenants /\ lost[who[p]] \in 0..KeepFloor /\ owner[r] = who[p]
           /\ Protectors(r) \subseteq Records /\ Cardinality(Protectors(r)) \in Nat
           /\ IsFiniteSet(Protectors(r))
<1>1. Protectors(r) \subseteq Records
  BY DEF Protectors, Listed, RowsOf, TypeOK
<1>2. IsFiniteSet(Protectors(r)) /\ Cardinality(Protectors(r)) \in Nat
  BY <1>1, FS_Subset, FS_CardinalityType, RetentionAssumption
<1>3. QED
  BY <1>1, <1>2, RetentionAssumption DEF KeepInv, PassInv, TypeOK

(* Lists only shrink, and a pass with rows left goes on as it was. *)
ListsShrink ==
    \A p \in Pruners : /\ todo'[p] \subseteq todo[p]
                       /\ todo'[p] # {} => who'[p] = who[p] /\ keep'[p] = keep[p]
                       /\ who'[p] = None => todo'[p] = {}

(* A row disappears.  If it protected r and a keeper deleted it, its own    *)
(* protectors, as many as r needs, protect r as well; otherwise the loss is *)
(* counted.                                                                 *)
LEMMA RemoveKeeps ==
    ASSUME TypeOK, TypeOK', KeepInv, NEW x \in live, Remove(x), NEW losers, Losses(losers),
           ListsShrink, PassInv',
           \/ owner[x] \in losers
           \/ \E d \in Pruners : keep[d] >= KeepFloor /\ x \in todo[d]
    PROVE  KeepInv'
<1>1. ASSUME NEW p \in Pruners, keep'[p] >= KeepFloor, NEW r \in todo'[p] \cap live'
      PROVE  Cardinality(Protectors(r)') + lost'[who'[p]] >= KeepFloor
  <2>1. /\ r \in todo[p] \cap live /\ who'[p] = who[p] /\ keep'[p] = keep[p]
        /\ Protectors(r)' = Protectors(r) \ {x} /\ Protectors(r)' \subseteq Records
    BY <1>1, RemoveKeepsOrder DEF ListsShrink
  <2>2. /\ who[p] \in Tenants /\ lost[who[p]] \in 0..KeepFloor /\ owner[r] = who[p]
        /\ Cardinality(Protectors(r)) \in Nat /\ IsFiniteSet(Protectors(r))
        /\ Cardinality(Protectors(r)) + lost[who[p]] >= KeepFloor
    BY <1>1, <2>1, ListType DEF KeepInv
  <2>3. /\ lost'[who[p]] \in 0..KeepFloor /\ lost'[who[p]] >= lost[who[p]]
        /\ who[p] \in losers => lost'[who[p]] >= lost[who[p]] + 1 \/ lost'[who[p]] = KeepFloor
    <3>1. \A t \in Tenants : t = who[p] => Keepers(t)' # {}
      BY <1>1, <2>1 DEF Keepers
    <3>2. QED
      BY <2>2, <3>1, LossesCount
  <2>4. Cardinality(Protectors(r)') \in Nat
    BY <2>1, FS_Subset, FS_CardinalityType, RetentionAssumption
  <2>5. CASE x \notin Protectors(r)
    <3>1. Protectors(r)' = Protectors(r)
      BY <2>1, <2>5
    <3>2. Cardinality(Protectors(r)') = Cardinality(Protectors(r))
      BY <3>1
    <3>3. QED
      BY <2>1, <2>2, <2>3, <2>4, <3>2, RetentionAssumption
  <2>6. CASE x \in Protectors(r) /\ owner[x] \in losers
    <3>1. owner[x] = who[p]
      BY <2>2, <2>6 DEF Protectors, Listed, RowsOf
    <3>2. Cardinality(Protectors(r)') = Cardinality(Protectors(r)) - 1
      BY <2>1, <2>2, <2>6, FS_RemoveElement
    <3>3. QED
      BY <2>1, <2>2, <2>3, <2>4, <2>6, <3>1, <3>2, RetentionAssumption
  <2>7. CASE x \in Protectors(r) /\ \E d \in Pruners : keep[d] >= KeepFloor /\ x \in todo[d]
    <3>1. PICK d \in Pruners : keep[d] >= KeepFloor /\ x \in todo[d]
      BY <2>7
    <3>2. /\ owner[r] = owner[x] /\ who[d] = who[p] /\ x \in newer[r]
      BY <2>2, <2>7, <3>1, ListType DEF Protectors, Listed, RowsOf
    <3>3. newer[x] \subseteq newer[r] /\ x \notin newer[x]
      BY <2>1, <3>2 DEF KeepInv, OrderOK
    <3>4. Protectors(x) \subseteq Protectors(r)'
      BY <2>1, <3>2, <3>3 DEF Protectors
    <3>5. Cardinality(Protectors(x)) + lost[who[p]] >= KeepFloor
      BY <3>1, <3>2 DEF KeepInv
    <3>6. Cardinality(Protectors(r)') + lost[who[p]] >= KeepFloor
      BY <2>1, <2>2, <3>4, <3>5, MoreProtectors
    <3>7. QED
      BY <2>1, <2>2, <2>3, <2>4, <3>6, RetentionAssumption
  <2>8. QED
    BY <2>5, <2>6, <2>7
<1>2. QED
  BY <1>1, RemoveKeepsOrder DEF KeepInv, ListsShrink

(* Steps that leave rows alone, shorten lists and forget no losses that a   *)
(* running keeper depends on keep the rest.                                 *)
LEMMA CalmKeeps ==
    ASSUME TypeOK, TypeOK', KeepInv, PassInv', ListsShrink,
           UNCHANGED <<live, owner, tagged, newer>>,
           UNCHANGED lost \/ Losses({}) \/ \A p \in Pruners : todo'[p] = {}
    PROVE  KeepInv'
<1>1. \A r : Protectors(r)' = Protectors(r)
  BY DEF Protectors, Listed, RowsOf
<1>2. ASSUME NEW p \in Pruners, keep'[p] >= KeepFloor, NEW r \in todo'[p] \cap live'
      PROVE  Cardinality(Protectors(r)') + lost'[who'[p]] >= KeepFloor
  <2>1. r \in todo[p] \cap live /\ who'[p] = who[p] /\ keep'[p] = keep[p]
    BY <1>2 DEF ListsShrink
  <2>2. /\ who[p] \in Tenants /\ lost[who[p]] \in 0..KeepFloor
        /\ Cardinality(Protectors(r)) \in Nat
        /\ Cardinality(Protectors(r)) + lost[who[p]] >= KeepFloor
    BY <1>2, <2>1, ListType DEF KeepInv
  <2>3. lost'[who[p]] >= lost[who[p]] /\ lost'[who[p]] \in 0..KeepFloor
    <3>1. \A t \in Tenants : t = who[p] => Keepers(t)' # {}
      BY <1>2, <2>1 DEF Keepers
    <3>2. CASE Losses({})
      BY <2>2, <3>1, <3>2, LossesCount
    <3>3. CASE UNCHANGED lost
      BY <2>2, <3>3, RetentionAssumption
    <3>4. QED
      BY <1>2, <3>2, <3>3
  <2>4. QED
    BY <1>1, <2>1, <2>2, <2>3, RetentionAssumption
<1>3. QED
  BY <1>2 DEF KeepInv, OrderOK, ListsShrink

(* A row taken off a list leaves the other lists alone. *)
LEMMA StrikeOffShrinks ==
    ASSUME TypeOK, KeepInv, NEW p \in Pruners, NEW r \in todo[p], StrikeOff(p, r)
    PROVE  ListsShrink
<1>1. /\ todo'[p] = todo[p] \ {r}
      /\ todo'[p] # {} => who'[p] = who[p] /\ keep'[p] = keep[p]
      /\ \A q \in Pruners \ {p} : who'[q] = who[q] /\ keep'[q] = keep[q] /\ todo'[q] = todo[q]
  <2>1. /\ who[p] \in Tenants \cup {None} /\ maxAge[p] \in Int /\ keep[p] \in Int
        /\ todo[p] \ {r} \in SUBSET Records
    BY DEF TypeOK
  <2>2. QED
    BY <2>1, SetPassType DEF StrikeOff
<1>2. QED
  BY <1>1 DEF ListsShrink, KeepInv

(* A pass begins: its own list is new, nothing else changes. *)
LEMMA BeginKeeps ==
    ASSUME TypeOK, TypeOK', KeepInv, NEW p \in Pruners, NEW t \in Tenants, NEW a \in Int,
           NEW k \in Int, BeginPass(p, t, a, k), PassInv'
    PROVE  KeepInv'
<1>1. /\ ToDelete(t, a, k) \in SUBSET Records
      /\ UNCHANGED <<rowVars, lost>> /\ SetPass(p, t, a, k, ToDelete(t, a, k))
  BY ToDeleteListed DEF BeginPass, TypeOK
<1>2. /\ todo'[p] = ToDelete(t, a, k)
      /\ todo'[p] # {} => who'[p] = t /\ keep'[p] = k
      /\ \A q \in Pruners \ {p} : who'[q] = who[q] /\ keep'[q] = keep[q] /\ todo'[q] = todo[q]
  BY <1>1, SetPassType
<1>3. \A r : Protectors(r)' = Protectors(r)
  BY <1>1 DEF Protectors, Listed, RowsOf, rowVars
<1>4. ASSUME NEW q \in Pruners, keep'[q] >= KeepFloor, NEW r \in todo'[q] \cap live'
      PROVE  Cardinality(Protectors(r)') + lost'[who'[q]] >= KeepFloor
  <2>1. CASE q = p
    <3>1. r \in ToDelete(t, a, k) /\ who'[q] = t /\ lost' = lost /\ keep'[q] = k
      BY <1>1, <1>2, <1>4, <2>1
    <3>2. owner[r] = t /\ lost[t] \in Nat
      BY <3>1, ToDeleteListed, RetentionAssumption DEF TypeOK
    <3>3. Protectors(r)' = newer[r] \cap Listed(t)
      BY <1>3, <3>2 DEF Protectors
    <3>4. k \in Nat /\ KeepFloor <= k
      BY <1>4, <3>1, RetentionAssumption
    <3>5. /\ Cardinality(newer[r] \cap Listed(t)) + 0 >= KeepFloor
          /\ Cardinality(newer[r] \cap Listed(t)) \in Nat
      <4>1. IsFiniteSet(newer[r] \cap Listed(t))
        BY FS_Subset, RetentionAssumption DEF Listed, RowsOf, TypeOK
      <4>2. QED
        BY <3>1, <3>4, <4>1, FreshListProtected, FS_CardinalityType
    <3>6. QED
      BY <3>1, <3>2, <3>3, <3>5, RetentionAssumption
  <2>2. CASE q # p
    BY <1>1, <1>2, <1>3, <1>4, <2>2 DEF KeepInv, rowVars
  <2>3. QED
    BY <2>1, <2>2
<1>5. \A q \in Pruners : who'[q] = None => todo'[q] = {}
  BY <1>2, RetentionAssumption DEF KeepInv
<1>6. QED
  BY <1>1, <1>4, <1>5 DEF KeepInv, OrderOK, rowVars

(* The invariant behind KeepsRecent. *)
LEMMA KeepInvHolds == Spec => []TypeOK /\ []KeepInv
<1>1. Init => TypeOK /\ KeepInv
  <2>1. Init => TypeOK
    BY RetentionAssumption DEF Init, TypeOK, Pruners
  <2>2. QED
    BY <2>1 DEF Init, KeepInv, OrderOK, PassInv
<1>2. TypeOK /\ KeepInv /\ [Next]_vars => TypeOK' /\ KeepInv'
  <2> SUFFICES ASSUME TypeOK, KeepInv, [Next]_vars PROVE TypeOK' /\ KeepInv'
    OBVIOUS
  <2>1. TypeOK' /\ PassInv'
    BY TypeCorrectStep, PassInvInductive DEF KeepInv
  <2>2. ASSUME NEW t \in Tenants, NEW r \in Records, NEW tag \in BOOLEAN,
               Insert(t, r, tag)
        PROVE  KeepInv'
    BY <2>1, <2>2, InsertKeeps
  <2>3. ASSUME NEW p \in Workers, NEW t \in Tenants, NEW a \in Int, NEW k \in Int,
               RequestPass(p, t, a, k) \/ DispatchPass(p, t, a, k)
        PROVE  KeepInv'
    BY <2>1, <2>3, BeginKeeps DEF RequestPass, DispatchPass, Pruners
  <2>4. ASSUME NEW t \in Tenants, SchedulerPass(t) PROVE KeepInv'
    <3>1. setting \in Int /\ SchedulerAge \in Int
      BY RetentionAssumption DEF TypeOK
    <3>2. BeginPass(Scheduler, t, SchedulerAge, setting) /\ Scheduler \in Pruners
      BY <2>4 DEF SchedulerPass, Pruners
    <3>3. QED
      BY <2>1, <3>1, <3>2, BeginKeeps
  <2>5. ASSUME NEW p \in Pruners, DeleteNext(p) PROVE KeepInv'
    <3> DEFINE losers(r) == IF r \in live /\ keep[p] < KeepFloor THEN {owner[r]} ELSE {}
    <3>1. PICK r \in todo[p] :
            /\ StrikeOff(p, r)
            /\ IF r \in live THEN Remove(r) ELSE UNCHANGED rowVars
            /\ Losses(losers(r))
      BY <2>5 DEF DeleteNext, Upcoming
    <3>2. ListsShrink
      BY <3>1, StrikeOffShrinks
    <3>3. keep[p] \in Int
      BY <2>5 DEF TypeOK
    <3>4. CASE r \in live
      <4>1. \/ owner[r] \in losers(r)
            \/ \E d \in Pruners : keep[d] >= KeepFloor /\ r \in todo[d]
        BY <3>1, <3>3, <3>4, RetentionAssumption
      <4>2. QED
        BY <2>1, <3>1, <3>2, <3>4, <4>1, RemoveKeeps
    <3>5. CASE r \notin live
      BY <2>1, <3>1, <3>2, <3>5, CalmKeeps DEF rowVars
    <3>6. QED
      BY <3>4, <3>5
  <2>6. ASSUME NEW t \in Tenants, Register(t) PROVE KeepInv'
    BY <2>1, <2>6, CalmKeeps DEF Register, rowVars, passVars, ListsShrink, KeepInv
  <2>7. CASE Tick
    BY <2>1, <2>7, CalmKeeps DEF Tick, passVars, ListsShrink, KeepInv
  <2>8. CASE Wake
    BY <2>1, <2>8, CalmKeeps DEF Wake, rowVars, passVars, ListsShrink, KeepInv
  <2>9. ASSUME NEW p \in Pruners, DeleteUndone(p) PROVE KeepInv'
    <3>1. PICK r \in todo[p] : StrikeOff(p, r)
      BY <2>9 DEF DeleteUndone, Upcoming
    <3>2. ListsShrink
      BY <3>1, StrikeOffShrinks
    <3>3. QED
      BY <2>1, <2>9, <3>2, CalmKeeps DEF DeleteUndone, rowVars
  <2>10. ASSUME NEW p \in Pruners, PassFails(p) PROVE KeepInv'
    <3>1. SetPass(p, None, 0, 0, {})
      BY <2>10 DEF PassFails
    <3>2. ListsShrink
      BY <3>1, SetPassType DEF ListsShrink, KeepInv
    <3>3. QED
      BY <2>1, <2>10, <3>2, CalmKeeps DEF PassFails, rowVars
  <2>11. CASE Restart
    BY <2>1, <2>11, CalmKeeps DEF Restart, rowVars, ListsShrink
  <2>12. ASSUME NEW r \in Records, UserDelete(r) PROVE KeepInv'
    <3>1. ListsShrink
      BY <2>12 DEF UserDelete, passVars, ListsShrink, KeepInv
    <3>2. r \in live /\ Remove(r) /\ Losses({owner[r]})
      BY <2>12 DEF UserDelete
    <3>3. QED
      BY <2>1, <3>1, <3>2, RemoveKeeps
  <2>13. CASE UNCHANGED vars
    BY <2>1, <2>13, CalmKeeps DEF vars, rowVars, passVars, ListsShrink, KeepInv
  <2>14. QED
    BY <2>1, <2>2, <2>3, <2>4, <2>5, <2>6, <2>7, <2>8, <2>9, <2>10, <2>11, <2>12, <2>13,
       RetentionAssumption DEF Next, PassStep
<1>3. QED
  BY <1>1, <1>2, PTL DEF Spec

(* A pass with a keep_recent of at least KeepFloor never removes one of the *)
(* KeepFloor most recent autonomy records, however many passes overlap and  *)
(* whatever they keep, but for one per record that disappeared meanwhile    *)
(* other than by passes that keep as many.  KeepFloor is any number, the    *)
(* arguments of the three callers are any the code accepts.                 *)
THEOREM PrunesKeepRecent == Spec => KeepsRecent
<1>1. TypeOK /\ KeepInv /\ [Next]_vars =>
        [\A p \in Pruners : \A r \in Pruned(p) : keep[p] >= KeepFloor =>
            Cardinality(newer[r] \cap Listed(owner[r])) + lost[owner[r]] >= KeepFloor]_vars
  BY DEF KeepInv, PassInv, Pruned, Protectors
<1>2. QED
  BY <1>1, KeepInvHolds, PTL DEF Spec, KeepsRecent

-----------------------------------------------------------------------------
Scheduled(r) == Excess(r) /\ owner[r] \in covered

(* The scheduler is in a pass that has r on its list. *)
Doomed(r) == who[Scheduler] # None /\ r \in todo[Scheduler]

(* The rows that are newer than a row of the search result are in it too. *)
LEMMA WindowClosed ==
    ASSUME TypeOK, KeepInv, NEW t, NEW r \in Listed(t),
           Cardinality(newer[r] \cap Listed(t)) < SearchLimit
    PROVE  newer[r] \cap Listed(t) \subseteq Newest(Listed(t), SearchLimit)
<1> SUFFICES ASSUME NEW s \in newer[r] \cap Listed(t)
             PROVE  s \in Newest(Listed(t), SearchLimit)
  OBVIOUS
<1>1. newer[s] \cap Listed(t) \subseteq newer[r] \cap Listed(t)
  BY DEF KeepInv, OrderOK, Listed, RowsOf
<1>2. IsFiniteSet(newer[r] \cap Listed(t))
  <2>1. newer[r] \cap Listed(t) \subseteq Records
    BY DEF TypeOK, Listed, RowsOf
  <2>2. QED
    BY <2>1, FS_Subset, RetentionAssumption
<1>3. /\ Cardinality(newer[s] \cap Listed(t)) <= Cardinality(newer[r] \cap Listed(t))
      /\ Cardinality(newer[s] \cap Listed(t)) \in Nat
      /\ Cardinality(newer[r] \cap Listed(t)) \in Nat
  BY <1>1, <1>2, FS_Subset, FS_CardinalityType
<1>4. QED
  BY <1>3, RetentionAssumption DEF Newest

(* The search of the scheduler finds a row its settings say should go. *)
LEMMA SearchFindsExcess ==
    ASSUME TypeOK, KeepInv, NEW r \in Records, Excess(r), setting >= 0,
           SchedulerPass(owner[r])
    PROVE  Doomed(r)'
<1> DEFINE t == owner[r]
           W == Newest(Listed(t), SearchLimit)
<1>1. /\ r \in Listed(t) /\ age[r] > SchedulerAge /\ t \in Tenants /\ setting \in Int
      /\ Cardinality(newer[r] \cap Listed(t)) \in setting..(SearchLimit - 1)
  <2>1. r \in live /\ tagged[r] /\ setting \in Int
    BY RetentionAssumption DEF Excess, TypeOK
  <2>2. t \in Tenants
    BY RetentionAssumption DEF SchedulerPass, TypeOK
  <2>3. QED
    BY <2>1, <2>2 DEF Excess, Listed, RowsOf
<1>2. r \in W /\ newer[r] \cap Listed(t) \subseteq W
  BY <1>1, WindowClosed, RetentionAssumption DEF Newest
<1>3. newer[r] \cap W = newer[r] \cap Listed(t)
  BY <1>2 DEF Newest
<1>4. r \notin Newest(W, setting)
  <2>1. ~(Cardinality(newer[r] \cap Listed(t)) < setting)
    BY <1>1, RetentionAssumption
  <2>2. ~(Cardinality(newer[r] \cap W) < setting)
    BY <1>3, <2>1
  <2>3. ASSUME NEW S, r \in Newest(S, setting)
        PROVE  Cardinality(newer[r] \cap S) < setting
    BY <1>1, <2>3 DEF Newest
  <2>4. QED
    BY <2>2, <2>3
<1>5. r \in ToDelete(t, SchedulerAge, setting)
  BY <1>1, <1>2, <1>4 DEF ToDelete
<1>6. Scheduler \in Pruners /\ SchedulerAge \in Int /\ ToDelete(t, SchedulerAge, setting) \in SUBSET Records
  BY ToDeleteListed, RetentionAssumption DEF Pruners, TypeOK
<1>7. SetPass(Scheduler, t, SchedulerAge, setting, ToDelete(t, SchedulerAge, setting))
  BY DEF SchedulerPass, BeginPass
<1>8. QED
  BY <1>1, <1>5, <1>6, <1>7, SetPassType, RetentionAssumption DEF Doomed

(* Once on the list, a row stays there until it goes, or the pass fails. *)
LEMMA DoomedStays ==
    ASSUME TypeOK, NEW r \in Records, Doomed(r), Excess(r), Excess(r)',
           [Next]_vars, faults' = faults
    PROVE  Doomed(r)'
<1> USE DEF Doomed
<1>1. Scheduler \in Pruners /\ r \in live /\ r \in live' /\ faults \in Nat
      /\ todo \in [Pruners -> SUBSET Records] /\ who \in [Pruners -> Tenants \cup {None}]
  BY RetentionAssumption DEF Pruners, Excess, TypeOK
<1>2. ASSUME NEW p \in Pruners, DeleteNext(p) PROVE Doomed(r)'
  <2>1. PICK x \in todo[p] :
          /\ StrikeOff(p, x)
          /\ IF x \in live THEN Remove(x) ELSE UNCHANGED rowVars
    BY <1>2 DEF DeleteNext, Upcoming
  <2>2. x # r
    BY <1>1, <2>1 DEF Remove
  <2>3. QED
    BY <1>1, <2>1, <2>2 DEF StrikeOff, SetPass
<1>3. ASSUME (\E p \in Pruners : DeleteUndone(p)) PROVE FALSE
  BY <1>1, <1>3 DEF DeleteUndone
<1>4. ASSUME NEW p \in Workers, NEW t, NEW a, NEW k, RequestPass(p, t, a, k) \/ DispatchPass(p, t, a, k)
      PROVE  Doomed(r)'
  BY <1>1, <1>4, RetentionAssumption DEF RequestPass, DispatchPass, BeginPass, SetPass
<1>5. ASSUME NEW t, SchedulerPass(t) PROVE Doomed(r)'
  BY <1>5 DEF SchedulerPass, BeginPass
<1>6. ASSUME (\E p \in Pruners : PassFails(p)) \/ Restart PROVE FALSE
  BY <1>1, <1>6 DEF PassFails, Restart
<1>7. CASE UNCHANGED passVars
  BY <1>7 DEF passVars
<1>8. QED
  BY <1>2, <1>3, <1>4, <1>5, <1>6, <1>7
     DEF Next, PassStep, vars, Register, Insert, Tick, UserDelete, Wake

(* One sweep that nothing stops deletes the row, and sweeps come round. *)
LEMMA OneRowGoes ==
    ASSUME NEW r \in Records, SchedulerKeeps \subseteq Nat
    PROVE  Spec /\ FaultsCease /\ TurnsCome(r) => (Scheduled(r) ~> ~Scheduled(r))
<1> DEFINE Turn == SchedulerPass(owner[r])
<1>1. TypeOK /\ KeepInv /\ Scheduled(r) /\ <<Turn>>_vars => Doomed(r)'
  BY SearchFindsExcess DEF Scheduled, TypeOK
<1>2. TypeOK /\ Doomed(r) /\ Scheduled(r) /\ Scheduled(r)' /\ [Next]_vars
         /\ [faults' = faults]_vars => Doomed(r)'
  BY DoomedStays DEF Scheduled, vars
<1>3. Doomed(r) => ~<<Turn>>_vars
  BY DEF Doomed, SchedulerPass, BeginPass
<1>4. Scheduled(r) => r \in live /\ owner[r] \in covered
  BY DEF Scheduled, Excess
<1>5. QED
  BY <1>1, <1>2, <1>3, <1>4, KeepInvHolds, PTL DEF Spec, FaultsCease, TurnsCome

(* A stale row beyond the newest keep_recent ones and within the search     *)
(* window does not stay, for any number of tenants, rows and passes, if the *)
(* scheduler's keep_recent is not negative: the first sweep that ends       *)
(* deletes it, or somebody else has.                                        *)
THEOREM StaleRowsGo ==
    ASSUME SchedulerKeeps \subseteq Nat
    PROVE  SweepingSpec => StaleGoes
<1> SUFFICES ASSUME NEW r \in Watched
             PROVE  SweepingSpec => ((Excess(r) /\ owner[r] \in covered)
                                        ~> (~Excess(r) \/ owner[r] \notin covered))
  BY DEF StaleGoes
<1>1. r \in Records
  BY RetentionAssumption
<1>2. SweepingSpec => Spec /\ FaultsCease /\ TurnsCome(r)
  BY DEF SweepingSpec
<1>3. SweepingSpec => (Scheduled(r) ~> ~Scheduled(r))
  BY <1>1, <1>2, OneRowGoes
<1>4. /\ Excess(r) /\ owner[r] \in covered => Scheduled(r)
      /\ ~Scheduled(r) => ~Excess(r) \/ owner[r] \notin covered
  BY DEF Scheduled
<1>5. QED
  BY <1>3, <1>4, PTL

=============================================================================
