---------------------- MODULE ReservationLedgerProofs ----------------------
(***************************************************************************)
(* What the ledger's transactions guarantee for every set of requests,     *)
(* accounts, amounts and limits; and that the statements these             *)
(* transactions are made of implement them, whatever they interleave with. *)
(***************************************************************************)
EXTENDS AdmissionStatements, FiniteSetTheorems, TLAPS

-----------------------------------------------------------------------------
(***************************************************************************)
(* Sums of amounts.                                                        *)
(***************************************************************************)

(* A sum over requests is a natural number: its coins form a finite set.   *)
LEMMA TotalType ==
  ASSUME NEW f \in [Requests -> Nat], NEW S \in SUBSET Requests
  PROVE  IsFiniteSet(Coins(f, S)) /\ Total(f, S) \in Nat
<1> DEFINE Piles == {{r} \X (1..f[r]) : r \in S}
           pile  == [r \in S |-> {r} \X (1..f[r])]
<1>1. IsFiniteSet(S)
  BY RequestsAssumption, FS_Subset
<1>2. pile \in Surjection(S, Piles)
  BY DEF Surjection
<1>3. IsFiniteSet(Piles)
  BY <1>1, <1>2, FS_Surjection
<1>4. ASSUME NEW P \in Piles PROVE IsFiniteSet(P)
  <2>1. PICK r \in S : P = {r} \X (1..f[r])
    BY <1>4
  <2>2. IsFiniteSet({r})
    BY FS_Singleton
  <2>3. f[r] \in Int /\ 1 \in Int
    OBVIOUS
  <2>4. IsFiniteSet(1..f[r])
    BY <2>3, FS_Interval
  <2>5. QED
    BY <2>1, <2>2, <2>4, FS_Product
<1>5. IsFiniteSet(Coins(f, S))
  BY <1>3, <1>4, FS_UNION DEF Coins
<1>6. QED
  BY <1>5, FS_CardinalityType DEF Total

(* One more request adds its amount to a sum.                              *)
LEMMA TotalAdd ==
  ASSUME NEW f \in [Requests -> Nat], NEW S \in SUBSET Requests,
         NEW r \in Requests \ S
  PROVE  Total(f, S \cup {r}) = Total(f, S) + f[r]
<1> DEFINE pile == {r} \X (1..f[r])
<1>1. IsFiniteSet(Coins(f, S)) /\ Total(f, S) \in Nat
  BY TotalType
<1>2. IsFiniteSet(pile) /\ Cardinality(pile) = f[r]
  <2>1. IsFiniteSet({r}) /\ Cardinality({r}) = 1
    BY FS_Singleton
  <2>2. f[r] \in Nat
    OBVIOUS
  <2>3. IsFiniteSet(1..f[r]) /\ Cardinality(1..f[r]) = f[r]
    BY <2>2, FS_Interval
  <2>4. IsFiniteSet(pile) /\ Cardinality(pile) = 1 * Cardinality(1..f[r])
    BY <2>1, <2>3, FS_Product
  <2>5. QED
    BY <2>2, <2>3, <2>4
<1>3. Coins(f, S \cup {r}) = Coins(f, S) \cup pile
  BY DEF Coins
<1>4. Coins(f, S) \cap pile = {}
  BY DEF Coins
<1>5. Cardinality(Coins(f, S) \cap pile) = 0
  BY <1>4, FS_EmptySet
<1>6. Cardinality(Coins(f, S) \cup pile)
        = Cardinality(Coins(f, S)) + Cardinality(pile) - 0
  BY <1>1, <1>2, <1>5, FS_Union
<1> HIDE DEF pile
<1>7. Total(f, S \cup {r}) = Total(f, S) + Cardinality(pile) - 0
  BY <1>3, <1>6 DEF Total
<1>8. QED
  BY <1>1, <1>2, <1>7, f[r] \in Nat

(* Fewer requests, no larger sum.                                          *)
LEMMA TotalMonotone ==
  ASSUME NEW f \in [Requests -> Nat], NEW S \in SUBSET Requests,
         NEW T \in SUBSET S
  PROVE  Total(f, T) <= Total(f, S)
<1>1. Coins(f, T) \subseteq Coins(f, S)
  BY DEF Coins
<1>2. QED
  BY <1>1, TotalType, FS_Subset DEF Total

(* A sum depends only on the amounts of the requests in it.                *)
LEMMA TotalSame ==
  ASSUME NEW S, NEW f, NEW g, \A r \in S : f[r] = g[r]
  PROVE  Total(f, S) = Total(g, S)
BY DEF Total, Coins

LEMMA TotalEmpty == ASSUME NEW f PROVE Total(f, {}) = 0
BY FS_EmptySet DEF Total, Coins

-----------------------------------------------------------------------------
(***************************************************************************)
(* Types, usage rows and the counter.                                      *)
(***************************************************************************)

GivenUpStatus == {"released", "recovery_required"}

(* How each transaction changes the set of reserved rows.                  *)
LEMMA ReserveAdds ==
  ASSUME LedgerTypeOK, NEW r \in Requests, Reserve(r)
  PROVE  r \notin Reserved /\ Reserved' = Reserved \cup {r}
BY DEF Reserve, Reserved, LedgerTypeOK

LEMMA SettleRemoves ==
  ASSUME LedgerTypeOK, NEW r \in Requests, NEW cost, NEW begun, Settle(r, cost, begun)
  PROVE  r \in Reserved /\ Reserved' = Reserved \ {r}
BY DEF Settle, Reserved, LedgerTypeOK

LEMMA GiveUpRemoves ==
  ASSUME LedgerTypeOK, NEW S \in SUBSET Requests, NEW target \in GivenUpStatus,
         GiveUp(S, target)
  PROVE  Reserved' = Reserved \ (S \cap Reserved)
BY DEF GiveUp, Reserved, LedgerTypeOK, GivenUpStatus

LEMMA OthersKeep ==
  ASSUME UNCHANGED status
  PROVE  Reserved' = Reserved
BY DEF Reserved

LEMMA ReservedFinite == IsFiniteSet(Reserved) /\ Cardinality(Reserved) \in Nat
<1>1. Reserved \in SUBSET Requests
  BY DEF Reserved
<1>2. QED
  BY <1>1, RequestsAssumption, FS_Subset, FS_CardinalityType

(* The counter is exact and the usage rows are those of settled requests:  *)
(* neither can be shown without the other's type and the exact count.      *)
CoreInv == LedgerTypeOK /\ UsageIffSettled /\ ActiveRequestsExact

LEMMA CoreInit == LedgerInit => CoreInv
<1> SUFFICES ASSUME LedgerInit PROVE CoreInv
  OBVIOUS
<1>1. LedgerTypeOK
  BY DEF LedgerInit, LedgerTypeOK, ReservationStatus
<1>2. UsageIffSettled
  BY DEF LedgerInit, UsageIffSettled
<1>3. Reserved = {}
  BY DEF LedgerInit, Reserved
<1>4. ActiveRequestsExact
  BY <1>3, FS_EmptySet DEF LedgerInit, ActiveRequestsExact
<1>5. QED
  BY <1>1, <1>2, <1>4 DEF CoreInv

LEMMA CoreNext == CoreInv /\ [LedgerNext]_ledgerVars => CoreInv'
<1> SUFFICES ASSUME CoreInv, [LedgerNext]_ledgerVars PROVE CoreInv'
  OBVIOUS
<1> USE DEF CoreInv
<1>0. LedgerTypeOK /\ UsageIffSettled /\ ActiveRequestsExact
  OBVIOUS
<1>1. ASSUME NEW r \in Requests, Reserve(r) PROVE CoreInv'
  <2>1. LedgerTypeOK'
    BY <1>0, <1>1 DEF Reserve, LedgerTypeOK, ReservationStatus
  <2>2. UsageIffSettled'
    BY <1>0, <1>1 DEF Reserve, UsageIffSettled, LedgerTypeOK
  <2>3. Cardinality(Reserved \cup {r}) = Cardinality(Reserved) + 1
    BY <1>0, <1>1, ReserveAdds, ReservedFinite, FS_AddElement
  <2>4. ActiveRequestsExact'
    BY <1>0, <1>1, <2>3, ReserveAdds DEF Reserve, ActiveRequestsExact
  <2>5. QED
    BY <2>1, <2>2, <2>4
<1>2. ASSUME NEW r \in Requests, NEW cost \in Charges[r], NEW begun \in Beginnings,
             Settle(r, cost, begun)
      PROVE  CoreInv'
  <2>1. cost \in Nat
    BY <1>2, AmountsAssumption
  <2>2. r \notin usage
    BY <1>0, <1>2 DEF Settle, UsageIffSettled
  <2>3. LedgerTypeOK'
    BY <1>0, <1>2, <2>1, <2>2
       DEF Settle, RecordUsage, SlotsAfterFreeing, LedgerTypeOK, ReservationStatus
  <2>4. UsageIffSettled'
    BY <1>0, <1>2, <2>2 DEF Settle, RecordUsage, UsageIffSettled, LedgerTypeOK
  <2>5. Cardinality(Reserved \ {r}) = Cardinality(Reserved) - 1
    BY <1>0, <1>2, SettleRemoves, ReservedFinite, FS_RemoveElement
  <2>6. Cardinality(Reserved \ {r}) \in Nat
    BY ReservedFinite, FS_RemoveElement, FS_CardinalityType
  <2>7. activeRequests' = SlotsAfterFreeing(1)
    BY <1>2 DEF Settle
  <2>8. activeRequests' = Cardinality(Reserved) - 1
    BY <1>0, <2>5, <2>6, <2>7, ReservedFinite DEF SlotsAfterFreeing, ActiveRequestsExact
  <2>9. ActiveRequestsExact'
    BY <1>0, <1>2, <2>5, <2>8, SettleRemoves DEF ActiveRequestsExact
  <2>10. QED
    BY <2>3, <2>4, <2>9
<1>3. ASSUME NEW S \in SUBSET Requests, NEW target \in GivenUpStatus, GiveUp(S, target)
      PROVE  CoreInv'
  <2> DEFINE changed == S \cap Reserved
  <2>1. /\ IsFiniteSet(changed) /\ Cardinality(changed) \in Nat
        /\ Cardinality(changed) <= Cardinality(Reserved)
    BY ReservedFinite, FS_Subset, FS_CardinalityType, changed \in SUBSET Reserved
  <2>2. LedgerTypeOK'
    BY <1>0, <1>3, <2>1
       DEF GiveUp, SlotsAfterFreeing, LedgerTypeOK, ReservationStatus, GivenUpStatus
  <2>3. UsageIffSettled'
    BY <1>0, <1>3 DEF GiveUp, UsageIffSettled, Reserved, LedgerTypeOK, GivenUpStatus
  <2>4. Cardinality(Reserved \ changed) = Cardinality(Reserved) - Cardinality(changed)
    <3>1. Reserved \cap changed = changed
      OBVIOUS
    <3>2. QED
      BY <3>1, ReservedFinite, FS_Difference
  <2>5. activeRequests' = Cardinality(Reserved) - Cardinality(changed)
    BY <1>0, <1>3, <2>1, ReservedFinite DEF GiveUp, SlotsAfterFreeing, ActiveRequestsExact
  <2>6. ActiveRequestsExact'
    BY <1>0, <1>3, <2>4, <2>5, GiveUpRemoves DEF ActiveRequestsExact
  <2>7. QED
    BY <2>2, <2>3, <2>6
<1>4. ASSUME NEW mode \in TrafficModes, SetTraffic(mode) PROVE CoreInv'
  BY <1>0, <1>4, OthersKeep
     DEF SetTraffic, LedgerTypeOK, UsageIffSettled, ActiveRequestsExact
<1>5. ASSUME NEW u \in Users, NEW active \in BOOLEAN, SetAccountActive(u, active)
      PROVE  CoreInv'
  BY <1>0, <1>5, OthersKeep
     DEF SetAccountActive, LedgerTypeOK, UsageIffSettled, ActiveRequestsExact
<1>6. ASSUME NEW w \in Windows, BeginWindow(w) PROVE CoreInv'
  BY <1>0, <1>6, OthersKeep
     DEF BeginWindow, LedgerTypeOK, UsageIffSettled, ActiveRequestsExact
<1>7. CASE UNCHANGED ledgerVars
  BY <1>0, <1>7, OthersKeep
     DEF ledgerVars, LedgerTypeOK, UsageIffSettled, ActiveRequestsExact
<1>8. QED
  BY <1>1, <1>2, <1>3, <1>4, <1>5, <1>6, <1>7 DEF LedgerNext, GivenUpStatus

LEMMA CoreAlways == LedgerSpec => []CoreInv
BY CoreInit, CoreNext, PTL DEF LedgerSpec

(* Every reachable ledger has the declared types.                          *)
THEOREM LedgerTypeCorrect == LedgerSpec => []LedgerTypeOK
BY CoreAlways, PTL DEF CoreInv

(* The cached count of active requests never drifts from the rows, for any *)
(* number of requests: every path that takes a row out of 'reserved' takes *)
(* exactly that row out of the counter.                                    *)
THEOREM CounterExact == LedgerSpec => []ActiveRequestsExact
BY CoreAlways, PTL DEF CoreInv

(* Usage rows and settled reservations correspond one to one.              *)
THEOREM UsageExact == LedgerSpec => []UsageIffSettled
BY CoreAlways, PTL DEF CoreInv

-----------------------------------------------------------------------------
(***************************************************************************)
(* Concurrency and budgets.  Both are inductive once the counter is exact; *)
(* budgets also need settlements to cost no more than was held.            *)
(***************************************************************************)

LEMMA ConcurrencyInit == LedgerInit => ConcurrencyRespected
<1> SUFFICES ASSUME LedgerInit PROVE ConcurrencyRespected
  OBVIOUS
<1>1. Reserved = {}
  BY DEF LedgerInit, Reserved
<1>2. Cardinality(Reserved) = 0 /\ \A u \in Users : Cardinality(Reserved \cap Of(u)) = 0
  BY <1>1, FS_EmptySet
<1>3. Cardinality(Reserved) <= PlatformConcurrency
  BY <1>2, LimitsAssumption
<1>4. ASSUME NEW u \in Users PROVE Cardinality(Reserved \cap Of(u)) <= UserConcurrency[u]
  <2>1. UserConcurrency[u] \in Nat
    BY LimitsAssumption
  <2>2. Cardinality(Reserved \cap Of(u)) = 0
    BY <1>2
  <2>3. QED
    BY <2>1, <2>2
<1>5. QED
  BY <1>3, <1>4 DEF ConcurrencyRespected

LEMMA ConcurrencyNext ==
  CoreInv /\ ConcurrencyRespected /\ [LedgerNext]_ledgerVars => ConcurrencyRespected'
<1> SUFFICES ASSUME CoreInv, ConcurrencyRespected, [LedgerNext]_ledgerVars
             PROVE  ConcurrencyRespected'
  OBVIOUS
<1>0. LedgerTypeOK /\ ActiveRequestsExact
  BY DEF CoreInv
<1>1. ASSUME Reserved' \subseteq Reserved PROVE ConcurrencyRespected'
  <2>1. Cardinality(Reserved') <= Cardinality(Reserved) /\ Cardinality(Reserved') \in Nat
    BY <1>1, ReservedFinite, FS_Subset, FS_CardinalityType
  <2>2. Cardinality(Reserved') <= PlatformConcurrency
    BY <2>1, ReservedFinite, LimitsAssumption DEF ConcurrencyRespected
  <2>3. ASSUME NEW u \in Users
        PROVE  Cardinality(Reserved' \cap Of(u)) <= UserConcurrency[u]
    <3>1. IsFiniteSet(Reserved \cap Of(u)) /\ Cardinality(Reserved \cap Of(u)) \in Nat
      BY ReservedFinite, FS_Intersection, FS_CardinalityType
    <3>2. Reserved' \cap Of(u) \in SUBSET (Reserved \cap Of(u))
      BY <1>1
    <3>3. /\ Cardinality(Reserved' \cap Of(u)) <= Cardinality(Reserved \cap Of(u))
          /\ Cardinality(Reserved' \cap Of(u)) \in Nat
      BY <3>1, <3>2, FS_Subset, FS_CardinalityType
    <3>4. Cardinality(Reserved \cap Of(u)) <= UserConcurrency[u] /\ UserConcurrency[u] \in Nat
      BY LimitsAssumption DEF ConcurrencyRespected
    <3>5. QED
      BY <3>1, <3>3, <3>4
  <2>4. \A u : Of(u)' = Of(u)
    BY DEF Of
  <2>5. QED
    BY <2>2, <2>3, <2>4 DEF ConcurrencyRespected
<1>2. ASSUME NEW r \in Requests, Reserve(r) PROVE ConcurrencyRespected'
  <2>1. r \notin Reserved /\ Reserved' = Reserved \cup {r}
    BY <1>0, <1>2, ReserveAdds
  <2>2. SlotFree(UserOf[r])
    BY <1>2 DEF Reserve, MayReserve
  <2>3. Cardinality(Reserved') = Cardinality(Reserved) + 1
    BY <2>1, ReservedFinite, FS_AddElement
  <2>4. Cardinality(Reserved') <= PlatformConcurrency
    BY <1>0, <2>2, <2>3, ReservedFinite, LimitsAssumption DEF SlotFree, ActiveRequestsExact
  <2>5. ASSUME NEW u \in Users
        PROVE  Cardinality(Reserved' \cap Of(u)) <= UserConcurrency[u]
    <3>1. IsFiniteSet(Reserved \cap Of(u)) /\ Cardinality(Reserved \cap Of(u)) \in Nat
      BY ReservedFinite, FS_Intersection, FS_CardinalityType
    <3>2. CASE u = UserOf[r]
      <4>1. Reserved' \cap Of(u) = (Reserved \cap Of(u)) \cup {r}
        BY <2>1, <3>2 DEF Of
      <4>2. Cardinality(Reserved' \cap Of(u)) = Cardinality(Reserved \cap Of(u)) + 1
        BY <2>1, <3>1, <4>1, FS_AddElement
      <4>3. Cardinality(Reserved \cap Of(u)) < UserConcurrency[u] /\ UserConcurrency[u] \in Nat
        BY <2>2, <3>2, LimitsAssumption DEF SlotFree
      <4>4. QED
        BY <3>1, <4>2, <4>3
    <3>3. CASE u # UserOf[r]
      <4>1. Reserved' \cap Of(u) = Reserved \cap Of(u)
        BY <2>1, <3>3 DEF Of
      <4>2. QED
        BY <4>1 DEF ConcurrencyRespected
    <3>4. QED
      BY <3>2, <3>3
  <2>6. \A u : Of(u)' = Of(u)
    BY DEF Of
  <2>7. QED
    BY <2>4, <2>5, <2>6 DEF ConcurrencyRespected
<1>3. ASSUME NEW r \in Requests, NEW cost \in Charges[r], NEW begun \in Beginnings,
             Settle(r, cost, begun)
      PROVE  ConcurrencyRespected'
  BY <1>0, <1>1, <1>3, SettleRemoves
<1>4. ASSUME NEW S \in SUBSET Requests, NEW target \in GivenUpStatus, GiveUp(S, target)
      PROVE  ConcurrencyRespected'
  BY <1>0, <1>1, <1>4, GiveUpRemoves
<1>5. CASE UNCHANGED status
  BY <1>1, <1>5, OthersKeep
<1>6. QED
  BY <1>2, <1>3, <1>4, <1>5
     DEF LedgerNext, GivenUpStatus, SetTraffic, SetAccountActive, BeginWindow, ledgerVars

(* No account and not the platform ever holds more reservations than its   *)
(* limit, for any number of accounts, requests and slots.                  *)
THEOREM ConcurrencyBounded == LedgerSpec => []ConcurrencyRespected
BY CoreAlways, ConcurrencyInit, ConcurrencyNext, PTL DEF LedgerSpec

-----------------------------------------------------------------------------
(***************************************************************************)
(* Budgets.  What a set of requests has spent and holds grows only when a  *)
(* request of the set reserves, and reserve() has then checked the sum.    *)
(***************************************************************************)
Committed(S, w) == SpentBy(S, w) + HeldBy(S)

LEMMA SumTypes ==
  ASSUME LedgerTypeOK, NEW S \in SUBSET Requests, NEW w \in Windows
  PROVE  SpentBy(S, w) \in Nat /\ HeldBy(S) \in Nat
<1>1. Reserved \cap S \in SUBSET Requests
  OBVIOUS
<1>2. inWindow[w] \cap S \in SUBSET Requests /\ charge \in [Requests -> Nat]
  BY DEF LedgerTypeOK
<1>3. QED
  BY <1>1, <1>2, TotalType, AmountsAssumption DEF SpentBy, HeldBy

(* A reservation adds what it holds to every set that its request is in.   *)
LEMMA ReserveCommits ==
  ASSUME LedgerTypeOK, NEW r \in Requests, Reserve(r),
         NEW S \in SUBSET Requests, NEW w \in Windows
  PROVE  Committed(S, w)' = Committed(S, w) + (IF r \in S THEN Hold[r] ELSE 0)
<1>1. r \notin Reserved /\ Reserved' = Reserved \cup {r}
  BY ReserveAdds
<1>2. SpentBy(S, w)' = SpentBy(S, w)
  BY DEF Reserve, SpentBy
<1>3. SpentBy(S, w) \in Nat /\ HeldBy(S) \in Nat /\ Hold[r] \in Nat
  BY SumTypes, AmountsAssumption
<1>4. CASE r \in S
  <2>1. Reserved' \cap S = (Reserved \cap S) \cup {r}
    BY <1>1, <1>4
  <2>2. Reserved \cap S \in SUBSET Requests /\ r \in Requests \ (Reserved \cap S)
    BY <1>1
  <2>3. HeldBy(S)' = HeldBy(S) + Hold[r]
    BY <2>1, <2>2, TotalAdd, AmountsAssumption DEF HeldBy
  <2>4. QED
    BY <1>2, <1>3, <1>4, <2>3 DEF Committed
<1>5. CASE r \notin S
  <2>1. Reserved' \cap S = Reserved \cap S
    BY <1>1, <1>5
  <2>2. HeldBy(S)' = HeldBy(S)
    BY <2>1 DEF HeldBy
  <2>3. QED
    BY <1>2, <1>3, <1>5, <2>2 DEF Committed
<1>6. QED
  BY <1>4, <1>5

(* A settlement moves at most what was held from held to spent.            *)
LEMMA SettleCommitsNoMore ==
  ASSUME ChargesWithinHolds, CoreInv,
         NEW r \in Requests, NEW cost \in Charges[r], NEW begun,
         Settle(r, cost, begun),
         NEW S \in SUBSET Requests, NEW w \in Windows
  PROVE  Committed(S, w)' <= Committed(S, w)
<1>1. LedgerTypeOK /\ r \in Reserved /\ Reserved' = Reserved \ {r}
  BY SettleRemoves DEF CoreInv
<1>2. r \notin usage /\ r \notin inWindow[w]
  BY DEF CoreInv, LedgerTypeOK, UsageIffSettled, Settle
<1>3. /\ inWindow'[w] = IF w \in begun THEN inWindow[w] \cup {r} ELSE inWindow[w]
      /\ charge' = [charge EXCEPT ![r] = cost]
  BY <1>2 DEF Settle, RecordUsage
<1>4. /\ charge' \in [Requests -> Nat]
      /\ charge \in [Requests -> Nat]
      /\ charge'[r] = cost
      /\ cost \in Nat /\ Hold[r] \in Nat /\ cost <= Hold[r]
  BY <1>1, <1>3, AmountsAssumption DEF LedgerTypeOK, ChargesWithinHolds
<1> DEFINE before == inWindow[w] \cap S
<1>5. before \in SUBSET Requests /\ r \in Requests \ before
  BY <1>1, <1>2 DEF LedgerTypeOK
<1>6. Total(charge', before) = SpentBy(S, w)
  <2>1. \A x \in before : charge'[x] = charge[x]
    BY <1>3, <1>4, <1>5
  <2>2. QED
    BY <2>1, TotalSame DEF SpentBy
<1>7. SpentBy(S, w) \in Nat /\ HeldBy(S) \in Nat
  BY <1>1, SumTypes
<1>8. SpentBy(S, w)' <= SpentBy(S, w) + (IF r \in S THEN cost ELSE 0)
  <2>1. inWindow'[w] \cap S = (IF w \in begun /\ r \in S THEN before \cup {r} ELSE before)
    BY <1>3
  <2>2. Total(charge', before \cup {r}) = SpentBy(S, w) + cost
    BY <1>4, <1>5, <1>6, TotalAdd
  <2>3. SpentBy(S, w)' = (IF w \in begun /\ r \in S THEN SpentBy(S, w) + cost
                                                  ELSE SpentBy(S, w))
    BY <1>6, <2>1, <2>2 DEF SpentBy
  <2>4. QED
    BY <1>4, <1>7, <2>3
<1>9. SpentBy(S, w)' \in Nat
  <2>1. inWindow'[w] \cap S \in SUBSET Requests
    BY <1>3, <1>5
  <2>2. QED
    BY <1>4, <2>1, TotalType DEF SpentBy
<1>10. CASE r \in S
  <2>1. Reserved \cap S = (Reserved' \cap S) \cup {r}
    BY <1>1, <1>10
  <2>2. Reserved' \cap S \in SUBSET Requests /\ r \in Requests \ (Reserved' \cap S)
    BY <1>1
  <2>3. HeldBy(S) = HeldBy(S)' + Hold[r]
    BY <2>1, <2>2, TotalAdd, AmountsAssumption DEF HeldBy
  <2>4. HeldBy(S)' \in Nat
    BY <2>2, TotalType, AmountsAssumption DEF HeldBy
  <2>5. QED
    BY <1>4, <1>7, <1>8, <1>9, <1>10, <2>3, <2>4 DEF Committed
<1>11. CASE r \notin S
  <2>1. Reserved' \cap S = Reserved \cap S
    BY <1>1, <1>11
  <2>2. HeldBy(S)' = HeldBy(S)
    BY <2>1 DEF HeldBy
  <2>3. QED
    BY <1>7, <1>8, <1>9, <1>11, <2>2 DEF Committed
<1>12. QED
  BY <1>10, <1>11

(* Giving up reservations releases what they hold and spends nothing.      *)
LEMMA GiveUpCommitsNoMore ==
  ASSUME LedgerTypeOK, NEW T \in SUBSET Requests, NEW target \in GivenUpStatus,
         GiveUp(T, target), NEW S \in SUBSET Requests, NEW w \in Windows
  PROVE  Committed(S, w)' <= Committed(S, w)
<1>1. Reserved' \cap S \in SUBSET (Reserved \cap S)
  BY GiveUpRemoves
<1>2. Reserved \cap S \in SUBSET Requests
  OBVIOUS
<1>3. HeldBy(S)' <= HeldBy(S)
  BY <1>1, <1>2, TotalMonotone, AmountsAssumption DEF HeldBy
<1>4. HeldBy(S)' \in Nat
  <2>1. Reserved' \cap S \in SUBSET Requests
    OBVIOUS
  <2>2. QED
    BY <2>1, TotalType, AmountsAssumption DEF HeldBy
<1>5. SpentBy(S, w)' = SpentBy(S, w)
  BY DEF GiveUp, SpentBy
<1>6. QED
  BY <1>3, <1>4, <1>5, SumTypes DEF Committed

(* A new day or month forgets what was spent in the last one.              *)
LEMMA WindowCommitsNoMore ==
  ASSUME LedgerTypeOK, NEW v \in Windows, BeginWindow(v),
         NEW S \in SUBSET Requests, NEW w \in Windows
  PROVE  Committed(S, w)' <= Committed(S, w)
<1>1. inWindow'[w] \cap S \in SUBSET (inWindow[w] \cap S)
  BY DEF BeginWindow, LedgerTypeOK
<1>2. inWindow[w] \cap S \in SUBSET Requests /\ charge \in [Requests -> Nat]
  BY DEF LedgerTypeOK
<1>3. Total(charge, inWindow'[w] \cap S) <= SpentBy(S, w)
  BY <1>1, <1>2, TotalMonotone DEF SpentBy
<1>4. Total(charge, inWindow'[w] \cap S) \in Nat
  BY <1>1, <1>2, TotalType, inWindow'[w] \cap S \in SUBSET Requests
<1>5. charge' = charge /\ Reserved' = Reserved
  BY OthersKeep DEF BeginWindow
<1>6. SpentBy(S, w)' = Total(charge, inWindow'[w] \cap S) /\ HeldBy(S)' = HeldBy(S)
  BY <1>5 DEF SpentBy, HeldBy
<1>7. QED
  BY <1>3, <1>4, <1>6, SumTypes DEF Committed

LEMMA BudgetInit == LedgerInit => BudgetRespected
<1> SUFFICES ASSUME LedgerInit PROVE BudgetRespected
  OBVIOUS
<1>1. Reserved = {}
  BY DEF LedgerInit, Reserved
<1>2. \A w \in Windows : inWindow[w] = {}
  BY DEF LedgerInit
<1>3. ASSUME NEW S, NEW w \in Windows PROVE SpentBy(S, w) + HeldBy(S) = 0
  <2>1. Reserved \cap S = {} /\ inWindow[w] \cap S = {}
    BY <1>1, <1>2
  <2>2. SpentBy(S, w) = 0 /\ HeldBy(S) = 0
    BY <2>1, TotalEmpty DEF SpentBy, HeldBy
  <2>3. QED
    BY <2>2
<1>4. ASSUME NEW w \in Windows
      PROVE  SpentBy(Requests, w) + HeldBy(Requests) <= PlatformLimit[w]
  BY <1>3, LimitsAssumption
<1>5. ASSUME NEW w \in Windows, NEW u \in Users
      PROVE  SpentBy(Of(u), w) + HeldBy(Of(u)) <= UserLimit[u][w]
  <2>1. UserLimit[u][w] \in Nat
    BY LimitsAssumption
  <2>2. QED
    BY <1>3, <2>1
<1>6. QED
  BY <1>4, <1>5 DEF BudgetRespected

(* It is enough that no set has committed more than before.                *)
LEMMA BudgetKept ==
  ASSUME LedgerTypeOK, LedgerTypeOK', BudgetRespected,
         \A S \in SUBSET Requests, w \in Windows : Committed(S, w)' <= Committed(S, w)
  PROVE  BudgetRespected'
<1>1. \A u : Of(u) \in SUBSET Requests /\ Of(u)' = Of(u)
  BY DEF Of
<1>2. ASSUME NEW S \in SUBSET Requests, NEW w \in Windows
      PROVE  /\ Committed(S, w) \in Nat
             /\ Committed(S, w)' \in Nat
  <2>1. SpentBy(S, w) \in Nat /\ HeldBy(S) \in Nat
    BY SumTypes
  <2>2. SpentBy(S, w)' \in Nat /\ HeldBy(S)' \in Nat
    <3>1. Reserved' \cap S \in SUBSET Requests
      OBVIOUS
    <3>2. inWindow'[w] \cap S \in SUBSET Requests /\ charge' \in [Requests -> Nat]
      BY DEF LedgerTypeOK
    <3>3. QED
      BY <3>1, <3>2, TotalType, AmountsAssumption DEF SpentBy, HeldBy
  <2>3. QED
    BY <2>1, <2>2 DEF Committed
<1>3. ASSUME NEW w \in Windows
      PROVE  Committed(Requests, w)' <= PlatformLimit[w]
  <2>1. Committed(Requests, w) <= PlatformLimit[w] /\ PlatformLimit[w] \in Nat
    BY LimitsAssumption DEF BudgetRespected, Committed
  <2>2. Requests \in SUBSET Requests
    OBVIOUS
  <2>3. QED
    BY <1>2, <2>1, <2>2
<1>4. ASSUME NEW w \in Windows, NEW u \in Users
      PROVE  Committed(Of(u), w)' <= UserLimit[u][w]
  <2>1. Committed(Of(u), w) <= UserLimit[u][w] /\ UserLimit[u][w] \in Nat
    BY LimitsAssumption DEF BudgetRespected, Committed
  <2>2. /\ Committed(Of(u), w) \in Nat
        /\ Committed(Of(u), w)' \in Nat
        /\ Committed(Of(u), w)' <= Committed(Of(u), w)
    BY <1>1, <1>2
  <2>3. QED
    BY <2>1, <2>2
<1>5. QED
  BY <1>1, <1>3, <1>4 DEF BudgetRespected, Committed

LEMMA BudgetNext ==
  ASSUME ChargesWithinHolds
  PROVE  CoreInv /\ CoreInv' /\ BudgetRespected /\ [LedgerNext]_ledgerVars
           => BudgetRespected'
<1> SUFFICES ASSUME CoreInv, CoreInv', BudgetRespected, [LedgerNext]_ledgerVars
             PROVE  BudgetRespected'
  OBVIOUS
<1>0. LedgerTypeOK /\ LedgerTypeOK'
  BY DEF CoreInv
<1>1. ASSUME NEW r \in Requests, Reserve(r) PROVE BudgetRespected'
  <2>1. UserBudgetAdmits(r) /\ PlatformBudgetAdmits(r)
    BY <1>1 DEF Reserve, MayReserve
  <2>2. \A S \in SUBSET Requests, w \in Windows :
          /\ Committed(S, w)' = Committed(S, w) + (IF r \in S THEN Hold[r] ELSE 0)
          /\ Committed(S, w) \in Nat
          /\ SpentBy(S, w) \in Nat /\ HeldBy(S) \in Nat /\ Hold[r] \in Nat
    <3> SUFFICES ASSUME NEW S \in SUBSET Requests, NEW w \in Windows
                 PROVE  /\ Committed(S, w)' = Committed(S, w) + (IF r \in S THEN Hold[r] ELSE 0)
                        /\ Committed(S, w) \in Nat
                        /\ SpentBy(S, w) \in Nat /\ HeldBy(S) \in Nat /\ Hold[r] \in Nat
      OBVIOUS
    <3>1. SpentBy(S, w) \in Nat /\ HeldBy(S) \in Nat /\ Hold[r] \in Nat
      BY <1>0, SumTypes, AmountsAssumption
    <3>2. Committed(S, w)' = Committed(S, w) + (IF r \in S THEN Hold[r] ELSE 0)
      BY <1>0, <1>1, ReserveCommits
    <3>3. QED
      BY <3>1, <3>2 DEF Committed
  <2>3. ASSUME NEW w \in Windows PROVE Committed(Requests, w)' <= PlatformLimit[w]
    <3>1. Committed(Requests, w)' = Committed(Requests, w) + Hold[r]
      BY <2>2, Requests \in SUBSET Requests
    <3>2. QED
      BY <2>1, <3>1 DEF PlatformBudgetAdmits, Committed
  <2>4. ASSUME NEW w \in Windows, NEW u \in Users
        PROVE  Committed(Of(u), w)' <= UserLimit[u][w]
    <3>1. Of(u) \in SUBSET Requests /\ (r \in Of(u) <=> u = UserOf[r])
      BY DEF Of
    <3>2. CASE u = UserOf[r]
      <4>1. Committed(Of(u), w)' = Committed(Of(u), w) + Hold[r]
        BY <2>2, <3>1, <3>2
      <4>2. SpentBy(Of(u), w) + HeldBy(Of(u)) + Hold[r] <= UserLimit[u][w]
        BY <2>1, <3>2 DEF UserBudgetAdmits
      <4>3. QED
        BY <4>1, <4>2 DEF Committed
    <3>3. CASE u # UserOf[r]
      <4>1. Committed(Of(u), w)' = Committed(Of(u), w) + 0 /\ Committed(Of(u), w) \in Nat
        BY <2>2, <3>1, <3>3
      <4>2. Committed(Of(u), w) <= UserLimit[u][w]
        BY DEF BudgetRespected, Committed
      <4>3. QED
        BY <4>1, <4>2
    <3>4. QED
      BY <3>2, <3>3
  <2>5. \A u : Of(u)' = Of(u)
    BY DEF Of
  <2>6. QED
    BY <2>3, <2>4, <2>5 DEF BudgetRespected, Committed
<1>2. ASSUME NEW r \in Requests, NEW cost \in Charges[r], NEW begun \in Beginnings,
             Settle(r, cost, begun)
      PROVE  BudgetRespected'
  BY <1>0, <1>2, SettleCommitsNoMore, BudgetKept
<1>3. ASSUME NEW T \in SUBSET Requests, NEW target \in GivenUpStatus, GiveUp(T, target)
      PROVE  BudgetRespected'
  BY <1>0, <1>3, GiveUpCommitsNoMore, BudgetKept
<1>4. ASSUME NEW v \in Windows, BeginWindow(v) PROVE BudgetRespected'
  BY <1>0, <1>4, WindowCommitsNoMore, BudgetKept
<1>5. CASE UNCHANGED <<status, charge, inWindow>>
  BY <1>5, OthersKeep DEF BudgetRespected, SpentBy, HeldBy, Of
<1>6. QED
  BY <1>1, <1>2, <1>3, <1>4, <1>5
     DEF LedgerNext, GivenUpStatus, SetTraffic, SetAccountActive, ledgerVars

(* Whatever order requests reserve, settle and are given up in, no account *)
(* and not the platform spends and holds more than its daily and monthly   *)
(* limits, if no settlement costs more than was held for it.               *)
THEOREM BudgetsHold ==
  ASSUME ChargesWithinHolds
  PROVE  LedgerSpec => []BudgetRespected
<1>1. CoreInv /\ CoreInv' /\ BudgetRespected /\ [LedgerNext]_ledgerVars
        => BudgetRespected'
  BY BudgetNext
<1>2. QED
  BY <1>1, CoreAlways, BudgetInit, PTL DEF LedgerSpec

(* A settlement, release or quarantine is final, for any number of rows.   *)
THEOREM OutcomesFinal == LedgerSpec => OutcomeFinal
<1> DEFINE Final ==
      /\ \A r \in Requests :
           status[r] \in {"settled", "released", "recovery_required"} =>
             status'[r] = status[r]
      /\ usage \subseteq usage'
      /\ \A r \in usage : charge'[r] = charge[r]
<1>1. CoreInv /\ [LedgerNext]_ledgerVars => [Final]_ledgerVars
  <2> SUFFICES ASSUME CoreInv, LedgerNext PROVE Final
    OBVIOUS
  <2>0. LedgerTypeOK /\ UsageIffSettled
    BY DEF CoreInv
  <2>1. ASSUME NEW r \in Requests, Reserve(r) PROVE Final
    BY <2>0, <2>1 DEF Reserve, LedgerTypeOK
  <2>2. ASSUME NEW r \in Requests, NEW cost \in Charges[r], NEW begun \in Beginnings,
               Settle(r, cost, begun)
        PROVE  Final
    <3>1. r \notin usage
      BY <2>0, <2>2 DEF Settle, UsageIffSettled
    <3>2. QED
      BY <2>0, <2>2, <3>1 DEF Settle, RecordUsage, LedgerTypeOK
  <2>3. ASSUME NEW S \in SUBSET Requests, NEW target \in GivenUpStatus, GiveUp(S, target)
        PROVE  Final
    BY <2>0, <2>3 DEF GiveUp, Reserved
  <2>4. CASE UNCHANGED <<status, usage, charge>>
    BY <2>4
  <2>5. QED
    BY <2>1, <2>2, <2>3, <2>4
       DEF LedgerNext, GivenUpStatus, SetTraffic, SetAccountActive, BeginWindow
<1>2. QED
  BY <1>1, CoreAlways, PTL DEF LedgerSpec, OutcomeFinal

-----------------------------------------------------------------------------
(***************************************************************************)
(* The statements implement the transactions.  A commit is a transaction   *)
(* of the ledger if what its transaction has read still holds, and that is *)
(* a matter of which locks exclude which.                                  *)
(***************************************************************************)

(* A reserve() that has locked the singleton row excludes every other      *)
(* transaction that is about to commit a change of a reservation.          *)
AdmitsAlone ==
  \A r \in Requests : Admitting(r) =>
    /\ \A q \in Requests : q # r => ~Admitting(q)
    /\ \A q \in Requests : settling[q] # "platform locked"
    /\ \A g \in Sessions : giving[g].at # "platform locked"

(* A reservation does not exist before its commit, and while a settlement  *)
(* or a release has its row locked, it stays reserved and is nobody else's.*)
RowsGuarded ==
  /\ \A r \in Requests : stage[r] # "ended" => status[r] = "absent"
  /\ \A r \in Requests : settling[r] # "none" => stage[r] = "ended"
  /\ \A r \in Requests : settling[r] \in {"row locked", "platform locked"} =>
       /\ status[r] = "reserved"
       /\ \A g \in Sessions : r \notin giving[g].changed
  /\ \A g \in Sessions : \A r \in giving[g].changed :
       /\ status[r] = "reserved"
       /\ \A h \in Sessions : h # g => r \notin giving[h].changed

(* What a reserve() has read is what the rows still say.                   *)
FromAccount == {"account locked", "counted", "held",
                "account day", "account month", "platform day", "platform month"}
FromCount   == FromAccount \ {"account locked"}
FromHeld    == FromCount \ {"counted"}
FromAccountDay   == FromHeld \ {"held"}
FromAccountMonth == FromAccountDay \ {"account day"}
FromPlatformDay  == FromAccountMonth \ {"account month"}

SpentSeen(r, scope, w) ==
  sums[r][scope][w] = SpentSince(ScopeOf(r, scope), began[r], w)

Informed(r) ==
  /\ Admitting(r) => TrafficAdmits(UserOf[r]) /\ slots[r] = activeRequests
  /\ stage[r] \in FromAccount => UserOf[r] \in accountActive
  /\ stage[r] \in FromCount => SlotFree(UserOf[r])
  /\ stage[r] \in FromHeld =>
       \A s \in Scopes : sums[r][s]["held"] = HeldBy(ScopeOf(r, s))
  /\ stage[r] \in FromAccountDay => SpentSeen(r, "account", "day")
  /\ stage[r] \in FromAccountMonth => SpentSeen(r, "account", "month")
  /\ stage[r] \in FromPlatformDay => SpentSeen(r, "platform", "day")
  /\ stage[r] = "platform month" => SpentSeen(r, "platform", "month")

(* The calendar: no transaction begins in the future, a day belongs to one *)
(* month, and a row of the current window was created in it.               *)
CalendarKept ==
  /\ \A r \in Requests, w \in Windows : began[r][w] <= epoch[w]
  /\ \A r \in Requests : settling[r] \notin {"none", "ended"} =>
       (began[r]["day"] = epoch["day"] => began[r]["month"] = epoch["month"])
  /\ \A w \in Windows : \A q \in inWindow[w] : created[q][w] >= epoch[w]

StatementsInv ==
  /\ StatementsTypeOK
  /\ CoreInv
  /\ AdmitsAlone
  /\ RowsGuarded
  /\ \A r \in Requests : Informed(r)
  /\ CalendarKept

LEMMA StatementsInvInit == StatementsInit => StatementsInv
<1> SUFFICES ASSUME StatementsInit PROVE StatementsInv
  OBVIOUS
<1>1. CoreInv
  BY CoreInit DEF StatementsInit
<1>2. StatementsTypeOK
  BY <1>1 DEF StatementsInit, StatementsTypeOK, CoreInv, Stages, SettlingStages,
              NoStatement, NoSums, FirstDay, Windows
<1>3. AdmitsAlone /\ RowsGuarded
  BY DEF StatementsInit, LedgerInit, AdmitsAlone, Admitting, RowsGuarded, NoStatement
<1>4. \A r \in Requests : Informed(r)
  BY DEF StatementsInit, Informed, Admitting, FromAccount, FromCount, FromHeld,
         FromAccountDay, FromAccountMonth, FromPlatformDay
<1>5. CalendarKept
  BY DEF StatementsInit, LedgerInit, CalendarKept, FirstDay, Windows
<1>6. QED
  BY <1>1, <1>2, <1>3, <1>4, <1>5 DEF StatementsInv

(* What was spent in the current window is part of what reserve() adds up: *)
(* its own window began no later.                                          *)
LEMMA SpentCounted ==
  ASSUME StatementsTypeOK, CalendarKept, NEW r \in Requests,
         NEW S \in SUBSET Requests, NEW w \in Windows
  PROVE  /\ SpentBy(S, w) \in Nat
         /\ SpentSince(S, began[r], w) \in Nat
         /\ SpentBy(S, w) <= SpentSince(S, began[r], w)
<1> DEFINE counted == {q \in usage \cap S : created[q][w] >= began[r][w]}
           current == inWindow[w] \cap S
<1>1. counted \in SUBSET Requests /\ charge \in [Requests -> Nat]
  BY DEF StatementsTypeOK, LedgerTypeOK
<1>2. current \in SUBSET counted
  <2>1. ASSUME NEW q \in current PROVE q \in usage \cap S /\ created[q][w] >= began[r][w]
    <3>1. q \in usage /\ q \in Requests
      BY DEF StatementsTypeOK, LedgerTypeOK
    <3>2. created[q][w] >= epoch[w] /\ epoch[w] >= began[r][w]
      BY DEF CalendarKept, StatementsTypeOK
    <3>3. created[q][w] \in Nat /\ epoch[w] \in Nat /\ began[r][w] \in Nat
      BY <3>1 DEF StatementsTypeOK
    <3>4. QED
      BY <3>1, <3>2, <3>3
  <2>2. QED
    BY <2>1
<1> HIDE DEF counted, current
<1>3. current \in SUBSET Requests
  BY <1>1, <1>2
<1>4. Total(charge, current) <= Total(charge, counted)
  BY <1>1, <1>2, TotalMonotone
<1>5. Total(charge, current) \in Nat /\ Total(charge, counted) \in Nat
  BY <1>1, <1>3, TotalType
<1>6. QED
  BY <1>4, <1>5 DEF SpentBy, SpentSince, counted, current

(* What reserve() has read allows the reservation when it commits.         *)
LEMMA CommitReserveIsReserve ==
  ASSUME StatementsInv, NEW r \in Requests, CommitReserve(r)
  PROVE  Reserve(r)
<1> DEFINE u == UserOf[r]
<1>1. /\ StatementsTypeOK /\ CalendarKept /\ RowsGuarded /\ Informed(r)
      /\ stage[r] = "platform month" /\ FitsBudgets(r)
  BY DEF StatementsInv, CommitReserve
<1>2. status[r] = "absent"
  BY <1>1 DEF RowsGuarded
<1>3. TrafficAdmits(u) /\ u \in accountActive /\ SlotFree(u)
  BY <1>1 DEF Informed, Admitting, FromAccount, FromCount
<1>4. ASSUME NEW s \in Scopes
      PROVE  /\ sums[r][s]["held"] = HeldBy(ScopeOf(r, s))
             /\ \A w \in Windows : SpentSeen(r, s, w)
  BY <1>1 DEF Informed, Scopes, Windows, FromAccount, FromCount, FromHeld,
              FromAccountDay, FromAccountMonth, FromPlatformDay
<1>5. ASSUME NEW s \in Scopes, NEW w \in Windows, NEW limit \in Nat,
             sums[r][s][w] + sums[r][s]["held"] + Hold[r] <= limit
      PROVE  SpentBy(ScopeOf(r, s), w) + HeldBy(ScopeOf(r, s)) + Hold[r] <= limit
  <2>1. ScopeOf(r, s) \in SUBSET Requests
    BY DEF ScopeOf, Of
  <2>2. /\ SpentBy(ScopeOf(r, s), w) \in Nat
        /\ SpentSince(ScopeOf(r, s), began[r], w) \in Nat
        /\ SpentBy(ScopeOf(r, s), w) <= SpentSince(ScopeOf(r, s), began[r], w)
    BY <1>1, <2>1, SpentCounted
  <2>3. sums[r][s][w] = SpentSince(ScopeOf(r, s), began[r], w)
    BY <1>4, <1>5 DEF SpentSeen
  <2>4. HeldBy(ScopeOf(r, s)) \in Nat /\ Hold[r] \in Nat
    BY <1>1, <2>1, SumTypes, AmountsAssumption DEF StatementsTypeOK
  <2>5. QED
    BY <1>4, <1>5, <2>2, <2>3, <2>4
<1>6. UserBudgetAdmits(r)
  <2>1. ASSUME NEW w \in Windows
        PROVE  SpentBy(Of(u), w) + HeldBy(Of(u)) + Hold[r] <= UserLimit[u][w]
    <3>1. UserLimit[u][w] \in Nat
      BY LimitsAssumption, AccountsAssumption
    <3>2. sums[r]["account"][w] + sums[r]["account"]["held"] + Hold[r] <= UserLimit[u][w]
      BY <1>1 DEF FitsBudgets
    <3>3. ScopeOf(r, "account") = Of(u) /\ "account" \in Scopes
      BY DEF ScopeOf, Scopes
    <3>4. QED
      BY <1>5, <3>1, <3>2, <3>3
  <2>2. QED
    BY <2>1 DEF UserBudgetAdmits
<1>7. PlatformBudgetAdmits(r)
  <2>1. ASSUME NEW w \in Windows
        PROVE  SpentBy(Requests, w) + HeldBy(Requests) + Hold[r] <= PlatformLimit[w]
    <3>1. PlatformLimit[w] \in Nat
      BY LimitsAssumption
    <3>2. sums[r]["platform"][w] + sums[r]["platform"]["held"] + Hold[r]
            <= PlatformLimit[w]
      BY <1>1 DEF FitsBudgets
    <3>3. ScopeOf(r, "platform") = Requests /\ "platform" \in Scopes
      BY DEF ScopeOf, Scopes
    <3>4. QED
      BY <1>5, <3>1, <3>2, <3>3
  <2>2. QED
    BY <2>1 DEF PlatformBudgetAdmits
<1>8. MayReserve(r)
  BY <1>3, <1>6, <1>7 DEF MayReserve
<1>9. QED
  BY <1>2, <1>8 DEF CommitReserve, Reserve

(* The row that a settlement has locked is still reserved at its commit,   *)
(* and the windows it counts in are windows it may have begun in.          *)
LEMMA CommitSettleIsSettle ==
  ASSUME StatementsInv, NEW r \in Requests, NEW cost, CommitSettle(r, cost)
  PROVE  \E begun \in Beginnings : Settle(r, cost, begun)
<1> DEFINE begun == {w \in Windows : began[r][w] = epoch[w]}
<1>1. status[r] = "reserved"
  BY DEF StatementsInv, RowsGuarded, CommitSettle, SettlingGoes
<1>2. Settle(r, cost, begun)
  BY <1>1 DEF CommitSettle, Settle
<1>3. "day" \in begun => "month" \in begun
  BY DEF StatementsInv, CalendarKept, CommitSettle, SettlingGoes, Windows
<1>4. begun \in Beginnings
  BY <1>3 DEF Beginnings, Windows
<1>5. QED
  BY <1>2, <1>4

(* The rows that a release, sweep or mark has locked are still reserved.   *)
LEMMA CommitGiveUpIsGiveUp ==
  ASSUME StatementsInv, NEW g \in Sessions, NEW target, CommitGiveUp(g, target)
  PROVE  \E S \in SUBSET Requests : GiveUp(S, target)
<1> DEFINE changed == giving[g].changed
<1>1. changed \in SUBSET Requests
  BY DEF StatementsInv, StatementsTypeOK
<1>2. changed \cap Reserved = changed
  BY <1>1 DEF StatementsInv, RowsGuarded, Reserved
<1>3. GiveUp(changed, target)
  BY <1>2 DEF CommitGiveUp, GiveUp
<1>4. QED
  BY <1>1, <1>3

LEMMA StepIsLedgerStep ==
  StatementsInv /\ [StatementsNext]_statementVars => [LedgerNext]_ledgerVars
<1> SUFFICES ASSUME StatementsInv, [StatementsNext]_statementVars
             PROVE  [LedgerNext]_ledgerVars
  OBVIOUS
<1>1. ASSUME NEW r \in Requests, ReserveStep(r) PROVE [LedgerNext]_ledgerVars
  <2>1. CASE CommitReserve(r)
    BY <2>1, CommitReserveIsReserve DEF LedgerNext
  <2>2. CASE UNCHANGED ledgerVars
    BY <2>2
  <2>3. QED
    BY <1>1, <2>1, <2>2
       DEF ReserveStep, BeginReserve, LockPlatform, LockAccount, CountActive, SumHeld,
           SumEverySpent, SumSpent, RollbackReserve
<1>2. ASSUME NEW r \in Requests, SettleStep(r) PROVE [LedgerNext]_ledgerVars
  <2>1. ASSUME NEW cost \in Charges[r], CommitSettle(r, cost) PROVE LedgerNext
    BY <2>1, CommitSettleIsSettle DEF LedgerNext
  <2>2. CASE UNCHANGED ledgerVars
    BY <2>2
  <2>3. QED
    BY <1>2, <2>1, <2>2
       DEF SettleStep, BeginSettle, LockRow, SettleLocksPlatform, RollbackSettle
<1>3. ASSUME NEW g \in Sessions, GiveUpStep(g) PROVE [LedgerNext]_ledgerVars
  <2>1. ASSUME NEW target \in {"released", "recovery_required"}, CommitGiveUp(g, target)
        PROVE  LedgerNext
    BY <2>1, CommitGiveUpIsGiveUp DEF LedgerNext
  <2>2. CASE UNCHANGED ledgerVars
    BY <2>2
  <2>3. QED
    BY <1>3, <2>1, <2>2
       DEF GiveUpStep, BeginGiveUp, GiveUpRow, GiveUpLocksPlatform, RollbackGiveUp
<1>4. ASSUME NEW mode \in TrafficSet, UpdateTraffic(mode) PROVE LedgerNext
  BY <1>4, OperatorsAssumption DEF UpdateTraffic, LedgerNext
<1>5. ASSUME NEW u \in AccountsSet, NEW active \in BOOLEAN, UpdateAccount(u, active)
      PROVE  LedgerNext
  BY <1>5, OperatorsAssumption DEF UpdateAccount, LedgerNext
<1>6. ASSUME NEW w \in Windows, NextWindow(w) PROVE LedgerNext
  BY <1>6 DEF NextWindow, LedgerNext
<1>7. CASE UNCHANGED statementVars
  BY <1>7 DEF statementVars
<1>8. QED
  BY <1>1, <1>2, <1>3, <1>4, <1>5, <1>6, <1>7 DEF StatementsNext

(***************************************************************************)
(* The invariant is kept.  Types first.                                    *)
(***************************************************************************)
LEMMA SumsType ==
  ASSUME StatementsTypeOK, NEW r \in Requests, NEW s \in Scopes, NEW w \in Windows
  PROVE  HeldBy(ScopeOf(r, s)) \in Nat /\ SpentSince(ScopeOf(r, s), began[r], w) \in Nat
<1>1. ScopeOf(r, s) \in SUBSET Requests
  BY DEF ScopeOf, Of
<1>2. HeldBy(ScopeOf(r, s)) \in Nat
  BY <1>1, SumTypes DEF StatementsTypeOK
<1>3. {q \in usage \cap ScopeOf(r, s) : created[q][w] >= began[r][w]} \in SUBSET Requests
  BY <1>1
<1>4. charge \in [Requests -> Nat]
  BY DEF StatementsTypeOK, LedgerTypeOK
<1>5. QED
  BY <1>2, <1>3, <1>4, TotalType DEF SpentSince

Statements == [at : {"none", "rows", "platform locked"},
               left : SUBSET Requests, changed : SUBSET Requests]

Amounts == [Windows \cup {"held"} -> Nat]

LEMMA EmptyTypes ==
  /\ NoSums \in [Scopes -> Amounts]
  /\ FirstDay \in [Windows -> Nat]
  /\ NoStatement \in Statements
BY DEF NoSums, FirstDay, NoStatement, Statements, Amounts

(* The types of what one transaction has, apart from the rest.             *)
LEMMA OwnTypes ==
  ASSUME StatementsTypeOK
  PROVE  /\ stage \in [Requests -> Stages]
         /\ slots \in [Requests -> Nat]
         /\ sums \in [Requests -> [Scopes -> Amounts]]
         /\ settling \in [Requests -> SettlingStages]
         /\ giving \in [Sessions -> Statements]
         /\ began \in [Requests -> [Windows -> Nat]]
         /\ created \in [Requests -> [Windows -> Nat]]
         /\ epoch \in [Windows -> Nat]
BY DEF StatementsTypeOK, Amounts, Statements

LEMMA TypeKept ==
  ASSUME StatementsInv, LedgerTypeOK', [StatementsNext]_statementVars
  PROVE  StatementsTypeOK'
<1> DEFINE Typed ==
      /\ stage' \in [Requests -> Stages]
      /\ slots' \in [Requests -> Nat]
      /\ sums' \in [Requests -> [Scopes -> Amounts]]
      /\ settling' \in [Requests -> SettlingStages]
      /\ giving' \in [Sessions -> Statements]
      /\ began' \in [Requests -> [Windows -> Nat]]
      /\ created' \in [Requests -> [Windows -> Nat]]
      /\ epoch' \in [Windows -> Nat]
<1> SUFFICES Typed
  BY DEF StatementsTypeOK, Amounts, Statements
<1>0. /\ StatementsTypeOK
      /\ activeRequests \in Nat
      /\ stage \in [Requests -> Stages]
      /\ slots \in [Requests -> Nat]
      /\ sums \in [Requests -> [Scopes -> Amounts]]
      /\ settling \in [Requests -> SettlingStages]
      /\ giving \in [Sessions -> Statements]
      /\ began \in [Requests -> [Windows -> Nat]]
      /\ created \in [Requests -> [Windows -> Nat]]
      /\ epoch \in [Windows -> Nat]
  BY OwnTypes DEF StatementsInv, StatementsTypeOK, LedgerTypeOK
<1>1. ASSUME NEW r \in Requests, ReserveStep(r) PROVE Typed
  <2>1. CASE BeginReserve(r)
    BY <1>0, <2>1 DEF BeginReserve, Advance, Stages
  <2>2. CASE LockPlatform(r) \/ LockAccount(r) \/ CountActive(r)
    BY <1>0, <2>2 DEF LockPlatform, LockAccount, CountActive, Advance, Stages
  <2>3. ASSUME NEW from \in Stages, NEW to \in Stages, NEW read \in [Scopes -> Amounts],
               Advance(r, from, to), sums' = [sums EXCEPT ![r] = read],
               UNCHANGED <<slots, settling, giving, epoch, began, created>>
        PROVE  Typed
    BY <1>0, <2>3 DEF Advance
  <2>4. sums[r] \in [Scopes -> Amounts]
    BY <1>0
  <2>5. CASE SumHeld(r)
    <3> DEFINE held == [s \in Scopes |->
                          [sums[r][s] EXCEPT !["held"] = HeldBy(ScopeOf(r, s))]]
    <3>1. ASSUME NEW s \in Scopes PROVE held[s] \in Amounts
      <4>1. sums[r][s] \in Amounts
        BY <2>4
      <4>2. HeldBy(ScopeOf(r, s)) \in Nat
        BY <1>0, SumsType DEF Windows
      <4>3. QED
        BY <4>1, <4>2 DEF Amounts
    <3>2. held \in [Scopes -> Amounts]
      BY <3>1
    <3>3. sums' = [sums EXCEPT ![r] = held]
      BY <2>5 DEF SumHeld
    <3> HIDE DEF held
    <3>4. QED
      BY <2>3, <2>5, <3>2, <3>3 DEF SumHeld, Stages
  <2>6. ASSUME NEW from \in Stages, NEW to \in Stages, NEW s \in Scopes, NEW w \in Windows,
               SumSpent(r, from, to, s, w)
        PROVE  Typed
    <3> DEFINE spent == [sums[r] EXCEPT ![s][w] = SpentSince(ScopeOf(r, s), began[r], w)]
    <3>1. SpentSince(ScopeOf(r, s), began[r], w) \in Nat
      BY <1>0, SumsType
    <3>2. sums[r][s] \in Amounts
      BY <2>4
    <3>3. spent \in [Scopes -> Amounts]
      BY <2>4, <3>1, <3>2 DEF Amounts
    <3>4. sums' = [sums EXCEPT ![r] = spent]
      BY <2>6 DEF SumSpent
    <3> HIDE DEF spent
    <3>5. QED
      BY <2>3, <2>6, <3>3, <3>4 DEF SumSpent
  <2>7. CASE SumEverySpent(r)
    BY <2>6, <2>7 DEF SumEverySpent, Stages, Scopes, Windows
  <2>8. CASE CommitReserve(r) \/ RollbackReserve(r)
    <3>1. EndReserve(r)
      BY <2>8 DEF CommitReserve, RollbackReserve
    <3>2. /\ stage' \in [Requests -> Stages]
          /\ slots' \in [Requests -> Nat]
      BY <1>0, <3>1 DEF EndReserve, Stages
    <3>3. sums' \in [Requests -> [Scopes -> Amounts]]
      BY <1>0, <3>1, EmptyTypes DEF EndReserve
    <3>4. began' \in [Requests -> [Windows -> Nat]]
      BY <1>0, <3>1, EmptyTypes DEF EndReserve
    <3>5. QED
      BY <1>0, <3>1, <3>2, <3>3, <3>4 DEF EndReserve
  <2>9. QED
    BY <1>1, <2>1, <2>2, <2>5, <2>7, <2>8 DEF ReserveStep
<1>2. ASSUME NEW r \in Requests, SettleStep(r) PROVE Typed
  <2>1. CASE BeginSettle(r) \/ LockRow(r) \/ SettleLocksPlatform(r)
    BY <1>0, <2>1 DEF BeginSettle, LockRow, SettleLocksPlatform, SettlingGoes,
                      SettlingStages
  <2>2. CASE RollbackSettle(r) \/ \E cost \in Charges[r] : CommitSettle(r, cost)
    <3>1. /\ settling' = [settling EXCEPT ![r] = "ended"]
          /\ began' = [began EXCEPT ![r] = FirstDay]
          /\ created' = created \/ created' = [created EXCEPT ![r] = began[r]]
          /\ UNCHANGED <<stage, slots, sums, giving, epoch>>
      BY <2>2 DEF RollbackSettle, CommitSettle, SettlingGoes
    <3>2. settling' \in [Requests -> SettlingStages]
      BY <1>0, <3>1 DEF SettlingStages
    <3>3. began' \in [Requests -> [Windows -> Nat]]
      BY <1>0, <3>1, EmptyTypes
    <3>4. created' \in [Requests -> [Windows -> Nat]]
      BY <1>0, <3>1
    <3>5. QED
      BY <1>0, <3>1, <3>2, <3>3, <3>4
  <2>3. QED
    BY <1>2, <2>1, <2>2 DEF SettleStep
<1>3. ASSUME NEW g \in Sessions, GiveUpStep(g) PROVE Typed
  <2>1. CASE UNCHANGED <<stage, slots, sums, settling, epoch, began, created>>
                /\ giving' \in [Sessions -> Statements]
    BY <1>0, <2>1
  <2>2. ASSUME NEW S \in SUBSET Requests, BeginGiveUp(g, S) PROVE Typed
    BY <1>0, <2>1, <2>2 DEF BeginGiveUp, Statements, Reserved
  <2>3. ASSUME NEW r \in Requests, GiveUpRow(g, r) PROVE Typed
    BY <1>0, <2>1, <2>3 DEF GiveUpRow, StillReserved, Statements, Reserved
  <2>4. CASE GiveUpLocksPlatform(g)
    BY <1>0, <2>1, <2>4 DEF GiveUpLocksPlatform, Statements
  <2>5. CASE RollbackGiveUp(g) \/ \E target : CommitGiveUp(g, target)
    BY <1>0, <2>1, <2>5, EmptyTypes DEF RollbackGiveUp, CommitGiveUp, EndGiveUp
  <2>6. QED
    BY <1>3, <2>2, <2>3, <2>4, <2>5 DEF GiveUpStep
<1>4. ASSUME NEW w \in Windows, NextWindow(w) PROVE Typed
  <2>1. epoch' \in [Windows -> Nat]
    BY <1>0, <1>4 DEF NextWindow
  <2>2. QED
    BY <1>0, <1>4, <2>1 DEF NextWindow
<1>5. CASE UNCHANGED transactionVars
  BY <1>0, <1>5 DEF transactionVars
<1>6. QED
  BY <1>1, <1>2, <1>3, <1>4, <1>5
     DEF StatementsNext, UpdateTraffic, UpdateAccount, statementVars

(* A lock on the singleton row is taken only while nobody has it.          *)
LEMMA AdmitsAloneKept ==
  ASSUME StatementsInv, [StatementsNext]_statementVars
  PROVE  AdmitsAlone'
<1>0. StatementsTypeOK /\ AdmitsAlone
  BY DEF StatementsInv
<1>1. ASSUME NEW r \in Requests, ReserveStep(r) PROVE AdmitsAlone'
  <2>1. /\ \A q \in Requests : q # r => stage'[q] = stage[q]
        /\ settling' = settling /\ giving' = giving
    BY <1>0, <1>1
       DEF ReserveStep, BeginReserve, LockPlatform, LockAccount, CountActive, SumHeld,
           SumEverySpent, SumSpent, CommitReserve, RollbackReserve, EndReserve, Advance,
           StatementsTypeOK
  <2>2. CASE LockPlatform(r)
    <3>1. PlatformFree
      BY <2>2 DEF LockPlatform
    <3>2. QED
      BY <2>1, <3>1 DEF PlatformFree, AdmitsAlone, Admitting
  <2>3. Admitting(r)' => Admitting(r) \/ LockPlatform(r)
    BY <1>0, <1>1
       DEF ReserveStep, BeginReserve, LockAccount, CountActive, SumHeld, SumEverySpent,
           SumSpent, CommitReserve, RollbackReserve, EndReserve, Advance, Admitting,
           StatementsTypeOK
  <2>4. CASE ~LockPlatform(r)
    BY <1>0, <2>1, <2>3, <2>4 DEF AdmitsAlone, Admitting
  <2>5. QED
    BY <2>2, <2>4
<1>2. ASSUME NEW r \in Requests, SettleStep(r) PROVE AdmitsAlone'
  <2>1. stage' = stage /\ giving' = giving
    BY <1>2 DEF SettleStep, BeginSettle, LockRow, SettleLocksPlatform, CommitSettle,
                RollbackSettle
  <2>2. CASE SettleLocksPlatform(r)
    BY <2>1, <2>2 DEF SettleLocksPlatform, PlatformFree, AdmitsAlone, Admitting
  <2>3. CASE ~SettleLocksPlatform(r)
    <3>1. \A q \in Requests :
            settling'[q] = "platform locked" => settling[q] = "platform locked"
      BY <1>0, <1>2, <2>3
         DEF SettleStep, BeginSettle, LockRow, CommitSettle, RollbackSettle, SettlingGoes,
             StatementsTypeOK
    <3>2. QED
      BY <1>0, <2>1, <3>1 DEF AdmitsAlone, Admitting
  <2>4. QED
    BY <2>2, <2>3
<1>3. ASSUME NEW g \in Sessions, GiveUpStep(g) PROVE AdmitsAlone'
  <2>1. stage' = stage /\ settling' = settling
    BY <1>3 DEF GiveUpStep, BeginGiveUp, GiveUpRow, GiveUpLocksPlatform, CommitGiveUp,
                RollbackGiveUp, EndGiveUp
  <2>2. CASE GiveUpLocksPlatform(g)
    BY <2>1, <2>2 DEF GiveUpLocksPlatform, PlatformFree, AdmitsAlone, Admitting
  <2>3. CASE ~GiveUpLocksPlatform(g)
    <3>1. \A h \in Sessions :
            giving'[h].at = "platform locked" => giving[h].at = "platform locked"
      <4>1. PICK end \in [at : {"none", "rows"}, left : SUBSET Requests,
                           changed : SUBSET Requests] :
              giving' = [giving EXCEPT ![g] = end]
        <5>1. CASE \E S \in SUBSET Requests : BeginGiveUp(g, S)
          BY <5>1 DEF BeginGiveUp, Reserved
        <5>2. CASE \E r \in Requests : GiveUpRow(g, r)
          <6>1. /\ giving[g] \in Statements /\ giving[g].at = "rows"
                /\ giving \in [Sessions -> Statements]
            BY <1>0, <5>2 DEF GiveUpRow, StatementsTypeOK, Statements
          <6>2. QED
            BY <5>2, <6>1 DEF GiveUpRow, StillReserved, Statements, Reserved
        <5>3. CASE RollbackGiveUp(g) \/ \E target : CommitGiveUp(g, target)
          BY <5>3 DEF RollbackGiveUp, CommitGiveUp, EndGiveUp, NoStatement
        <5>4. QED
          BY <1>3, <2>3, <5>1, <5>2, <5>3 DEF GiveUpStep
      <4>2. QED
        BY <1>0, <4>1 DEF StatementsTypeOK
    <3>2. QED
      BY <1>0, <2>1, <3>1 DEF AdmitsAlone, Admitting
  <2>4. QED
    BY <2>2, <2>3
<1>4. CASE UNCHANGED <<stage, settling, giving>>
  BY <1>0, <1>4 DEF AdmitsAlone, Admitting
<1>5. QED
  BY <1>1, <1>2, <1>3, <1>4
     DEF StatementsNext, UpdateTraffic, UpdateAccount, NextWindow, transactionVars,
         statementVars


(* A row is locked only while it is reserved and nobody else has it.       *)
LEMMA RowsGuardedKept ==
  ASSUME StatementsInv, [StatementsNext]_statementVars
  PROVE  RowsGuarded'
<1>0. StatementsTypeOK /\ RowsGuarded /\ status \in [Requests -> ReservationStatus]
  BY DEF StatementsInv, StatementsTypeOK, LedgerTypeOK
<1>1. ASSUME NEW r \in Requests, ReserveStep(r) PROVE RowsGuarded'
  <2>1. /\ stage[r] # "ended"
        /\ \A q \in Requests : q # r => stage'[q] = stage[q] /\ status'[q] = status[q]
        /\ stage'[r] # "ended" => status' = status
        /\ settling' = settling /\ giving' = giving
    BY <1>0, <1>1
       DEF ReserveStep, BeginReserve, LockPlatform, LockAccount, CountActive, SumHeld,
           SumEverySpent, SumSpent, CommitReserve, RollbackReserve, EndReserve, Advance,
           StatementsTypeOK, ledgerVars
  <2>2. settling[r] = "none" /\ \A g \in Sessions : r \notin giving[g].changed
    BY <1>0, <2>1 DEF RowsGuarded
  <2>3. \A g \in Sessions : giving[g].changed \subseteq Requests
    BY <1>0 DEF StatementsTypeOK
  <2>4. QED
    BY <1>0, <2>1, <2>2, <2>3 DEF RowsGuarded
<1>2. ASSUME NEW r \in Requests, SettleStep(r) PROVE RowsGuarded'
  <2>1. /\ stage' = stage /\ giving' = giving
        /\ \A q \in Requests : q # r => settling'[q] = settling[q] /\ status'[q] = status[q]
    BY <1>0, <1>2
       DEF SettleStep, BeginSettle, LockRow, SettleLocksPlatform, CommitSettle,
           RollbackSettle, SettlingGoes, StatementsTypeOK, ledgerVars
  <2>2. \A g \in Sessions : giving[g].changed \subseteq Requests
    BY <1>0 DEF StatementsTypeOK
  <2>3. stage[r] = "ended"
    BY <1>0, <1>2
       DEF SettleStep, BeginSettle, LockRow, SettleLocksPlatform, CommitSettle,
           RollbackSettle, SettlingGoes, RowsGuarded
  <2>4. CASE LockRow(r) \/ SettleLocksPlatform(r)
    <3>1. /\ status' = status /\ status[r] = "reserved"
          /\ \A g \in Sessions : r \notin giving[g].changed
      BY <1>0, <2>4
         DEF LockRow, SettleLocksPlatform, SettlingGoes, RowFree, RowsGuarded, ledgerVars
    <3>2. QED
      BY <1>0, <2>1, <2>2, <2>3, <3>1 DEF RowsGuarded
  <2>5. CASE BeginSettle(r) \/ RollbackSettle(r)
    <3>1. status' = status /\ settling'[r] \in {"begun", "ended"}
      BY <1>0, <2>5
         DEF BeginSettle, RollbackSettle, SettlingGoes, StatementsTypeOK, ledgerVars
    <3>2. QED
      BY <1>0, <2>1, <2>2, <2>3, <3>1 DEF RowsGuarded
  <2>6. ASSUME NEW cost \in Charges[r], CommitSettle(r, cost) PROVE RowsGuarded'
    <3>1. settling'[r] = "ended" /\ \A g \in Sessions : r \notin giving[g].changed
      BY <1>0, <2>6 DEF CommitSettle, SettlingGoes, RowsGuarded, StatementsTypeOK
    <3>2. QED
      BY <1>0, <2>1, <2>2, <2>3, <3>1 DEF RowsGuarded
  <2>7. QED
    BY <1>2, <2>4, <2>5, <2>6 DEF SettleStep
<1>3. ASSUME NEW g \in Sessions, GiveUpStep(g) PROVE RowsGuarded'
  <2>1. /\ stage' = stage /\ settling' = settling
        /\ \A h \in Sessions : h # g => giving'[h] = giving[h]
    BY <1>0, <1>3
       DEF GiveUpStep, BeginGiveUp, GiveUpRow, GiveUpLocksPlatform, CommitGiveUp,
           RollbackGiveUp, EndGiveUp, StatementsTypeOK
  <2>2. /\ giving \in [Sessions -> Statements] /\ giving[g] \in Statements
        /\ \A h \in Sessions : giving[h].changed \subseteq Requests
    BY <1>0 DEF StatementsTypeOK, Statements
  <2>3. ASSUME NEW r \in Requests, GiveUpRow(g, r) PROVE RowsGuarded'
    <3>1. /\ status' = status
          /\ giving'[g].changed = giving[g].changed \cup StillReserved(r)
      BY <2>2, <2>3 DEF GiveUpRow, Statements, ledgerVars
    <3>2. /\ settling[r] \notin {"row locked", "platform locked"}
          /\ \A h \in Sessions : r \notin giving[h].changed
      BY <2>3 DEF GiveUpRow, RowFree
    <3>3. \A q \in StillReserved(r) : q = r /\ status[r] = "reserved"
      BY DEF StillReserved, Reserved
    <3>4. \A h \in Sessions : \A q \in giving'[h].changed :
            q \in giving[h].changed \/ (h = g /\ q = r /\ status[r] = "reserved")
      BY <2>1, <3>1, <3>3
    <3>5. ASSUME NEW h \in Sessions, NEW q \in giving'[h].changed
          PROVE  /\ status'[q] = "reserved"
                 /\ settling'[q] \notin {"row locked", "platform locked"}
                 /\ \A k \in Sessions : k # h => q \notin giving'[k].changed
      <4>1. CASE q = r
        <5>1. h = g /\ status'[q] = "reserved"
          BY <3>1, <3>2, <3>4, <4>1
        <5>2. \A k \in Sessions : k # h => q \notin giving'[k].changed
          BY <3>2, <3>4, <4>1, <5>1
        <5>3. QED
          BY <2>1, <3>2, <4>1, <5>1, <5>2
      <4>2. CASE q # r
        <5>1. q \in giving[h].changed /\ q \in Requests
          BY <2>2, <3>4, <4>2
        <5>2. /\ status[q] = "reserved"
              /\ settling[q] \notin {"row locked", "platform locked"}
              /\ \A k \in Sessions : k # h => q \notin giving[k].changed
          BY <1>0, <5>1 DEF RowsGuarded
        <5>3. QED
          BY <2>1, <3>1, <3>4, <4>2, <5>2
      <4>3. QED
        BY <4>1, <4>2
    <3>6. QED
      BY <1>0, <2>1, <3>1, <3>5 DEF RowsGuarded
  <2>4. CASE \/ \E S \in SUBSET Requests : BeginGiveUp(g, S)
             \/ GiveUpLocksPlatform(g) \/ RollbackGiveUp(g)
    <3>0. CASE GiveUpLocksPlatform(g)
      <4>1. giving'[g].changed = giving[g].changed /\ status' = status
        BY <2>2, <3>0 DEF GiveUpLocksPlatform, Statements, ledgerVars
      <4>2. QED
        BY <1>0, <2>1, <2>2, <4>1 DEF RowsGuarded
    <3>1. CASE ~GiveUpLocksPlatform(g)
      <4>1. giving'[g].changed = {} /\ status' = status
        <5>1. CASE RollbackGiveUp(g)
          BY <2>2, <5>1 DEF RollbackGiveUp, EndGiveUp, NoStatement, ledgerVars
        <5>2. ASSUME NEW S \in SUBSET Requests, BeginGiveUp(g, S)
              PROVE  giving'[g].changed = {} /\ status' = status
          BY <2>2, <5>2 DEF BeginGiveUp, ledgerVars
        <5>3. QED
          BY <2>4, <3>1, <5>1, <5>2
      <4>2. QED
        BY <1>0, <2>1, <2>2, <4>1 DEF RowsGuarded
    <3>2. QED
      BY <3>0, <3>1
  <2>5. ASSUME NEW target, CommitGiveUp(g, target) PROVE RowsGuarded'
    <3>1. /\ giving'[g].changed = {}
          /\ \A q \in Requests : q \notin giving[g].changed => status'[q] = status[q]
      BY <2>2, <2>5 DEF CommitGiveUp, EndGiveUp, NoStatement
    <3>2. \A q \in giving[g].changed :
            /\ stage[q] = "ended"
            /\ settling[q] \notin {"row locked", "platform locked"}
            /\ \A h \in Sessions : h # g => q \notin giving[h].changed
      BY <1>0, <2>2 DEF RowsGuarded
    <3>3. QED
      BY <1>0, <2>1, <2>2, <3>1, <3>2 DEF RowsGuarded
  <2>6. QED
    BY <1>3, <2>3, <2>4, <2>5 DEF GiveUpStep
<1>4. CASE UNCHANGED <<status, stage, settling, giving>>
  BY <1>0, <1>4 DEF RowsGuarded
<1>5. QED
  BY <1>1, <1>2, <1>3, <1>4
     DEF StatementsNext, UpdateTraffic, UpdateAccount, NextWindow, SetTraffic,
         SetAccountActive, BeginWindow, transactionVars, statementVars, ledgerVars

(* What reserve() can read changes only by a commit.                       *)
LEMMA SameReading ==
  ASSUME NEW r \in Requests,
         UNCHANGED <<status, usage, charge, activeRequests, trafficMode, created, began[r]>>
  PROVE  /\ TrafficAdmits(UserOf[r])' = TrafficAdmits(UserOf[r])
         /\ SlotFree(UserOf[r])' = SlotFree(UserOf[r])
         /\ \A s \in Scopes : HeldBy(ScopeOf(r, s))' = HeldBy(ScopeOf(r, s))
         /\ \A s \in Scopes, w \in Windows :
              SpentSince(ScopeOf(r, s), began[r], w)' = SpentSince(ScopeOf(r, s), began[r], w)
<1>1. TrafficAdmits(UserOf[r])' = TrafficAdmits(UserOf[r])
  BY DEF TrafficAdmits
<1>2. SlotFree(UserOf[r])' = SlotFree(UserOf[r])
  BY DEF SlotFree, Reserved
<1>3. \A s \in Scopes : HeldBy(ScopeOf(r, s))' = HeldBy(ScopeOf(r, s))
  BY DEF HeldBy, Reserved, ScopeOf, Of
<1>4. ASSUME NEW s \in Scopes, NEW w \in Windows
      PROVE  SpentSince(ScopeOf(r, s), began[r], w)' = SpentSince(ScopeOf(r, s), began[r], w)
  BY DEF SpentSince, ScopeOf, Of
<1>5. QED
  BY <1>1, <1>2, <1>3, <1>4

(* What an open reserve() has read holds as long as nobody commits.        *)
LEMMA ReadingHolds ==
  ASSUME NEW r \in Requests, Informed(r),
         UNCHANGED <<stage[r], slots[r], sums[r], began[r]>>,
         Admitting(r) =>
           UNCHANGED <<status, usage, charge, activeRequests, trafficMode, created>>,
         stage[r] \in FromAccount =>
           (UserOf[r] \in accountActive)' = (UserOf[r] \in accountActive)
  PROVE  Informed(r)'
<1>1. CASE ~Admitting(r)
  BY <1>1 DEF Informed, Admitting, FromAccount, FromCount, FromHeld, FromAccountDay,
              FromAccountMonth, FromPlatformDay
<1>2. CASE Admitting(r)
  <2>1. UNCHANGED activeRequests
    BY <1>2
  <2>2. /\ TrafficAdmits(UserOf[r])' = TrafficAdmits(UserOf[r])
        /\ SlotFree(UserOf[r])' = SlotFree(UserOf[r])
        /\ \A s \in Scopes : HeldBy(ScopeOf(r, s))' = HeldBy(ScopeOf(r, s))
        /\ \A s \in Scopes, w \in Windows :
             SpentSince(ScopeOf(r, s), began[r], w)' = SpentSince(ScopeOf(r, s), began[r], w)
    BY <1>2, SameReading
  <2>3. \A s \in Scopes, w \in Windows : SpentSeen(r, s, w)' = SpentSeen(r, s, w)
    BY <2>2 DEF SpentSeen
  <2>4. \A s \in Scopes : sums'[r][s]["held"] = sums[r][s]["held"]
    OBVIOUS
  <2>5. QED
    BY <2>1, <2>2, <2>3, <2>4
       DEF Informed, Admitting, FromAccount, FromCount, FromHeld, FromAccountDay,
           FromAccountMonth, FromPlatformDay, Scopes, Windows
<1>3. QED
  BY <1>1, <1>2

(* Each statement of reserve() adds what it has just read.                 *)
LEMMA ReadingGrows ==
  ASSUME StatementsInv, NEW r \in Requests, ReserveStep(r)
  PROVE  Informed(r)'
<1>0. /\ Informed(r)
      /\ stage \in [Requests -> Stages] /\ slots \in [Requests -> Nat]
      /\ sums \in [Requests -> [Scopes -> Amounts]]
  BY OwnTypes DEF StatementsInv
<1>1. CASE BeginReserve(r) \/ CommitReserve(r) \/ RollbackReserve(r)
  <2>1. stage'[r] \in {"begun", "ended"}
    BY <1>0, <1>1 DEF BeginReserve, CommitReserve, RollbackReserve, EndReserve, Advance
  <2>2. QED
    BY <2>1 DEF Informed, Admitting, FromAccount, FromCount, FromHeld, FromAccountDay,
                FromAccountMonth, FromPlatformDay
<1>2. CASE LockPlatform(r)
  <2>1. /\ stage'[r] = "platform locked" /\ slots'[r] = activeRequests'
        /\ TrafficAdmits(UserOf[r])'
    BY <1>0, <1>2 DEF LockPlatform, Advance, TrafficAdmits, ledgerVars
  <2>2. QED
    BY <2>1 DEF Informed, Admitting, FromAccount, FromCount, FromHeld, FromAccountDay,
                FromAccountMonth, FromPlatformDay
<1>3. CASE \/ LockAccount(r) \/ CountActive(r) \/ SumHeld(r) \/ SumEverySpent(r)
  <2>1. /\ UNCHANGED <<status, usage, charge, activeRequests, trafficMode, accountActive>>
        /\ UNCHANGED <<slots, began, created>>
        /\ Admitting(r)
    BY <1>3 DEF LockAccount, CountActive, SumHeld, SumEverySpent, SumSpent, Advance,
                Admitting, ledgerVars
  <2>2. /\ TrafficAdmits(UserOf[r])' = TrafficAdmits(UserOf[r])
        /\ SlotFree(UserOf[r])' = SlotFree(UserOf[r])
        /\ \A s \in Scopes : HeldBy(ScopeOf(r, s))' = HeldBy(ScopeOf(r, s))
        /\ \A s \in Scopes, w \in Windows :
             SpentSince(ScopeOf(r, s), began[r], w)' = SpentSince(ScopeOf(r, s), began[r], w)
    BY <2>1, SameReading
  <2>3. TrafficAdmits(UserOf[r])' /\ slots'[r] = activeRequests'
    BY <1>0, <2>1, <2>2 DEF Informed
  <2>4. CASE LockAccount(r)
    <3>1. stage'[r] = "account locked" /\ UserOf[r] \in accountActive'
      BY <1>0, <2>1, <2>4 DEF LockAccount, Advance
    <3>2. QED
      BY <2>3, <3>1 DEF Informed, FromAccount, FromCount, FromHeld, FromAccountDay,
                        FromAccountMonth, FromPlatformDay
  <2>5. CASE CountActive(r)
    <3>1. stage[r] = "account locked" /\ stage'[r] = "counted"
      BY <1>0, <2>5 DEF CountActive, Advance
    <3>2. UserOf[r] \in accountActive' /\ slots[r] = activeRequests
      BY <1>0, <2>1, <3>1 DEF Informed, FromAccount
    <3>3. SlotFree(UserOf[r])'
      BY <2>1, <2>2, <2>5, <3>2 DEF CountActive, SlotFree
    <3>4. QED
      BY <2>3, <3>1, <3>2, <3>3
         DEF Informed, FromAccount, FromCount, FromHeld, FromAccountDay,
             FromAccountMonth, FromPlatformDay
  <2>6. CASE SumHeld(r)
    <3>1. stage[r] = "counted" /\ stage'[r] = "held"
      BY <1>0, <2>6 DEF SumHeld, Advance
    <3>2. UserOf[r] \in accountActive' /\ SlotFree(UserOf[r])'
      BY <1>0, <2>1, <2>2, <3>1 DEF Informed, FromAccount, FromCount
    <3>3. \A s \in Scopes : sums'[r][s]["held"] = HeldBy(ScopeOf(r, s))'
      <4>1. \A s \in Scopes : sums'[r][s] = [sums[r][s] EXCEPT !["held"] = HeldBy(ScopeOf(r, s))]
        BY <1>0, <2>6 DEF SumHeld
      <4>2. \A s \in Scopes : sums[r][s] \in Amounts
        BY <1>0
      <4>3. QED
        BY <2>2, <4>1, <4>2 DEF Amounts
    <3>4. QED
      BY <2>3, <3>1, <3>2, <3>3
         DEF Informed, FromAccount, FromCount, FromHeld, FromAccountDay,
             FromAccountMonth, FromPlatformDay
  <2>7. CASE SumEverySpent(r)
    <3>1. PICK from \in FromHeld, to \in FromAccountDay, s \in Scopes, w \in Windows :
            /\ SumSpent(r, from, to, s, w)
            /\ <<from, to, s, w>> \in
                 {<<"held",          "account day",    "account",  "day">>,
                  <<"account day",   "account month",  "account",  "month">>,
                  <<"account month", "platform day",   "platform", "day">>,
                  <<"platform day",  "platform month", "platform", "month">>}
      BY <2>7 DEF SumEverySpent, FromHeld, FromAccountDay, FromCount, FromAccount,
                  Scopes, Windows
    <3>2. stage[r] = from /\ stage'[r] = to
      BY <1>0, <3>1 DEF SumSpent, Advance
    <3>3. UserOf[r] \in accountActive' /\ SlotFree(UserOf[r])'
      BY <1>0, <2>1, <2>2, <3>2 DEF Informed, FromHeld, FromCount
    <3>4. /\ sums'[r][s][w] = SpentSince(ScopeOf(r, s), began[r], w)'
          /\ \A t \in Scopes, x \in Windows \cup {"held"} :
               <<t, x>> # <<s, w>> => sums'[r][t][x] = sums[r][t][x]
      <4>1. sums' = [sums EXCEPT ![r][s][w] = SpentSince(ScopeOf(r, s), began[r], w)]
        BY <3>1 DEF SumSpent
      <4>2. sums[r] \in [Scopes -> [Windows \cup {"held"} -> Nat]]
        BY <1>0 DEF Amounts
      <4>3. QED
        BY <1>0, <2>2, <4>1, <4>2
    <3>5. \A t \in Scopes : sums'[r][t]["held"] = HeldBy(ScopeOf(r, t))'
      BY <1>0, <2>2, <3>2, <3>4 DEF Informed, Windows
    <3>6. /\ SpentSeen(r, s, w)'
          /\ \A t \in Scopes, x \in Windows :
               <<t, x>> # <<s, w>> /\ SpentSeen(r, t, x) => SpentSeen(r, t, x)'
      BY <2>2, <3>4 DEF SpentSeen
    <3>7. /\ stage'[r] \in FromAccountDay => SpentSeen(r, "account", "day")'
          /\ stage'[r] \in FromAccountMonth => SpentSeen(r, "account", "month")'
          /\ stage'[r] \in FromPlatformDay => SpentSeen(r, "platform", "day")'
          /\ stage'[r] = "platform month" => SpentSeen(r, "platform", "month")'
      BY <1>0, <3>1, <3>2, <3>6
         DEF Informed, FromAccount, FromCount, FromHeld, FromAccountDay,
             FromAccountMonth, FromPlatformDay, Scopes, Windows
    <3>8. QED
      BY <2>3, <3>3, <3>5, <3>7 DEF Informed
  <2>8. QED
    BY <1>3, <2>4, <2>5, <2>6, <2>7
<1>4. QED
  BY <1>1, <1>2, <1>3 DEF ReserveStep

(* Who commits finds no other reserve() that has read anything: either has *)
(* the lock on the singleton row, or on the account.                       *)
LEMMA InformedKept ==
  ASSUME StatementsInv, [StatementsNext]_statementVars, NEW p \in Requests
  PROVE  Informed(p)'
<1> DEFINE CommittedRows == <<status, usage, charge, activeRequests, trafficMode, created>>
           Own == <<stage[p], slots[p], sums[p], began[p]>>
           ActiveSame == (UserOf[p] \in accountActive)' = (UserOf[p] \in accountActive)
<1>0. /\ AdmitsAlone /\ RowsGuarded /\ Informed(p)
      /\ stage \in [Requests -> Stages] /\ slots \in [Requests -> Nat]
      /\ sums \in [Requests -> [Scopes -> Amounts]]
      /\ began \in [Requests -> [Windows -> Nat]]
      /\ giving \in [Sessions -> Statements]
      /\ settling \in [Requests -> SettlingStages]
  BY OwnTypes DEF StatementsInv
<1>1. stage[p] \in FromAccount => Admitting(p)
  BY DEF FromAccount, Admitting
<1>2. ASSUME NEW r \in Requests, ReserveStep(r) PROVE Informed(p)'
  <2>1. CASE r = p
    BY <1>2, <2>1, ReadingGrows
  <2>2. CASE r # p
    <3>1. UNCHANGED Own /\ ActiveSame
      BY <1>0, <1>2, <2>2
         DEF ReserveStep, BeginReserve, LockPlatform, LockAccount, CountActive, SumHeld,
             SumEverySpent, SumSpent, CommitReserve, RollbackReserve, EndReserve, Advance,
             ledgerVars
    <3>2. Admitting(p) => UNCHANGED CommittedRows
      <4>1. Admitting(p) => ~CommitReserve(r)
        BY <1>0, <2>2 DEF CommitReserve, AdmitsAlone, Admitting
      <4>2. QED
        BY <1>2, <4>1
           DEF ReserveStep, BeginReserve, LockPlatform, LockAccount, CountActive, SumHeld,
               SumEverySpent, SumSpent, RollbackReserve, EndReserve, ledgerVars
    <3>3. QED
      BY <1>0, <3>1, <3>2, ReadingHolds
  <2>3. QED
    BY <2>1, <2>2
<1>3. ASSUME NEW r \in Requests, SettleStep(r) PROVE Informed(p)'
  <2>1. UNCHANGED <<stage[p], slots[p], sums[p]>> /\ ActiveSame
    BY <1>3 DEF SettleStep, BeginSettle, LockRow, SettleLocksPlatform, CommitSettle,
                RollbackSettle, ledgerVars
  <2>2. CASE Admitting(p)
    <3>1. r # p
      BY <1>0, <1>3, <2>2
         DEF SettleStep, BeginSettle, LockRow, SettleLocksPlatform, CommitSettle,
             RollbackSettle, SettlingGoes, RowsGuarded, Admitting
    <3>2. UNCHANGED began[p]
      BY <1>0, <1>3, <3>1
         DEF SettleStep, BeginSettle, LockRow, SettleLocksPlatform, CommitSettle,
             RollbackSettle
    <3>3. \A cost : ~CommitSettle(r, cost)
      BY <1>0, <2>2 DEF AdmitsAlone, CommitSettle, SettlingGoes
    <3>4. UNCHANGED CommittedRows
      BY <1>3, <3>3 DEF SettleStep, BeginSettle, LockRow, SettleLocksPlatform,
                        RollbackSettle, ledgerVars
    <3>5. QED
      BY <1>0, <2>1, <3>2, <3>4, ReadingHolds
  <2>3. CASE ~Admitting(p)
    BY <2>1, <2>3 DEF Informed, Admitting, FromAccount, FromCount, FromHeld,
                      FromAccountDay, FromAccountMonth, FromPlatformDay
  <2>4. QED
    BY <2>2, <2>3
<1>4. ASSUME NEW g \in Sessions, GiveUpStep(g) PROVE Informed(p)'
  <2>1. UNCHANGED Own /\ ActiveSame
    BY <1>4 DEF GiveUpStep, BeginGiveUp, GiveUpRow, GiveUpLocksPlatform, CommitGiveUp,
                RollbackGiveUp, EndGiveUp, ledgerVars
  <2>2. Admitting(p) => UNCHANGED CommittedRows
    <3>1. Admitting(p) => \A target : ~CommitGiveUp(g, target)
      BY <1>0 DEF AdmitsAlone, CommitGiveUp
    <3>2. QED
      BY <1>4, <3>1 DEF GiveUpStep, BeginGiveUp, GiveUpRow, GiveUpLocksPlatform,
                        RollbackGiveUp, EndGiveUp, ledgerVars
  <2>3. QED
    BY <1>0, <2>1, <2>2, ReadingHolds
<1>5. ASSUME NEW mode \in TrafficSet, UpdateTraffic(mode) PROVE Informed(p)'
  <2>1. ~Admitting(p) /\ UNCHANGED Own
    BY <1>5 DEF UpdateTraffic, PlatformFree, transactionVars
  <2>2. QED
    BY <1>0, <1>1, <2>1, ReadingHolds
<1>6. ASSUME NEW u \in AccountsSet, NEW active \in BOOLEAN, UpdateAccount(u, active)
      PROVE  Informed(p)'
  <2>1. UNCHANGED Own /\ UNCHANGED CommittedRows
    BY <1>6 DEF UpdateAccount, SetAccountActive, transactionVars
  <2>2. stage[p] \in FromAccount => UserOf[p] # u
    BY <1>6 DEF UpdateAccount, AccountFree, Of, FromAccount, Admitting
  <2>3. stage[p] \in FromAccount => ActiveSame
    BY <1>6, <2>2 DEF UpdateAccount, SetAccountActive
  <2>4. QED
    BY <1>0, <2>1, <2>3, ReadingHolds
<1>7. CASE UNCHANGED <<CommittedRows, Own, accountActive>>
  BY <1>0, <1>7, ReadingHolds
<1>8. QED
  <2>1. CASE \E w \in Windows : NextWindow(w)
    BY <1>7, <2>1 DEF NextWindow, BeginWindow
  <2>2. CASE UNCHANGED statementVars
    BY <1>7, <2>2 DEF statementVars, transactionVars, ledgerVars
  <2>3. QED
    BY <1>2, <1>3, <1>4, <1>5, <1>6, <2>1, <2>2 DEF StatementsNext

(* Days and months only move on, and a usage row is created in the window  *)
(* that it counts in.                                                      *)
LEMMA CalendarMovesOn ==
  ASSUME StatementsInv, [StatementsNext]_statementVars
  PROVE  CalendarKept'
<1>0. /\ CalendarKept /\ UsageIffSettled /\ RowsGuarded
      /\ began \in [Requests -> [Windows -> Nat]]
      /\ created \in [Requests -> [Windows -> Nat]]
      /\ epoch \in [Windows -> Nat]
      /\ settling \in [Requests -> SettlingStages]
      /\ stage \in [Requests -> Stages]
      /\ \A w \in Windows : inWindow[w] \subseteq usage
      /\ inWindow \in [Windows -> SUBSET usage]
      /\ usage \subseteq Requests
  BY OwnTypes DEF StatementsInv, CoreInv, LedgerTypeOK
<1>1. FirstDay \in [Windows -> Nat] /\ \A w \in Windows : FirstDay[w] = 0
  BY DEF FirstDay
<1>2. ASSUME NEW r \in Requests, ReserveStep(r) PROVE CalendarKept'
  <2>1. /\ UNCHANGED <<inWindow, settling, epoch, created>>
        /\ \/ began' = began
           \/ began' = [began EXCEPT ![r] = epoch]
           \/ began' = [began EXCEPT ![r] = FirstDay]
        /\ settling[r] = "none"
    BY <1>0, <1>2
       DEF ReserveStep, BeginReserve, LockPlatform, LockAccount, CountActive, SumHeld,
           SumEverySpent, SumSpent, CommitReserve, RollbackReserve, EndReserve, Advance,
           RowsGuarded, ledgerVars
  <2>2. \A q \in Requests : q # r => began'[q] = began[q]
    BY <1>0, <2>1
  <2>3. \A w \in Windows : began'[r][w] <= epoch[w]
    BY <1>0, <1>1, <2>1 DEF CalendarKept
  <2>4. QED
    BY <1>0, <2>1, <2>2, <2>3 DEF CalendarKept
<1>3. ASSUME NEW r \in Requests, SettleStep(r) PROVE CalendarKept'
  <2>1. epoch' = epoch /\ \A q \in Requests : q # r => settling'[q] = settling[q]
    BY <1>0, <1>3 DEF SettleStep, BeginSettle, LockRow, SettleLocksPlatform, CommitSettle,
                      RollbackSettle, SettlingGoes
  <2>2. CASE BeginSettle(r)
    <3>1. began' = [began EXCEPT ![r] = epoch] /\ UNCHANGED <<inWindow, created>>
      BY <2>2 DEF BeginSettle, ledgerVars
    <3>2. QED
      BY <1>0, <2>1, <3>1 DEF CalendarKept
  <2>3. CASE LockRow(r) \/ SettleLocksPlatform(r)
    <3>1. UNCHANGED <<inWindow, created, began>> /\ settling[r] \notin {"none", "ended"}
      BY <2>3 DEF LockRow, SettleLocksPlatform, SettlingGoes, ledgerVars
    <3>2. QED
      BY <1>0, <2>1, <3>1 DEF CalendarKept
  <2>4. CASE RollbackSettle(r) \/ \E cost \in Charges[r] : CommitSettle(r, cost)
    <3>1. settling'[r] = "ended" /\ began' = [began EXCEPT ![r] = FirstDay]
      BY <1>0, <2>4 DEF RollbackSettle, CommitSettle, SettlingGoes
    <3>2. /\ \A q \in Requests, w \in Windows : began'[q][w] <= epoch[w]
          /\ \A q \in Requests : q # r => began'[q] = began[q]
      BY <1>0, <1>1, <3>1 DEF CalendarKept
    <3>3. \A w \in Windows : \A q \in inWindow'[w] : created'[q][w] >= epoch[w]
      <4>1. CASE RollbackSettle(r)
        BY <1>0, <4>1 DEF RollbackSettle, CalendarKept, ledgerVars
      <4>2. ASSUME NEW cost \in Charges[r], CommitSettle(r, cost)
            PROVE  \A w \in Windows : \A q \in inWindow'[w] : created'[q][w] >= epoch[w]
        <5> DEFINE begun == {w \in Windows : began[r][w] = epoch[w]}
        <5>1. r \notin usage
          BY <1>0, <4>2 DEF CommitSettle, SettlingGoes, RowsGuarded, UsageIffSettled
        <5>2. /\ inWindow' = [w \in Windows |-> IF w \in begun THEN inWindow[w] \cup {r}
                                                            ELSE inWindow[w]]
              /\ created' = [created EXCEPT ![r] = began[r]]
          BY <4>2, <5>1 DEF CommitSettle, RecordUsage
        <5>3. ASSUME NEW w \in Windows, NEW q \in inWindow'[w]
              PROVE  created'[q][w] >= epoch[w]
          <6>1. CASE q = r
            <7>1. w \in begun
              BY <1>0, <5>1, <5>2, <6>1
            <7>2. created'[r][w] = epoch[w]
              BY <1>0, <5>2, <7>1
            <7>3. QED
              BY <1>0, <6>1, <7>2
          <6>2. CASE q # r
            <7>1. q \in inWindow[w] /\ q \in Requests
              BY <1>0, <5>2, <6>2
            <7>2. created'[q] = created[q]
              BY <1>0, <5>2, <6>2, <7>1
            <7>3. QED
              BY <1>0, <7>1, <7>2 DEF CalendarKept
          <6>3. QED
            BY <6>1, <6>2
        <5>4. QED
          BY <5>3
      <4>3. QED
        BY <2>4, <4>1, <4>2
    <3>4. QED
      BY <1>0, <2>1, <3>1, <3>2, <3>3 DEF CalendarKept
  <2>5. QED
    BY <1>3, <2>2, <2>3, <2>4 DEF SettleStep
<1>4. ASSUME NEW w \in Windows, NextWindow(w) PROVE CalendarKept'
  <2>1. /\ UNCHANGED <<settling, began, created>>
        /\ \A x \in Windows : epoch'[x] = IF x = "day" \/ w = "month" THEN epoch[x] + 1
                                                                     ELSE epoch[x]
        /\ \A x \in Windows : inWindow'[x] = IF x = "day" \/ w = "month" THEN {}
                                                                        ELSE inWindow[x]
    BY <1>4 DEF NextWindow, BeginWindow
  <2>2. \A x \in Windows : epoch[x] \in Nat /\ epoch'[x] >= epoch[x]
    BY <1>0, <2>1
  <2>3. \A q \in Requests, x \in Windows : began'[q][x] <= epoch'[x]
    BY <1>0, <2>1, <2>2 DEF CalendarKept
  <2>4. \A q \in Requests : began'[q]["day"] # epoch'["day"]
    BY <1>0, <2>1 DEF CalendarKept, Windows
  <2>5. ASSUME NEW x \in Windows, NEW q \in inWindow'[x] PROVE created'[q][x] >= epoch'[x]
    BY <1>0, <2>1 DEF CalendarKept
  <2>6. QED
    BY <2>3, <2>4, <2>5 DEF CalendarKept
<1>5. CASE UNCHANGED <<inWindow, settling, began, epoch, created>>
  BY <1>0, <1>5 DEF CalendarKept
<1>6. ASSUME NEW g \in Sessions, GiveUpStep(g) PROVE CalendarKept'
  BY <1>5, <1>6 DEF GiveUpStep, BeginGiveUp, GiveUpRow, GiveUpLocksPlatform, CommitGiveUp,
                    RollbackGiveUp, EndGiveUp, ledgerVars
<1>7. QED
  BY <1>2, <1>3, <1>4, <1>5, <1>6
     DEF StatementsNext, UpdateTraffic, UpdateAccount, SetTraffic, SetAccountActive,
         transactionVars, statementVars, ledgerVars

LEMMA StatementsInvNext ==
  StatementsInv /\ [StatementsNext]_statementVars => StatementsInv'
<1> SUFFICES ASSUME StatementsInv, [StatementsNext]_statementVars PROVE StatementsInv'
  OBVIOUS
<1>1. CoreInv'
  BY StepIsLedgerStep, CoreNext DEF StatementsInv
<1>2. StatementsTypeOK'
  <2>1. LedgerTypeOK'
    BY <1>1 DEF CoreInv
  <2>2. QED
    BY <2>1, TypeKept
<1>3. AdmitsAlone' /\ RowsGuarded' /\ CalendarKept'
  BY AdmitsAloneKept, RowsGuardedKept, CalendarMovesOn
<1>4. \A r \in Requests : Informed(r)'
  BY InformedKept
<1>5. QED
  BY <1>1, <1>2, <1>3, <1>4 DEF StatementsInv

(* For any number of requests, accounts, connections and days: however the *)
(* statements of all transactions interleave, wait for one another's locks *)
(* and are rolled back, every commit is one transaction of the ledger.     *)
THEOREM StatementsAreTransactions == StatementsSpec => StatementsImplementLedger
<1>1. StatementsInit => LedgerInit
  BY DEF StatementsInit
<1>2. QED
  BY <1>1, StatementsInvInit, StatementsInvNext, StepIsLedgerStep, PTL
     DEF StatementsSpec, StatementsImplementLedger, LedgerSpec

(* A reserve() that reaches its commit has the only open transaction that  *)
(* can change what it has read, and what it has read is still true: the    *)
(* lock on the singleton row, taken first, covers the counts and sums of   *)
(* the five statements that follow.                                        *)
THEOREM ReadingsHold ==
  StatementsSpec => [](AdmitsAlone /\ \A r \in Requests : Informed(r))
<1>1. StatementsInv => AdmitsAlone /\ \A r \in Requests : Informed(r)
  BY DEF StatementsInv
<1>2. QED
  BY <1>1, StatementsInvInit, StatementsInvNext, PTL DEF StatementsSpec

(* So what the transactions guarantee holds of the statements: the counter *)
(* is exact, concurrency is bounded, usage is recorded for the settled.    *)
THEOREM StatementsKeepBooks ==
  StatementsSpec =>
    [](ActiveRequestsExact /\ ConcurrencyRespected /\ UsageIffSettled)
BY StatementsAreTransactions, CounterExact, ConcurrencyBounded, UsageExact, PTL
   DEF StatementsImplementLedger

(* And no account and not the platform exceeds its budget, if no           *)
(* settlement costs more than was held for it.                             *)
THEOREM StatementsKeepBudgets ==
  ASSUME ChargesWithinHolds
  PROVE  StatementsSpec => []BudgetRespected
BY StatementsAreTransactions, BudgetsHold, PTL DEF StatementsImplementLedger
=============================================================================
