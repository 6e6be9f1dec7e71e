----------------------- MODULE RouterAdmissionProofs -----------------------
(***************************************************************************)
(* The router's handlers, faults, sweeps and shutdowns only ever run the   *)
(* ledger's transactions, so whatever is proved of the ledger holds of the *)
(* router; and the turn's advertising event, the memory of each process    *)
(* and what the client was told agree with the ledger.                     *)
(***************************************************************************)
EXTENDS RouterAdmission, ReservationLedgerProofs

ControlTypeOK ==
  /\ pc \in [Requests -> {"new"} \cup Running \cup Ended]
  /\ host \in [Requests -> Routers \cup {NoRouter}]
  /\ told \in [Requests -> {"nothing", "refused", "settlement", "error"}]
  /\ refusal \in [Requests -> BOOLEAN]
  /\ event \in [Requests ->
                  {"absent", "pending", "aborted", "settled", "recovery_required"}]
  /\ closing \subseteq Requests
  /\ called \subseteq Requests
  /\ aged \subseteq Requests
  /\ router \in [Routers -> {"down", "serving", "draining", "exiting"}]
  /\ tracked \in [Routers -> SUBSET Requests]

LEMMA ControlTypeInit == Init => ControlTypeOK
BY DEF Init, ControlTypeOK

LEMMA ControlTypeStep == ControlTypeOK /\ [Next]_vars => ControlTypeOK'
<1> SUFFICES ASSUME ControlTypeOK, [Next]_vars PROVE ControlTypeOK'
  OBVIOUS
<1> USE DEF ControlTypeOK, Running, Ended
<1>1. ASSUME NEW r \in Requests, NEW p \in Routers, Arrive(r, p) PROVE ControlTypeOK'
  BY <1>1 DEF Arrive, Go, routerVars
<1>2. ASSUME NEW r \in Requests, HandlerStep(r) PROVE ControlTypeOK'
  <2>1. CASE Admit(r) \/ Refuse(r) \/ AdmitAckLost(r)
    BY <2>1 DEF Admit, Refuse, AdmitAckLost, Go, Tell, routerVars
  <2>2. CASE Track(r) \/ RejectBody(r) \/ InsertEvent(r) \/ CallProvider(r)
    BY <2>2 DEF Track, RejectBody, InsertEvent, CallProvider, Go, Tell, routerVars
  <2>3. CASE GenerationCompletes(r)
    BY <2>3 DEF GenerationCompletes, Go, routerVars
  <2>4. ASSUME NEW paymentRequired \in BOOLEAN, GenerationFails(r, paymentRequired)
        PROVE  ControlTypeOK'
    BY <2>4 DEF GenerationFails, Go, routerVars
  <2>5. CASE SettleCommits(r) \/ SettleSkips(r) \/ SettleThrows(r) \/ SettleAckLost(r)
    BY <2>5 DEF SettleCommits, SettleSkips, SettleThrows, SettleAckLost,
                EventSettled, Untrack, Go, Tell, routerVars
  <2>6. CASE MarkEvent(r)
    BY <2>6 DEF MarkEvent, Go, routerVars
  <2>7. CASE DisableTraffic(r) \/ Abandon(r) \/ ReleaseUnused(r) \/ CatchFails(r)
    BY <2>7 DEF DisableTraffic, Abandon, ReleaseUnused, CatchFails,
                Untrack, Go, Tell, routerVars
  <2>8. QED
    BY <1>2, <2>1, <2>2, <2>3, <2>4, <2>5, <2>6, <2>7 DEF HandlerStep
<1>3. ASSUME NEW r \in Requests, ClientCloses(r) \/ AbortLands(r) PROVE ControlTypeOK'
  BY <1>3 DEF ClientCloses, AbortLands, EventOpen, routerVars
<1>4. ASSUME NEW r \in Requests, Age(r) PROVE ControlTypeOK'
  BY <1>4 DEF Age, Reserved, routerVars
<1>5. CASE Sweep
  BY <1>5 DEF Sweep, GiveUpStale, routerVars
<1>6. ASSUME NEW p \in Routers, Boot(p) \/ BeginDrain(p) \/ ShutdownMark(p)
      PROVE  ControlTypeOK'
  BY <1>6 DEF Boot, GiveUpStale, BeginDrain, ShutdownMark, handlerVars
<1>7. ASSUME NEW p \in Routers, Exit(p) \/ Crash(p) PROVE ControlTypeOK'
  BY <1>7 DEF Exit, Crash, Stop
<1>8. ASSUME UNCHANGED <<handlerVars, routerVars>> PROVE ControlTypeOK'
  BY <1>8 DEF handlerVars, routerVars
<1>9. QED
  BY <1>1, <1>2, <1>3, <1>4, <1>5, <1>6, <1>7, <1>8
     DEF Next, SetTrafficMode, ChangeAccount, TimePasses, vars

LEMMA ControlTypes == Spec => []ControlTypeOK
BY ControlTypeInit, ControlTypeStep, PTL DEF Spec

-----------------------------------------------------------------------------
(***************************************************************************)
(* Refinement.                                                             *)
(***************************************************************************)

(* Every step of the router is one transaction of the ledger, or none.     *)
LEMMA StepIsTransaction == ControlTypeOK /\ [Next]_vars => [LedgerNext]_ledgerVars
<1> SUFFICES ASSUME ControlTypeOK, [Next]_vars PROVE [LedgerNext]_ledgerVars
  OBVIOUS
<1>1. ASSUME NEW r \in Requests, HandlerStep(r) PROVE [LedgerNext]_ledgerVars
  <2>1. CASE Admit(r) \/ AdmitAckLost(r)
    BY <2>1 DEF Admit, AdmitAckLost, LedgerNext
  <2>2. CASE SettleCommits(r) \/ SettleAckLost(r)
    BY <2>2 DEF SettleCommits, SettleAckLost, LedgerNext
  <2>3. CASE Abandon(r) \/ ReleaseUnused(r)
    <3>1. {r} \in SUBSET Requests
      OBVIOUS
    <3>2. QED
      BY <2>3, <3>1 DEF Abandon, ReleaseUnused, LedgerNext
  <2>4. CASE DisableTraffic(r)
    BY <2>4 DEF DisableTraffic, LedgerNext, TrafficModes
  <2>5. CASE UNCHANGED ledgerVars
    BY <2>5
  <2>6. QED
    BY <1>1, <2>1, <2>2, <2>3, <2>4, <2>5
       DEF HandlerStep, Refuse, Track, RejectBody, InsertEvent, CallProvider,
           GenerationCompletes, GenerationFails, SettleSkips, SettleThrows,
           MarkEvent, CatchFails
<1>2. CASE \/ Sweep
           \/ \E p \in Routers : Boot(p) \/ ShutdownMark(p)
  <2>1. aged \in SUBSET Requests /\ \A p \in Routers : tracked[p] \in SUBSET Requests
    BY DEF ControlTypeOK
  <2>2. QED
    BY <1>2, <2>1 DEF Sweep, Boot, ShutdownMark, GiveUpStale, LedgerNext
<1>3. CASE \/ \E mode \in OperatorModes : SetTrafficMode(mode)
           \/ \E u \in ManagedAccounts, active \in BOOLEAN : ChangeAccount(u, active)
           \/ \E w \in Windows : TimePasses(w)
  BY <1>3, RoutersAssumption DEF SetTrafficMode, ChangeAccount, TimePasses, LedgerNext
<1>4. CASE UNCHANGED ledgerVars
  BY <1>4
<1>5. QED
  BY <1>1, <1>2, <1>3, <1>4
     DEF Next, Arrive, ClientCloses, AbortLands, Age, BeginDrain, Exit, Crash, Stop, vars

(* Any number of routers, with crashes, lost acknowledgements, sweeps and  *)
(* shutdowns in any order, implement the ledger: no path of the router     *)
(* touches a reservation outside of the ledger's five transactions.        *)
THEOREM RouterImplementsLedger == Spec => ImplementsLedger
<1>1. Init => LedgerInit
  BY DEF Init
<1>2. QED
  BY <1>1, StepIsTransaction, ControlTypes, PTL DEF Spec, LedgerSpec, ImplementsLedger

(* Every reachable state of the routers and their database is well typed.  *)
THEOREM TypeCorrect == Spec => []TypeOK
<1>1. ControlTypeOK /\ LedgerTypeOK => TypeOK
  BY DEF ControlTypeOK, TypeOK
<1>2. QED
  BY <1>1, ControlTypes, RouterImplementsLedger, LedgerTypeCorrect, PTL
     DEF ImplementsLedger

(* Hence what the ledger guarantees holds of any cluster of routers: exact *)
(* counter, concurrency limits and budgets.                                *)
THEOREM RouterKeepsLedgerSafe ==
  ASSUME ChargesWithinHolds
  PROVE  Spec => [](ActiveRequestsExact /\ ConcurrencyRespected /\ BudgetRespected)
BY RouterImplementsLedger, CounterExact, ConcurrencyBounded, BudgetsHold, PTL
   DEF ImplementsLedger

-----------------------------------------------------------------------------
(***************************************************************************)
(* What each transaction does to the status of the rows: all that the      *)
(* proofs about the handlers need to know of the ledger.                   *)
(***************************************************************************)
LEMMA ReserveStatus ==
  ASSUME LedgerTypeOK, NEW r \in Requests, Reserve(r)
  PROVE  /\ status[r] = "absent" /\ status'[r] = "reserved"
         /\ \A x \in Requests : x # r => status'[x] = status[x]
BY DEF Reserve, LedgerTypeOK

LEMMA SettleStatus ==
  ASSUME LedgerTypeOK, NEW r \in Requests, NEW cost, NEW begun, Settle(r, cost, begun)
  PROVE  /\ status[r] = "reserved" /\ status'[r] = "settled"
         /\ \A x \in Requests : x # r => status'[x] = status[x]
BY DEF Settle, LedgerTypeOK

LEMMA GiveUpStatus ==
  ASSUME NEW S \in SUBSET Requests, NEW target, GiveUp(S, target)
  PROVE  \A x \in Requests :
           status'[x] = IF x \in S /\ status[x] = "reserved" THEN target ELSE status[x]
BY DEF GiveUp, Reserved

-----------------------------------------------------------------------------
(***************************************************************************)
(* The handlers.  Each property of the runs needs to know what is true at  *)
(* the points of the handler it passes through before.                     *)
(***************************************************************************)
Early  == {"new", "arrived", "committed", "admitted"}
Unused == Early \cup {"planned"}

(* Before its insertion there is no event, and a process tracks only the   *)
(* requests that it has admitted and runs.                                 *)
EventAfterPlanning == \A r \in Requests : pc[r] \in Early => event[r] = "absent"
HostKnown  == \A r \in Requests : pc[r] # "new" => host[r] \in Routers
LateTracked ==
  \A p \in Routers : \A r \in tracked[p] : pc[r] \notin {"arrived", "committed"}

(* The row exists once reserve() has returned, and only the release at the *)
(* end of a handler makes it 'released'.                                   *)
RowExists  == \A r \in Requests :
                pc[r] \in Running \ {"arrived"} => status[r] # "absent"
ReleasedAtEnd == \A r \in Requests : status[r] = "released" => pc[r] = "done"

(* The provider is not called before the plan, nor in a handler of the     *)
(* agent route that goes on to release its reservation as unused.          *)
CalledAfterPlanning ==
  \A r \in Requests :
    pc[r] \in Unused \/ (pc[r] = "releasing" /\ r \notin ChatRequests) => r \notin called

-----------------------------------------------------------------------------
(***************************************************************************)
(* The advertising event.                                                  *)
(***************************************************************************)
EventInv == EventSettledIffPaid /\ EventAfterPlanning

LEMMA EventStep == TypeOK /\ EventInv /\ [Next]_vars => EventInv'
<1> SUFFICES ASSUME TypeOK, EventInv, [Next]_vars PROVE EventInv'
  OBVIOUS
<1>0. LedgerTypeOK
  BY DEF TypeOK
<1> USE DEF EventInv, EventSettledIffPaid, EventAfterPlanning, Early
<1>1. ASSUME NEW r \in Requests, HandlerStep(r) PROVE EventInv'
  <2>1. CASE Admit(r) \/ AdmitAckLost(r)
    BY <1>0, <2>1, ReserveStatus DEF Admit, AdmitAckLost, Go, TypeOK
  <2>2. CASE SettleCommits(r) \/ SettleAckLost(r)
    BY <1>0, <2>2, SettleStatus
       DEF SettleCommits, SettleAckLost, EventOpen, EventSettled, Go, TypeOK
  <2>3. CASE Abandon(r) \/ ReleaseUnused(r)
    <3>1. PICK target \in GivenUpStatus : GiveUp({r}, target)
      BY <2>3 DEF Abandon, ReleaseUnused, GivenUpStatus
    <3>2. \A x \in Requests : status'[x] = "settled" <=> status[x] = "settled"
      BY <3>1, GiveUpStatus, {r} \in SUBSET Requests DEF GivenUpStatus
    <3>3. event' = event /\ pc' = [pc EXCEPT ![r] = "done"]
      BY <2>3 DEF Abandon, ReleaseUnused, Go
    <3>4. QED
      BY <3>2, <3>3 DEF TypeOK
  <2>4. CASE InsertEvent(r) \/ MarkEvent(r)
    BY <2>4 DEF InsertEvent, MarkEvent, Go, TypeOK, ledgerVars
  <2>5. CASE UNCHANGED <<status, event>> /\ \E to \in Running \cup Ended :
               /\ pc' = [pc EXCEPT ![r] = to]
               /\ to \in Early => pc[r] \in Early
    BY <2>5 DEF TypeOK, Running, Ended
  <2>6. QED
    BY <1>1, <2>1, <2>2, <2>3, <2>4, <2>5
       DEF HandlerStep, Refuse, Track, RejectBody, CallProvider, GenerationCompletes,
           GenerationFails, SettleSkips, SettleThrows, DisableTraffic, SetTraffic,
           CatchFails, Go, Running, Ended, ledgerVars
<1>2. ASSUME NEW r \in Requests, NEW p \in Routers, Arrive(r, p) PROVE EventInv'
  BY <1>2 DEF Arrive, Go, TypeOK, ledgerVars
<1>3. ASSUME NEW r \in Requests, AbortLands(r) PROVE EventInv'
  BY <1>3 DEF AbortLands, EventOpen, TypeOK, ledgerVars
<1>4. CASE \/ Sweep
           \/ \E p \in Routers : Boot(p) \/ ShutdownMark(p)
  <2>1. aged \in SUBSET Requests /\ \A p \in Routers : tracked[p] \in SUBSET Requests
    BY DEF TypeOK
  <2>2. PICK S \in SUBSET Requests : GiveUp(S, "recovery_required")
    BY <1>4, <2>1 DEF Sweep, Boot, ShutdownMark, GiveUpStale
  <2>3. UNCHANGED <<pc, event>>
    BY <1>4 DEF Sweep, Boot, ShutdownMark, handlerVars
  <2>4. QED
    BY <2>2, <2>3, GiveUpStatus
<1>5. ASSUME NEW p \in Routers, Exit(p) \/ Crash(p) PROVE EventInv'
  BY <1>5 DEF Exit, Crash, Stop, TypeOK, ledgerVars
<1>6. CASE UNCHANGED <<status, event, pc>>
  BY <1>6
<1>7. QED
  BY <1>1, <1>2, <1>3, <1>4, <1>5, <1>6
     DEF Next, ClientCloses, Age, BeginDrain, SetTrafficMode, SetTraffic,
         ChangeAccount, SetAccountActive, TimePasses, BeginWindow,
         handlerVars, ledgerVars, vars

LEMMA EventInit == Init => EventInv
BY DEF Init, LedgerInit, EventInv, EventSettledIffPaid, EventAfterPlanning

(* An advertising event is settled exactly when its reservation is, in any *)
(* cluster: neither a closing client, nor a failing catch block, nor a     *)
(* sweep or a shutdown can separate the two.                               *)
THEOREM EventsFollowReservations == Spec => []EventSettledIffPaid
<1>1. EventInv => EventSettledIffPaid
  BY DEF EventInv
<1>2. QED
  BY <1>1, EventInit, EventStep, TypeCorrect, PTL DEF Spec

-----------------------------------------------------------------------------
(***************************************************************************)
(* The memory of each process.                                             *)
(***************************************************************************)
TrackInv == TrackedIsLive /\ LateTracked /\ HostKnown

LEMMA TrackStep == ControlTypeOK /\ TrackInv /\ [Next]_vars => TrackInv'
<1> SUFFICES ASSUME ControlTypeOK, TrackInv, [Next]_vars PROVE TrackInv'
  OBVIOUS
<1> USE DEF TrackInv, TrackedIsLive, LateTracked, HostKnown
<1>1. ASSUME NEW r \in Requests, HandlerStep(r) PROVE TrackInv'
  <2>1. CASE Track(r)
    BY <2>1 DEF Track, Go, ControlTypeOK, Running
  <2>2. CASE Admit(r) \/ Refuse(r) \/ AdmitAckLost(r)
    BY <2>2 DEF Admit, Refuse, AdmitAckLost, Go, ControlTypeOK, Running, routerVars
  <2>3. CASE Untrack(r) /\ UNCHANGED host /\ \E to \in {"done", "marking"} :
               Go(r, pc[r], to) /\ pc[r] # "new"
    BY <2>3 DEF Untrack, Go, ControlTypeOK, Running
  <2>4. CASE UNCHANGED <<tracked, host>> /\ \E to \in Running \ {"arrived", "committed"} :
               Go(r, pc[r], to) /\ pc[r] # "new"
    BY <2>4 DEF Go, ControlTypeOK, Running
  <2>5. QED
    BY <1>1, <2>1, <2>2, <2>3, <2>4
       DEF HandlerStep, RejectBody, InsertEvent, CallProvider, GenerationCompletes,
           GenerationFails, SettleCommits, SettleSkips, SettleThrows, SettleAckLost,
           MarkEvent, DisableTraffic, Abandon, ReleaseUnused, CatchFails,
           Go, Running, routerVars
<1>2. ASSUME NEW r \in Requests, NEW p \in Routers, Arrive(r, p) PROVE TrackInv'
  BY <1>2 DEF Arrive, Go, ControlTypeOK, Running, routerVars
<1>3. ASSUME NEW p \in Routers, ShutdownMark(p) PROVE TrackInv'
  BY <1>3 DEF ShutdownMark, handlerVars, ControlTypeOK
<1>4. ASSUME NEW p \in Routers, Exit(p) \/ Crash(p) PROVE TrackInv'
  BY <1>4 DEF Exit, Crash, Stop, ControlTypeOK, Running
<1>5. CASE UNCHANGED <<pc, host, tracked>>
  BY <1>5
<1>6. QED
  BY <1>1, <1>2, <1>3, <1>4, <1>5
     DEF Next, ClientCloses, AbortLands, Age, Sweep, Boot, BeginDrain,
         SetTrafficMode, ChangeAccount, TimePasses, handlerVars, routerVars, vars

LEMMA TrackInit == Init => TrackInv
BY DEF Init, TrackInv, TrackedIsLive, LateTracked, HostKnown

(* No process ever waits in its drain for a turn that has ended, nor for   *)
(* one that another process runs.                                          *)
THEOREM DrainWaitsForLiveTurns == Spec => []TrackedIsLive
<1>1. TrackInv => TrackedIsLive
  BY DEF TrackInv
<1>2. QED
  BY <1>1, TrackInit, TrackStep, ControlTypes, PTL DEF Spec

-----------------------------------------------------------------------------
(***************************************************************************)
(* What the client was told.                                               *)
(***************************************************************************)
OutcomeInv == SettlementAccounted /\ RowExists /\ ReleasedAtEnd

LEMMA OutcomeStep == TypeOK /\ OutcomeInv /\ [Next]_vars => OutcomeInv'
<1> SUFFICES ASSUME TypeOK, OutcomeInv, [Next]_vars PROVE OutcomeInv'
  OBVIOUS
<1>0. LedgerTypeOK
  BY DEF TypeOK
<1> USE DEF OutcomeInv, SettlementAccounted, RowExists, ReleasedAtEnd
<1>1. ASSUME NEW r \in Requests, HandlerStep(r) PROVE OutcomeInv'
  <2>1. CASE Admit(r) \/ AdmitAckLost(r)
    BY <1>0, <2>1, ReserveStatus DEF Admit, AdmitAckLost, Go, Tell, TypeOK, Running
  <2>2. CASE SettleCommits(r) \/ SettleAckLost(r)
    BY <1>0, <2>2, SettleStatus DEF SettleCommits, SettleAckLost, Go, Tell, TypeOK, Running
  <2>3. CASE SettleSkips(r)
    BY <2>3 DEF SettleSkips, Go, Tell, TypeOK, LedgerTypeOK, ReservationStatus,
                Running, ledgerVars
  <2>4. CASE Abandon(r) \/ ReleaseUnused(r)
    <3>1. PICK target \in GivenUpStatus : GiveUp({r}, target)
      BY <2>4 DEF Abandon, ReleaseUnused, GivenUpStatus
    <3>2. /\ status'[r] = IF status[r] = "reserved" THEN target ELSE status[r]
          /\ \A x \in Requests : x # r => status'[x] = status[x]
      BY <3>1, GiveUpStatus, {r} \in SUBSET Requests
    <3>3. /\ pc[r] \in Running \ {"arrived"}
          /\ pc' = [pc EXCEPT ![r] = "done"]
          /\ told' = told \/ Tell(r, "error")
      BY <2>4 DEF Abandon, ReleaseUnused, Go, Running
    <3>4. QED
      BY <3>2, <3>3 DEF TypeOK, Running, Tell, GivenUpStatus
  <2>5. CASE /\ UNCHANGED status
             /\ told' = told \/ Tell(r, "refused") \/ Tell(r, "error")
             /\ \E to \in Running \cup {"done"} :
                  Go(r, pc[r], to) /\ pc[r] \in Running /\ (pc[r] = "arrived" => to = "done")
    BY <2>5 DEF Go, Tell, TypeOK, Running
  <2>6. QED
    BY <1>1, <2>1, <2>2, <2>3, <2>4, <2>5
       DEF HandlerStep, Refuse, Track, RejectBody, InsertEvent, CallProvider,
           GenerationCompletes, GenerationFails, SettleThrows, MarkEvent,
           DisableTraffic, SetTraffic, CatchFails, Go, Running, ledgerVars
<1>2. ASSUME NEW r \in Requests, NEW p \in Routers, Arrive(r, p) PROVE OutcomeInv'
  BY <1>2 DEF Arrive, Go, TypeOK, Running, ledgerVars
<1>3. CASE \/ Sweep
           \/ \E p \in Routers : Boot(p) \/ ShutdownMark(p)
  <2>1. aged \in SUBSET Requests /\ \A p \in Routers : tracked[p] \in SUBSET Requests
    BY DEF TypeOK
  <2>2. PICK S \in SUBSET Requests : GiveUp(S, "recovery_required")
    BY <1>3, <2>1 DEF Sweep, Boot, ShutdownMark, GiveUpStale
  <2>3. UNCHANGED <<pc, told>>
    BY <1>3 DEF Sweep, Boot, ShutdownMark, handlerVars
  <2>4. QED
    BY <2>2, <2>3, GiveUpStatus
<1>4. ASSUME NEW p \in Routers, Exit(p) \/ Crash(p) PROVE OutcomeInv'
  BY <1>4 DEF Exit, Crash, Stop, TypeOK, Running, ledgerVars
<1>5. CASE UNCHANGED <<status, told, pc>>
  BY <1>5
<1>6. QED
  BY <1>1, <1>2, <1>3, <1>4, <1>5
     DEF Next, ClientCloses, AbortLands, Age, BeginDrain, SetTrafficMode, SetTraffic,
         ChangeAccount, SetAccountActive, TimePasses, BeginWindow,
         handlerVars, ledgerVars, vars

LEMMA OutcomeInit == Init => OutcomeInv
BY DEF Init, LedgerInit, OutcomeInv, SettlementAccounted, RowExists, ReleasedAtEnd, Running

(* A client that was told a settlement has been charged, or its turn is    *)
(* quarantined for the operator, whatever failed on the way.               *)
THEOREM SettlementsAccounted == Spec => []SettlementAccounted
<1>1. OutcomeInv => SettlementAccounted
  BY DEF OutcomeInv
<1>2. QED
  BY <1>1, OutcomeInit, OutcomeStep, TypeCorrect, PTL DEF Spec

-----------------------------------------------------------------------------
(***************************************************************************)
(* What is released as unused.                                             *)
(***************************************************************************)
ReleaseInv == AgentReleaseIsUnused /\ CalledAfterPlanning

LEMMA ReleaseStep ==
  TypeOK /\ OutcomeInv /\ ReleaseInv /\ [Next]_vars => ReleaseInv'
<1> SUFFICES ASSUME TypeOK, OutcomeInv, ReleaseInv, [Next]_vars PROVE ReleaseInv'
  OBVIOUS
<1>0. LedgerTypeOK /\ ReleasedAtEnd
  BY DEF TypeOK, OutcomeInv
<1> USE DEF ReleaseInv, AgentReleaseIsUnused, CalledAfterPlanning, Unused, Early
<1>1. ASSUME NEW r \in Requests, HandlerStep(r) PROVE ReleaseInv'
  <2>1. CASE Admit(r) \/ AdmitAckLost(r)
    BY <1>0, <2>1, ReserveStatus DEF Admit, AdmitAckLost, Go, TypeOK
  <2>2. CASE SettleCommits(r) \/ SettleAckLost(r)
    BY <1>0, <2>2, SettleStatus DEF SettleCommits, SettleAckLost, Go, TypeOK
  <2>3. CASE Abandon(r)
    <3>1. \A x \in Requests : status'[x] = "released" => status[x] = "released"
      BY <2>3, GiveUpStatus, {r} \in SUBSET Requests DEF Abandon
    <3>2. QED
      BY <2>3, <3>1 DEF Abandon, Go, TypeOK
  <2>4. CASE ReleaseUnused(r)
    <3>1. \A x \in Requests : status'[x] = "released" => x = r \/ status[x] = "released"
      BY <2>4, GiveUpStatus, {r} \in SUBSET Requests DEF ReleaseUnused
    <3>2. pc[r] = "releasing" /\ called' = called /\ pc' = [pc EXCEPT ![r] = "done"]
      BY <2>4 DEF ReleaseUnused, Go
    <3>3. QED
      BY <3>1, <3>2 DEF TypeOK
  <2>5. CASE CallProvider(r)
    BY <1>0, <2>5 DEF CallProvider, Go, ReleasedAtEnd, TypeOK, ledgerVars
  <2>6. CASE RejectBody(r)
    BY <2>6 DEF RejectBody, Go, TypeOK, ledgerVars
  <2>7. CASE CatchFails(r)
    BY <2>7 DEF CatchFails, TypeOK, ledgerVars
  <2>8. CASE /\ UNCHANGED <<status, called>>
             /\ \E to \in (Running \ {"releasing"}) \cup {"done"} :
                  Go(r, pc[r], to) /\ (to \in Unused => pc[r] \in Unused)
    BY <2>8 DEF Go, TypeOK, Running
  <2>9. QED
    BY <1>1, <2>1, <2>2, <2>3, <2>4, <2>5, <2>6, <2>7, <2>8
       DEF HandlerStep, Refuse, Track, InsertEvent, GenerationCompletes, GenerationFails,
           SettleSkips, SettleThrows, MarkEvent, DisableTraffic, SetTraffic,
           Go, Running, ledgerVars
<1>2. ASSUME NEW r \in Requests, NEW p \in Routers, Arrive(r, p) PROVE ReleaseInv'
  BY <1>2 DEF Arrive, Go, TypeOK, ledgerVars
<1>3. CASE \/ Sweep
           \/ \E p \in Routers : Boot(p) \/ ShutdownMark(p)
  <2>1. aged \in SUBSET Requests /\ \A p \in Routers : tracked[p] \in SUBSET Requests
    BY DEF TypeOK
  <2>2. PICK S \in SUBSET Requests : GiveUp(S, "recovery_required")
    BY <1>3, <2>1 DEF Sweep, Boot, ShutdownMark, GiveUpStale
  <2>3. UNCHANGED <<pc, called>>
    BY <1>3 DEF Sweep, Boot, ShutdownMark, handlerVars
  <2>4. QED
    BY <2>2, <2>3, GiveUpStatus
<1>4. ASSUME NEW p \in Routers, Exit(p) \/ Crash(p) PROVE ReleaseInv'
  BY <1>4 DEF Exit, Crash, Stop, TypeOK, ledgerVars
<1>5. CASE UNCHANGED <<status, called, pc>>
  BY <1>5
<1>6. QED
  BY <1>1, <1>2, <1>3, <1>4, <1>5
     DEF Next, ClientCloses, AbortLands, Age, BeginDrain, SetTrafficMode, SetTraffic,
         ChangeAccount, SetAccountActive, TimePasses, BeginWindow,
         handlerVars, ledgerVars, vars

LEMMA ReleaseInit == Init => ReleaseInv
BY DEF Init, LedgerInit, ReleaseInv, AgentReleaseIsUnused, CalledAfterPlanning

(* The agent route never frees the money of a turn it has sent to the      *)
(* provider, whichever statements fail and whichever routers die.          *)
THEOREM AgentReleasesUnused == Spec => []AgentReleaseIsUnused
<1>1. ReleaseInv => AgentReleaseIsUnused
  BY DEF ReleaseInv
<1>2. Spec => []OutcomeInv
  BY OutcomeInit, OutcomeStep, TypeCorrect, PTL DEF Spec
<1>3. QED
  BY <1>1, <1>2, ReleaseInit, ReleaseStep, TypeCorrect, PTL DEF Spec

-----------------------------------------------------------------------------
(***************************************************************************)
(* Turns that are reported but not recorded.                               *)
(***************************************************************************)
Served == {"committed", "admitted", "planned", "generating", "settling"}

(* A handler runs in a live process, and what it serves is still reserved  *)
(* unless its process is past the shutdown deadline or a sweep may overtake*)
(* it; if none may, the sweep sees only the rows of ended handlers.        *)
HostLive == \A r \in Requests : pc[r] \in Running => router[host[r]] # "down"
ServedIsReserved ==
  \A r \in Requests :
    pc[r] \in Served => \/ status[r] = "reserved"
                       \/ router[host[r]] = "exiting"
                       \/ StaleWhileLive
AgedHasEnded == ~StaleWhileLive => \A r \in aged : pc[r] \in Ended

ServedInv == HostLive /\ ServedIsReserved /\ AgedHasEnded

LEMMA ServedStep ==
  TypeOK /\ TrackInv /\ ServedInv /\ [Next]_vars => ServedInv'
<1> SUFFICES ASSUME TypeOK, TrackInv, ServedInv, [Next]_vars PROVE ServedInv'
  OBVIOUS
<1>0. LedgerTypeOK /\ HostKnown /\ TrackedIsLive
  BY DEF TypeOK, TrackInv
<1> USE DEF ServedInv, HostLive, ServedIsReserved, AgedHasEnded, Served
<1>1. ASSUME NEW r \in Requests, HandlerStep(r) PROVE ServedInv'
  <2>1. CASE Admit(r) \/ AdmitAckLost(r)
    BY <1>0, <2>1, ReserveStatus DEF Admit, AdmitAckLost, Go, TypeOK, Running, Ended, routerVars
  <2>2. CASE SettleCommits(r) \/ SettleAckLost(r)
    BY <1>0, <2>2, SettleStatus DEF SettleCommits, SettleAckLost, Go, TypeOK, Running, Ended
  <2>3. CASE Abandon(r) \/ ReleaseUnused(r)
    <3>1. \A x \in Requests : x # r => status'[x] = status[x]
      BY <2>3, GiveUpStatus, {r} \in SUBSET Requests DEF Abandon, ReleaseUnused
    <3>2. /\ UNCHANGED <<aged, host, router>>
          /\ pc' = [pc EXCEPT ![r] = "done"]
      BY <2>3 DEF Abandon, ReleaseUnused, Go
    <3>3. QED
      BY <3>1, <3>2 DEF TypeOK, Running, Ended
  <2>4. CASE /\ UNCHANGED <<status, host, aged, router>>
             /\ \E to \in Running \cup {"done"} :
                  /\ Go(r, pc[r], to) /\ pc[r] \in Running
                  /\ to \in Served => pc[r] \in Served
    BY <2>4 DEF Go, TypeOK, Running, Ended
  <2>5. QED
    BY <1>1, <2>1, <2>2, <2>3, <2>4
       DEF HandlerStep, Refuse, Track, RejectBody, InsertEvent, CallProvider,
           GenerationCompletes, GenerationFails, SettleSkips, SettleThrows, MarkEvent,
           DisableTraffic, SetTraffic, CatchFails, Go, Running, ledgerVars, routerVars
<1>2. ASSUME NEW r \in Requests, NEW p \in Routers, Arrive(r, p) PROVE ServedInv'
  BY <1>2 DEF Arrive, Go, TypeOK, Running, Ended, ledgerVars, routerVars
<1>3. ASSUME NEW r \in Requests, Age(r) PROVE ServedInv'
  BY <1>3 DEF Age, TypeOK, ledgerVars, routerVars
<1>4. CASE Sweep \/ \E p \in Routers : Boot(p)
  <2>1. aged \in SUBSET Requests /\ GiveUp(aged, "recovery_required") /\ aged' = {}
    BY <1>4 DEF Sweep, Boot, GiveUpStale, TypeOK
  <2>2. \A r \in Requests : ~StaleWhileLive /\ pc[r] \in Running => status'[r] = status[r]
    BY <2>1, GiveUpStatus DEF Running, Ended
  <2>3. /\ UNCHANGED <<pc, host>>
        /\ \/ UNCHANGED router
           \/ \E p \in Routers : router[p] = "down" /\ router' = [router EXCEPT ![p] = "serving"]
    BY <1>4 DEF Sweep, Boot, routerVars
  <2>4. QED
    BY <1>0, <2>1, <2>2, <2>3 DEF TypeOK, HostKnown, Running
<1>5. ASSUME NEW p \in Routers, BeginDrain(p) PROVE ServedInv'
  BY <1>0, <1>5 DEF BeginDrain, TypeOK, HostKnown, Running, ledgerVars, handlerVars
<1>6. ASSUME NEW p \in Routers, ShutdownMark(p) PROVE ServedInv'
  <2>1. tracked[p] \in SUBSET Requests /\ GiveUp(tracked[p], "recovery_required")
    BY <1>6 DEF ShutdownMark, TypeOK
  <2>2. \A r \in Requests : host[r] # p => status'[r] = status[r]
    BY <1>0, <2>1, GiveUpStatus DEF TrackedIsLive
  <2>3. UNCHANGED <<pc, host, aged>> /\ router' = [router EXCEPT ![p] = "exiting"]
    BY <1>6 DEF ShutdownMark, handlerVars
  <2>4. QED
    BY <1>0, <2>2, <2>3 DEF TypeOK, HostKnown, Running
<1>7. ASSUME NEW p \in Routers, Exit(p) \/ Crash(p) PROVE ServedInv'
  BY <1>0, <1>7 DEF Exit, Crash, Stop, TypeOK, HostKnown, Running, Ended, ledgerVars
<1>8. CASE UNCHANGED <<status, pc, host, aged, router>>
  BY <1>8
<1>9. QED
  BY <1>1, <1>2, <1>3, <1>4, <1>5, <1>6, <1>7, <1>8
     DEF Next, ClientCloses, AbortLands, SetTrafficMode, SetTraffic,
         ChangeAccount, SetAccountActive, TimePasses, BeginWindow,
         handlerVars, routerVars, ledgerVars, vars

LEMMA ServedInit == Init => ServedInv
BY DEF Init, LedgerInit, ServedInv, HostLive, ServedIsReserved, AgedHasEnded, Running, Served

(* With the default deadlines, a settlement that is reported without being *)
(* recorded belongs to a process that has already given up at its shutdown *)
(* deadline, in any cluster.                                               *)
THEOREM UnrecordedExplained == Spec => UnrecordedOnlyAtShutdown
<1> DEFINE Explained ==
      \A r \in Requests :
        told[r] # "settlement" /\ told'[r] = "settlement" =>
          \/ status'[r] = "settled"
          \/ router[host[r]] = "exiting"
          \/ StaleWhileLive
<1>1. TypeOK /\ ServedInv /\ [Next]_vars => [Explained]_vars
  <2> SUFFICES ASSUME TypeOK, ServedInv, Next PROVE Explained
    BY DEF Explained
  <2>1. LedgerTypeOK
    BY DEF TypeOK
  <2>2. ASSUME NEW r \in Requests, SettleCommits(r) PROVE Explained
    BY <2>1, <2>2, SettleStatus DEF SettleCommits, Tell, TypeOK
  <2>3. ASSUME NEW r \in Requests, SettleSkips(r) PROVE Explained
    BY <2>3 DEF SettleSkips, Go, Tell, TypeOK, ServedInv, ServedIsReserved, Served
  <2>4. CASE \/ told' = told
             \/ \E r \in Requests : Tell(r, "refused") \/ Tell(r, "error")
    BY <2>4 DEF Tell, TypeOK
  <2>5. QED
    BY <2>2, <2>3, <2>4
       DEF Next, HandlerStep, Arrive, Admit, Refuse, AdmitAckLost, Track, RejectBody,
           InsertEvent, CallProvider, GenerationCompletes, GenerationFails,
           SettleThrows, SettleAckLost, MarkEvent, DisableTraffic, Abandon,
           ReleaseUnused, CatchFails, ClientCloses, AbortLands, Age, Sweep, Boot,
           BeginDrain, ShutdownMark, Exit, Crash, Stop, SetTrafficMode,
           ChangeAccount, TimePasses, handlerVars
<1>2. Spec => []TrackInv
  BY TrackInit, TrackStep, ControlTypes, PTL DEF Spec
<1>3. Spec => []ServedInv
  BY <1>2, ServedInit, ServedStep, TypeCorrect, PTL DEF Spec
<1>4. QED
  BY <1>1, <1>3, TypeCorrect, PTL DEF Spec, UnrecordedOnlyAtShutdown

=============================================================================
