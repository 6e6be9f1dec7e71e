------------------------ MODULE AdmissionStatements ------------------------
(***************************************************************************)
(* The transactions of ReservationLedger statement by statement, as        *)
(* router/src/runtime/admission.ts sends them to PostgreSQL.  The ledger's *)
(* variables are the committed rows; what a transaction has written is     *)
(* visible to others when it commits.  Isolation is read committed: each   *)
(* statement sees what is committed when it begins.  A row that a          *)
(* transaction has locked (select .. for update, or its own update) stays  *)
(* locked until the transaction ends; who wants the row waits and then     *)
(* finds the committed version.                                            *)
(*                                                                         *)
(* A rejection, a failed statement, a deadlock that the server breaks, a   *)
(* lost connection and the death of the process all end a transaction in   *)
(* the same way, by a rollback, which is possible at any time.             *)
(***************************************************************************)
EXTENDS ReservationLedger

CONSTANTS
  Sessions,      \* connections that release, sweep and mark reservations
  TrafficSet,    \* the traffic modes that are set
  AccountsSet,   \* the accounts whose status is set
  MaxEpoch       \* bound on the windows that begin, in NextWindow

ASSUME OperatorsAssumption == TrafficSet \subseteq TrafficModes /\ AccountsSet \subseteq Users
ASSUME MaxEpochAssumption == MaxEpoch \in Nat

VARIABLES
  stage,     \* the last statement of each request's reserve() transaction
  slots,     \* active_requests as that transaction has read it
  sums,      \* the amounts that it has summed
  settling,  \* the last statement of each request's settleAdmission()
  giving,    \* the release, sweep or mark under way on each session
  epoch,     \* the current day and month
  began,     \* now() in the open transaction of each request
  created    \* usage.created_at of each usage row

transactionVars == <<stage, slots, sums, settling, giving, epoch, began, created>>
statementVars   == <<ledgerVars, transactionVars>>

(* In the order of the code.                                               *)
Stages == {"none", "begun", "platform locked", "account locked", "counted", "held",
           "account day", "account month", "platform day", "platform month", "ended"}

SettlingStages == {"none", "begun", "row locked", "platform locked", "ended"}

Scopes == {"account", "platform"}

NoSums      == [s \in Scopes |-> [x \in Windows \cup {"held"} |-> 0]]
NoStatement == [at |-> "none", left |-> {}, changed |-> {}]
FirstDay    == [w \in Windows |-> 0]

StatementsTypeOK ==
  /\ LedgerTypeOK
  /\ stage \in [Requests -> Stages]
  /\ slots \in [Requests -> Nat]
  /\ sums \in [Requests -> [Scopes -> [Windows \cup {"held"} -> Nat]]]
  /\ settling \in [Requests -> SettlingStages]
  /\ giving \in [Sessions -> [at      : {"none", "rows", "platform locked"},
                              left    : SUBSET Requests,
                              changed : SUBSET Requests]]
  /\ epoch \in [Windows -> Nat]
  /\ began \in [Requests -> [Windows -> Nat]]
  /\ created \in [Requests -> [Windows -> Nat]]

-----------------------------------------------------------------------------
(***************************************************************************)
(* Row locks: of the singleton platform_settings, of an account and of a   *)
(* reservation.  Locks are held from the statement that takes them.        *)
(***************************************************************************)
Admitting(r) == stage[r] \notin {"none", "begun", "ended"}

(* Mutant: reserve() reads the singleton row without for update.           *)
PlatformReadOnly ==
  /\ \A r \in Requests : settling[r] # "platform locked"
  /\ \A g \in Sessions : giving[g].at # "platform locked"

PlatformFree ==
  /\ \A r \in Requests : ~Admitting(r) /\ settling[r] # "platform locked"
  /\ \A g \in Sessions : giving[g].at # "platform locked"

AccountFree(u) ==
  \A r \in Of(u) : Admitting(r) => stage[r] = "platform locked"

RowFree(r) ==
  /\ settling[r] \notin {"row locked", "platform locked"}
  /\ \A g \in Sessions : r \notin giving[g].changed

-----------------------------------------------------------------------------
(***************************************************************************)
(* reserve(): one action per statement, each with the check that follows.  *)
(* A check that fails throws, which is a rollback.                         *)
(***************************************************************************)
Advance(r, from, to) == stage[r] = from /\ stage' = [stage EXCEPT ![r] = to]

BeginReserve(r) ==
  /\ Advance(r, "none", "begun")
  /\ began' = [began EXCEPT ![r] = epoch]
  /\ UNCHANGED <<ledgerVars, slots, sums, settling, giving, epoch, created>>

LockPlatform(r) ==
  /\ Advance(r, "begun", "platform locked")
  /\ PlatformFree
  /\ TrafficAdmits(UserOf[r])
  /\ slots' = [slots EXCEPT ![r] = activeRequests]
  /\ UNCHANGED <<ledgerVars, sums, settling, giving, epoch, began, created>>

LockAccount(r) ==
  /\ Advance(r, "platform locked", "account locked")
  /\ AccountFree(UserOf[r])
  /\ UserOf[r] \in accountActive
  /\ UNCHANGED <<ledgerVars, slots, sums, settling, giving, epoch, began, created>>

(* Mutant: <= for <, one reservation too many.                             *)
CountOffByOne(r) ==
  LET u == UserOf[r] IN
  /\ Advance(r, "account locked", "counted")
  /\ Cardinality(Reserved \cap Of(u)) <= UserConcurrency[u]
  /\ slots[r] <= PlatformConcurrency
  /\ UNCHANGED <<ledgerVars, slots, sums, settling, giving, epoch, began, created>>

(* The count of the account's rows and the counter that was read before.   *)
CountActive(r) ==
  LET u == UserOf[r] IN
  /\ Advance(r, "account locked", "counted")
  /\ Cardinality(Reserved \cap Of(u)) < UserConcurrency[u]
  /\ slots[r] < PlatformConcurrency
  /\ UNCHANGED <<ledgerVars, slots, sums, settling, giving, epoch, began, created>>

ScopeOf(r, scope) == IF scope = "account" THEN Of(UserOf[r]) ELSE Requests

SumHeld(r) ==
  /\ Advance(r, "counted", "held")
  /\ sums' = [sums EXCEPT ![r] =
                [s \in Scopes |-> [@[s] EXCEPT !["held"] = HeldBy(ScopeOf(r, s))]]]
  /\ UNCHANGED <<ledgerVars, slots, settling, giving, epoch, began, created>>

(* created_at >= date_trunc(window, now()), where now() is the time at     *)
(* which the transaction began.                                            *)
SpentSince(S, time, w) == Total(charge, {q \in usage \cap S : created[q][w] >= time[w]})

SumSpent(r, from, to, scope, w) ==
  /\ Advance(r, from, to)
  /\ sums' = [sums EXCEPT ![r][scope][w] = SpentSince(ScopeOf(r, scope), began[r], w)]
  /\ UNCHANGED <<ledgerVars, slots, settling, giving, epoch, began, created>>

SumEverySpent(r) ==
  \/ SumSpent(r, "held",          "account day",    "account",  "day")
  \/ SumSpent(r, "account day",   "account month",  "account",  "month")
  \/ SumSpent(r, "account month", "platform day",   "platform", "day")
  \/ SumSpent(r, "platform day",  "platform month", "platform", "month")

(* Mutant: what the platform holds is not added.                           *)
FitsIgnoringHolds(r) ==
  \A w \in Windows :
    /\ sums[r]["account"][w] + sums[r]["account"]["held"] + Hold[r]
         <= UserLimit[UserOf[r]][w]
    /\ sums[r]["platform"][w] + Hold[r] <= PlatformLimit[w]

FitsBudgets(r) ==
  \A w \in Windows :
    /\ sums[r]["account"][w] + sums[r]["account"]["held"] + Hold[r]
         <= UserLimit[UserOf[r]][w]
    /\ sums[r]["platform"][w] + sums[r]["platform"]["held"] + Hold[r]
         <= PlatformLimit[w]

EndReserve(r) ==
  /\ stage' = [stage EXCEPT ![r] = "ended"]
  /\ slots' = [slots EXCEPT ![r] = 0]
  /\ sums' = [sums EXCEPT ![r] = NoSums]
  /\ began' = [began EXCEPT ![r] = FirstDay]
  /\ UNCHANGED <<settling, giving, epoch, created>>

(* The budget check, then insert, update and commit: no other transaction  *)
(* sees the two writes one by one.                                         *)
CommitReserve(r) ==
  /\ stage[r] = "platform month"
  /\ FitsBudgets(r)
  /\ status' = [status EXCEPT ![r] = "reserved"]
  /\ activeRequests' = activeRequests + 1
  /\ EndReserve(r)
  /\ UNCHANGED <<usage, charge, inWindow, trafficMode, accountActive>>

RollbackReserve(r) ==
  /\ stage[r] \notin {"none", "ended"}
  /\ EndReserve(r)
  /\ UNCHANGED ledgerVars

-----------------------------------------------------------------------------
(***************************************************************************)
(* settleAdmission(): the reservation's row is locked and looked at first, *)
(* the singleton row last.  A row that is no longer 'reserved' lets the    *)
(* transaction commit without a write, which is a rollback here.           *)
(***************************************************************************)
SettlingGoes(r, from, to) ==
  settling[r] = from /\ settling' = [settling EXCEPT ![r] = to]

BeginSettle(r) ==
  /\ status[r] # "absent"
  /\ SettlingGoes(r, "none", "begun")
  /\ began' = [began EXCEPT ![r] = epoch]
  /\ UNCHANGED <<ledgerVars, stage, slots, sums, giving, epoch, created>>

(* Mutant: the row is read without for update.                             *)
ReadRow(r) ==
  /\ SettlingGoes(r, "begun", "row locked")
  /\ status[r] = "reserved"
  /\ UNCHANGED <<ledgerVars, stage, slots, sums, giving, epoch, began, created>>

LockRow(r) ==
  /\ SettlingGoes(r, "begun", "row locked")
  /\ RowFree(r)
  /\ status[r] = "reserved"
  /\ UNCHANGED <<ledgerVars, stage, slots, sums, giving, epoch, began, created>>

SettleLocksPlatform(r) ==
  /\ SettlingGoes(r, "row locked", "platform locked")
  /\ PlatformFree
  /\ UNCHANGED <<ledgerVars, stage, slots, sums, giving, epoch, began, created>>

CommitSettle(r, cost) ==
  /\ SettlingGoes(r, "platform locked", "ended")
  /\ RecordUsage(r, cost, {w \in Windows : began[r][w] = epoch[w]})
  /\ created' = [created EXCEPT ![r] = began[r]]
  /\ status' = [status EXCEPT ![r] = "settled"]
  /\ activeRequests' = SlotsAfterFreeing(1)
  /\ began' = [began EXCEPT ![r] = FirstDay]
  /\ UNCHANGED <<trafficMode, accountActive, stage, slots, sums, giving, epoch>>

RollbackSettle(r) ==
  /\ settling[r] \notin {"none", "ended"}
  /\ settling' = [settling EXCEPT ![r] = "ended"]
  /\ began' = [began EXCEPT ![r] = FirstDay]
  /\ UNCHANGED <<ledgerVars, stage, slots, sums, giving, epoch, created>>

-----------------------------------------------------------------------------
(***************************************************************************)
(* releaseAdmission, markStaleReservations, markReservationsRecovery: one  *)
(* statement, but not one step.  The update of the reservations finds its  *)
(* rows in the statement's snapshot and locks them one by one; a row that  *)
(* another transaction has changed meanwhile is looked at again.  Their    *)
(* number is then taken from the singleton row, which is locked last.      *)
(***************************************************************************)
BeginGiveUp(g, S) ==
  /\ giving[g].at = "none"
  /\ S \cap Reserved # {}
  /\ giving' = [giving EXCEPT ![g] = [at |-> "rows", left |-> S \cap Reserved,
                                      changed |-> {}]]
  /\ UNCHANGED <<ledgerVars, stage, slots, sums, settling, epoch, began, created>>

(* Mutant: the update has no condition status='reserved'.                  *)
StillWanted(r) == {r}

StillReserved(r) == {r} \cap Reserved

GiveUpRow(g, r) ==
  /\ giving[g].at = "rows" /\ r \in giving[g].left
  /\ RowFree(r)
  /\ giving' = [giving EXCEPT ![g].left = @ \ {r}, ![g].changed = @ \cup StillReserved(r)]
  /\ UNCHANGED <<ledgerVars, stage, slots, sums, settling, epoch, began, created>>

GiveUpLocksPlatform(g) ==
  /\ giving[g].at = "rows" /\ giving[g].left = {}
  /\ PlatformFree
  /\ giving' = [giving EXCEPT ![g].at = "platform locked"]
  /\ UNCHANGED <<ledgerVars, stage, slots, sums, settling, epoch, began, created>>

EndGiveUp(g) ==
  /\ giving' = [giving EXCEPT ![g] = NoStatement]
  /\ UNCHANGED <<stage, slots, sums, settling, epoch, began, created>>

(* Only releaseAdmission, for the one row of its request, has the target    *)
(* 'released'.                                                             *)
CommitGiveUp(g, target) ==
  LET changed == giving[g].changed IN
  /\ giving[g].at = "platform locked"
  /\ target = "released" => \E r \in Requests : changed \subseteq {r}
  /\ status' = [r \in Requests |-> IF r \in changed THEN target ELSE status[r]]
  /\ activeRequests' = SlotsAfterFreeing(Cardinality(changed))
  /\ EndGiveUp(g)
  /\ UNCHANGED <<usage, charge, inWindow, trafficMode, accountActive>>

RollbackGiveUp(g) ==
  /\ giving[g].at # "none"
  /\ EndGiveUp(g)
  /\ UNCHANGED ledgerVars

-----------------------------------------------------------------------------
(***************************************************************************)
(* The single statements of operators, owners and a 402, which wait for    *)
(* the row they update; and the calendar.                                  *)
(***************************************************************************)
UpdateTraffic(mode) ==
  PlatformFree /\ SetTraffic(mode) /\ UNCHANGED transactionVars

UpdateAccount(u, active) ==
  AccountFree(u) /\ SetAccountActive(u, active) /\ UNCHANGED transactionVars

NextWindow(w) ==
  /\ epoch["day"] < MaxEpoch
  /\ BeginWindow(w)
  /\ epoch' = [x \in Windows |-> IF x = "day" \/ w = "month" THEN epoch[x] + 1
                                                             ELSE epoch[x]]
  /\ UNCHANGED <<stage, slots, sums, settling, giving, began, created>>

-----------------------------------------------------------------------------
StatementsInit ==
  /\ LedgerInit
  /\ stage = [r \in Requests |-> "none"]
  /\ slots = [r \in Requests |-> 0]
  /\ sums = [r \in Requests |-> NoSums]
  /\ settling = [r \in Requests |-> "none"]
  /\ giving = [g \in Sessions |-> NoStatement]
  /\ epoch = FirstDay
  /\ began = [r \in Requests |-> FirstDay]
  /\ created = [r \in Requests |-> FirstDay]

ReserveStep(r) ==
  \/ BeginReserve(r) \/ LockPlatform(r) \/ LockAccount(r) \/ CountActive(r)
  \/ SumHeld(r) \/ SumEverySpent(r) \/ CommitReserve(r) \/ RollbackReserve(r)

SettleStep(r) ==
  \/ BeginSettle(r) \/ LockRow(r) \/ SettleLocksPlatform(r)
  \/ \E cost \in Charges[r] : CommitSettle(r, cost)
  \/ RollbackSettle(r)

GiveUpStep(g) ==
  \/ \E S \in SUBSET Requests : BeginGiveUp(g, S)
  \/ \E r \in Requests : GiveUpRow(g, r)
  \/ GiveUpLocksPlatform(g)
  \/ \E target \in {"released", "recovery_required"} : CommitGiveUp(g, target)
  \/ RollbackGiveUp(g)

StatementsNext ==
  \/ \E r \in Requests : ReserveStep(r) \/ SettleStep(r)
  \/ \E g \in Sessions : GiveUpStep(g)
  \/ \E mode \in TrafficSet : UpdateTraffic(mode)
  \/ \E u \in AccountsSet, active \in BOOLEAN : UpdateAccount(u, active)
  \/ \E w \in Windows : NextWindow(w)

StatementsSpec == StatementsInit /\ [][StatementsNext]_statementVars

-----------------------------------------------------------------------------
(* However the statements of reservations, settlements, releases, sweeps   *)
(* and marks of all routers interleave, wait for one another and are       *)
(* rolled back, each commit changes the rows as one transaction of the     *)
(* ledger does: what reserve() has read still holds when it commits.       *)
StatementsImplementLedger == LedgerSpec

=============================================================================
