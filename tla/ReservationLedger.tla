------------------------- MODULE ReservationLedger -------------------------
(***************************************************************************)
(* The rows of PostgreSQL that admit and account for paid provider calls:  *)
(* router.reservations, router.usage, router.beta_users and the singleton  *)
(* router.platform_settings, with one action per SQL transaction that      *)
(* router/src/runtime/admission.ts runs on them.  Every transaction that   *)
(* changes a reservation also updates the singleton row, so its row lock   *)
(* serialises them and each one is a single step here; AdmissionStatements *)
(* takes these steps apart and is proved to implement them.                *)
(*                                                                         *)
(* One element of Requests is one POST that asks for a reservation, so it  *)
(* also names the row that the reservation's random UUID identifies.       *)
(* Money is counted in microdollars.                                       *)
(***************************************************************************)
EXTENDS Naturals, FiniteSets

CONSTANTS
  Requests,             \* the requests that may be admitted
  Users,                \* the accounts of router.beta_users
  UserOf,               \* the account a request is made for
  Owners,               \* the accounts with role 'owner'
  Hold,                 \* reserved_microusd: the worst-case cost of a request
  Charges,              \* the costs its settlement may report
  UserConcurrency,      \* beta_users.max_concurrency
  PlatformConcurrency,  \* platform_settings.max_concurrency
  UserLimit,            \* beta_users.{daily,monthly}_limit_microusd
  PlatformLimit         \* platform_settings.{daily,monthly}_limit_microusd

Windows == {"day", "month"}

(* The windows that a transaction which ends now may have begun in.        *)
Beginnings == {{}, {"month"}, Windows}

ASSUME RequestsAssumption == IsFiniteSet(Requests)

ASSUME AccountsAssumption ==
  /\ UserOf \in [Requests -> Users]
  /\ Owners \subseteq Users

ASSUME AmountsAssumption ==
  /\ Hold \in [Requests -> Nat]
  /\ Charges \in [Requests -> SUBSET Nat]

ASSUME LimitsAssumption ==
  /\ UserConcurrency \in [Users -> Nat]
  /\ PlatformConcurrency \in Nat
  /\ UserLimit \in [Users -> [Windows -> Nat]]
  /\ PlatformLimit \in [Windows -> Nat]

VARIABLES
  status,          \* reservations.status; "absent" before the row exists
  usage,           \* the requests that have a row in router.usage
  charge,          \* usage.cost_microusd of those rows, 0 for the others
  inWindow,        \* the usage rows created in the current day and month
  activeRequests,  \* platform_settings.active_requests
  trafficMode,     \* platform_settings.traffic_mode
  accountActive    \* the accounts whose beta_users.status is 'active'

ledgerVars == <<status, usage, charge, inWindow,
                activeRequests, trafficMode, accountActive>>

ReservationStatus ==
  {"absent", "reserved", "settled", "released", "recovery_required"}

TrafficModes == {"disabled", "owner_only", "beta"}

LedgerTypeOK ==
  /\ status \in [Requests -> ReservationStatus]
  /\ usage \subseteq Requests
  /\ charge \in [Requests -> Nat]
  /\ inWindow \in [Windows -> SUBSET usage]
  /\ activeRequests \in Nat
  /\ trafficMode \in TrafficModes
  /\ accountActive \subseteq Users

-----------------------------------------------------------------------------
(***************************************************************************)
(* Aggregates.  A sum of amounts is the number of microdollars in it, so   *)
(* Total(f, S) is the sum of f[r] over the requests r of S, written as the *)
(* cardinality of a set.                                                   *)
(***************************************************************************)
Coins(f, S) == UNION {{r} \X (1..f[r]) : r \in S}
Total(f, S) == Cardinality(Coins(f, S))

Reserved == {r \in Requests : status[r] = "reserved"}
Of(u)    == {r \in Requests : UserOf[r] = u}

HeldBy(S)     == Total(Hold, Reserved \cap S)
SpentBy(S, w) == Total(charge, inWindow[w] \cap S)

-----------------------------------------------------------------------------
(***************************************************************************)
(* reserve(): the checks, in the order of the code, then the insert.       *)
(***************************************************************************)
TrafficAdmits(u) ==
  /\ trafficMode # "disabled"
  /\ trafficMode = "owner_only" => u \in Owners

SlotFree(u) ==
  /\ Cardinality(Reserved \cap Of(u)) < UserConcurrency[u]
  /\ activeRequests < PlatformConcurrency

UserBudgetAdmits(r) ==
  LET u == UserOf[r] IN
  \A w \in Windows : SpentBy(Of(u), w) + HeldBy(Of(u)) + Hold[r] <= UserLimit[u][w]

PlatformBudgetAdmits(r) ==
  \A w \in Windows :
    SpentBy(Requests, w) + HeldBy(Requests) + Hold[r] <= PlatformLimit[w]

MayReserve(r) ==
  /\ TrafficAdmits(UserOf[r])
  /\ UserOf[r] \in accountActive
  /\ SlotFree(UserOf[r])
  /\ UserBudgetAdmits(r)
  /\ PlatformBudgetAdmits(r)

Reserve(r) ==
  /\ status[r] = "absent"
  /\ MayReserve(r)
  /\ status' = [status EXCEPT ![r] = "reserved"]
  /\ activeRequests' = activeRequests + 1
  /\ UNCHANGED <<usage, charge, inWindow, trafficMode, accountActive>>

(***************************************************************************)
(* greatest(0, active_requests - n).                                       *)
(***************************************************************************)
SlotsAfterFreeing(n) == IF n <= activeRequests THEN activeRequests - n ELSE 0

(***************************************************************************)
(* settleAdmission(), once it has found the row still 'reserved': the      *)
(* usage row (on conflict do nothing), the reservation and the counter.    *)
(* usage.created_at is the time at which the transaction began, so the row *)
(* counts in the windows begun, those that its beginning still lies in.    *)
(***************************************************************************)
RecordUsage(r, cost, begun) ==
  IF r \in usage
    THEN UNCHANGED <<usage, charge, inWindow>>
    ELSE /\ usage' = usage \cup {r}
         /\ charge' = [charge EXCEPT ![r] = cost]
         /\ inWindow' = [w \in Windows |-> IF w \in begun THEN inWindow[w] \cup {r}
                                                         ELSE inWindow[w]]

Settle(r, cost, begun) ==
  /\ status[r] = "reserved"
  /\ RecordUsage(r, cost, begun)
  /\ status' = [status EXCEPT ![r] = "settled"]
  /\ activeRequests' = SlotsAfterFreeing(1)
  /\ UNCHANGED <<trafficMode, accountActive>>

(***************************************************************************)
(* The data-modifying CTE shared by releaseAdmission, markStaleReservations*)
(* and markReservationsRecovery: the rows of S that are still 'reserved'   *)
(* get the target status and their number leaves the counter.              *)
(***************************************************************************)
GiveUp(S, target) ==
  LET changed == S \cap Reserved IN
  /\ status' = [r \in Requests |-> IF r \in changed THEN target ELSE status[r]]
  /\ activeRequests' = SlotsAfterFreeing(Cardinality(changed))
  /\ UNCHANGED <<usage, charge, inWindow, trafficMode, accountActive>>

(***************************************************************************)
(* A 402 of the provider disables all traffic; an operator sets any mode.  *)
(***************************************************************************)
SetTraffic(mode) ==
  /\ trafficMode' = mode
  /\ UNCHANGED <<status, usage, charge, inWindow, activeRequests, accountActive>>

(***************************************************************************)
(* The account's status is another component's (owner console, sign-up);   *)
(* admission only reads whether it is 'active'.                            *)
(***************************************************************************)
SetAccountActive(u, active) ==
  /\ accountActive' = IF active THEN accountActive \cup {u} ELSE accountActive \ {u}
  /\ UNCHANGED <<status, usage, charge, inWindow, activeRequests, trafficMode>>

(***************************************************************************)
(* date_trunc('day' | 'month', now()) moves on: the rows of the past       *)
(* window no longer count as spent.  A month begins with a day.            *)
(***************************************************************************)
BeginWindow(w) ==
  /\ inWindow' = [x \in Windows |->
                    IF x = "day" \/ w = "month" THEN {} ELSE inWindow[x]]
  /\ UNCHANGED <<status, usage, charge, activeRequests, trafficMode, accountActive>>

-----------------------------------------------------------------------------
LedgerInit ==
  /\ status = [r \in Requests |-> "absent"]
  /\ usage = {}
  /\ charge = [r \in Requests |-> 0]
  /\ inWindow = [w \in Windows |-> {}]
  /\ activeRequests = 0
  /\ trafficMode \in TrafficModes
  /\ accountActive = Users

LedgerNext ==
  \/ \E mode \in TrafficModes : SetTraffic(mode)
  \/ \E u \in Users, active \in BOOLEAN : SetAccountActive(u, active)
  \/ \E r \in Requests : Reserve(r)
  \/ \E r \in Requests : \E cost \in Charges[r], begun \in Beginnings :
       Settle(r, cost, begun)
  \/ \E S \in SUBSET Requests, target \in {"released", "recovery_required"} :
       GiveUp(S, target)
  \/ \E w \in Windows : BeginWindow(w)

LedgerSpec == LedgerInit /\ [][LedgerNext]_ledgerVars

-----------------------------------------------------------------------------
(***************************************************************************)
(* Properties.                                                             *)
(***************************************************************************)

(* A settlement never costs more than its reservation set aside.  The code *)
(* does not enforce this: it follows only if the token estimate and the    *)
(* provider's output limit bound what the provider bills.                  *)
ChargesWithinHolds == \A r \in Requests : \A cost \in Charges[r] : cost <= Hold[r]

(* The cached counter platform_settings.active_requests always equals the  *)
(* number of rows it counts, whichever mix of settlements, releases,       *)
(* sweeps and shutdown marks has run (greatest(0, ..) never hides a drift).*)
ActiveRequestsExact == activeRequests = Cardinality(Reserved)

(* No account and not the platform as a whole ever holds more reservations *)
(* than its max_concurrency.                                               *)
ConcurrencyRespected ==
  /\ \A u \in Users : Cardinality(Reserved \cap Of(u)) <= UserConcurrency[u]
  /\ Cardinality(Reserved) <= PlatformConcurrency

(* What is spent in the current day or month plus what reservations hold   *)
(* never exceeds the account's and the platform's limits, whatever order   *)
(* requests reserve, settle and are given up in, across window changes.    *)
BudgetRespected ==
  \A w \in Windows :
    /\ \A u \in Users : SpentBy(Of(u), w) + HeldBy(Of(u)) <= UserLimit[u][w]
    /\ SpentBy(Requests, w) + HeldBy(Requests) <= PlatformLimit[w]

(* A usage row exists exactly for the settled reservations: nothing is     *)
(* charged for a released or quarantined one, and nothing settled is free. *)
UsageIffSettled == usage = {r \in Requests : status[r] = "settled"}

(* A reservation that has left 'reserved' never changes again, and a usage *)
(* row is never removed or repriced: a late settlement cannot resurrect a  *)
(* reservation that a sweep or a shutdown has given up, nor a late release *)
(* undo a settlement.                                                      *)
OutcomeFinal ==
  [][ /\ \A r \in Requests :
           status[r] \in {"settled", "released", "recovery_required"} =>
             status'[r] = status[r]
      /\ usage \subseteq usage'
      /\ \A r \in usage : charge'[r] = charge[r] ]_ledgerVars

=============================================================================
