\* Three requests of two accounts, two sessions that release, sweep and mark,
\* one new day or month.
SPECIFICATION StatementsSpec
CONSTANTS
  r1 = r1  r2 = r2  r3 = r3  alice = alice  bob = bob  s1 = s1  s2 = s2
  Requests = {r1, r2, r3}
  Users = {alice, bob}
  UserOf <- AliceAndBob
  Owners = {bob}
  Hold <- HoldByRequest
  Charges <- CostByRequest
  UserConcurrency <- OneSlot
  PlatformConcurrency = 2
  UserLimit <- UserBudget
  PlatformLimit <- TotalBudget
  Sessions = {s1, s2}
  TrafficSet = {"disabled"}
  AccountsSet = {alice}
  MaxEpoch = 1
INVARIANTS ActiveRequestsExact ConcurrencyRespected BudgetRespected UsageIffSettled
PROPERTIES OutcomeFinal StatementsImplementLedger
SYMMETRY StatementSymmetry
