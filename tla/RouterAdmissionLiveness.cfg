\* One router whose handlers may hang, sweeps that overtake live handlers, and
\* the operator's traffic switch: what must happen in the end all the same.
SPECIFICATION FairSpec
CONSTANTS
  r1 = r1  r2 = r2  alice = alice  p1 = p1  p2 = p2
  Requests = {r1, r2}
  Users = {alice}
  UserOf <- OnlyAlice
  Owners = {}
  Hold <- HoldTwo
  Charges <- TheHold
  UserConcurrency <- TwoSlots
  PlatformConcurrency = 2
  UserLimit <- UserBudget
  PlatformLimit <- TotalBudget
  Routers = {p1}
  ChatRequests = {r2}
  Faults = TRUE
  StaleWhileLive = TRUE
  OperatorModes = {"beta"}
  ManagedAccounts = {}
INVARIANTS EventSettledIffPaid SettlementAccounted
PROPERTIES EveryReservationResolves DrainCompletes
