\* An agent request and a chat request of one account on two routers with the
\* default deadline: crashes, restarts, drains, sweeps, closing clients, failing
\* SQL, lost acknowledgements, and an account that is suspended meanwhile.
SPECIFICATION Spec
CONSTANTS
  r1 = r1  r2 = r2  alice = alice  p1 = p1  p2 = p2
  Requests = {r1, r2}
  Users = {alice}
  UserOf <- OnlyAlice
  Owners = {}
  Hold <- HoldTwo
  Charges <- TheHold
  UserConcurrency <- TwoSlots
  PlatformConcurrency = 2
  UserLimit <- UserBudget
  PlatformLimit <- TotalBudget
  Routers = {p1, p2}
  ChatRequests = {r2}
  Faults = TRUE
  StaleWhileLive = FALSE
  OperatorModes = {}
  ManagedAccounts = {alice}
INVARIANTS TrackedIsLive AgentReleaseIsUnused
PROPERTIES ImplementsLedger UnrecordedOnlyAtShutdown
SYMMETRY RouterSymmetry
