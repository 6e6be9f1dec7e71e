\* Four versions of an inventory of one campaign, one router that starts,
\* crashes and stops, with failing refreshes and lost, late and joined
\* notifications, under the fairness of its refreshes and its poll timer.
SPECIFICATION FairSpec
CONSTANTS
  c1 = c1  p1 = p1  f1 = f1  f2 = f2
  Routers = {p1}
  Campaigns = {c1}
  Refreshes = {f1, f2}
  Faults = TRUE
  MaxVersion = 4
INVARIANTS CacheIsOneVersion
PROPERTIES NeverGoesBack CatchesUp
