\* Two owners each suspend the other at the same time.
SPECIFICATION Spec
CONSTANTS
  o1 = o1  o2 = o2  u1 = u1  u2 = u2  c1 = c1
  ownerMail = ownerMail  userMail = userMail
  r1 = r1  r2 = r2  low = low  high = high  NoOne = NoOne
  Emails = {ownerMail, userMail}
  EmailOf <- MCEmailOf
  Requests = {r1, r2}
  Accounts = {o1, o2}
  Owners = {o1, o2}
  Known = {o1, o2}
  Campaigns = {}
  Settings = {low}
  Overlap = TRUE
  MaxAudit = 2
INVARIANT OwnerRemains
SYMMETRY Symmetry
CHECK_DEADLOCK FALSE
