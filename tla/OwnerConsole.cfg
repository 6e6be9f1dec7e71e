\* Transactions of one owner and two users of one address, two at a time, of
\* which up to two are owner mutations.
SPECIFICATION Spec
CONSTANTS
  o1 = o1  o2 = o2  u1 = u1  u2 = u2  c1 = c1
  ownerMail = ownerMail  userMail = userMail
  r1 = r1  r2 = r2  low = low  high = high  NoOne = NoOne
  Emails = {ownerMail, userMail}
  EmailOf <- MCEmailOf
  Requests = {r1, r2}
  Accounts = {o1, u1, u2}
  Owners = {o1}
  Known = {o1}
  Campaigns = {c1}
  Settings = {low}
  Overlap = TRUE
  MaxAudit = 2
INVARIANTS AuditIsChain ActiveIsApproved OneAccountPerInvite
PROPERTIES ReviewIsFinal NeverReinstatesItself
SYMMETRY Symmetry
CHECK_DEADLOCK FALSE
