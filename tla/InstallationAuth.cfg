\* One installation is enrolled, refreshed, cancelled and revoked; statements,
\* connections, writes and the process fail.
SPECIFICATION Spec
CONSTANTS
  old = old  new = new  u = u  v = v  s1 = s1  s2 = s2  NoOne = NoOne
  Installations = {new}
  Users = {u}
  Slots = {s1, s2}
  MaxTokens = 3
  Connected = {}
  Faults = TRUE
  Overlap = TRUE
INVARIANTS OneUsableToken ReuseEndsFamily GrantedOnce CancelIsFinal
SYMMETRY RequestSymmetry
CHECK_DEADLOCK FALSE
