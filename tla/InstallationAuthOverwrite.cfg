\* A connected installation refreshes while its user enrolls another one;
\* nothing fails.
SPECIFICATION Spec
CONSTANTS
  old = old  new = new  u = u  v = v  s1 = s1  s2 = s2  NoOne = NoOne
  Installations = {old, new}
  Users = {u}
  Slots = {s1, s2}
  MaxTokens = 3
  Connected = {old}
  Faults = FALSE
  Overlap = TRUE
INVARIANTS PreviousUsable
SYMMETRY RequestSymmetry
CHECK_DEADLOCK FALSE
