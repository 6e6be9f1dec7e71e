\* A chat that its user compacts and continues; nothing fails.
SPECIFICATION Spec
CONSTANTS
  t1 = t1  t2 = t2  t3 = t3  ha = ha  hb = hb  wa = wa
  Tasks = {t1}
  Workspace <- OneWorkspace
  GitCommon <- NoRepository
  Writer = {t1}
  Capacity = 1
  MaxQueued = 1
  Threads = {ha}
  ThreadOf <- ChatOfTurn
  Faults = FALSE
  Restarts = FALSE
  Compacted = {ha}
PROPERTIES CompactsIdleTask
CHECK_DEADLOCK FALSE
