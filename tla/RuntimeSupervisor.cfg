\* Two turns of one chat: failing lookups and processes, restarts and compactions.
SPECIFICATION LiveSpec
CONSTANTS
  t1 = t1  t2 = t2  t3 = t3  ha = ha  hb = hb  wa = wa
  Tasks = {t1, t2}
  Workspace <- OneWorkspace
  GitCommon <- NoRepository
  Writer = {t1, t2}
  Capacity = 1
  MaxQueued = 1
  Threads = {ha, hb}
  ThreadOf <- ChatOfTurn
  Faults = TRUE
  Restarts = TRUE
  Compacted = {ha}
INVARIANTS OneWriterAtWork NoOrphanRuntime NoGhostTurn
PROPERTIES OutcomeIsFinal StopEndsTurn TurnsEnd
CHECK_DEADLOCK FALSE
