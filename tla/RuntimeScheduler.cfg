\* Four tasks on two worktrees of a repository and another folder, three of
\* them writers, two at a time, a queue of three.
SPECIFICATION SchedulerLiveSpec
CONSTANTS
  t1 = t1  t2 = t2  t3 = t3  t4 = t4  wa = wa  wb = wb  g = g
  Tasks = {t1, t2, t3, t4}
  Workspace <- WorkspaceOf
  GitCommon <- GitOf
  Writer = {t1, t4}
  Capacity = 2
  MaxQueued = 3
INVARIANTS NoLostWakeup DrainIsLoop
PROPERTIES ImplementsLeases EveryTaskServed
