\* Two turns of a chat: a dependency.apply and a Git operation of one, a
\* file.move of the other; approvals, stops, time limits and late ends.
SPECIFICATION OpsLiveSpec
CONSTANTS
  t1 = t1  t3 = t3  ha = ha  wa = wa
  apply = apply  git = git  move = move
  Tasks = {t1, t3}
  Workspace <- OneWorkspace
  GitCommon <- NoRepository
  Writer = {t1, t3}
  Capacity = 1
  MaxQueued = 1
  Threads = {ha}
  ThreadOf <- OneChat
  Faults = FALSE
  Restarts = FALSE
  Compacted = {}
  Ops = {apply, git, move}
  TurnOf <- OwnerOf
  ByProcess = {apply, git}
INVARIANTS AllowedOnce OverlapIsAborted
PROPERTIES NoRequestAfterEnd QueuedOpBegins
CHECK_DEADLOCK FALSE
