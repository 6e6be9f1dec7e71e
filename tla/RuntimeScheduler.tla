-------------------------- MODULE RuntimeScheduler --------------------------
(***************************************************************************)
(* The desktop's RuntimeScheduler (main/runtime-scheduler.ts): a bounded   *)
(* queue of tasks, each with a lease of a workspace and of the Git         *)
(* repository the workspace belongs to, and the tasks that hold theirs.    *)
(* Every method is synchronous and ends in a drain of the queue.  The      *)
(* start() of a task that is let through runs later and may fail.          *)
(*                                                                         *)
(* The operators take the queue and the holders they start from, so that   *)
(* RuntimeSupervisor can run a method inside a longer handler.             *)
(***************************************************************************)
EXTENDS Queues

CONSTANTS
  Tasks,      \* the ids under which tasks are scheduled: one for each turn
  Workspace,  \* the canonical workspace path of a task
  GitCommon,  \* its Git common directory, or NoGit
  Writer,     \* the tasks of projects with the permission workspace-write
  Capacity,   \* the constructor's capacity
  MaxQueued   \* MAX_QUEUED_RUNTIMES

NoGit == "none"

ASSUME SchedulerAssumption ==
  /\ IsFiniteSet(Tasks)
  /\ Writer \subseteq Tasks
  /\ DOMAIN Workspace = Tasks
  /\ DOMAIN GitCommon = Tasks
  /\ Capacity \in 1 .. 4
  /\ MaxQueued \in Nat

VARIABLES
  queue,      \* the tasks that wait, in order
  active,     \* the tasks that hold their lease
  starting    \* the tasks whose start() has been called and has not settled

schedulerVars == <<queue, active, starting>>

SchedulerTypeOK ==
  /\ queue \in Seq(Tasks)
  /\ active \subseteq Tasks
  /\ starting \subseteq Tasks

SharesResource(t, u) ==
  \/ Workspace[t] = Workspace[u]
  \/ GitCommon[t] # NoGit /\ GitCommon[t] = GitCommon[u]

LeasesConflict(t, u) == SharesResource(t, u) /\ (t \in Writer \/ u \in Writer)

(* Mutant: forgets the tasks that wait in front.                            *)
ClearOfHolders(q, a, i) == \A u \in a : ~LeasesConflict(u, q[i])

(* The i-th task of the queue conflicts with no holder and with no earlier *)
(* task of the queue.                                                      *)
Clear(q, a, i) ==
  /\ \A u \in a : ~LeasesConflict(u, q[i])
  /\ \A j \in 1 .. i - 1 : ~LeasesConflict(q[j], q[i])

(* Mutant: gives up when the first task cannot start.                       *)
StopAtFirst(q, a) ==
  IF q # <<>> /\ Clear(q, a, 1) /\ Cardinality(a) < Capacity THEN {q[1]} ELSE {}

(* The tasks the loop of drain() lets through.  Once task i has started it *)
(* still stands in the way of those it conflicts with, now as a holder, so *)
(* what is clear does not change while the loop runs: it takes the clear   *)
(* tasks in order until the capacity is used.                              *)
LetThrough(q, a) ==
  {q[i] : i \in {k \in DOMAIN q :
     /\ Clear(q, a, k)
     /\ Cardinality(a) + Cardinality({j \in 1 .. k - 1 : Clear(q, a, j)}) < Capacity}}

DrainFrom(q, a) ==
  /\ queue' = Without(q, LetThrough(q, a))
  /\ active' = a \cup LetThrough(q, a)

CanStart(q, a, i) == Cardinality(a) < Capacity /\ Clear(q, a, i)

(* A round of the loop of drain(): the first task that can start does.     *)
DrainRound(s) ==
  LET fit == {i \in DOMAIN s.queue : CanStart(s.queue, s.held, i)}
      task == s.queue[CHOOSE i \in fit : \A j \in fit : i <= j]
  IN  IF fit = {} THEN s
      ELSE [queue |-> Without(s.queue, {task}), held |-> s.held \cup {task}]

(* drain() as the code writes it.  A round that starts nobody ends it, and *)
(* no more rounds than there are tasks start one.                          *)
DrainLoop(q, a) ==
  LET after[n \in 0 .. Len(q)] ==
        IF n = 0 THEN [queue |-> q, held |-> a] ELSE DrainRound(after[n - 1])
  IN  after[Len(q)]

Scheduled(t) == t \in active \cup Members(queue)

(* enqueue() throws if the task is scheduled already or the queue is full. *)
MayEnqueue(t) == ~Scheduled(t) /\ Len(queue) < MaxQueued

SchedulerInit ==
  /\ queue = <<>>
  /\ active = {}
  /\ starting = {}

Enqueue(t) ==
  /\ MayEnqueue(t)
  /\ DrainFrom(Append(queue, t), active)

Cancel(t) ==
  /\ t \in Members(queue)
  /\ DrainFrom(Without(queue, {t}), active)

(* Mutant: a released lease wakes nobody.                                   *)
ReleaseWithoutDrain(t) == t \in active /\ active' = active \ {t} /\ UNCHANGED queue

Release(t) ==
  /\ t \in active
  /\ DrainFrom(queue, active \ {t})

(* A start() that rejects is told so only if the task still holds its      *)
(* lease, which it then loses.                                             *)
StartRejected(t) ==
  IF t \in active THEN DrainFrom(queue, active \ {t}) ELSE UNCHANGED <<queue, active>>

-----------------------------------------------------------------------------
(* The scheduler with callers that use it as the supervisor does: each     *)
(* task is enqueued again only after its start() has settled.              *)

CallStart == starting' = starting \cup (active' \ active)

SchedulerNext ==
  \E t \in Tasks :
    \/ t \notin starting /\ Enqueue(t) /\ CallStart
    \/ Cancel(t) /\ CallStart
    \/ Release(t) /\ CallStart
    \/ /\ t \in starting
       /\ StartRejected(t)
       /\ starting' = (starting \ {t}) \cup (active' \ active)
    \/ t \in starting /\ starting' = starting \ {t} /\ UNCHANGED <<queue, active>>

SchedulerSpec == SchedulerInit /\ [][SchedulerNext]_schedulerVars

(* Tasks end: each holder is released some time.                           *)
SchedulerLiveSpec == SchedulerSpec /\ \A t \in Tasks : WF_schedulerVars(Release(t) /\ CallStart)

-----------------------------------------------------------------------------
Leases == INSTANCE WorkspaceLeases WITH
            waiting <- queue, held <- active,
            Conflicts <- {p \in Tasks \X Tasks : LeasesConflict(p[1], p[2])}

(* The scheduler implements the leases: exclusive, bounded and granted in  *)
(* the order of asking to those that conflict ("does not let a read bypass *)
(* an earlier queued writer").                                             *)
ImplementsLeases == Leases!Spec

(* drain() leaves nobody waiting who could start: after each method every  *)
(* task of the queue is held up by the capacity, a holder or an earlier    *)
(* task, so no wake-up is lost.                                            *)
NoLostWakeup == LetThrough(queue, active) = {}

LoopDrains(q, a) ==
  DrainLoop(q, a) = [queue |-> Without(q, LetThrough(q, a)), held |-> a \cup LetThrough(q, a)]

(* What each method leaves, by the closed form above, is what the loop of  *)
(* drain() makes of what enqueue(), cancel() and release() call it with.   *)
DrainIsLoop ==
  /\ \A t \in Tasks : ~Scheduled(t) => LoopDrains(Append(queue, t), active)
  /\ \A t \in Members(queue) : LoopDrains(Without(queue, {t}), active)
  /\ \A t \in active : LoopDrains(queue, active \ {t})

(* A queued task is started or cancelled some time: readers that keep      *)
(* arriving do not starve a writer, nor the other way round.               *)
EveryTaskServed == \A t \in Tasks : t \in Members(queue) ~> t \notin Members(queue)

=============================================================================
