----------------------- MODULE RuntimeSupervisorProofs -----------------------
(***************************************************************************)
(* Proofs about the desktop's supervisor composed with its scheduler, and  *)
(* about the operations on top of it, for any turns, chats, workspaces,    *)
(* capacity and operations: processes work only under a lease, a turn has  *)
(* one outcome, the supervisor keeps to what the scheduler expects of its  *)
(* callers, an operation runs once, and none that was left alone overlaps  *)
(* the next turn of its workspace.                                         *)
(***************************************************************************)
EXTENDS StructuredOperations, RuntimeSchedulerProofs

-----------------------------------------------------------------------------
(* What a method of the scheduler may change.                              *)
LEMMA EnqueueEffects ==
  ASSUME NEW t \in Tasks, Drained(queue, active), Enqueue(t)
  PROVE  /\ Drained(queue', active')
         /\ active \subseteq active'
         /\ active' \subseteq active \cup Members(queue) \cup {t}
         /\ Members(queue') \subseteq Members(queue) \cup {t}
         /\ active' \cap Members(queue') = {}
<1> DEFINE q == Append(queue, t)
<1>1. Drained(queue', active') BY MethodsKeepDrained
<1>2. Undrained(q, active)
  <2>1. ~Scheduled(t) BY DEF Enqueue, MayEnqueue
  <2> QED BY <2>1, AppendUndrained
<1>3. queue' = Without(q, LetThrough(q, active)) /\ active' = active \cup LetThrough(q, active)
  BY DEF Enqueue, DrainFrom
<1>4. q \in Seq(Tasks) /\ Once(q) BY <1>2 DEF Undrained
<1>5. Members(queue') \subseteq Members(q)
  <2>1. Members(Without(q, LetThrough(q, active))) = Members(q) \ LetThrough(q, active)
    BY <1>4, WithoutMembers
  <2> QED BY <1>3, <2>1
<1>6. LetThrough(q, active) \subseteq Members(q) BY DEF LetThrough, Members
<1>7. Members(q) \subseteq Members(queue) \cup {t}
  <2>1. queue \in Seq(Tasks) BY DEF Drained, Undrained
  <2>2. /\ DOMAIN q = 1 .. Len(queue) + 1
        /\ Len(queue) \in Nat
        /\ \A i \in 1 .. Len(queue) : q[i] = queue[i]
        /\ q[Len(queue) + 1] = t
        /\ DOMAIN queue = 1 .. Len(queue)
    BY <2>1
  <2> HIDE DEF q
  <2>3. \A i \in DOMAIN q : i \in 1 .. Len(queue) \/ i = Len(queue) + 1 BY <2>2
  <2> QED BY <2>2, <2>3 DEF Members
<1>8. active' \cap Members(queue') = {} BY <1>1 DEF Drained, Undrained
<1> QED BY <1>1, <1>3, <1>5, <1>6, <1>7, <1>8

LEMMA FreeEffects ==
  ASSUME NEW t \in Tasks, Drained(queue, active), Cancel(t) \/ Release(t) \/ StartRejected(t)
  PROVE  /\ Drained(queue', active')
         /\ active \ {t} \subseteq active'
         /\ active' \subseteq active \cup Members(queue)
         /\ Members(queue') \subseteq Members(queue)
         /\ active' \cap Members(queue') = {}
<1>1. Drained(queue', active') BY MethodsKeepDrained
<1>2. active' \cap Members(queue') = {} BY <1>1 DEF Drained, Undrained
<1>3. ASSUME NEW q, NEW a, Undrained(q, a), DrainFrom(q, a)
      PROVE  /\ a \subseteq active'
             /\ active' \subseteq a \cup Members(q)
             /\ Members(queue') \subseteq Members(q)
  <2>1. q \in Seq(Tasks) /\ Once(q) BY <1>3 DEF Undrained
  <2>2. LetThrough(q, a) \subseteq Members(q) BY DEF LetThrough, Members
  <2> QED BY <1>3, <2>1, <2>2, WithoutMembers DEF DrainFrom
<1>4. CASE Cancel(t)
  <2>1. queue \in Seq(Tasks) /\ Once(queue) BY DEF Drained, Undrained
  <2>2. Members(Without(queue, {t})) \subseteq Members(queue) BY <2>1, WithoutMembers
  <2> QED BY <1>1, <1>2, <1>3, <1>4, <2>2, WithoutUndrained DEF Cancel
<1>5. CASE DrainFrom(queue, active \ {t}) BY <1>1, <1>2, <1>3, <1>5, ReturnUndrained
<1>6. CASE UNCHANGED <<queue, active>> BY <1>1, <1>2, <1>6
<1> QED BY <1>4, <1>5, <1>6 DEF Release, StartRejected

-----------------------------------------------------------------------------
(* A turn is scheduled once, when its call is over; a process is told to   *)
(* work, or still may be, only while its turn holds the lease.             *)
LeaseInv ==
  /\ Drained(queue, active)
  /\ starting \subseteq Tasks
  /\ \A t \in Tasks :
       /\ call[t] # "returned" =>
            child[t] = "none" /\ t \notin active \cup Members(queue) \cup starting
       /\ t \in Members(queue) => child[t] = "none" /\ t \notin starting
       /\ child[t] \in Working => t \in active
       /\ child[t] = "forked" /\ t \in starting => t \in active

(* What a call has written so far, that a turn the supervisor knows is     *)
(* open, and that a pending one has no process yet.                        *)
OutcomeInv ==
  \A t \in Tasks :
    /\ call[t] \in {"none", "configuring"} => turn[t] = "absent"
    /\ call[t] = "baselining" => turn[t] = "queued"
    /\ call[t] = "leasing" => turn[t] = "preparing"
    /\ pending[ThreadOf[t]] = t =>
         turn[t] \in Open /\ child[t] = "none" /\ call[t] = "returned"
    /\ IsCurrent(t) => turn[t] \in Open /\ child[t] # "none" /\ call[t] = "returned"

SupervisorInv == TypeOK /\ LeaseInv /\ OutcomeInv

(* Statuses of turns that were over stay what they are.                    *)
OutcomeKept == \A t \in Tasks : turn[t] \in Terminal => turn'[t] = turn[t]

-----------------------------------------------------------------------------
(* Steps that leave the scheduler alone and neither schedule nor start.    *)
LEMMA LeaseFrame ==
  ASSUME LeaseInv, UNCHANGED schedulerVars,
         \A u \in Tasks : call'[u] # "returned" => call[u] # "returned",
         \A u \in Tasks : child'[u] = child[u]
                            \/ /\ child[u] # "none"
                               /\ child'[u] # "forked"
                               /\ child'[u] \in Working => child[u] \in Working
  PROVE  LeaseInv'
<1>1. Members(queue)' = Members(queue) /\ queue' = queue /\ active' = active /\ starting' = starting
  BY DEF schedulerVars, Members
<1>2. Drained(queue, active)'
  <2>1. Drained(queue', active') BY <1>1 DEF LeaseInv
  <2> QED BY <2>1 DEF Drained, Undrained, Once, Members, Apart, LetThrough, Clear,
          LeasesConflict, SharesResource
<1> QED BY <1>1, <1>2 DEF LeaseInv

(* Steps in which the scheduler drains.                                    *)
LEMMA DrainedNext == Drained(queue', active') => Drained(queue, active)'
BY DEF Drained, Undrained, Once, Members, Apart, LetThrough, Clear, LeasesConflict,
       SharesResource

-----------------------------------------------------------------------------
(* A step keeps LeaseInv: one lemma for each step that does something to   *)
(* the scheduler or to what it has let through, LeaseFrame for the others. *)
LEMMA LaunchLease ==
  ASSUME SupervisorInv, NEW t \in Tasks, Launch(t)
  PROVE  LeaseInv'
<1>1. /\ t \in active /\ child[t] = "none" /\ t \in starting
      /\ UNCHANGED <<schedulerVars, call>>
      /\ \A u \in Tasks : child'[u] = IF u = t THEN "forked" ELSE child[u]
  BY DEF Launch, LetGo, SupervisorInv, TypeOK
<1>2. Members(queue)' = Members(queue) /\ queue' = queue /\ active' = active /\ starting' = starting
  BY <1>1 DEF schedulerVars, Members
<1>3. Drained(queue, active)'
  <2>1. Drained(queue', active') BY <1>2 DEF SupervisorInv, LeaseInv
  <2> QED BY <2>1, DrainedNext
<1> QED BY <1>1, <1>2, <1>3 DEF SupervisorInv, LeaseInv, Working

LEMMA RejectedLease ==
  ASSUME SupervisorInv, NEW t \in Tasks, LaunchRejected(t)
  PROVE  LeaseInv'
<1>1. /\ t \in active /\ child[t] = "none" /\ t \in starting
      /\ StartRejected(t)
      /\ starting' = (starting \ {t}) \cup (active' \ active)
      /\ UNCHANGED <<call, child>>
  BY DEF LaunchRejected, LetGo, Settle
<1>2. /\ Drained(queue', active')
      /\ active \ {t} \subseteq active'
      /\ active' \subseteq active \cup Members(queue)
      /\ Members(queue') \subseteq Members(queue)
      /\ active' \cap Members(queue') = {}
  BY <1>1, FreeEffects DEF SupervisorInv, LeaseInv
<1>3. Drained(queue, active)' /\ Members(queue)' = Members(queue')
  BY <1>2, DrainedNext DEF Members
<1>4. active' \in SUBSET Tasks BY <1>2 DEF Drained, Undrained
<1> QED BY <1>1, <1>2, <1>3, <1>4 DEF SupervisorInv, LeaseInv, Working

LEMMA ResolvedLease ==
  ASSUME SupervisorInv, NEW t \in Tasks, LeaseResolved(t)
  PROVE  LeaseInv'
<1>1. /\ call[t] = "leasing"
      /\ \A u \in Tasks : call'[u] = IF u = t THEN "returned" ELSE call[u]
      /\ UNCHANGED child
  BY DEF LeaseResolved, Goes, StartThrows, SupervisorInv, TypeOK
<1>2. CASE UNCHANGED schedulerVars BY <1>1, <1>2, LeaseFrame DEF SupervisorInv
<1>3. CASE Enqueue(t) /\ starting' = starting \cup (active' \ active)
  <2>1. /\ Drained(queue', active')
        /\ active \subseteq active'
        /\ active' \subseteq active \cup Members(queue) \cup {t}
        /\ Members(queue') \subseteq Members(queue) \cup {t}
        /\ active' \cap Members(queue') = {}
    BY <1>3, EnqueueEffects DEF SupervisorInv, LeaseInv
  <2>2. Drained(queue, active)' /\ Members(queue)' = Members(queue')
    BY <2>1, DrainedNext DEF Members
  <2>3. active' \in SUBSET Tasks BY <2>1 DEF Drained, Undrained
  <2>4. child[t] = "none" /\ t \notin active \cup Members(queue) \cup starting
    BY <1>1 DEF SupervisorInv, LeaseInv
  <2> QED BY <1>1, <1>3, <2>1, <2>2, <2>3, <2>4 DEF SupervisorInv, LeaseInv, Working
<1> QED BY <1>2, <1>3 DEF LeaseResolved, Settle

LEMMA ReadyLease ==
  ASSUME SupervisorInv, NEW t \in Tasks, Ready(t)
  PROVE  LeaseInv'
<1>1. /\ child[t] = "forked" /\ t \in starting
      /\ starting' = starting \ {t}
      /\ UNCHANGED <<queue, active, call>>
      /\ \A u \in Tasks : child'[u] = IF u = t THEN "started" ELSE child[u]
  BY DEF Ready, SupervisorInv, TypeOK
<1>2. Members(queue)' = Members(queue) BY <1>1 DEF Members
<1>3. Drained(queue, active)'
  <2>1. Drained(queue', active') BY <1>1 DEF SupervisorInv, LeaseInv
  <2> QED BY <2>1, DrainedNext
<1> QED BY <1>1, <1>2, <1>3 DEF SupervisorInv, LeaseInv, Working

LEMMA TimeoutLease ==
  ASSUME SupervisorInv, NEW t \in Tasks, ReadinessTimeout(t)
  PROVE  LeaseInv'
<1>1. /\ child[t] \in {"forked", "exited"} /\ t \in starting
      /\ StartRejected(t)
      /\ starting' = (starting \ {t}) \cup (active' \ active)
      /\ UNCHANGED <<call, child>>
  BY DEF ReadinessTimeout, Settle
<1>2. /\ Drained(queue', active')
      /\ active \ {t} \subseteq active'
      /\ active' \subseteq active \cup Members(queue)
      /\ Members(queue') \subseteq Members(queue)
      /\ active' \cap Members(queue') = {}
  BY <1>1, FreeEffects DEF SupervisorInv, LeaseInv
<1>3. Drained(queue, active)' /\ Members(queue)' = Members(queue')
  BY <1>2, DrainedNext DEF Members
<1>4. active' \in SUBSET Tasks BY <1>2 DEF Drained, Undrained
<1> QED BY <1>1, <1>2, <1>3, <1>4 DEF SupervisorInv, LeaseInv, Working

LEMMA ExitLease ==
  ASSUME SupervisorInv, NEW t \in Tasks, ChildExits(t)
  PROVE  LeaseInv'
<1>1. /\ child[t] \in Alive
      /\ FreeLease(t) \/ UNCHANGED schedulerVars
      /\ UNCHANGED call
      /\ \A u \in Tasks : child'[u] = IF u = t THEN "exited" ELSE child[u]
  BY DEF ChildExits, ChildGoes, SupervisorInv, TypeOK
<1>2. CASE UNCHANGED schedulerVars
  BY <1>1, <1>2, LeaseFrame DEF SupervisorInv, Alive, Working
<1>3. CASE Release(t) /\ starting' = starting \cup (active' \ active)
  <2>1. /\ Drained(queue', active')
        /\ active \ {t} \subseteq active'
        /\ active' \subseteq active \cup Members(queue)
        /\ Members(queue') \subseteq Members(queue)
        /\ active' \cap Members(queue') = {}
    BY <1>3, FreeEffects DEF SupervisorInv, LeaseInv
  <2>2. Drained(queue, active)' /\ Members(queue)' = Members(queue')
    BY <2>1, DrainedNext DEF Members
  <2>3. active' \in SUBSET Tasks BY <2>1 DEF Drained, Undrained
  <2> QED BY <1>1, <1>3, <2>1, <2>2, <2>3 DEF SupervisorInv, LeaseInv, Working, Alive
<1> QED BY <1>1, <1>2, <1>3 DEF FreeLease, Settle

LEMMA StopQueuedLease ==
  ASSUME SupervisorInv, NEW t \in Tasks, StopQueued(t)
  PROVE  LeaseInv'
<1>1. UNCHANGED <<call, child>> BY DEF StopQueued
<1>2. CASE UNCHANGED schedulerVars BY <1>1, <1>2, LeaseFrame DEF SupervisorInv
<1>3. CASE Cancel(t) /\ starting' = starting \cup (active' \ active)
  <2>1. /\ Drained(queue', active')
        /\ active \ {t} \subseteq active'
        /\ active' \subseteq active \cup Members(queue)
        /\ Members(queue') \subseteq Members(queue)
        /\ active' \cap Members(queue') = {}
    BY <1>3, FreeEffects DEF SupervisorInv, LeaseInv
  <2>2. Drained(queue, active)' /\ Members(queue)' = Members(queue')
    BY <2>1, DrainedNext DEF Members
  <2>3. active' \in SUBSET Tasks BY <2>1 DEF Drained, Undrained
  <2>4. t \in Members(queue) /\ t \notin active
    BY <1>3 DEF Cancel, SupervisorInv, LeaseInv, Drained, Undrained
  <2> QED BY <1>1, <1>3, <2>1, <2>2, <2>3, <2>4 DEF SupervisorInv, LeaseInv, Working
<1> QED BY <1>2, <1>3 DEF StopQueued, Settle

LEMMA RestartLease ==
  ASSUME SupervisorInv, Restart
  PROVE  LeaseInv'
<1>1. /\ queue' = <<>> /\ active' = {} /\ starting' = {}
      /\ \A u \in Tasks : call'[u] = "none" => call[u] = "none"
      /\ \A u \in Tasks : call'[u] \in {"none", "returned"}
      /\ \A u \in Tasks : child'[u] = IF child[u] = "none" THEN "none" ELSE "exited"
  BY DEF Restart
<1>2. Members(queue)' = {} BY <1>1 DEF Members
<1>3. Drained(queue, active)'
  <2>1. Drained(<<>>, {})
    <3>1. DOMAIN <<>> = {} /\ <<>> \in Seq(Tasks) OBVIOUS
    <3>2. LetThrough(<<>>, {}) = {} BY <3>1 DEF LetThrough
    <3>3. Cardinality({}) <= Capacity BY FS_EmptySet, SchedulerAssumption
    <3> QED BY <3>1, <3>2, <3>3 DEF Drained, Undrained, Once, Members, Apart
  <2>2. Drained(queue', active') BY <1>1, <2>1
  <2> QED BY <2>2, DrainedNext
<1> QED BY <1>1, <1>2, <1>3 DEF SupervisorInv, LeaseInv, Working

(* The other steps of a turn.                                              *)
LEMMA TurnLease ==
  ASSUME SupervisorInv, NEW t \in Tasks, StartStep(t) \/ ChildEvent(t) \/ UserOrTimer(t)
  PROVE  LeaseInv'
<1> DEFINE Frame ==
      /\ UNCHANGED schedulerVars
      /\ \A u \in Tasks : call'[u] # "returned" => call[u] # "returned"
      /\ \A u \in Tasks : child'[u] = child[u]
                            \/ /\ child[u] # "none"
                               /\ child'[u] # "forked"
                               /\ child'[u] \in Working => child[u] \in Working
<1>1. Frame => LeaseInv' BY LeaseFrame DEF SupervisorInv
<1>2. call \in [Tasks -> {"none", "configuring", "baselining", "leasing", "returned"}]
      /\ child \in [Tasks -> Alive \cup {"none", "exited"}]
  BY DEF SupervisorInv, TypeOK
<1>3. CASE CallStartTurn(t) BY <1>1, <1>2, <1>3 DEF CallStartTurn, Goes
<1>4. CASE ConfigurationFails(t) BY <1>1, <1>2, <1>4 DEF ConfigurationFails, Goes
<1>5. CASE CreateTurn(t) BY <1>1, <1>2, <1>5 DEF CreateTurn, Goes
<1>6. CASE Prepare(t) BY <1>1, <1>2, <1>6 DEF Prepare, Goes, StartThrows
<1>7. CASE LeaseFails(t) BY <1>1, <1>2, <1>7 DEF LeaseFails, Goes, StartThrows
<1>8. CASE LeaseResolved(t) BY <1>8, ResolvedLease
<1>9. CASE Ready(t) BY <1>9, ReadyLease
<1>10. CASE ReadinessTimeout(t) BY <1>10, TimeoutLease
<1>11. CASE RunBegins(t) BY <1>1, <1>2, <1>11 DEF RunBegins, ChildGoes, Working
<1>12. CASE AskApproval(t) BY <1>1, <1>2, <1>12 DEF AskApproval, ChildGoes, Working
<1>13. CASE AwaitApproval(t) BY <1>1, <1>2, <1>13 DEF AwaitApproval, ChildGoes, Working
<1>14. CASE \E status \in Terminal : RunEnds(t, status)
  BY <1>1, <1>2, <1>14 DEF RunEnds, ChildGoes, Working
<1>15. CASE Crashes(t) BY <1>1, <1>15 DEF Crashes
<1>16. CASE SessionFails(t) BY <1>1, <1>2, <1>16 DEF SessionFails, ChildGoes, Working
<1>17. CASE ChildExits(t) BY <1>17, ExitLease
<1>18. CASE \E decision \in {"allowed", "denied"} : Decide(t, decision)
  BY <1>1, <1>18 DEF Decide
<1>19. CASE StopQueued(t) BY <1>19, StopQueuedLease
<1>20. CASE StopActive(t) BY <1>1, <1>20 DEF StopActive
<1>21. CASE StopTimer(t) BY <1>1, <1>21 DEF StopTimer
<1> QED
  BY <1>3, <1>4, <1>5, <1>6, <1>7, <1>8, <1>9, <1>10, <1>11, <1>12, <1>13, <1>14, <1>15,
     <1>16, <1>17, <1>18, <1>19, <1>20, <1>21
  DEF StartStep, ChildEvent, UserOrTimer, Terminal

LEMMA LeaseKept ==
  ASSUME SupervisorInv, [Next]_vars
  PROVE  LeaseInv'
<1>1. CASE \E t \in Tasks : Microtask(t) BY <1>1, LaunchLease, RejectedLease DEF Microtask
<1>2. CASE \E t \in Tasks : StartStep(t) \/ ChildEvent(t) \/ UserOrTimer(t)
  BY <1>2, TurnLease
<1>3. CASE \E h \in Threads : Continue(h) \/ CompactBegins(h) \/ CompactEnds(h)
  BY <1>3, LeaseFrame DEF SupervisorInv, Continue, CompactBegins, CompactEnds
<1>4. CASE Restart BY <1>4, RestartLease
<1>5. CASE UNCHANGED vars BY <1>5, LeaseFrame DEF SupervisorInv, vars
<1> QED BY <1>1, <1>2, <1>3, <1>4, <1>5 DEF Next

-----------------------------------------------------------------------------
(* Types.  What the scheduler changes has its type by LeaseKept.           *)
LEMMA TypesKept ==
  ASSUME SupervisorInv, [Next]_vars
  PROVE  TypeOK'
<1> USE DEF SupervisorInv, TypeOK, Open, Terminal, Alive, Working
<1>1. SchedulerTypeOK'
  BY LeaseKept DEF LeaseInv, Drained, Undrained, SchedulerTypeOK
<1>2. \A t \in Tasks : ThreadOf[t] \in Threads BY SupervisorAssumption
<1>3. ASSUME NEW t \in Tasks, Launch(t) PROVE TypeOK'
  BY <1>1, <1>2, <1>3 DEF Launch, rows
<1>4. ASSUME NEW t \in Tasks, LaunchRejected(t) PROVE TypeOK'
  BY <1>1, <1>2, <1>4 DEF LaunchRejected, LaunchFailed, Forget, FinishPending, SetStatus
<1>5. ASSUME NEW t \in Tasks, StartStep(t) PROVE TypeOK'
  <2>1. CASE CallStartTurn(t) \/ ConfigurationFails(t)
    BY <1>1, <2>1 DEF CallStartTurn, ConfigurationFails, Goes, rows, maps
  <2>2. CASE CreateTurn(t) BY <1>1, <2>2 DEF CreateTurn, Goes, maps
  <2>3. CASE Prepare(t)
    BY <1>1, <1>2, <2>3 DEF Prepare, StartThrows, SetStatus, Goes, maps
  <2>4. CASE LeaseFails(t)
    BY <1>1, <1>2, <2>4 DEF LeaseFails, StartThrows, SetStatus, Goes, maps
  <2>5. CASE LeaseResolved(t)
    BY <1>1, <1>2, <2>5 DEF LeaseResolved, StartThrows, SetStatus, Goes
  <2> QED BY <1>5, <2>1, <2>2, <2>3, <2>4, <2>5 DEF StartStep
<1>6. ASSUME NEW t \in Tasks, NEW s \in {"completed", "failed", "cancelled", "interrupted"},
             Finish(t, s)
      PROVE  /\ turn' \in [Tasks -> {"absent"} \cup Open \cup Terminal]
             /\ thread' \in [Threads -> {"idle", "running", "awaiting_approval", "failed", "interrupted"}]
             /\ approval' \in [Tasks -> {"none", "pending", "allowed", "denied"}]
             /\ current' \in [Threads -> Tasks \cup {NoTurn}]
             /\ closing' \subseteq Tasks
  BY <1>2, <1>6 DEF Finish, SetStatus
<1>7. ASSUME NEW t \in Tasks, ChildEvent(t) PROVE TypeOK'
  <2>1. CASE Ready(t) BY <1>1, <2>1 DEF Ready, rows, maps
  <2>2. CASE ReadinessTimeout(t)
    BY <1>1, <1>2, <1>6, <2>2
       DEF ReadinessTimeout, LaunchFailed, Forget, FinishPending, SetStatus, rows, maps
  <2>3. CASE RunBegins(t) BY <1>1, <1>2, <2>3 DEF RunBegins, ChildGoes, SetStatus, maps
  <2>4. CASE AskApproval(t) BY <1>1, <2>4 DEF AskApproval, ChildGoes, maps
  <2>5. CASE AwaitApproval(t) BY <1>1, <1>2, <2>5 DEF AwaitApproval, ChildGoes, SetStatus, maps
  <2>6. ASSUME NEW s \in {"completed", "failed", "cancelled"}, RunEnds(t, s) PROVE TypeOK'
    BY <1>1, <1>6, <2>6 DEF RunEnds, ChildGoes, rows
  <2>7. CASE Crashes(t) BY <1>1, <1>6, <2>7 DEF Crashes
  <2>8. CASE SessionFails(t) BY <1>1, <2>8 DEF SessionFails, ChildGoes, rows, maps
  <2>9. CASE ChildExits(t) BY <1>1, <1>6, <2>9 DEF ChildExits, ChildGoes, rows
  <2> QED BY <1>7, <2>1, <2>2, <2>3, <2>4, <2>5, <2>6, <2>7, <2>8, <2>9 DEF ChildEvent
<1>8. ASSUME NEW t \in Tasks, UserOrTimer(t) PROVE TypeOK'
  <2>1. ASSUME NEW d \in {"allowed", "denied"}, Decide(t, d) PROVE TypeOK'
    BY <1>1, <1>2, <2>1 DEF Decide, SetStatus, maps
  <2>2. CASE StopQueued(t)
    BY <1>1, <1>2, <2>2 DEF StopQueued, Forget, FinishPending, SetStatus
  <2>3. CASE StopActive(t) BY <1>1, <2>3 DEF StopActive, maps
  <2>4. CASE StopTimer(t) BY <1>1, <1>6, <2>4 DEF StopTimer, rows
  <2> QED BY <1>8, <2>1, <2>2, <2>3, <2>4 DEF UserOrTimer
<1>9. ASSUME NEW h \in Threads, Continue(h) \/ CompactBegins(h) \/ CompactEnds(h) PROVE TypeOK'
  BY <1>1, <1>9 DEF Continue, CompactBegins, CompactEnds, rows, maps
<1>10. CASE Restart
  <2>1. \A t \in Tasks : t \in Cut => turn'[t] = "interrupted" BY <1>10 DEF Restart
  <2> QED BY <1>1, <1>10 DEF Restart
<1>11. CASE UNCHANGED vars BY <1>1, <1>11 DEF vars, rows, maps
<1> QED BY <1>3, <1>4, <1>5, <1>7, <1>8, <1>9, <1>10, <1>11 DEF Next, Microtask

-----------------------------------------------------------------------------
(* Outcomes: a step keeps OutcomeInv and leaves the outcomes there are.    *)
LEMMA OutcomesStep ==
  ASSUME SupervisorInv, [Next]_vars
  PROVE  OutcomeInv' /\ OutcomeKept
<1> USE DEF OutcomeInv, OutcomeKept, IsCurrent, Open, Terminal
<1>1. /\ turn \in [Tasks -> {"absent"} \cup Open \cup Terminal]
      /\ call \in [Tasks -> {"none", "configuring", "baselining", "leasing", "returned"}]
      /\ pending \in [Threads -> Tasks \cup {NoTurn}]
      /\ current \in [Threads -> Tasks \cup {NoTurn}]
      /\ child \in [Tasks -> Alive \cup {"none", "exited"}]
      /\ OutcomeInv
  BY DEF SupervisorInv, TypeOK
<1>2. NoTurn \notin Tasks /\ \A t \in Tasks : ThreadOf[t] \in Threads BY SupervisorAssumption
<1>3. \A t \in Tasks : call[t] # "returned" => child[t] = "none" /\ ~LetGo(t)
  BY DEF SupervisorInv, LeaseInv, LetGo
<1>4. \A t \in Tasks : t \in Members(queue) => child[t] = "none"
  BY DEF SupervisorInv, LeaseInv
<1> HIDE DEF OutcomeInv
<1>5. ASSUME NEW t \in Tasks, Launch(t) PROVE OutcomeInv' /\ OutcomeKept
  BY <1>1, <1>2, <1>3, <1>5 DEF Launch, LetGo, rows, OutcomeInv
<1>6. ASSUME NEW t \in Tasks, LaunchRejected(t) PROVE OutcomeInv' /\ OutcomeKept
  BY <1>1, <1>2, <1>3, <1>6
     DEF LaunchRejected, LetGo, LaunchFailed, Forget, FinishPending, SetStatus, OutcomeInv
<1>7. ASSUME NEW t \in Tasks, StartStep(t) PROVE OutcomeInv' /\ OutcomeKept
  <2>1. CASE CallStartTurn(t) \/ ConfigurationFails(t)
    BY <1>1, <1>2, <1>3, <2>1 DEF CallStartTurn, ConfigurationFails, Goes, rows, maps, OutcomeInv
  <2>2. CASE CreateTurn(t)
    BY <1>1, <1>2, <1>3, <2>2 DEF CreateTurn, Goes, maps, OutcomeInv
  <2>3. CASE Prepare(t)
    BY <1>1, <1>2, <1>3, <2>3 DEF Prepare, StartThrows, SetStatus, Goes, maps, OutcomeInv
  <2>4. CASE LeaseFails(t)
    BY <1>1, <1>2, <1>3, <2>4 DEF LeaseFails, StartThrows, SetStatus, Goes, maps, OutcomeInv
  <2>5. CASE LeaseResolved(t)
    BY <1>1, <1>2, <1>3, <2>5 DEF LeaseResolved, StartThrows, SetStatus, Goes, OutcomeInv
  <2> QED BY <1>7, <2>1, <2>2, <2>3, <2>4, <2>5 DEF StartStep
<1>8. ASSUME NEW t \in Tasks, IsCurrent(t), NEW s \in Terminal, Finish(t, s),
             UNCHANGED <<pending, call>>,
             \A u \in Tasks : (child'[u] = "none") <=> (child[u] = "none")
      PROVE  OutcomeInv' /\ OutcomeKept
  BY <1>1, <1>2, <1>8 DEF Finish, SetStatus, OutcomeInv
<1>9. ASSUME UNCHANGED <<turn, pending, current, call>>,
             \A u \in Tasks : (child'[u] = "none") <=> (child[u] = "none")
      PROVE  OutcomeInv' /\ OutcomeKept
  BY <1>1, <1>9 DEF OutcomeInv
<1>10. ASSUME NEW t \in Tasks, IsCurrent(t), NEW s \in Open, NEW r, SetStatus(t, s, r),
              UNCHANGED <<pending, current, call>>,
              \A u \in Tasks : (child'[u] = "none") <=> (child[u] = "none")
       PROVE  OutcomeInv' /\ OutcomeKept
  BY <1>1, <1>2, <1>10 DEF SetStatus, OutcomeInv
<1>11. ASSUME NEW t \in Tasks, NEW phase \in Working \cup {"exited"},
              child[t] \in Alive, ChildGoes(t, phase)
       PROVE  \A u \in Tasks : (child'[u] = "none") <=> (child[u] = "none")
  BY <1>1, <1>11 DEF ChildGoes, Working, Alive
<1>12. ASSUME NEW t \in Tasks, ChildEvent(t) PROVE OutcomeInv' /\ OutcomeKept
  <2>1. CASE Ready(t)
    BY <1>1, <1>9, <2>1 DEF Ready, rows, maps
  <2>2. CASE ReadinessTimeout(t)
    <3>1. CASE t \notin active BY <1>9, <2>2, <3>1 DEF ReadinessTimeout, rows, maps
    <3>2. CASE t \in active /\ IsCurrent(t)
      BY <1>8, <2>2, <3>2 DEF ReadinessTimeout
    <3>3. CASE t \in active /\ ~IsCurrent(t)
      BY <1>1, <1>2, <1>3, <2>2, <3>3
         DEF ReadinessTimeout, LaunchFailed, Forget, FinishPending, SetStatus, OutcomeInv
    <3> QED BY <3>1, <3>2, <3>3
  <2>3. CASE RunBegins(t)
    BY <1>9, <1>10, <1>11, <2>3 DEF RunBegins, maps, Working, Alive
  <2>4. CASE AskApproval(t)
    BY <1>9, <1>11, <2>4 DEF AskApproval, maps, Working, Alive
  <2>5. CASE AwaitApproval(t)
    BY <1>9, <1>10, <1>11, <2>5 DEF AwaitApproval, maps, Working, Alive
  <2>6. ASSUME NEW s \in {"completed", "failed", "cancelled"}, RunEnds(t, s)
        PROVE  OutcomeInv' /\ OutcomeKept
    BY <1>8, <1>9, <1>11, <2>6 DEF RunEnds, rows, Working, Alive
  <2>7. CASE Crashes(t) BY <1>8, <2>7 DEF Crashes
  <2>8. CASE SessionFails(t)
    BY <1>9, <1>11, <2>8 DEF SessionFails, rows, maps, Working, Alive
  <2>9. CASE ChildExits(t) BY <1>8, <1>9, <1>11, <2>9 DEF ChildExits, rows
  <2> QED BY <1>12, <2>1, <2>2, <2>3, <2>4, <2>5, <2>6, <2>7, <2>8, <2>9 DEF ChildEvent
<1>13. ASSUME NEW t \in Tasks, UserOrTimer(t) PROVE OutcomeInv' /\ OutcomeKept
  <2>1. ASSUME NEW d \in {"allowed", "denied"}, Decide(t, d) PROVE OutcomeInv' /\ OutcomeKept
    BY <1>10, <2>1 DEF Decide, maps
  <2>2. CASE StopQueued(t)
    BY <1>1, <1>2, <2>2 DEF StopQueued, Forget, FinishPending, SetStatus, OutcomeInv
  <2>3. CASE StopActive(t) BY <1>9, <2>3 DEF StopActive, maps
  <2>4. CASE StopTimer(t) BY <1>8, <1>9, <2>4 DEF StopTimer, rows
  <2> QED BY <1>13, <2>1, <2>2, <2>3, <2>4 DEF UserOrTimer
<1>14. ASSUME NEW h \in Threads, Continue(h) \/ CompactBegins(h) \/ CompactEnds(h)
       PROVE  OutcomeInv' /\ OutcomeKept
  BY <1>9, <1>14 DEF Continue, CompactBegins, CompactEnds, rows, maps
<1>15. CASE Restart
  <2>1. \A t \in Tasks : /\ pending'[ThreadOf[t]] = NoTurn
                         /\ current'[ThreadOf[t]] = NoTurn
                         /\ call'[t] \in {"none", "returned"}
                         /\ call'[t] = "none" => call[t] = "none"
                         /\ turn'[t] = IF t \in Cut THEN "interrupted" ELSE turn[t]
    BY <1>2, <1>15 DEF Restart
  <2>2. \A t \in Tasks : t \in Cut <=> turn[t] \in Open BY DEF Cut
  <2> QED BY <1>1, <1>2, <2>1, <2>2 DEF OutcomeInv
<1>16. CASE UNCHANGED vars BY <1>9, <1>16 DEF vars, rows, maps
<1> QED BY <1>5, <1>6, <1>7, <1>12, <1>13, <1>14, <1>15, <1>16 DEF Next, Microtask

LEMMA SupervisorStarts == Init => SupervisorInv
<1> SUFFICES ASSUME Init PROVE SupervisorInv OBVIOUS
<1>1. SchedulerInv BY SchedulerStarts DEF Init
<1>2. Members(queue) = {} BY DEF Init, SchedulerInit, Members
<1>3. TypeOK
  BY <1>1 DEF Init, TypeOK, SchedulerInv, Drained, Undrained, SchedulerTypeOK, Alive, Working
<1>4. LeaseInv BY <1>1, <1>2 DEF Init, SchedulerInit, LeaseInv, SchedulerInv, Working
<1>5. \A t \in Tasks : ThreadOf[t] \in Threads /\ t # NoTurn BY SupervisorAssumption
<1>6. OutcomeInv BY <1>5 DEF Init, OutcomeInv, IsCurrent
<1> QED BY <1>3, <1>4, <1>6 DEF SupervisorInv

LEMMA SupervisorSteps == SupervisorInv /\ [Next]_vars => SupervisorInv'
BY LeaseKept, TypesKept, OutcomesStep DEF SupervisorInv

THEOREM SupervisorCorrect == Spec => []SupervisorInv
<1> QED BY SupervisorStarts, SupervisorSteps, PTL DEF Spec

(* A process works only while its turn holds the lease, so no two work     *)
(* under conflicting leases and no more than the capacity do, whatever     *)
(* readiness timeouts and late exits do (runtime-supervisor.ts:200-330).   *)
THEOREM LeaseCoversProcess == Spec => []OneWriterAtWork
<1>1. SupervisorInv => OneWriterAtWork
  <2> SUFFICES ASSUME SupervisorInv PROVE OneWriterAtWork OBVIOUS
  <2> DEFINE working == {t \in Tasks : child[t] \in Working}
  <2>1. working \subseteq active BY DEF SupervisorInv, LeaseInv
  <2>2. active \in SUBSET Tasks /\ Apart(active) /\ Cardinality(active) <= Capacity
    BY DEF SupervisorInv, LeaseInv, Drained, Undrained
  <2>3. Cardinality(working) <= Cardinality(active) BY <2>1, <2>2, FiniteHolders, FS_Subset
  <2>4. Cardinality(working) \in Nat /\ Cardinality(active) \in Nat BY <2>2, FiniteHolders
  <2>5. Cardinality(working) <= Capacity BY <2>2, <2>3, <2>4, SchedulerAssumption
  <2> QED BY <2>1, <2>2, <2>5 DEF OneWriterAtWork, Apart
<1> QED BY <1>1, SupervisorCorrect, PTL

(* A turn's recorded outcome is never rewritten, by late events, timers,   *)
(* failing launches or the recovery of a restart.                          *)
THEOREM OutcomesFinal == Spec => OutcomeIsFinal
<1>1. SupervisorInv /\ [Next]_vars => [OutcomeKept]_vars BY OutcomesStep
<1>2. Spec => [][OutcomeKept]_vars BY <1>1, SupervisorCorrect, PTL DEF Spec
<1> QED BY <1>2, PTL DEF OutcomeIsFinal, OutcomeKept

-----------------------------------------------------------------------------
(* One runtime of a chat at a time.  start() records a runtime whatever    *)
(* happened to its chat while it awaited the lease; that no runtime is     *)
(* replaced in the supervisor's map takes that only one turn of a chat is  *)
(* let through: with one worker, as the product runs, or if the turns of a *)
(* chat exclude each other.                                                *)
OneRuntimePerChat ==
  \/ Capacity = 1
  \/ \A t, u \in Tasks : t # u /\ ThreadOf[t] = ThreadOf[u] => LeasesConflict(t, u)

(* Waits for its lease, or for the microtask that launches it.             *)
Waits(t) == t \in Members(queue) \/ LetGo(t)

(* The runtime of a chat holds its lease and has not been told to end.     *)
RuntimesInv ==
  /\ \A t \in Tasks : IsCurrent(t) => t \in active /\ t \notin closing
  /\ \A t \in Tasks : t \in closing => child[t] # "none"
  /\ NoOrphanRuntime
  /\ NoGhostTurn

LEMMA DrainLosesNobody ==
  ASSUME NEW q, NEW a, Undrained(q, a), DrainFrom(q, a)
  PROVE  Members(q) \subseteq Members(queue') \cup active'
<1>1. q \in Seq(Tasks) /\ Once(q) BY DEF Undrained
<1>2. Members(queue') = Members(q) \ LetThrough(q, a) BY <1>1, WithoutMembers DEF DrainFrom
<1> QED BY <1>2 DEF DrainFrom

(* A method of the scheduler called for t leaves the others where they     *)
(* are, or lets them through; what it enqueues waits.                      *)
LEMMA OthersWait ==
  ASSUME SupervisorInv, NEW t \in Tasks, NEW X \in SUBSET {t}, Settle(X),
         Enqueue(t) \/ Cancel(t) \/ Release(t) \/ StartRejected(t),
         \A u \in Tasks : u # t => child'[u] = child[u]
  PROVE  /\ active \ {t} \subseteq active'
         /\ \A u \in Tasks : u # t /\ Waits(u) => Waits(u)'
         /\ Enqueue(t) /\ child'[t] = "none" => Waits(t)'
<1>1. Drained(queue, active) /\ starting' = (starting \ X) \cup (active' \ active)
  BY DEF SupervisorInv, LeaseInv, Settle
<1>2. /\ queue \in Seq(Tasks) /\ Once(queue)
      /\ active \cap Members(queue) = {}
  BY <1>1 DEF Drained, Undrained
<1>3. active \ {t} \subseteq active' BY <1>1, EnqueueEffects, FreeEffects
<1>4. Members(queue) \ {t} \subseteq Members(queue') \cup active'
  <2>1. CASE Enqueue(t)
    <3>1. Undrained(Append(queue, t), active) BY <1>1, <2>1, AppendUndrained DEF Enqueue, MayEnqueue
    <3>2. Members(Append(queue, t)) \subseteq Members(queue') \cup active'
      BY <2>1, <3>1, DrainLosesNobody DEF Enqueue
    <3>3. Members(queue) \subseteq Members(Append(queue, t)) BY <1>2 DEF Members
    <3> QED BY <3>2, <3>3
  <2>2. CASE Cancel(t)
    <3>1. Undrained(Without(queue, {t}), active) BY <1>1, WithoutUndrained
    <3>2. Members(Without(queue, {t})) \subseteq Members(queue') \cup active'
      BY <2>2, <3>1, DrainLosesNobody DEF Cancel
    <3> QED BY <1>2, <3>2, WithoutMembers
  <2>3. CASE DrainFrom(queue, active \ {t}) BY <1>1, <2>3, ReturnUndrained, DrainLosesNobody
  <2>4. CASE UNCHANGED <<queue, active>> BY <2>4
  <2> QED BY <2>1, <2>2, <2>3, <2>4 DEF Release, StartRejected
<1>5. ASSUME NEW u \in Tasks, u # t, Waits(u) PROVE Waits(u)'
  <2>1. CASE u \in Members(queue)
    <3>1. child'[u] = "none" /\ u \notin active
      BY <1>2, <1>5, <2>1 DEF SupervisorInv, LeaseInv
    <3>2. u \in Members(queue') \/ u \in active' BY <1>4, <1>5, <2>1
    <3>3. Members(queue)' = Members(queue') BY DEF Members
    <3> QED BY <1>1, <3>1, <3>2, <3>3 DEF Waits, LetGo
  <2>2. CASE LetGo(u) BY <1>1, <1>3, <1>5, <2>2 DEF Waits, LetGo
  <2> QED BY <1>5, <2>1, <2>2 DEF Waits
<1>6. ASSUME Enqueue(t), child'[t] = "none" PROVE Waits(t)'
  <2>1. Undrained(Append(queue, t), active) BY <1>1, <1>6, AppendUndrained DEF Enqueue, MayEnqueue
  <2>2. Members(Append(queue, t)) \subseteq Members(queue') \cup active'
    BY <1>6, <2>1, DrainLosesNobody DEF Enqueue
  <2>3. t \in Members(Append(queue, t))
    <3>1. Len(queue) + 1 \in DOMAIN Append(queue, t) /\ Append(queue, t)[Len(queue) + 1] = t
      BY <1>2
    <3> QED BY <3>1 DEF Members
  <2>4. t \notin active BY <1>6 DEF Enqueue, MayEnqueue, Scheduled
  <2>5. Members(queue)' = Members(queue') BY DEF Members
  <2> QED BY <1>1, <1>6, <2>2, <2>3, <2>4, <2>5 DEF Waits, LetGo
<1> QED BY <1>3, <1>5, <1>6

(* What a step that is about turn t must keep.                             *)
LEMMA RuntimesFrame ==
  ASSUME RuntimesInv, NEW t \in Tasks,
         active \ {t} \subseteq active',
         closing' \subseteq closing \cup {t}, closing \subseteq closing',
         \A u \in Tasks : u # t =>
           /\ Waits(u) => Waits(u)'
           /\ IsCurrent(u)' <=> IsCurrent(u)
           /\ child'[u] = child[u]
           /\ call'[u] = call[u]
           /\ turn'[u] = turn[u],
         IsCurrent(t)' => t \in active' /\ t \notin closing',
         t \in closing' => child'[t] # "none",
         child'[t] \in Alive => IsCurrent(t)' \/ t \in closing',
         turn'[t] \in Open => call'[t] \in {"baselining", "leasing"} \/ Waits(t)' \/ IsCurrent(t)'
  PROVE  RuntimesInv'
<1>1. ASSUME NEW u \in Tasks, IsCurrent(u)' PROVE u \in active' /\ u \notin closing'
  BY <1>1 DEF RuntimesInv
<1>2. ASSUME NEW u \in Tasks, child'[u] \in Alive PROVE IsCurrent(u)' \/ u \in closing'
  BY <1>2 DEF RuntimesInv, NoOrphanRuntime
<1>3. ASSUME NEW u \in Tasks, turn'[u] \in Open
      PROVE  call'[u] \in {"baselining", "leasing"} \/ Waits(u)' \/ IsCurrent(u)'
  BY <1>3 DEF RuntimesInv, NoGhostTurn, Waits
<1>4. ASSUME NEW u \in Tasks, u \in closing' PROVE child'[u] # "none" BY <1>4 DEF RuntimesInv
<1> QED BY <1>1, <1>2, <1>3, <1>4 DEF RuntimesInv, NoOrphanRuntime, NoGhostTurn, Waits

LEMMA LaunchRuntime ==
  ASSUME OneRuntimePerChat, SupervisorInv, RuntimesInv, NEW t \in Tasks, Launch(t)
  PROVE  RuntimesInv'
<1>1. /\ t \in active /\ child[t] = "none"
      /\ UNCHANGED <<schedulerVars, turn, call, closing>>
      /\ current' = [current EXCEPT ![ThreadOf[t]] = t]
      /\ \A u \in Tasks : child'[u] = IF u = t THEN "forked" ELSE child[u]
  BY DEF Launch, LetGo, rows, SupervisorInv, TypeOK
<1>2. /\ t # NoTurn /\ \A u \in Tasks : ThreadOf[u] \in Threads
      /\ current \in [Threads -> Tasks \cup {NoTurn}]
  BY SupervisorAssumption DEF SupervisorInv, TypeOK
<1>3. ASSUME NEW u \in Tasks, u # t, IsCurrent(u), ThreadOf[u] = ThreadOf[t] PROVE FALSE
  <2>1. active \in SUBSET Tasks /\ Apart(active) /\ Cardinality(active) <= Capacity
    BY DEF SupervisorInv, LeaseInv, Drained, Undrained
  <2>2. u \in active BY <1>3 DEF RuntimesInv
  <2>3. CASE Capacity = 1
    <3>1. IsFiniteSet(active) /\ Cardinality(active) \in Nat BY <2>1, FiniteHolders
    <3>2. Cardinality({t, u}) = 2
      <4>1. IsFiniteSet({t}) /\ Cardinality({t}) = 1 BY FS_Singleton
      <4>2. Cardinality({t} \cup {u}) = Cardinality({t}) + 1
        <5>1. u \notin {t} BY <1>3
        <5> QED BY <4>1, <5>1, FS_AddElement
      <4>3. {t, u} = {t} \cup {u} OBVIOUS
      <4>4. Cardinality({t}) + 1 = 2 BY <4>1
      <4> QED BY <4>2, <4>3, <4>4
    <3>3. Cardinality({t, u}) <= Cardinality(active)
      <4>1. {t, u} \in SUBSET active BY <1>1, <2>2
      <4> QED BY <3>1, <4>1, FS_Subset
    <3> QED BY <2>1, <2>3, <3>1, <3>2, <3>3
  <2>4. CASE LeasesConflict(t, u) BY <1>1, <1>3, <2>1, <2>2, <2>4 DEF Apart
  <2> QED BY <1>3, <2>3, <2>4 DEF OneRuntimePerChat
<1>4. ASSUME NEW u \in Tasks, u # t PROVE IsCurrent(u)' <=> IsCurrent(u)
  BY <1>1, <1>2, <1>3, <1>4 DEF IsCurrent
<1>5. IsCurrent(t)' BY <1>1, <1>2 DEF IsCurrent
<1>6. t \notin closing BY <1>1 DEF RuntimesInv
<1> QED BY <1>1, <1>4, <1>5, <1>6, RuntimesFrame DEF schedulerVars, Waits, LetGo, Members

LEMMA RejectedRuntime ==
  ASSUME SupervisorInv, RuntimesInv, NEW t \in Tasks, LaunchRejected(t)
  PROVE  RuntimesInv'
<1>1. /\ child[t] = "none" /\ StartRejected(t) /\ Settle({t})
      /\ UNCHANGED <<call, child, current, closing>>
      /\ FinishPending(t, "failed", "failed")
  BY DEF LaunchRejected, LetGo, LaunchFailed
<1>2. ~IsCurrent(t) BY <1>1 DEF SupervisorInv, OutcomeInv
<1>3. turn \in [Tasks -> {"absent"} \cup Open \cup Terminal] BY DEF SupervisorInv, TypeOK
<1>4. \A u \in Tasks : u # t => turn'[u] = turn[u]
  BY <1>1, <1>3 DEF FinishPending, SetStatus
<1>5. turn'[t] \notin Open BY <1>1, <1>3 DEF FinishPending, SetStatus, Open, Terminal
<1>6. /\ active \ {t} \subseteq active'
      /\ \A u \in Tasks : u # t /\ Waits(u) => Waits(u)'
  BY <1>1, OthersWait
<1>7. \A u \in Tasks : IsCurrent(u)' <=> IsCurrent(u) BY <1>1 DEF IsCurrent
<1> QED BY <1>1, <1>2, <1>4, <1>5, <1>6, <1>7, RuntimesFrame DEF RuntimesInv, Alive, Working

(* Steps of the call for a turn.                                           *)
LEMMA CallRuntime ==
  ASSUME SupervisorInv, RuntimesInv, NEW t \in Tasks, StartStep(t)
  PROVE  RuntimesInv'
<1>1. /\ turn \in [Tasks -> {"absent"} \cup Open \cup Terminal]
      /\ call \in [Tasks -> {"none", "configuring", "baselining", "leasing", "returned"}]
  BY DEF SupervisorInv, TypeOK
<1>2. call[t] # "returned" /\ UNCHANGED <<child, current, closing>>
  BY DEF StartStep, CallStartTurn, ConfigurationFails, CreateTurn, Prepare, LeaseFails,
         LeaseResolved, maps
<1>3. child[t] = "none" /\ ~IsCurrent(t)
  BY <1>2 DEF SupervisorInv, LeaseInv, OutcomeInv
<1>4. \A u \in Tasks : IsCurrent(u)' <=> IsCurrent(u) BY <1>2 DEF IsCurrent
<1>5. \A u \in Tasks : u # t => call'[u] = call[u] /\ turn'[u] = turn[u]
  BY <1>1 DEF StartStep, CallStartTurn, ConfigurationFails, CreateTurn, Prepare, LeaseFails,
         LeaseResolved, Goes, SetStatus, StartThrows, rows
<1>6. call[t] \in {"none", "configuring"} => turn[t] = "absent"
  BY DEF SupervisorInv, OutcomeInv
<1>7. CASE UNCHANGED schedulerVars
  <2>1. active' = active /\ \A u \in Tasks : Waits(u) => Waits(u)'
    BY <1>2, <1>7 DEF schedulerVars, Waits, LetGo, Members
  <2>2. turn'[t] \in Open => call'[t] \in {"baselining", "leasing"}
    <3>1. CASE CallStartTurn(t) \/ ConfigurationFails(t)
      BY <1>6, <3>1 DEF CallStartTurn, ConfigurationFails, rows, Open
    <3>2. CASE CreateTurn(t) BY <1>1, <3>2 DEF CreateTurn, Goes
    <3>3. CASE Prepare(t)
      BY <1>1, <3>3 DEF Prepare, Goes, StartThrows, SetStatus, Open
    <3>4. CASE LeaseFails(t) BY <1>1, <3>4 DEF LeaseFails, StartThrows, SetStatus, Open
    <3>5. CASE LeaseResolved(t)
      <4>1. ~Enqueue(t)
        <5>1. SUFFICES ASSUME Enqueue(t) PROVE FALSE OBVIOUS
        <5>2. Drained(queue, active) BY DEF SupervisorInv, LeaseInv
        <5>3. ~Scheduled(t) BY <5>1 DEF Enqueue, MayEnqueue
        <5>4. Undrained(Append(queue, t), active) BY <5>2, <5>3, AppendUndrained
        <5>5. Members(Append(queue, t)) \subseteq Members(queue') \cup active'
          BY <5>1, <5>4, DrainLosesNobody DEF Enqueue
        <5>6. queue \in Seq(Tasks) BY <5>2 DEF Drained, Undrained
        <5>7. t \in Members(Append(queue, t))
          <6>1. Len(queue) + 1 \in DOMAIN Append(queue, t) /\ Append(queue, t)[Len(queue) + 1] = t
            BY <5>6
          <6> QED BY <6>1 DEF Members
        <5>8. Members(queue') = Members(queue) /\ active' = active
          BY <1>7 DEF schedulerVars, Members
        <5> QED BY <5>3, <5>5, <5>7, <5>8 DEF Scheduled
      <4> QED BY <1>1, <3>5, <4>1 DEF LeaseResolved, StartThrows, SetStatus, Open
    <3> QED BY <3>1, <3>2, <3>3, <3>4, <3>5 DEF StartStep
  <2> QED BY <1>2, <1>3, <1>4, <1>5, <2>1, <2>2, RuntimesFrame DEF RuntimesInv, Alive, Working
<1>8. CASE Enqueue(t) /\ Settle({})
  <2>1. /\ active \ {t} \subseteq active'
        /\ \A u \in Tasks : u # t /\ Waits(u) => Waits(u)'
        /\ Waits(t)'
    BY <1>2, <1>3, <1>8, OthersWait
  <2> QED BY <1>2, <1>3, <1>4, <1>5, <2>1, RuntimesFrame DEF RuntimesInv, Alive, Working
<1> QED BY <1>7, <1>8
        DEF StartStep, CallStartTurn, ConfigurationFails, CreateTurn, Prepare, LeaseFails,
            LeaseResolved

(* The runtime of a chat finishes.                                         *)
LEMMA FinishRuntime ==
  ASSUME SupervisorInv, RuntimesInv, NEW t \in Tasks, NEW s \in Terminal,
         IsCurrent(t), Finish(t, s), UNCHANGED call,
         \A u \in Tasks : u # t => child'[u] = child[u],
         child'[t] # "none",
         active \ {t} \subseteq active',
         \A u \in Tasks : u # t /\ Waits(u) => Waits(u)'
  PROVE  RuntimesInv'
<1>1. /\ turn' = [turn EXCEPT ![t] = s]
      /\ closing' = closing \cup {t}
      /\ current' = [current EXCEPT ![ThreadOf[t]] = NoTurn]
  BY DEF Finish, SetStatus
<1>2. /\ turn \in [Tasks -> {"absent"} \cup Open \cup Terminal]
      /\ current \in [Threads -> Tasks \cup {NoTurn}]
      /\ NoTurn \notin Tasks /\ \A u \in Tasks : ThreadOf[u] \in Threads
  BY SupervisorAssumption DEF SupervisorInv, TypeOK
<1>3. ~IsCurrent(t)' /\ \A u \in Tasks : u # t => (IsCurrent(u)' <=> IsCurrent(u))
  BY <1>1, <1>2 DEF IsCurrent
<1>4. turn'[t] \notin Open /\ \A u \in Tasks : u # t => turn'[u] = turn[u]
  BY <1>1, <1>2 DEF Open, Terminal
<1> QED BY <1>1, <1>3, <1>4, RuntimesFrame

(* An event that neither schedules nor finishes.                           *)
LEMMA EventRuntime ==
  ASSUME SupervisorInv, RuntimesInv, NEW t \in Tasks,
         UNCHANGED <<schedulerVars, call, current, closing>>,
         \A u \in Tasks : u # t => child'[u] = child[u] /\ turn'[u] = turn[u],
         child'[t] \in Alive => child[t] \in Alive,
         child'[t] = "none" <=> child[t] = "none",
         turn'[t] \in Open => turn[t] \in Open \/ IsCurrent(t)
  PROVE  RuntimesInv'
<1>1. \A u \in Tasks : (IsCurrent(u)' <=> IsCurrent(u)) /\ (Waits(u) => Waits(u)')
  BY DEF schedulerVars, IsCurrent, Waits, LetGo, Members
<1>2. active' = active BY DEF schedulerVars
<1>3. turn[t] \in Open => call[t] \in {"baselining", "leasing"} \/ Waits(t) \/ IsCurrent(t)
  BY DEF RuntimesInv, NoGhostTurn, Waits
<1>4. child[t] \in Alive => IsCurrent(t) \/ t \in closing
  BY DEF RuntimesInv, NoOrphanRuntime
<1> QED BY <1>1, <1>2, <1>3, <1>4, RuntimesFrame DEF RuntimesInv

LEMMA TimeoutRuntime ==
  ASSUME SupervisorInv, RuntimesInv, NEW t \in Tasks, ReadinessTimeout(t)
  PROVE  RuntimesInv'
<1>1. /\ child[t] \in {"forked", "exited"} /\ StartRejected(t) /\ Settle({t})
      /\ UNCHANGED <<call, child>>
  BY DEF ReadinessTimeout
<1>2. /\ active \ {t} \subseteq active'
      /\ \A u \in Tasks : u # t /\ Waits(u) => Waits(u)'
  BY <1>1, OthersWait
<1>3. turn \in [Tasks -> {"absent"} \cup Open \cup Terminal] BY DEF SupervisorInv, TypeOK
<1>4. t \notin Members(queue) BY <1>1 DEF SupervisorInv, LeaseInv
<1>5. call[t] = "returned" BY <1>1 DEF SupervisorInv, LeaseInv
<1>6. CASE t \in active /\ IsCurrent(t)
  <2>1. Finish(t, "interrupted") BY <1>6 DEF ReadinessTimeout
  <2> QED BY <1>1, <1>2, <1>6, <2>1, FinishRuntime DEF Terminal
<1>7. CASE t \in active /\ ~IsCurrent(t)
  <2>1. FinishPending(t, "failed", "failed") /\ UNCHANGED <<current, closing>>
    BY <1>7 DEF ReadinessTimeout, LaunchFailed
  <2>2. turn'[t] \notin Open /\ \A u \in Tasks : u # t => turn'[u] = turn[u]
    BY <1>3, <2>1 DEF FinishPending, SetStatus, Open, Terminal
  <2>3. \A u \in Tasks : IsCurrent(u)' <=> IsCurrent(u) BY <2>1 DEF IsCurrent
  <2>4. child[t] \in Alive => t \in closing BY <1>7 DEF RuntimesInv, NoOrphanRuntime
  <2> QED BY <1>1, <1>2, <1>7, <2>1, <2>2, <2>3, <2>4, RuntimesFrame DEF RuntimesInv
<1>8. CASE t \notin active
  <2>1. UNCHANGED <<turn, current, closing>> BY <1>8 DEF ReadinessTimeout, rows, maps
  <2>2. \A u \in Tasks : IsCurrent(u)' <=> IsCurrent(u) BY <2>1 DEF IsCurrent
  <2>3. ~IsCurrent(t) /\ ~Waits(t) BY <1>1, <1>4, <1>8 DEF RuntimesInv, Waits, LetGo
  <2>4. turn[t] \notin Open BY <1>5, <2>3 DEF RuntimesInv, NoGhostTurn, Waits
  <2>5. child[t] \in Alive => t \in closing BY <2>3 DEF RuntimesInv, NoOrphanRuntime
  <2> QED BY <1>1, <1>2, <2>1, <2>2, <2>3, <2>4, <2>5, RuntimesFrame DEF RuntimesInv
<1> QED BY <1>6, <1>7, <1>8

LEMMA ExitRuntime ==
  ASSUME SupervisorInv, RuntimesInv, NEW t \in Tasks, ChildExits(t)
  PROVE  RuntimesInv'
<1>1. /\ child[t] \in Alive
      /\ child'[t] = "exited"
      /\ \A u \in Tasks : u # t => child'[u] = child[u]
      /\ UNCHANGED call
  BY DEF ChildExits, ChildGoes, SupervisorInv, TypeOK
<1>2. FreeLease(t) \/ UNCHANGED schedulerVars BY DEF ChildExits
<1>3. /\ active \ {t} \subseteq active'
      /\ \A u \in Tasks : u # t /\ Waits(u) => Waits(u)'
  <2>1. CASE UNCHANGED schedulerVars
    BY <1>1, <2>1 DEF schedulerVars, Waits, LetGo, Members
  <2>2. CASE Release(t) /\ Settle({}) BY <1>1, <2>2, OthersWait
  <2> QED BY <1>2, <2>1, <2>2 DEF FreeLease
<1>4. child[t] # "none" BY <1>1 DEF Alive, Working
<1>5. call[t] = "returned" /\ ~Waits(t)
  BY <1>4 DEF SupervisorInv, LeaseInv, Waits, LetGo
<1>6. CASE t \in closing
  <2>1. UNCHANGED <<turn, current, closing>> BY <1>6 DEF ChildExits, rows
  <2>2. ~IsCurrent(t) BY <1>6 DEF RuntimesInv
  <2>3. turn[t] \notin Open BY <1>5, <2>2 DEF RuntimesInv, NoGhostTurn, Waits
  <2>4. \A u \in Tasks : IsCurrent(u)' <=> IsCurrent(u) BY <2>1 DEF IsCurrent
  <2> QED BY <1>1, <1>3, <1>6, <2>1, <2>2, <2>3, <2>4, RuntimesFrame DEF RuntimesInv, Alive, Working
<1>7. CASE t \notin closing
  <2>1. IsCurrent(t) BY <1>1, <1>7 DEF RuntimesInv, NoOrphanRuntime
  <2>2. Finish(t, "interrupted") BY <1>7, <2>1 DEF ChildExits
  <2> QED BY <1>1, <1>3, <2>1, <2>2, FinishRuntime DEF Terminal
<1> QED BY <1>6, <1>7

LEMMA EventsRuntime ==
  ASSUME SupervisorInv, RuntimesInv, NEW t \in Tasks, ChildEvent(t)
  PROVE  RuntimesInv'
<1>1. /\ child \in [Tasks -> Alive \cup {"none", "exited"}]
      /\ turn \in [Tasks -> {"absent"} \cup Open \cup Terminal]
  BY DEF SupervisorInv, TypeOK
<1>2. \A u \in Tasks : Waits(u) /\ UNCHANGED schedulerVars /\ child'[u] = child[u] => Waits(u)'
  BY DEF schedulerVars, Waits, LetGo, Members
<1>3. CASE Ready(t)
  <2>1. /\ child[t] = "forked" /\ child'[t] = "started"
        /\ starting' = starting \ {t}
        /\ UNCHANGED <<queue, active, turn, current, closing, call>>
        /\ \A u \in Tasks : u # t => child'[u] = child[u]
    BY <1>1, <1>3 DEF Ready, rows, maps
  <2>2. \A u \in Tasks : u # t /\ Waits(u) => Waits(u)' BY <2>1 DEF Waits, LetGo, Members
  <2>3. \A u \in Tasks : IsCurrent(u)' <=> IsCurrent(u) BY <2>1 DEF IsCurrent
  <2>4. call[t] = "returned" /\ ~Waits(t) BY <2>1 DEF SupervisorInv, LeaseInv, Waits, LetGo
  <2>5. turn[t] \in Open => IsCurrent(t) BY <2>4 DEF RuntimesInv, NoGhostTurn, Waits
  <2>6. IsCurrent(t) \/ t \in closing BY <2>1 DEF RuntimesInv, NoOrphanRuntime, Alive
  <2> QED BY <2>1, <2>2, <2>3, <2>5, <2>6, RuntimesFrame DEF RuntimesInv
<1>4. CASE ReadinessTimeout(t) BY <1>4, TimeoutRuntime
<1>5. CASE ChildExits(t) BY <1>5, ExitRuntime
<1>6. CASE RunBegins(t)
  BY <1>1, <1>6, EventRuntime DEF RunBegins, ChildGoes, SetStatus, maps, Alive, Working
<1>7. CASE AskApproval(t)
  BY <1>1, <1>7, EventRuntime DEF AskApproval, ChildGoes, maps, Alive, Working
<1>8. CASE AwaitApproval(t)
  BY <1>1, <1>8, EventRuntime DEF AwaitApproval, ChildGoes, SetStatus, maps, Alive, Working
<1>9. ASSUME NEW s \in {"completed", "failed", "cancelled"}, RunEnds(t, s) PROVE RuntimesInv'
  <2>1. /\ child[t] = "running" /\ child'[t] = "ended"
        /\ \A u \in Tasks : u # t => child'[u] = child[u]
        /\ UNCHANGED <<schedulerVars, call>>
    BY <1>1, <1>9 DEF RunEnds, ChildGoes
  <2>2. CASE IsCurrent(t)
    <3>1. Finish(t, s) BY <1>9, <2>2 DEF RunEnds
    <3>2. active' = active BY <2>1 DEF schedulerVars
    <3> QED BY <1>2, <2>1, <2>2, <3>1, <3>2, FinishRuntime DEF Terminal
  <2>3. CASE ~IsCurrent(t)
    <3>1. UNCHANGED <<turn, current, closing>> BY <1>9, <2>3 DEF RunEnds, rows
    <3> QED BY <2>1, <3>1, EventRuntime DEF Alive, Working
  <2> QED BY <2>2, <2>3
<1>10. CASE Crashes(t)
  <2>1. /\ child[t] \in Alive /\ IsCurrent(t) /\ Finish(t, "interrupted")
        /\ UNCHANGED <<schedulerVars, call, child>>
    BY <1>10 DEF Crashes
  <2>2. child'[t] # "none" BY <2>1 DEF Alive, Working
  <2>3. active' = active BY <2>1 DEF schedulerVars
  <2> QED BY <1>2, <2>1, <2>2, <2>3, FinishRuntime DEF Terminal
<1>11. CASE SessionFails(t)
  BY <1>1, <1>11, EventRuntime DEF SessionFails, ChildGoes, rows, maps, Alive, Working
<1> QED BY <1>3, <1>4, <1>5, <1>6, <1>7, <1>8, <1>9, <1>10, <1>11 DEF ChildEvent

LEMMA UserRuntime ==
  ASSUME SupervisorInv, RuntimesInv, NEW t \in Tasks, UserOrTimer(t)
  PROVE  RuntimesInv'
<1>1. turn \in [Tasks -> {"absent"} \cup Open \cup Terminal] BY DEF SupervisorInv, TypeOK
<1>2. \A u \in Tasks : Waits(u) /\ UNCHANGED <<schedulerVars, child>> => Waits(u)'
  BY DEF schedulerVars, Waits, LetGo, Members
<1>3. ASSUME NEW d, Decide(t, d) PROVE RuntimesInv'
  BY <1>1, <1>3, EventRuntime DEF Decide, SetStatus, maps
<1>4. CASE StopActive(t) BY <1>4, EventRuntime DEF StopActive, maps
<1>5. CASE StopTimer(t)
  <2>1. UNCHANGED <<schedulerVars, call, child>> BY <1>5 DEF StopTimer
  <2>2. CASE IsCurrent(t)
    <3>1. Finish(t, "cancelled") BY <1>5, <2>2 DEF StopTimer
    <3>2. child[t] # "none" BY <2>2 DEF SupervisorInv, OutcomeInv
    <3>3. active' = active BY <2>1 DEF schedulerVars
    <3> QED BY <1>2, <2>1, <2>2, <3>1, <3>2, <3>3, FinishRuntime DEF Terminal
  <2>3. CASE ~IsCurrent(t)
    <3>1. UNCHANGED <<turn, current, closing>> BY <1>5, <2>3 DEF StopTimer, rows
    <3> QED BY <2>1, <3>1, EventRuntime
  <2> QED BY <2>2, <2>3
<1>6. CASE StopQueued(t)
  <2>1. /\ pending[ThreadOf[t]] = t
        /\ FinishPending(t, "cancelled", "idle")
        /\ UNCHANGED <<current, closing, call, child>>
        /\ (Cancel(t) /\ Settle({})) \/ UNCHANGED schedulerVars
    BY <1>6 DEF StopQueued
  <2>2. turn'[t] \notin Open /\ \A u \in Tasks : u # t => turn'[u] = turn[u]
    BY <1>1, <2>1 DEF FinishPending, SetStatus, Open, Terminal
  <2>3. /\ active \ {t} \subseteq active'
        /\ \A u \in Tasks : u # t /\ Waits(u) => Waits(u)'
    BY <1>2, <2>1, OthersWait DEF schedulerVars
  <2>4. \A u \in Tasks : IsCurrent(u)' <=> IsCurrent(u) BY <2>1 DEF IsCurrent
  <2>5. child[t] = "none" /\ ~IsCurrent(t) BY <2>1 DEF SupervisorInv, OutcomeInv
  <2> QED BY <2>1, <2>2, <2>3, <2>4, <2>5, RuntimesFrame DEF RuntimesInv, Alive, Working
<1> QED BY <1>3, <1>4, <1>5, <1>6 DEF UserOrTimer

LEMMA RuntimesStart == Init => RuntimesInv
<1> SUFFICES ASSUME Init PROVE RuntimesInv OBVIOUS
<1>1. /\ NoTurn \notin Tasks
      /\ \A t \in Tasks : ThreadOf[t] \in Threads
  BY SupervisorAssumption
<1> QED BY <1>1 DEF Init, RuntimesInv, NoOrphanRuntime, NoGhostTurn, IsCurrent, Alive, Working, Open

LEMMA RuntimesStep ==
  ASSUME OneRuntimePerChat, SupervisorInv, RuntimesInv, [Next]_vars
  PROVE  RuntimesInv'
<1>1. ASSUME NEW t \in Tasks, Microtask(t) PROVE RuntimesInv'
  BY <1>1, LaunchRuntime, RejectedRuntime DEF Microtask
<1>2. ASSUME NEW t \in Tasks, StartStep(t) \/ ChildEvent(t) \/ UserOrTimer(t) PROVE RuntimesInv'
  BY <1>2, CallRuntime, EventsRuntime, UserRuntime
<1>3. ASSUME UNCHANGED <<schedulerVars, turn, call, child, current, closing>> PROVE RuntimesInv'
  BY <1>3 DEF RuntimesInv, NoOrphanRuntime, NoGhostTurn, IsCurrent, LetGo, Members, schedulerVars
<1>4. ASSUME NEW h \in Threads, Continue(h) \/ CompactBegins(h) \/ CompactEnds(h)
      PROVE  RuntimesInv'
  BY <1>3, <1>4 DEF Continue, CompactBegins, CompactEnds, rows, maps
<1>5. CASE Restart
  <2>1. /\ \A t \in Tasks : ThreadOf[t] \in Threads
        /\ NoTurn \notin Tasks
        /\ turn \in [Tasks -> {"absent"} \cup Open \cup Terminal]
    BY SupervisorAssumption DEF SupervisorInv, TypeOK
  <2>2. \A t \in Tasks : /\ ~IsCurrent(t)'
                         /\ child'[t] \notin Alive
                         /\ turn'[t] \notin Open
    BY <1>5, <2>1 DEF Restart, IsCurrent, Alive, Working, Cut, Open
  <2>3. closing' = {} BY <1>5 DEF Restart
  <2> QED BY <2>2, <2>3 DEF RuntimesInv, NoOrphanRuntime, NoGhostTurn
<1>6. CASE UNCHANGED vars BY <1>3, <1>6 DEF vars, rows, maps
<1> QED BY <1>1, <1>2, <1>4, <1>5, <1>6 DEF Next

THEOREM RuntimesCorrect == OneRuntimePerChat => (Spec => [](SupervisorInv /\ RuntimesInv))
<1> SUFFICES ASSUME OneRuntimePerChat PROVE Spec => [](SupervisorInv /\ RuntimesInv) OBVIOUS
<1>1. Init => SupervisorInv /\ RuntimesInv BY SupervisorStarts, RuntimesStart
<1>2. SupervisorInv /\ RuntimesInv /\ [Next]_vars => SupervisorInv' /\ RuntimesInv'
  BY SupervisorSteps, RuntimesStep
<1> QED BY <1>1, <1>2, PTL DEF Spec

(* No process is left behind: each that lives is the runtime of its chat   *)
(* or has been told to end (launch() and finish() of                       *)
(* runtime-supervisor.ts), if only one turn of a chat is let through.      *)
THEOREM NoRuntimeLost == OneRuntimePerChat => (Spec => []NoOrphanRuntime)
<1> SUFFICES ASSUME OneRuntimePerChat PROVE Spec => []NoOrphanRuntime OBVIOUS
<1>1. RuntimesInv => NoOrphanRuntime BY DEF RuntimesInv
<1> QED BY <1>1, RuntimesCorrect, PTL

(* No turn is forgotten: one that is not over is with its start() call, in *)
(* the queue, about to be launched, or the runtime of its chat.            *)
THEOREM NoTurnForgotten == OneRuntimePerChat => (Spec => []NoGhostTurn)
<1> SUFFICES ASSUME OneRuntimePerChat PROVE Spec => []NoGhostTurn OBVIOUS
<1>1. RuntimesInv => NoGhostTurn BY DEF RuntimesInv
<1> QED BY <1>1, RuntimesCorrect, PTL

-----------------------------------------------------------------------------
(* The supervisor calls the scheduler as the scheduler expects it, until   *)
(* the application restarts: it enqueues a turn only when no start() of it *)
(* is under way, and releases only what is held.                           *)
LEMMA SupervisorCallsScheduler ==
  ASSUME ~Restarts, SupervisorInv, [Next]_vars
  PROVE  [SchedulerNext]_schedulerVars
<1>1. ASSUME NEW t \in Tasks, Microtask(t) PROVE [SchedulerNext]_schedulerVars
  <2>1. CASE Launch(t) BY <2>1 DEF Launch
  <2>2. CASE LaunchRejected(t)
    <3>1. t \in starting /\ StartRejected(t) /\ starting' = (starting \ {t}) \cup (active' \ active)
      BY <2>2 DEF LaunchRejected, LetGo, Settle
    <3> QED BY <3>1 DEF SchedulerNext
  <2> QED BY <1>1, <2>1, <2>2 DEF Microtask
<1>2. ASSUME NEW t \in Tasks, StartStep(t) PROVE [SchedulerNext]_schedulerVars
  <2>1. CASE LeaseResolved(t)
    <3>1. call[t] = "leasing" BY <2>1 DEF LeaseResolved
    <3>2. t \notin starting BY <3>1 DEF SupervisorInv, LeaseInv
    <3>3. UNCHANGED schedulerVars \/ (Enqueue(t) /\ CallStart)
      BY <2>1 DEF LeaseResolved, Settle, CallStart
    <3> QED BY <3>2, <3>3 DEF SchedulerNext
  <2>2. UNCHANGED schedulerVars \/ LeaseResolved(t)
    BY <1>2 DEF StartStep, CallStartTurn, ConfigurationFails, CreateTurn, Prepare, LeaseFails
  <2> QED BY <2>1, <2>2
<1>3. ASSUME NEW t \in Tasks, ChildEvent(t) PROVE [SchedulerNext]_schedulerVars
  <2>1. CASE Ready(t)
    <3>1. t \in starting /\ starting' = starting \ {t} /\ UNCHANGED <<queue, active>>
      BY <2>1 DEF Ready
    <3> QED BY <3>1 DEF SchedulerNext
  <2>2. CASE ReadinessTimeout(t)
    <3>1. t \in starting BY <2>2 DEF ReadinessTimeout
    <3>2. StartRejected(t) BY <2>2 DEF ReadinessTimeout
    <3>3. Settle({t}) BY <2>2 DEF ReadinessTimeout
    <3> QED BY <3>1, <3>2, <3>3 DEF SchedulerNext, Settle
  <2>3. CASE ChildExits(t)
    <3>1. FreeLease(t) \/ UNCHANGED schedulerVars BY <2>3 DEF ChildExits
    <3>2. Settle({}) => CallStart BY DEF Settle, CallStart
    <3>3. UNCHANGED schedulerVars \/ (Release(t) /\ CallStart) BY <3>1, <3>2 DEF FreeLease
    <3> QED BY <3>3 DEF SchedulerNext
  <2>4. CASE RunBegins(t) \/ AskApproval(t) \/ AwaitApproval(t) \/ Crashes(t) \/ SessionFails(t)
    BY <2>4 DEF RunBegins, AskApproval, AwaitApproval, Crashes, SessionFails
  <2>5. CASE \E status : RunEnds(t, status) BY <2>5 DEF RunEnds
  <2> QED BY <1>3, <2>1, <2>2, <2>3, <2>4, <2>5 DEF ChildEvent
<1>4. ASSUME NEW t \in Tasks, UserOrTimer(t) PROVE [SchedulerNext]_schedulerVars
  <2>1. CASE StopQueued(t)
    <3>1. Settle({}) => CallStart BY DEF Settle, CallStart
    <3>2. UNCHANGED schedulerVars \/ (Cancel(t) /\ CallStart) BY <2>1, <3>1 DEF StopQueued
    <3> QED BY <3>2 DEF SchedulerNext
  <2>2. CASE \E decision : Decide(t, decision) BY <2>2 DEF Decide
  <2>3. CASE StopActive(t) \/ StopTimer(t) BY <2>3 DEF StopActive, StopTimer
  <2> QED BY <1>4, <2>1, <2>2, <2>3 DEF UserOrTimer
<1>5. ASSUME NEW h \in Threads, Continue(h) \/ CompactBegins(h) \/ CompactEnds(h)
      PROVE  [SchedulerNext]_schedulerVars
  BY <1>5 DEF Continue, CompactBegins, CompactEnds
<1>6. ~Restart BY DEF Restart
<1>7. CASE UNCHANGED vars BY <1>7 DEF vars
<1> QED BY <1>1, <1>2, <1>3, <1>4, <1>5, <1>6, <1>7 DEF Next

THEOREM SupervisorUsesScheduler == ~Restarts => (Spec => SchedulerSpec)
<1> SUFFICES ASSUME ~Restarts PROVE Spec => SchedulerSpec OBVIOUS
<1>1. Init => SchedulerInit BY DEF Init
<1>2. SupervisorInv /\ [Next]_vars => [SchedulerNext]_schedulerVars
  BY SupervisorCallsScheduler
<1> QED BY <1>1, <1>2, SupervisorCorrect, PTL DEF Spec, SchedulerSpec

(* So the turns of the composed system hold their leases as the abstract   *)
(* specification grants them.                                              *)
THEOREM SupervisorImplementsLeases == ~Restarts => (Spec => ImplementsLeases)
<1> QED BY SupervisorUsesScheduler, SchedulerImplementsLeases

-----------------------------------------------------------------------------
(* Operations.  The front of the queue stays when others are taken out.    *)
LEMMA FrontStays ==
  ASSUME NEW T, NEW q \in Seq(T), q # <<>>, NEW S, Head(q) \notin S
  PROVE  Without(q, S) # <<>> /\ Head(Without(q, S)) = Head(q)
<1> DEFINE K == Kept(q, S)
           c == Cardinality(K)
           r == Without(q, S)
<1>1. PICK at \in [1 .. c -> K] :
        /\ r \in Seq(T)
        /\ Len(r) = c
        /\ \A m \in 1 .. c : r[m] = q[at[m]]
        /\ \A m, k \in 1 .. c : m < k => at[m] < at[k]
        /\ \A i \in K : \E m \in 1 .. c : at[m] = i
  BY WithoutKeeps
<1>2. Len(q) \in Nat /\ Len(q) # 0 /\ DOMAIN q = 1 .. Len(q) /\ Head(q) = q[1] OBVIOUS
<1>3. 1 \in K /\ \A i \in K : i \in 1 .. Len(q) BY <1>2 DEF Kept
<1> HIDE DEF K, c, r
<1>4. PICK m \in 1 .. c : at[m] = 1 BY <1>1, <1>3
<1>5. c \in Nat /\ DOMAIN r = 1 .. c BY <1>1
<1>6. 1 \in 1 .. c /\ m \in Int BY <1>4, <1>5
<1>7. ~(1 < m)
  <2>1. 1 < m => at[1] < at[m] BY <1>1, <1>4, <1>6
  <2>2. at[1] \in 1 .. Len(q) BY <1>1, <1>3, <1>6
  <2> QED BY <1>2, <1>4, <2>1, <2>2
<1>8. m = 1 BY <1>4, <1>5, <1>6, <1>7
<1>9. r[1] = q[1] BY <1>1, <1>4, <1>6, <1>8
<1> QED BY <1>1, <1>2, <1>5, <1>6, <1>9 DEF r

(* Of an operation: its approval is there to be used until it begins, and  *)
(* it has begun once if it has; those of processes queue, each once, and   *)
(* only the one in front has begun.                                        *)
OperationsInv ==
  /\ grant \in [Ops -> {"none", "pending", "allowed", "denied", "consumed"}]
  /\ op \in [Ops -> {"none", "queued", "executing", "over"}]
  /\ runs \in [Ops -> Nat]
  /\ line \in Seq(Ops)
  /\ Once(line)
  /\ \A o \in Ops :
       /\ grant[o] # "consumed" => op[o] = "none"
       /\ op[o] \in {"none", "queued"} => runs[o] = 0
       /\ op[o] \in {"executing", "over"} => runs[o] = 1
       /\ o \in Members(line) <=> o \in ByProcess /\ op[o] \in {"queued", "executing"}
       /\ o \in ByProcess /\ op[o] = "executing" => Head(line) = o

OperationsFull == SupervisorInv /\ OperationsInv

(* Each step of the composition is one of the supervisor or none.          *)
LEMMA OperationsFollow == [OpsNext]_allVars => [Next]_vars
<1> SUFFICES ASSUME [OpsNext]_allVars PROVE [Next]_vars OBVIOUS
<1>1. ASSUME NEW o \in Ops, OpStep(o) PROVE [Next]_vars
  <2>1. CASE Propose(o)
    <3>1. TurnOf[o] \in Tasks /\ AskApproval(TurnOf[o]) /\ Quiet
      BY <1>1, <2>1, OperationsAssumption DEF Propose, OpStep
    <3> QED BY <3>1 DEF Next, ChildEvent
  <2>2. Propose(o) \/ UNCHANGED vars
    BY <1>1 DEF OpStep, Request, TurnComes, Ends, CancelRequest
  <2> QED BY <2>1, <2>2
<1>2. CASE UNCHANGED allVars BY <1>2 DEF allVars
<1> QED BY <1>1, <1>2 DEF OpsNext

THEOREM OperationsUseSupervisor == OpsSpec => Spec
<1>1. OpsInit => Init BY DEF OpsInit
<1> QED BY <1>1, OperationsFollow, PTL DEF OpsSpec, Spec

LEMMA OperationsStart == OpsInit => OperationsFull
<1> SUFFICES ASSUME OpsInit PROVE OperationsFull OBVIOUS
<1>1. SupervisorInv BY SupervisorStarts DEF OpsInit
<1>2. line = <<>> /\ line \in Seq(Ops) /\ DOMAIN line = {} BY DEF OpsInit
<1> QED BY <1>1, <1>2 DEF OpsInit, OperationsFull, OperationsInv, Once, Members

LEMMA OperationsSteps == OperationsFull /\ [OpsNext]_allVars => OperationsFull'
<1> SUFFICES ASSUME OperationsFull, [OpsNext]_allVars PROVE OperationsFull' OBVIOUS
<1>1. SupervisorInv' BY OperationsFollow, SupervisorSteps DEF OperationsFull
<1>2. OperationsInv BY DEF OperationsFull
<1>3. approval' \in [Tasks -> {"none", "pending", "allowed", "denied"}]
  BY <1>1 DEF SupervisorInv, TypeOK
<1>4. \A o \in Ops : TurnOf[o] \in Tasks BY OperationsAssumption
<1>5. line' = line => Once(line)' /\ Members(line)' = Members(line)
  BY <1>2 DEF OperationsInv, Once, Members
<1>6. ASSUME Follow PROVE OperationsInv' BY <1>2, <1>3, <1>4, <1>5, <1>6 DEF Follow, OperationsInv
<1>7. ASSUME NEW o \in Ops, Propose(o) PROVE OperationsInv'
  BY <1>2, <1>5, <1>7 DEF Propose, OperationsInv
<1>8. ASSUME NEW o \in Ops, Request(o) PROVE OperationsInv'
  <2>1. /\ grant[o] = "allowed" /\ op[o] = "none" /\ runs[o] = 0
        /\ grant' = [grant EXCEPT ![o] = "consumed"]
    BY <1>2, <1>8 DEF Request, OperationsInv
  <2>2. CASE o \in ByProcess
    <3>1. /\ line' = Append(line, o)
          /\ op' = [op EXCEPT ![o] = "queued"]
          /\ UNCHANGED runs
      BY <1>8, <2>2 DEF Request
    <3>2. line \in Seq(Ops) /\ Once(line) /\ o \notin Members(line)
      BY <1>2, <2>1 DEF OperationsInv
    <3>3. /\ line' \in Seq(Ops)
          /\ DOMAIN line' = 1 .. Len(line) + 1
          /\ Len(line) \in Nat
          /\ DOMAIN line = 1 .. Len(line)
          /\ \A i \in 1 .. Len(line) : line'[i] = line[i]
          /\ line'[Len(line) + 1] = o
      BY <3>1, <3>2
    <3>4. \A i \in DOMAIN line' : i \in 1 .. Len(line) \/ i = Len(line) + 1 BY <3>3
    <3>5. \A i \in 1 .. Len(line) : line[i] # o BY <3>2, <3>3 DEF Members
    <3>6. Once(line)'
      <4> SUFFICES ASSUME NEW i \in DOMAIN line', NEW j \in DOMAIN line', line'[i] = line'[j]
                   PROVE  i = j
        BY DEF Once
      <4>1. CASE i \in 1 .. Len(line) /\ j \in 1 .. Len(line) BY <3>2, <3>3, <4>1 DEF Once
      <4>2. CASE i \in 1 .. Len(line) /\ j = Len(line) + 1 BY <3>3, <3>5, <4>2
      <4>3. CASE i = Len(line) + 1 /\ j \in 1 .. Len(line) BY <3>3, <3>5, <4>3
      <4> QED BY <3>4, <4>1, <4>2, <4>3
    <3>7. Members(line)' = Members(line) \cup {o}
      <4>1. \A x : x \in Members(line)' => x \in Members(line) \cup {o}
        BY <3>3, <3>4 DEF Members
      <4>2. \A i \in 1 .. Len(line) : i \in DOMAIN line' BY <3>3
      <4>3. Len(line) + 1 \in DOMAIN line' BY <3>3
      <4>4. \A x : x \in Members(line) \cup {o} => x \in Members(line)'
        BY <3>3, <4>2, <4>3 DEF Members
      <4> QED BY <4>1, <4>4
    <3>8. \A p \in Ops : p \in ByProcess /\ op'[p] = "executing" => Head(line') = p
      <4> SUFFICES ASSUME NEW p \in Ops, p \in ByProcess, op'[p] = "executing"
                   PROVE  Head(line') = p
        OBVIOUS
      <4>1. op[p] = "executing" /\ p # o BY <1>2, <3>1 DEF OperationsInv
      <4>2. Head(line) = p /\ p \in Members(line) BY <1>2, <4>1 DEF OperationsInv
      <4>3. Len(line) # 0 BY <3>3, <4>2 DEF Members
      <4>4. 1 \in 1 .. Len(line) /\ Head(line) = line[1] BY <3>2, <3>3, <4>3
      <4>5. Head(line') = line'[1] BY <3>3
      <4> QED BY <3>3, <4>2, <4>4, <4>5
    <3> HIDE DEF Members
    <3> QED BY <1>2, <2>1, <2>2, <3>1, <3>3, <3>6, <3>7, <3>8 DEF OperationsInv
  <2>3. CASE o \notin ByProcess
    <3>1. /\ op' = [op EXCEPT ![o] = "executing"]
          /\ runs' = [runs EXCEPT ![o] = @ + 1]
          /\ UNCHANGED line
      BY <1>8, <2>3 DEF Request, Begin
    <3> QED BY <1>2, <1>5, <2>1, <2>3, <3>1 DEF OperationsInv
  <2> QED BY <2>2, <2>3
<1>9. ASSUME NEW o \in Ops, TurnComes(o) PROVE OperationsInv'
  <2>1. /\ op[o] = "queued" /\ Head(line) = o /\ UNCHANGED <<grant, line>>
        /\ op' = [op EXCEPT ![o] = "executing"]
        /\ runs' = [runs EXCEPT ![o] = @ + 1]
    BY <1>9 DEF TurnComes, Begin
  <2> QED BY <1>2, <1>5, <2>1 DEF OperationsInv
<1>10. ASSUME NEW o \in Ops, Ends(o) PROVE OperationsInv'
  <2>1. /\ op[o] = "executing" /\ UNCHANGED <<grant, runs>>
        /\ op' = [op EXCEPT ![o] = "over"]
        /\ line' = Without(line, {o})
    BY <1>10 DEF Ends
  <2>2. line \in Seq(Ops) /\ Once(line) BY <1>2 DEF OperationsInv
  <2>3. /\ line' \in Seq(Ops)
        /\ Once(line')
        /\ Members(line') = Members(line) \ {o}
    BY <2>1, <2>2, WithoutMembers
  <2>4. Once(line)' /\ Members(line)' = Members(line) \ {o} BY <2>3 DEF Once, Members
  <2>5. ASSUME NEW p \in Ops, p \in ByProcess, op'[p] = "executing" PROVE Head(line') = p
    <3>1. p # o /\ op[p] = "executing" BY <1>2, <2>1, <2>5 DEF OperationsInv
    <3>2. Head(line) = p /\ p \in Members(line) BY <1>2, <2>5, <3>1 DEF OperationsInv
    <3>3. line # <<>> BY <3>2 DEF Members
    <3> QED BY <2>1, <2>2, <3>1, <3>2, <3>3, FrontStays
  <2> QED BY <1>2, <2>1, <2>3, <2>4, <2>5 DEF OperationsInv
<1>11. ASSUME NEW o \in Ops, CancelRequest(o) PROVE OperationsInv'
  BY <1>2, <1>5, <1>11 DEF CancelRequest, OperationsInv
<1>12. ASSUME UNCHANGED allVars PROVE OperationsInv'
  BY <1>2, <1>5, <1>12 DEF allVars, opVars, OperationsInv
<1> QED BY <1>1, <1>6, <1>7, <1>8, <1>9, <1>10, <1>11, <1>12
        DEF OpsNext, OpStep, OperationsFull

THEOREM OperationsCorrect == OpsSpec => []OperationsFull
<1> QED BY OperationsStart, OperationsSteps, PTL DEF OpsSpec

(* "asks exactly once": an operation begins at most once, and only on an   *)
(* approval it has used up (operation-broker.ts, handleOperationRequest).  *)
THEOREM ApprovalsUsedOnce == OpsSpec => []AllowedOnce
<1>1. OperationsInv => AllowedOnce
  <2> SUFFICES ASSUME OperationsInv, NEW o \in Ops
               PROVE  runs[o] <= 1 /\ (op[o] # "none" => grant[o] = "consumed")
    BY DEF AllowedOnce
  <2>1. op[o] \in {"none", "queued", "executing", "over"} BY DEF OperationsInv
  <2>2. runs[o] = 0 \/ runs[o] = 1 BY <2>1 DEF OperationsInv
  <2> QED BY <2>2 DEF OperationsInv
<1> QED BY <1>1, OperationsCorrect, PTL DEF OperationsFull

(* serializeProcess(): processes run one at a time, in the order asked.    *)
THEOREM ProcessesOneByOne == OpsSpec => []OneProcess
<1>1. OperationsInv => OneProcess
  <2> SUFFICES ASSUME OperationsInv, NEW o \in Ops, o \in ByProcess, op[o] = "executing"
               PROVE  line # <<>> /\ Head(line) = o
    BY DEF OneProcess
  <2>1. o \in Members(line) BY DEF OperationsInv
  <2>2. line # <<>> BY <2>1 DEF Members
  <2> QED BY <2>2 DEF OperationsInv
<1> QED BY <1>1, OperationsCorrect, PTL DEF OperationsFull

(* No request is taken up for a turn that is over: only the current        *)
(* runtime of a chat is served, and its turn is open.                      *)
THEOREM NoLateRequests == OpsSpec => NoRequestAfterEnd
<1> DEFINE A == \A o \in Ops : op[o] = "none" /\ op'[o] # "none" => turn[TurnOf[o]] \in Open
<1>1. OperationsFull /\ [OpsNext]_allVars => [A]_allVars
  <2> SUFFICES ASSUME OperationsFull, [OpsNext]_allVars PROVE A \/ UNCHANGED allVars OBVIOUS
  <2>1. \A t \in Tasks : IsCurrent(t) => turn[t] \in Open
    BY DEF OperationsFull, SupervisorInv, OutcomeInv
  <2>2. \A o \in Ops : TurnOf[o] \in Tasks BY OperationsAssumption
  <2>3. op \in [Ops -> {"none", "queued", "executing", "over"}]
    BY DEF OperationsFull, OperationsInv
  <2>4. CASE Follow BY <2>4 DEF Follow
  <2>5. ASSUME NEW o \in Ops, OpStep(o) PROVE A
    <3>1. CASE Propose(o) \/ CancelRequest(o) BY <3>1 DEF Propose, CancelRequest
    <3>2. CASE Request(o)
      <4>1. turn[TurnOf[o]] \in Open BY <2>1, <2>2, <3>2 DEF Request
      <4>2. \A p \in Ops : p # o => op'[p] = op[p] BY <2>3, <3>2 DEF Request, Begin
      <4> QED BY <4>1, <4>2
    <3>3. CASE TurnComes(o) BY <2>3, <3>3 DEF TurnComes, Begin
    <3>4. CASE Ends(o) BY <2>3, <3>4 DEF Ends
    <3> QED BY <2>5, <3>1, <3>2, <3>3, <3>4 DEF OpStep
  <2> QED BY <2>4, <2>5 DEF OpsNext
<1>2. OpsSpec => [][A]_allVars BY <1>1, OperationsCorrect, PTL DEF OpsSpec
<1> QED BY <1>2 DEF NoRequestAfterEnd

(* An operation in progress that has not been aborted belongs to the       *)
(* runtime of a chat, at work on its turn.                                 *)
UnabortedInv ==
  \A o \in Ops : op[o] \in {"queued", "executing"} /\ o \notin aborted
    => IsCurrent(TurnOf[o]) /\ child[TurnOf[o]] \in Working

(* A runtime at work stays so until it is told to end.                     *)
LEMMA AtWorkUntilClosing ==
  ASSUME ~Restarts, OneRuntimePerChat, SupervisorInv, RuntimesInv, [Next]_vars,
         NEW t \in Tasks, IsCurrent(t), child[t] \in Working, t \notin closing'
  PROVE  IsCurrent(t)' /\ child'[t] \in Working
<1>1. child \in [Tasks -> Alive \cup {"none", "exited"}] BY DEF SupervisorInv, TypeOK
<1>2. ASSUME NEW u \in Tasks, Microtask(u) PROVE child'[t] \in Working
  BY <1>1, <1>2 DEF Microtask, Launch, LaunchRejected, LetGo, Working
<1>3. ASSUME NEW u \in Tasks, StartStep(u) PROVE child'[t] \in Working
  BY <1>3 DEF StartStep, CallStartTurn, ConfigurationFails, CreateTurn, Prepare, LeaseFails,
              LeaseResolved
<1>4. ASSUME NEW u \in Tasks, ChildEvent(u) PROVE child'[t] \in Working
  <2>1. CASE ChildExits(u)
    <3>1. u # t BY <2>1 DEF ChildExits, Finish
    <3> QED BY <1>1, <2>1, <3>1 DEF ChildExits, ChildGoes
  <2>2. CASE Ready(u) \/ ReadinessTimeout(u) \/ Crashes(u)
    BY <1>1, <2>2 DEF Ready, ReadinessTimeout, Crashes, Working
  <2>3. CASE RunBegins(u) \/ AskApproval(u) \/ AwaitApproval(u) \/ SessionFails(u)
    BY <1>1, <2>3 DEF RunBegins, AskApproval, AwaitApproval, SessionFails, ChildGoes, Working
  <2>4. CASE \E s : RunEnds(u, s) BY <1>1, <2>4 DEF RunEnds, ChildGoes, Working
  <2> QED BY <1>4, <2>1, <2>2, <2>3, <2>4 DEF ChildEvent
<1>5. ASSUME NEW u \in Tasks, UserOrTimer(u) PROVE child'[t] \in Working
  BY <1>5 DEF UserOrTimer, Decide, StopQueued, StopActive, StopTimer
<1>6. ASSUME NEW h \in Threads, Continue(h) \/ CompactBegins(h) \/ CompactEnds(h)
      PROVE  child'[t] \in Working
  BY <1>6 DEF Continue, CompactBegins, CompactEnds
<1>7. ~Restart BY DEF Restart
<1>8. ASSUME UNCHANGED vars PROVE child'[t] \in Working BY <1>8 DEF vars
<1>9. child'[t] \in Working BY <1>2, <1>3, <1>4, <1>5, <1>6, <1>7, <1>8 DEF Next
<1>10. NoOrphanRuntime' BY RuntimesStep DEF RuntimesInv
<1> QED BY <1>9, <1>10 DEF NoOrphanRuntime, Alive

LEMMA UnabortedSteps ==
  ASSUME ~Restarts, OneRuntimePerChat, OperationsFull, RuntimesInv, UnabortedInv,
         [OpsNext]_allVars
  PROVE  UnabortedInv'
<1>1. /\ op \in [Ops -> {"none", "queued", "executing", "over"}]
      /\ child \in [Tasks -> Alive \cup {"none", "exited"}]
      /\ \A o \in Ops : TurnOf[o] \in Tasks
  BY OperationsAssumption DEF OperationsFull, OperationsInv, SupervisorInv, TypeOK
<1>2. CASE Next /\ Follow
  <2> SUFFICES ASSUME NEW o \in Ops, op'[o] \in {"queued", "executing"}, o \notin aborted'
               PROVE  IsCurrent(TurnOf[o])' /\ child'[TurnOf[o]] \in Working
    BY DEF UnabortedInv, IsCurrent
  <2>1. op[o] \in {"queued", "executing"} /\ o \notin aborted BY <1>2 DEF Follow
  <2>2. IsCurrent(TurnOf[o]) /\ child[TurnOf[o]] \in Working BY <2>1 DEF UnabortedInv
  <2>3. TurnOf[o] \notin closing BY <1>1, <2>2 DEF RuntimesInv
  <2>4. TurnOf[o] \notin closing' BY <1>2, <2>1, <2>3 DEF Follow, InProgress
  <2> QED BY <1>1, <1>2, <2>2, <2>4, AtWorkUntilClosing DEF OperationsFull
<1>3. ASSUME NEW o \in Ops, Propose(o) PROVE UnabortedInv'
  <2>1. /\ child[TurnOf[o]] = "running"
        /\ child' = [child EXCEPT ![TurnOf[o]] = "asking"]
        /\ UNCHANGED <<current, op, aborted>>
    BY <1>3 DEF Propose, AskApproval, ChildGoes, maps
  <2> QED BY <1>1, <2>1 DEF UnabortedInv, IsCurrent, Working
<1>4. ASSUME NEW o \in Ops, Request(o) PROVE UnabortedInv'
  <2>1. /\ child[TurnOf[o]] \in Working /\ IsCurrent(TurnOf[o])
        /\ \A p \in Ops : p # o => op'[p] = op[p]
        /\ UNCHANGED <<vars, aborted>>
    BY <1>1, <1>4 DEF Request, Begin, Working
  <2> QED BY <2>1 DEF UnabortedInv, IsCurrent, vars, maps
<1>5. ASSUME NEW o \in Ops, TurnComes(o) \/ Ends(o) \/ CancelRequest(o) PROVE UnabortedInv'
  <2>1. /\ \A p \in Ops : op'[p] \in {"queued", "executing"} => op[p] \in {"queued", "executing"}
        /\ aborted \subseteq aborted'
        /\ UNCHANGED vars
    BY <1>1, <1>5 DEF TurnComes, Begin, Ends, CancelRequest
  <2> QED BY <2>1 DEF UnabortedInv, IsCurrent, vars, maps
<1>6. CASE UNCHANGED allVars
  BY <1>6 DEF allVars, opVars, vars, maps, UnabortedInv, IsCurrent
<1> QED BY <1>2, <1>3, <1>4, <1>5, <1>6 DEF OpsNext, OpStep

(* An operation may outlive its turn's lease, but then it has been told to *)
(* give way: none that was left alone works beside another turn's process  *)
(* under a conflicting lease (finish() of runtime-supervisor.ts), if only  *)
(* one turn of a chat is let through and until the application restarts.   *)
THEOREM OverlapsAborted == OneRuntimePerChat /\ ~Restarts => (OpsSpec => []OverlapIsAborted)
<1> SUFFICES ASSUME OneRuntimePerChat, ~Restarts PROVE OpsSpec => []OverlapIsAborted OBVIOUS
<1> DEFINE I == OperationsFull /\ RuntimesInv /\ UnabortedInv
<1>1. OpsInit => I
  <2>1. OpsInit => RuntimesInv BY RuntimesStart DEF OpsInit
  <2>2. OpsInit => UnabortedInv BY DEF OpsInit, UnabortedInv
  <2> QED BY <2>1, <2>2, OperationsStart
<1>2. I /\ [OpsNext]_allVars => I'
  <2> SUFFICES ASSUME I, [OpsNext]_allVars PROVE I' OBVIOUS
  <2>1. [Next]_vars BY OperationsFollow
  <2>2. RuntimesInv' BY <2>1, RuntimesStep DEF OperationsFull
  <2> QED BY <2>2, OperationsSteps, UnabortedSteps
<1>3. I /\ OneWriterAtWork => OverlapIsAborted
  <2> SUFFICES ASSUME UnabortedInv, OneWriterAtWork, NEW o \in Ops, NEW u \in Tasks,
                      op[o] = "executing", u # TurnOf[o], LeasesConflict(TurnOf[o], u),
                      child[u] \in Working, o \notin aborted
               PROVE  FALSE
    BY DEF OverlapIsAborted
  <2>1. child[TurnOf[o]] \in Working /\ TurnOf[o] \in Tasks
    BY OperationsAssumption DEF UnabortedInv
  <2> QED BY <2>1 DEF OneWriterAtWork
<1> QED BY <1>1, <1>2, <1>3, OperationsUseSupervisor, LeaseCoversProcess, PTL DEF OpsSpec
=============================================================================
