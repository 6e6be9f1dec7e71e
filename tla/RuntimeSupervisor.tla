------------------------- MODULE RuntimeSupervisor -------------------------
(***************************************************************************)
(* The desktop's main process as it starts, supervises and ends the        *)
(* isolated agent runtimes: TaskService and RuntimeSupervisor with the     *)
(* scheduler of leases, and the rows of turns, threads and approvals they  *)
(* write.  A task of the scheduler is a turn.                              *)
(*                                                                         *)
(* Main is single threaded: a step is what it does between two awaits of a *)
(* handler, and the microtasks a step leaves behind (Launch) run before    *)
(* the next event of a user, a timer or a child process.  A child is       *)
(* modelled by what main hears of it: ready, its events in order, its      *)
(* exit.  Messages of a runtime that is no longer current are ignored.     *)
(***************************************************************************)
EXTENDS RuntimeScheduler

CONSTANTS
  Threads,   \* the chats
  ThreadOf,  \* the chat of each turn
  Faults,    \* TRUE if lookups, leases, forks and processes may fail
  Restarts,  \* TRUE if the application may die and come back
  Compacted  \* the chats users compact

NoTurn == "none"

ASSUME SupervisorAssumption ==
  /\ ThreadOf \in [Tasks -> Threads]
  /\ Faults \in BOOLEAN
  /\ Restarts \in BOOLEAN
  /\ Compacted \subseteq Threads
  /\ NoTurn \notin Tasks

VARIABLES
  call,        \* where TaskService.start() is for each turn
  turn,        \* turns.status
  thread,      \* threads.status
  approval,    \* approvals.decision of the turn's latest approval
  pending,     \* the supervisor's map of threads to queued runtimes
  current,     \* its map `active` of threads to running ones
  child,       \* the utility process of each turn
  closing,     \* ActiveRuntime.closing
  stopTimers,  \* the turns whose 5 s stop timer is armed
  compacting   \* the threads for which compact() awaits the configuration

rows    == <<turn, thread, approval>>
maps    == <<pending, current, closing>>
vars    == <<schedulerVars, rows, maps, call, child, stopTimers, compacting>>

Terminal == {"completed", "failed", "cancelled", "interrupted"}
Open     == {"queued", "preparing", "running", "awaiting_approval"}

(* A process that has been told to start its turn.                         *)
Working  == {"started", "running", "asking", "ended"}
Alive    == Working \cup {"forked"}

TypeOK ==
  /\ SchedulerTypeOK
  /\ call \in [Tasks -> {"none", "configuring", "baselining", "leasing", "returned"}]
  /\ turn \in [Tasks -> {"absent"} \cup Open \cup Terminal]
  /\ thread \in [Threads -> {"idle", "running", "awaiting_approval", "failed", "interrupted"}]
  /\ approval \in [Tasks -> {"none", "pending", "allowed", "denied"}]
  /\ pending \in [Threads -> Tasks \cup {NoTurn}]
  /\ current \in [Threads -> Tasks \cup {NoTurn}]
  /\ child \in [Tasks -> Alive \cup {"none", "exited"}]
  /\ closing \subseteq Tasks
  /\ stopTimers \subseteq Tasks
  /\ compacting \subseteq Threads

Init ==
  /\ SchedulerInit
  /\ call = [t \in Tasks |-> "none"]
  /\ turn = [t \in Tasks |-> "absent"]
  /\ thread = [h \in Threads |-> "idle"]
  /\ approval = [t \in Tasks |-> "none"]
  /\ pending = [h \in Threads |-> NoTurn]
  /\ current = [h \in Threads |-> NoTurn]
  /\ child = [t \in Tasks |-> "none"]
  /\ closing = {}
  /\ stopTimers = {}
  /\ compacting = {}

-----------------------------------------------------------------------------
IsCurrent(t) == current[ThreadOf[t]] = t
HasThread(h) == pending[h] # NoTurn \/ current[h] # NoTurn

(* What the scheduler leaves running once those of X have settled.         *)
Settle(X) == starting' = (starting \ X) \cup (active' \ active)

Goes(t, step) == call' = [call EXCEPT ![t] = step]

SetStatus(t, turnStatus, threadStatus) ==
  /\ turn' = [turn EXCEPT ![t] = turnStatus]
  /\ thread' = [thread EXCEPT ![ThreadOf[t]] = threadStatus]

(* The catch block of TaskService.start().                                 *)
StartThrows(t) == Goes(t, "returned") /\ SetStatus(t, "failed", "failed")

(* Mutant: the child is not told to end.                                   *)
FinishNoKill(t, status) ==
  /\ SetStatus(t, status, IF status = "failed" THEN "failed" ELSE "idle")
  /\ approval' = [approval EXCEPT ![t] = IF @ = "pending" THEN "denied" ELSE @]
  /\ current' = [current EXCEPT ![ThreadOf[t]] = NoTurn]
  /\ UNCHANGED closing

(* finish(): the rows, the maps and the order to kill the child.  The      *)
(* caller frees the lease, now or when the child exits.                    *)
Finish(t, status) ==
  /\ SetStatus(t, status, IF status = "failed" THEN "failed" ELSE "idle")
  /\ approval' = [approval EXCEPT ![t] = IF @ = "pending" THEN "denied" ELSE @]
  /\ closing' = closing \cup {t}
  /\ current' = [current EXCEPT ![ThreadOf[t]] = NoTurn]

(* finishPending(): only a turn that is still open is given an outcome.    *)
FinishPending(t, status, threadStatus) ==
  IF turn[t] \in Terminal THEN UNCHANGED <<turn, thread>> ELSE SetStatus(t, status, threadStatus)

Forget(t) == [pending EXCEPT ![ThreadOf[t]] = IF @ = t THEN NoTurn ELSE @]

(* handleLaunchFailure() of a runtime that is not current.                 *)
LaunchFailed(t) == pending' = Forget(t) /\ FinishPending(t, "failed", "failed")

-----------------------------------------------------------------------------
(* TaskService.start(): awaits the configuration,                          *)
CallStartTurn(t) ==
  /\ call[t] = "none"
  /\ thread[ThreadOf[t]] # "interrupted"
  /\ Goes(t, "configuring")
  /\ UNCHANGED <<schedulerVars, rows, maps, child, stopTimers, compacting>>

ConfigurationFails(t) ==
  /\ call[t] = "configuring"
  /\ Faults
  /\ Goes(t, "returned")
  /\ UNCHANGED <<schedulerVars, rows, maps, child, stopTimers, compacting>>

(* creates the turn and awaits the Git baseline of a task's first turn,    *)
CreateTurn(t) ==
  /\ call[t] = "configuring"
  /\ Goes(t, "baselining")
  /\ turn' = [turn EXCEPT ![t] = "queued"]
  /\ UNCHANGED <<schedulerVars, thread, approval, maps, child, stopTimers, compacting>>

(* and calls the supervisor, whose start() refuses a thread it knows and   *)
(* otherwise awaits the lease.                                             *)
Prepare(t) ==
  /\ call[t] = "baselining"
  /\ IF HasThread(ThreadOf[t])
       THEN StartThrows(t)
       ELSE Goes(t, "leasing") /\ SetStatus(t, "preparing", "running")
  /\ UNCHANGED <<schedulerVars, approval, maps, child, stopTimers, compacting>>

LeaseFails(t) ==
  /\ call[t] = "leasing"
  /\ Faults
  /\ StartThrows(t)
  /\ UNCHANGED <<schedulerVars, approval, maps, child, stopTimers, compacting>>

(* The lease is known: the runtime is recorded, whatever happened to the   *)
(* thread meanwhile, and enqueued.                                         *)
LeaseResolved(t) ==
  /\ call[t] = "leasing"
  /\ IF MayEnqueue(t)
       THEN /\ pending' = [pending EXCEPT ![ThreadOf[t]] = t]
            /\ Enqueue(t)
            /\ Settle({})
            /\ Goes(t, "returned")
            /\ UNCHANGED <<turn, thread>>
       ELSE /\ pending' = [pending EXCEPT ![ThreadOf[t]] = NoTurn]
            /\ StartThrows(t)
            /\ UNCHANGED schedulerVars
  /\ UNCHANGED <<approval, current, closing, child, stopTimers, compacting>>

(* The microtasks of the scheduler: the turns it let through and that have *)
(* not been launched yet.                                                  *)
LetGo(t) == t \in active /\ child[t] = "none" /\ t \in starting

Launch(t) ==
  /\ LetGo(t)
  /\ pending[ThreadOf[t]] = t
  /\ pending' = [pending EXCEPT ![ThreadOf[t]] = NoTurn]
  /\ current' = [current EXCEPT ![ThreadOf[t]] = t]
  /\ child' = [child EXCEPT ![t] = "forked"]
  /\ UNCHANGED <<schedulerVars, rows, closing, call, stopTimers, compacting>>

(* launch() throws before or at the fork: the pending runtime was replaced *)
(* by another of the thread, or a lookup or the fork failed.               *)
LaunchRejected(t) ==
  /\ LetGo(t)
  /\ pending[ThreadOf[t]] # t \/ Faults
  /\ StartRejected(t)
  /\ Settle({t})
  /\ LaunchFailed(t)
  /\ UNCHANGED <<approval, current, closing, call, child, stopTimers, compacting>>

(* Mutant: the time limit only covers the fork, and a late ready counts.   *)
ReadyAnyTime(t) ==
  /\ child[t] = "forked"
  /\ child' = [child EXCEPT ![t] = "started"]
  /\ starting' = starting \ {t}
  /\ UNCHANGED <<queue, active, rows, maps, call, stopTimers, compacting>>

(* The child says it is ready before its 10 s are over: it is told to      *)
(* start its turn.                                                         *)
Ready(t) ==
  /\ child[t] = "forked"
  /\ t \in starting
  /\ child' = [child EXCEPT ![t] = "started"]
  /\ starting' = starting \ {t}
  /\ UNCHANGED <<queue, active, rows, maps, call, stopTimers, compacting>>

(* The 10 s are over: the scheduler takes the lease away without waiting   *)
(* for the child, which is killed if it was the thread's runtime.          *)
ReadinessTimeout(t) ==
  /\ t \in starting
  /\ child[t] \in {"forked", "exited"}
  /\ StartRejected(t)
  /\ Settle({t})
  /\ IF t \notin active
       THEN UNCHANGED <<rows, maps>>
     ELSE IF IsCurrent(t)
       THEN Finish(t, "interrupted") /\ UNCHANGED pending
     ELSE LaunchFailed(t) /\ UNCHANGED <<approval, current, closing>>
  /\ UNCHANGED <<call, child, stopTimers, compacting>>

-----------------------------------------------------------------------------
(* Events of the child.  Each is handled whole before the next one.        *)

ChildGoes(t, phase) == child' = [child EXCEPT ![t] = phase]

(* turn.lifecycle 'running': the first event of a session.                 *)
RunBegins(t) ==
  /\ child[t] = "started"
  /\ ChildGoes(t, "running")
  /\ IF IsCurrent(t) THEN SetStatus(t, "running", "running") ELSE UNCHANGED <<turn, thread>>
  /\ UNCHANGED <<schedulerVars, approval, maps, call, stopTimers, compacting>>

(* approval.request, which turn.lifecycle 'awaiting_approval' follows.     *)
AskApproval(t) ==
  /\ child[t] = "running"
  /\ approval[t] # "pending"
  /\ ChildGoes(t, "asking")
  /\ IF IsCurrent(t) THEN approval' = [approval EXCEPT ![t] = "pending"] ELSE UNCHANGED approval
  /\ UNCHANGED <<schedulerVars, turn, thread, maps, call, stopTimers, compacting>>

AwaitApproval(t) ==
  /\ child[t] = "asking"
  /\ ChildGoes(t, "running")
  /\ IF IsCurrent(t)
       THEN SetStatus(t, "awaiting_approval", "awaiting_approval")
       ELSE UNCHANGED <<turn, thread>>
  /\ UNCHANGED <<schedulerVars, approval, maps, call, stopTimers, compacting>>

(* The terminal turn.lifecycle of a session; 'cancelled' after a stop.     *)
RunEnds(t, status) ==
  /\ child[t] = "running"
  /\ ChildGoes(t, "ended")
  /\ IF IsCurrent(t) THEN Finish(t, status) ELSE UNCHANGED <<rows, current, closing>>
  /\ UNCHANGED <<schedulerVars, pending, call, stopTimers, compacting>>

(* An 'error' event or a malformed message: handleCrash().                 *)
Crashes(t) ==
  /\ child[t] \in Alive
  /\ Faults
  /\ IsCurrent(t)
  /\ Finish(t, "interrupted")
  /\ UNCHANGED <<schedulerVars, pending, call, child, stopTimers, compacting>>

(* The session throws before its first event: index.ts reports a           *)
(* runtime.crash event, which ends nothing.                                *)
SessionFails(t) ==
  /\ child[t] = "started"
  /\ Faults
  /\ ChildGoes(t, "ended")
  /\ UNCHANGED <<schedulerVars, rows, maps, call, stopTimers, compacting>>

(* Mutant: the exit of a child does not free its lease.                    *)
KeepLease(t) == UNCHANGED schedulerVars

FreeLease(t) ==
  IF t \in active THEN Release(t) /\ Settle({}) ELSE UNCHANGED schedulerVars

(* The process exits, as it was told to or by itself.                      *)
ChildExits(t) ==
  /\ child[t] \in Alive
  /\ t \in closing \/ Faults
  /\ ChildGoes(t, "exited")
  /\ IF t \in closing
       THEN FreeLease(t) /\ UNCHANGED <<rows, current, closing>>
     ELSE IF IsCurrent(t)
       THEN Finish(t, "interrupted") /\ FreeLease(t)
     ELSE UNCHANGED <<schedulerVars, rows, current, closing>>
  /\ UNCHANGED <<pending, call, stopTimers, compacting>>

-----------------------------------------------------------------------------
(* The user, timers and the application.                                   *)

Decide(t, decision) ==
  /\ approval[t] = "pending"
  /\ IsCurrent(t)
  /\ approval' = [approval EXCEPT ![t] = decision]
  /\ SetStatus(t, "running", "running")
  /\ UNCHANGED <<schedulerVars, maps, call, child, stopTimers, compacting>>

StopQueued(t) ==
  /\ pending[ThreadOf[t]] = t
  /\ pending' = Forget(t)
  /\ IF t \in Members(queue) THEN Cancel(t) /\ Settle({}) ELSE UNCHANGED schedulerVars
  /\ FinishPending(t, "cancelled", "idle")
  /\ UNCHANGED <<approval, current, closing, call, child, stopTimers, compacting>>

StopActive(t) ==
  /\ pending[ThreadOf[t]] = NoTurn
  /\ IsCurrent(t)
  /\ approval' = [approval EXCEPT ![t] = IF @ = "pending" THEN "denied" ELSE @]
  /\ stopTimers' = stopTimers \cup {t}
  /\ UNCHANGED <<schedulerVars, turn, thread, maps, call, child, compacting>>

(* Mutant: the timer ends whatever runs in the thread.                     *)
StopTimerAnyway(t) ==
  /\ t \in stopTimers
  /\ stopTimers' = stopTimers \ {t}
  /\ Finish(t, "cancelled")
  /\ UNCHANGED <<schedulerVars, pending, call, child, compacting>>

(* Mutant: the timer does nothing.                                         *)
StopTimerIdle(t) ==
  /\ t \in stopTimers
  /\ stopTimers' = stopTimers \ {t}
  /\ UNCHANGED <<schedulerVars, rows, maps, call, child, compacting>>

(* Five seconds after the stop.                                            *)
StopTimer(t) ==
  /\ t \in stopTimers
  /\ stopTimers' = stopTimers \ {t}
  /\ IF IsCurrent(t) THEN Finish(t, "cancelled") ELSE UNCHANGED <<rows, current, closing>>
  /\ UNCHANGED <<schedulerVars, pending, call, child, compacting>>

(* threads.continue of an interrupted chat.                                *)
Continue(h) ==
  /\ thread[h] = "interrupted"
  /\ ~HasThread(h)
  /\ thread' = [thread EXCEPT ![h] = "idle"]
  /\ UNCHANGED <<schedulerVars, turn, approval, maps, call, child, stopTimers, compacting>>

(* compact(): the chat is idle when it is called; the compaction turn is   *)
(* written from first to last row once the configuration is there.         *)
CompactBegins(h) ==
  /\ thread[h] = "idle"
  /\ h \in Compacted \ compacting
  /\ compacting' = compacting \cup {h}
  /\ UNCHANGED <<schedulerVars, rows, maps, call, child, stopTimers>>

CompactEnds(h) ==
  /\ h \in compacting
  /\ compacting' = compacting \ {h}
  /\ thread' = [thread EXCEPT ![h] = "idle"]
  /\ UNCHANGED <<schedulerVars, turn, approval, maps, call, child, stopTimers>>

(* Mutant: only turns a runtime worked on are found.                       *)
CutRunning == {t \in Tasks : turn[t] \in {"running", "awaiting_approval"}}

(* Mutant: every turn is found.                                            *)
CutAll == {t \in Tasks : turn[t] # "absent"}

(* The turns a restart finds unfinished.                                   *)
Cut == {t \in Tasks : turn[t] \in Open}

(* The application dies, its children with it, and recovers the journal:   *)
(* recoverInterruptedRuns().                                               *)
Restart ==
  /\ Restarts
  /\ turn' = [t \in Tasks |-> IF t \in Cut THEN "interrupted" ELSE turn[t]]
  /\ approval' = [t \in Tasks |->
       IF t \in Cut /\ approval[t] = "pending" THEN "denied" ELSE approval[t]]
  /\ thread' = [h \in Threads |->
       IF thread[h] \in {"running", "awaiting_approval"} /\ \E t \in Cut : ThreadOf[t] = h
       THEN "interrupted" ELSE thread[h]]
  /\ call' = [t \in Tasks |-> IF call[t] = "none" THEN "none" ELSE "returned"]
  /\ child' = [t \in Tasks |-> IF child[t] = "none" THEN "none" ELSE "exited"]
  /\ queue' = <<>> /\ active' = {} /\ starting' = {}
  /\ pending' = [h \in Threads |-> NoTurn]
  /\ current' = [h \in Threads |-> NoTurn]
  /\ closing' = {} /\ stopTimers' = {} /\ compacting' = {}

-----------------------------------------------------------------------------
StartStep(t) ==
  \/ CallStartTurn(t) \/ ConfigurationFails(t) \/ CreateTurn(t)
  \/ Prepare(t) \/ LeaseFails(t) \/ LeaseResolved(t)

ChildEvent(t) ==
  \/ Ready(t) \/ ReadinessTimeout(t)
  \/ RunBegins(t) \/ AskApproval(t) \/ AwaitApproval(t)
  \/ \E status \in {"completed", "failed"} : RunEnds(t, status)
  \/ t \in stopTimers /\ RunEnds(t, "cancelled")
  \/ Crashes(t) \/ SessionFails(t) \/ ChildExits(t)

UserOrTimer(t) ==
  \/ \E decision \in {"allowed", "denied"} : Decide(t, decision)
  \/ StopQueued(t) \/ StopActive(t) \/ StopTimer(t)

Microtask(t) == Launch(t) \/ LaunchRejected(t)

(* No microtask is left: the next event may be handled.                    *)
Quiet == \A t \in Tasks : ~LetGo(t)

Next ==
  \/ \E t \in Tasks : Microtask(t)
  \/ Quiet /\ \E t \in Tasks : StartStep(t) \/ ChildEvent(t) \/ UserOrTimer(t)
  \/ Quiet /\ \E h \in Threads : Continue(h) \/ CompactBegins(h) \/ CompactEnds(h)
  \/ Quiet /\ Restart

Spec == Init /\ [][Next]_vars

(* Microtasks run and timers fire; a process that is told to end exits; a  *)
(* session runs to its end and users answer its questions.                 *)
Fairness ==
  \A t \in Tasks :
    /\ WF_vars(Microtask(t))
    /\ WF_vars(Quiet /\ (CreateTurn(t) \/ Prepare(t) \/ LeaseResolved(t)))
    /\ WF_vars(Quiet /\ (Ready(t) \/ ReadinessTimeout(t)))
    /\ WF_vars(Quiet /\ StopTimer(t))
    /\ WF_vars(Quiet /\ t \in closing /\ ChildExits(t))
    /\ WF_vars(Quiet /\ (RunBegins(t) \/ AwaitApproval(t)))
    /\ SF_vars(Quiet /\ approval[t] # "pending" /\ \E s \in {"completed", "failed"} : RunEnds(t, s))
    /\ WF_vars(Quiet /\ \E d \in {"allowed", "denied"} : Decide(t, d))

LiveSpec == Spec /\ Fairness

-----------------------------------------------------------------------------
(* Two processes that have been told to start never hold leases that       *)
(* conflict, and there are never more of them than the capacity: also when *)
(* a runtime that is not ready in time loses its lease before its process  *)
(* is gone, and when a killed one takes its time to exit.                  *)
OneWriterAtWork ==
  LET working == {t \in Tasks : child[t] \in Working} IN
  /\ \A t, u \in working : t # u => ~LeasesConflict(t, u)
  /\ Cardinality(working) <= Capacity

(* Every live process is the runtime of its thread or has been told to     *)
(* end: none is left behind with a lease that nothing would free.          *)
NoOrphanRuntime ==
  \A t \in Tasks : child[t] \in Alive => IsCurrent(t) \/ t \in closing

(* A turn that is not over is in the hands of something that will end it:  *)
(* its start() call, the scheduler's queue or the supervisor.              *)
NoGhostTurn ==
  \A t \in Tasks : turn[t] \in Open =>
    \/ call[t] \in {"baselining", "leasing"}
    \/ t \in Members(queue) \/ LetGo(t)
    \/ IsCurrent(t)

(* The recorded outcome of a turn is final: no late event, timer, failing  *)
(* launch or recovery rewrites it.                                         *)
OutcomeIsFinal ==
  [][\A t \in Tasks : turn[t] \in Terminal => turn'[t] = turn[t]]_vars

(* "Manual compaction requires an idle task with no pending approval":     *)
(* what compact() of task-service.ts says it asks of the chat it writes    *)
(* the compaction to, held against the moment it writes it.                *)
CompactsIdleTask ==
  [][\A h \in compacting \ compacting' :
       /\ thread[h] = "idle"
       /\ \A t \in Tasks : ThreadOf[t] = h => approval[t] # "pending"]_vars

(* A user's stop ends the turn within the timer, whatever the runtime does. *)
StopEndsTurn == \A t \in Tasks : t \in stopTimers ~> turn[t] \in Terminal

(* The session of the thread's runtime threw; only a stop will end it.     *)
SessionLost(t) == child[t] = "ended" /\ IsCurrent(t)

(* Every turn that was created ends, if sessions end and users answer; or  *)
(* some session threw, which its runtime reports and nothing acts upon: it *)
(* keeps its lease, and those that wait for it wait until a user stops it. *)
TurnsEnd ==
  \A t \in Tasks : turn[t] \in Open ~> turn[t] \in Terminal \/ \E u \in Tasks : SessionLost(u)

=============================================================================
