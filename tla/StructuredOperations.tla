------------------------ MODULE StructuredOperations ------------------------
(***************************************************************************)
(* The structured operations (files, dependencies, scripts, Git) that a    *)
(* runtime asks the main process to execute: each is bound to an approval  *)
(* of its turn that allows it once, operations that run processes go       *)
(* through one queue, and the end of a turn aborts its operations: those   *)
(* that take a signal give way in a while, file operations and             *)
(* dependency.apply take none, so all a model can say is that they end.    *)
(* Composed with the supervisor: every step of it is a step here, and the  *)
(* approval of an operation is decided and denied with its turn's.         *)
(***************************************************************************)
EXTENDS RuntimeSupervisor

CONSTANTS
  Ops,        \* the operations runtimes ask for
  TurnOf,     \* the turn of each
  ByProcess   \* those the broker serializes: dependencies, scripts, Git

ASSUME OperationsAssumption ==
  /\ TurnOf \in [Ops -> Tasks]
  /\ ByProcess \subseteq Ops

VARIABLES
  grant,      \* the approval row of each operation
  op,         \* the operation itself
  runs,       \* how often it has been begun
  line,       \* OperationBroker.processTail: the operations queued for it
  aborted     \* the operations whose AbortController has been aborted

opVars  == <<grant, op, runs, line, aborted>>
allVars == <<vars, opVars>>

OpsTypeOK ==
  /\ TypeOK
  /\ grant \in [Ops -> {"none", "pending", "allowed", "denied", "consumed"}]
  /\ op \in [Ops -> {"none", "queued", "executing", "over"}]
  /\ runs \in [Ops -> 0 .. 2]
  /\ line \in Seq(Ops)
  /\ aborted \subseteq Ops

OpsInit ==
  /\ Init
  /\ grant = [o \in Ops |-> "none"]
  /\ op = [o \in Ops |-> "none"]
  /\ runs = [o \in Ops |-> 0]
  /\ line = <<>>
  /\ aborted = {}

InProgress(t) == {o \in Ops : TurnOf[o] = t /\ op[o] \in {"queued", "executing"}}

(* Mutant: finish() leaves the operations of the turn alone.               *)
FollowUnaborted ==
  /\ grant' = [o \in Ops |->
       IF grant[o] = "pending" /\ approval'[TurnOf[o]] # "pending"
       THEN approval'[TurnOf[o]] ELSE grant[o]]
  /\ UNCHANGED <<op, runs, line, aborted>>

(* A step of the supervisor decides the approval rows that wait with their *)
(* turns, and finish() aborts the operations of the turn.                  *)
Follow ==
  /\ grant' = [o \in Ops |->
       IF grant[o] = "pending" /\ approval'[TurnOf[o]] # "pending"
       THEN approval'[TurnOf[o]] ELSE grant[o]]
  /\ aborted' = aborted \cup {o \in Ops : o \in InProgress(TurnOf[o])
                                          /\ TurnOf[o] \in closing' \ closing}
  /\ UNCHANGED <<op, runs, line>>

(* approval.request with an operation's manifest.                          *)
Propose(o) ==
  /\ grant[o] = "none"
  /\ IsCurrent(TurnOf[o])
  /\ AskApproval(TurnOf[o])
  /\ grant' = [grant EXCEPT ![o] = "pending"]
  /\ UNCHANGED <<op, runs, line, aborted>>

Begin(o) ==
  /\ op' = [op EXCEPT ![o] = "executing"]
  /\ runs' = [runs EXCEPT ![o] = @ + 1]

(* Mutant: the consumption of the approval is not recorded.                *)
RequestAgain(o) ==
  LET t == TurnOf[o] IN
  /\ child[t] \in {"running", "asking"}
  /\ IsCurrent(t)
  /\ Cardinality(InProgress(t) \ aborted) < 2
  /\ grant[o] = "allowed"
  /\ op[o] # "executing"
  /\ runs[o] < 2
  /\ Begin(o)
  /\ UNCHANGED <<vars, grant, line, aborted>>

(* Mutant: a runtime that is no longer current is served.                  *)
RequestAnyway(o) ==
  LET t == TurnOf[o] IN
  /\ child[t] \in {"running", "asking", "ended"}
  /\ grant[o] = "allowed"
  /\ grant' = [grant EXCEPT ![o] = "consumed"]
  /\ line' = Append(line, o)
  /\ op' = [op EXCEPT ![o] = "queued"]
  /\ UNCHANGED <<vars, runs, aborted>>

(* handleOperationRequest(): up to two at a time for the current runtime,  *)
(* each against an approval that allows it and is consumed by it.  Other   *)
(* requests are refused and change nothing.  A cancelled operation is not  *)
(* counted, though it may still execute.                                   *)
Request(o) ==
  LET t == TurnOf[o] IN
  /\ child[t] \in {"running", "asking"}
  /\ IsCurrent(t)
  /\ Cardinality(InProgress(t) \ aborted) < 2
  /\ grant[o] = "allowed"
  /\ grant' = [grant EXCEPT ![o] = "consumed"]
  /\ IF o \in ByProcess
       THEN /\ line' = Append(line, o)
            /\ op' = [op EXCEPT ![o] = "queued"]
            /\ UNCHANGED runs
       ELSE Begin(o) /\ UNCHANGED line
  /\ UNCHANGED <<vars, aborted>>

(* serializeProcess(): the operation in front has released the queue.  One *)
(* that was aborted while it waited begins all the same.                   *)
TurnComes(o) ==
  /\ op[o] = "queued"
  /\ Head(line) = o
  /\ Begin(o)
  /\ UNCHANGED <<vars, grant, line, aborted>>

(* Mutant: an operation that throws keeps the queue.                       *)
EndsKeepingLine(o) ==
  /\ op[o] = "executing"
  /\ op' = [op EXCEPT ![o] = "over"]
  /\ line' = IF o \in aborted THEN line ELSE Without(line, {o})
  /\ UNCHANGED <<vars, grant, runs, aborted>>

(* The operation is done, failed or gave way to the abort.                 *)
Ends(o) ==
  /\ op[o] = "executing"
  /\ op' = [op EXCEPT ![o] = "over"]
  /\ line' = Without(line, {o})
  /\ UNCHANGED <<vars, grant, runs, aborted>>

(* The runtime's time limit or abort: operation-cancel.                    *)
CancelRequest(o) ==
  /\ o \in InProgress(TurnOf[o]) \ aborted
  /\ child[TurnOf[o]] \in {"running", "asking"}
  /\ aborted' = aborted \cup {o}
  /\ UNCHANGED <<vars, grant, op, runs, line>>

OpStep(o) ==
  Quiet /\ (Propose(o) \/ Request(o) \/ TurnComes(o) \/ Ends(o) \/ CancelRequest(o))

OpsNext == (Next /\ Follow) \/ \E o \in Ops : OpStep(o)

OpsSpec == OpsInit /\ [][OpsNext]_allVars

(* Operations end.                                                         *)
OpsLiveSpec ==
  /\ OpsSpec
  /\ WF_allVars(\E o \in Ops : Quiet /\ (TurnComes(o) \/ Ends(o)))
  /\ WF_allVars(\E t \in Tasks : Microtask(t) /\ Follow)

-----------------------------------------------------------------------------
(* "asks exactly once": an operation begins at most once, whatever is      *)
(* asked, stopped or retried, and only if the user allowed it.             *)
AllowedOnce ==
  \A o \in Ops : runs[o] <= 1 /\ (op[o] # "none" => grant[o] = "consumed")

(* No request is taken up for a turn that is over.                         *)
NoRequestAfterEnd ==
  [][\A o \in Ops : op[o] = "none" /\ op'[o] # "none" => turn[TurnOf[o]] \in Open]_allVars

(* Operations that run processes run one at a time, in order.              *)
OneProcess ==
  \A o \in Ops : o \in ByProcess /\ op[o] = "executing" => line # <<>> /\ Head(line) = o

(* An operation that is queued begins some time: nobody in front of it     *)
(* keeps the queue, though its turn was stopped or its request cancelled.  *)
QueuedOpBegins == \A o \in Ops : op[o] = "queued" ~> op[o] \in {"executing", "over"}

(* An operation of the main process may outlive its turn, and the turn its *)
(* lease: a file operation or dependency.apply takes no signal.  But one   *)
(* that still works while another turn's process works under a lease that  *)
(* conflicts has been told to give way: finish() aborts the operations of  *)
(* a turn before the lease can go to the next.                             *)
OverlapIsAborted ==
  \A o \in Ops, u \in Tasks :
    /\ op[o] = "executing"
    /\ u # TurnOf[o] /\ LeasesConflict(TurnOf[o], u)
    /\ child[u] \in Working
    => o \in aborted
=============================================================================
