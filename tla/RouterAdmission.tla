-------------------------- MODULE RouterAdmission --------------------------
(***************************************************************************)
(* Admission and settlement of model turns by router processes that share  *)
(* one PostgreSQL database (ReservationLedger).  The module follows a POST *)
(* to /v1/agent/turn or /api/chat through requireAdmission, the route's    *)
(* handler and its error paths, together with what runs beside it: the     *)
(* client closing the stream, the sweep of stale reservations, the drain   *)
(* of a router on SIGTERM and the death of its process.                    *)
(*                                                                         *)
(* Each await in the handler ends a step: between two steps of a handler   *)
(* any other handler, process or operator may act.                         *)
(***************************************************************************)
EXTENDS ReservationLedger

CONSTANTS
  Routers,         \* the router processes
  ChatRequests,    \* the requests that use /api/chat; the others use /v1/agent/turn
  Faults,          \* TRUE if SQL statements may fail and acknowledgements be lost
  StaleWhileLive,  \* TRUE if a handler may outlive the 15 minutes of the sweep
  OperatorModes,   \* the traffic modes operators set
  ManagedAccounts  \* the accounts whose status changes

ASSUME RoutersAssumption ==
  /\ ChatRequests \subseteq Requests
  /\ Faults \in BOOLEAN
  /\ StaleWhileLive \in BOOLEAN
  /\ OperatorModes \subseteq TrafficModes
  /\ ManagedAccounts \subseteq Users

NoRouter == "none"
ASSUME NoRouterAssumption == NoRouter \notin Routers

VARIABLES
  pc,        \* where the handler of each request is
  host,      \* the router process that runs it
  told,      \* what its client was last told
  refusal,   \* TRUE if the provider's failure was a 402
  event,     \* ad_events.status of its turn
  closing,   \* the requests whose abortEvent is on its way to the database
  called,    \* the requests for which the provider has been called
  aged,      \* the reserved rows created more than 15 minutes ago
  router,    \* the life cycle of each router process
  tracked    \* state.ts activeReservations of each router process

handlerVars == <<pc, host, told, refusal, event, closing, called, aged>>
routerVars  == <<router, tracked>>
vars        == <<ledgerVars, handlerVars, routerVars>>

(* The handler's program counter.  The steps that end in an await are:     *)
(*   arrived     past requireNotDraining, about to reserve                 *)
(*   committed   the reservation is committed, the process not yet resumed *)
(*   admitted    listeners attached; validating the body and planning      *)
(*   planned     the ad event is inserted; about to call the provider      *)
(*   generating  the provider call is in flight                            *)
(*   settling    the provider has answered; about to settle                *)
(*   marking     in the catch block, about to mark the event               *)
(*   disabling   handleProviderFailure after a 402, about to stop traffic  *)
(*   abandoning  about to release as 'recovery_required'                   *)
(*   releasing   about to release as 'released'                            *)
Running == {"arrived", "committed", "admitted", "planned", "generating",
            "settling", "marking", "disabling", "abandoning", "releasing"}
Ended   == {"done", "lost"}

(* The handler is past abortOnResponseClose and before finalizeResponse.   *)
Streaming == {"planned", "generating", "settling", "marking", "disabling", "abandoning"}

TypeOK ==
  /\ LedgerTypeOK
  /\ pc \in [Requests -> {"new"} \cup Running \cup Ended]
  /\ host \in [Requests -> Routers \cup {NoRouter}]
  /\ told \in [Requests -> {"nothing", "refused", "settlement", "error"}]
  /\ refusal \in [Requests -> BOOLEAN]
  /\ event \in [Requests ->
                  {"absent", "pending", "aborted", "settled", "recovery_required"}]
  /\ closing \subseteq Requests
  /\ called \subseteq Requests
  /\ aged \subseteq Requests
  /\ router \in [Routers -> {"down", "serving", "draining", "exiting"}]
  /\ tracked \in [Routers -> SUBSET Requests]

-----------------------------------------------------------------------------
Go(r, from, to) == pc[r] = from /\ pc' = [pc EXCEPT ![r] = to]
Tell(r, what)   == told' = [told EXCEPT ![r] = what]

(* Mutant of Untrack: the finally block is missing. *)
LeaveTracked(r) == UNCHANGED tracked

(* state.ts releaseReservation: the handler's process stops counting it.   *)
Untrack(r) == tracked' = [tracked EXCEPT ![host[r]] = @ \ {r}]

(* requireMachineAgentAuth / requireWebChatAuth, then requireNotDraining:  *)
(* a process that is draining answers 503 and the request is not modelled. *)
Arrive(r, p) ==
  /\ router[p] = "serving"
  /\ Go(r, "new", "arrived")
  /\ host' = [host EXCEPT ![r] = p]
  /\ UNCHANGED <<ledgerVars, told, refusal, event, closing, called, aged, routerVars>>

(* requireAdmission, up to the commit of reserve().                        *)
Admit(r) ==
  /\ Go(r, "arrived", "committed")
  /\ Reserve(r)
  /\ UNCHANGED <<host, told, refusal, event, closing, called, aged, routerVars>>

(* reserve() rolls back and the middleware answers the AdmissionError.     *)
Refuse(r) ==
  /\ Go(r, "arrived", "done")
  /\ ~MayReserve(r) \/ Faults
  /\ Tell(r, "refused")
  /\ UNCHANGED <<ledgerVars, host, refusal, event, closing, called, aged, routerVars>>

(* The connection breaks after PostgreSQL has committed: reserve() throws, *)
(* the client is refused and nobody in the process knows of the row.       *)
AdmitAckLost(r) ==
  /\ Faults
  /\ Go(r, "arrived", "done")
  /\ Reserve(r)
  /\ Tell(r, "refused")
  /\ UNCHANGED <<host, refusal, event, closing, called, aged, routerVars>>

(* The commit's answer resumes reserve(): trackReservation, the deadline   *)
(* timer and the listeners, with no await between them.                    *)
Track(r) ==
  /\ Go(r, "committed", "admitted")
  /\ tracked' = [tracked EXCEPT ![host[r]] = @ \cup {r}]
  /\ UNCHANGED <<ledgerVars, host, told, refusal, event, closing, called, aged, router>>

(* A malformed body, an unconfigured provider, a forbidden override or a   *)
(* failed plan: the agent route answers first and then releases, the chat  *)
(* route does the reverse for a failed plan; the client is told either way.*)
RejectBody(r) ==
  /\ Go(r, "admitted", "releasing")
  /\ Tell(r, "error")
  /\ UNCHANGED <<ledgerVars, host, refusal, event, closing, called, aged, routerVars>>

(* planAgentRouting has chosen the sponsor and inserts the pending event.  *)
InsertEvent(r) ==
  /\ Go(r, "admitted", "planned")
  /\ event' = [event EXCEPT ![r] = "pending"]
  /\ UNCHANGED <<ledgerVars, host, told, refusal, closing, called, aged, routerVars>>

(* runAgentTurn, streamAgentTurn or streamChatCompletion.                  *)
CallProvider(r) ==
  /\ Go(r, "planned", "generating")
  /\ called' = called \cup {r}
  /\ UNCHANGED <<ledgerVars, host, told, refusal, event, closing, aged, routerVars>>

GenerationCompletes(r) ==
  /\ Go(r, "generating", "settling")
  /\ UNCHANGED <<ledgerVars, host, told, refusal, event, closing, called, aged, routerVars>>

(* The provider fails, the client has gone or the deadline timer fires.    *)
GenerationFails(r, paymentRequired) ==
  /\ Go(r, "generating", "marking")
  /\ refusal' = [refusal EXCEPT ![r] = paymentRequired]
  /\ UNCHANGED <<ledgerVars, host, told, event, closing, called, aged, routerVars>>

-----------------------------------------------------------------------------
(***************************************************************************)
(* settleAdmission().  Whatever happens, its finally block stops tracking  *)
(* the reservation; when it throws, the route's catch block runs.          *)
(***************************************************************************)
EventOpen(r) == event[r] = "pending"

EventSettled(r) == event' = [event EXCEPT ![r] = "settled"]

(* The row is still reserved and its turn's event is open: all is written. *)
SettleCommits(r) ==
  /\ Go(r, "settling", "done")
  /\ EventOpen(r)
  /\ \E cost \in Charges[r], begun \in Beginnings : Settle(r, cost, begun)
  /\ EventSettled(r)
  /\ Untrack(r)
  /\ Tell(r, "settlement")
  /\ UNCHANGED <<host, refusal, closing, called, aged, router>>

(* A sweep or a shutdown came first: the transaction commits nothing, and  *)
(* the handler goes on to send the settlement all the same.                *)
SettleSkips(r) ==
  /\ Go(r, "settling", "done")
  /\ status[r] # "reserved"
  /\ Untrack(r)
  /\ Tell(r, "settlement")
  /\ UNCHANGED <<ledgerVars, host, refusal, event, closing, called, aged, router>>

(* settlement_correlation_missing (the client's close aborted the event),  *)
(* or a statement that fails: rolled back and thrown.                      *)
SettleThrows(r) ==
  /\ Go(r, "settling", "marking")
  /\ (status[r] = "reserved" /\ ~EventOpen(r)) \/ Faults
  /\ Untrack(r)
  /\ UNCHANGED <<ledgerVars, host, told, refusal, event, closing, called, aged, router>>

(* PostgreSQL has committed the settlement but the handler sees an error.  *)
SettleAckLost(r) ==
  /\ Faults
  /\ Go(r, "settling", "marking")
  /\ EventOpen(r)
  /\ \E cost \in Charges[r], begun \in Beginnings : Settle(r, cost, begun)
  /\ EventSettled(r)
  /\ Untrack(r)
  /\ UNCHANGED <<host, told, refusal, closing, called, aged, router>>

-----------------------------------------------------------------------------
(***************************************************************************)
(* The catch block: markEventRecoveryRequired, then handleProviderFailure. *)
(***************************************************************************)
MarkEvent(r) ==
  /\ Go(r, "marking", IF refusal[r] THEN "disabling" ELSE "abandoning")
  /\ event' = [event EXCEPT ![r] =
                 IF @ \in {"pending", "aborted"} THEN "recovery_required" ELSE @]
  /\ UNCHANGED <<ledgerVars, host, told, refusal, closing, called, aged, routerVars>>

DisableTraffic(r) ==
  /\ Go(r, "disabling", "abandoning")
  /\ SetTraffic("disabled")
  /\ UNCHANGED <<host, told, refusal, event, closing, called, aged, routerVars>>

(* releaseAdmission(admission, false), then the error is written.          *)
Abandon(r) ==
  /\ Go(r, "abandoning", "done")
  /\ GiveUp({r}, "recovery_required")
  /\ Untrack(r)
  /\ Tell(r, "error")
  /\ UNCHANGED <<host, refusal, event, closing, called, aged, router>>

(* releaseAdmission(admission, true).                                      *)
ReleaseUnused(r) ==
  /\ Go(r, "releasing", "done")
  /\ GiveUp({r}, "released")
  /\ Untrack(r)
  /\ UNCHANGED <<host, told, refusal, event, closing, called, aged, router>>

(* Mutant of CatchFails: the agent route has such an outer catch as well. *)
CatchFailsEverywhere(r) ==
  /\ Faults
  /\ pc[r] \in {"marking", "disabling", "abandoning"}
  /\ pc' = [pc EXCEPT ![r] = "releasing"]
  /\ UNCHANGED <<ledgerVars, host, told, refusal, event, closing, called, aged, routerVars>>

(* A statement of the catch block fails.  The chat route's outer catch     *)
(* then treats the turn as one that never started; in the agent route the  *)
(* rejection is unhandled, which ends the process (Crash).                 *)
CatchFails(r) ==
  /\ Faults
  /\ r \in ChatRequests
  /\ pc[r] \in {"marking", "disabling", "abandoning"}
  /\ pc' = [pc EXCEPT ![r] = "releasing"]
  /\ UNCHANGED <<ledgerVars, host, told, refusal, event, closing, called, aged, routerVars>>

-----------------------------------------------------------------------------
(***************************************************************************)
(* The client closes the stream: abortOnResponseClose sends abortEvent and *)
(* does not wait for it.  Only a close that can still change the event     *)
(* matters.                                                                *)
(***************************************************************************)
ClientCloses(r) ==
  /\ pc[r] \in Streaming
  /\ r \notin closing
  /\ EventOpen(r)
  /\ closing' = closing \cup {r}
  /\ UNCHANGED <<ledgerVars, pc, host, told, refusal, event, called, aged, routerVars>>

(* Mutant: the update of abortEvent lacks its status guard. *)
AbortLandsUnguarded(r) ==
  /\ r \in closing
  /\ closing' = closing \ {r}
  /\ event' = [event EXCEPT ![r] = "aborted"]
  /\ UNCHANGED <<ledgerVars, pc, host, told, refusal, called, aged, routerVars>>

AbortLands(r) ==
  /\ r \in closing
  /\ closing' = closing \ {r}
  /\ event' = [event EXCEPT ![r] = IF EventOpen(r) THEN "aborted" ELSE @]
  /\ UNCHANGED <<ledgerVars, pc, host, told, refusal, called, aged, routerVars>>

-----------------------------------------------------------------------------
(* Mutants of Age: a sweep threshold below the request deadline, and a     *)
(* sweep that looks only at the rows of handlers that died.                *)
AgeEarly(r) ==
  /\ r \in Reserved \ aged
  /\ aged' = aged \cup {r}
  /\ UNCHANGED <<ledgerVars, pc, host, told, refusal, event, closing, called, routerVars>>

AgeOfLost(r) ==
  /\ r \in Reserved \ aged
  /\ pc[r] = "lost"
  /\ aged' = aged \cup {r}
  /\ UNCHANGED <<ledgerVars, pc, host, told, refusal, event, closing, called, routerVars>>

(***************************************************************************)
(* Fifteen minutes pass.  With the default deadline of ten minutes every   *)
(* handler has ended by then; nothing bounds ROUTER_REQUEST_DEADLINE_MS.   *)
(***************************************************************************)
Age(r) ==
  /\ r \in Reserved \ aged
  /\ StaleWhileLive \/ pc[r] \in Ended
  /\ aged' = aged \cup {r}
  /\ UNCHANGED <<ledgerVars, pc, host, told, refusal, event, closing, called, routerVars>>

GiveUpStale == GiveUp(aged, "recovery_required") /\ aged' = {}

(* markStaleReservations from the timer of any router or from the command. *)
Sweep ==
  /\ aged # {}
  /\ GiveUpStale
  /\ UNCHANGED <<pc, host, told, refusal, event, closing, called, routerVars>>

(* Mutant of Boot: the counter is reset, as if no other router were alive. *)
BootResetsCounter(p) ==
  /\ router[p] = "down"
  /\ router' = [router EXCEPT ![p] = "serving"]
  /\ activeRequests' = 0
  /\ UNCHANGED <<status, usage, charge, inWindow, trafficMode, accountActive>>
  /\ UNCHANGED <<handlerVars, tracked>>

(* main(): the boot sweep, then the routes are mounted.                    *)
Boot(p) ==
  /\ router[p] = "down"
  /\ router' = [router EXCEPT ![p] = "serving"]
  /\ GiveUpStale
  /\ UNCHANGED <<pc, host, told, refusal, event, closing, called, tracked>>

(* shutdown(): drain; wait until nothing is tracked or 115 seconds are up; *)
(* mark what is still tracked; exit.                                       *)
BeginDrain(p) ==
  /\ router[p] = "serving"
  /\ router' = [router EXCEPT ![p] = "draining"]
  /\ UNCHANGED <<ledgerVars, handlerVars, tracked>>

(* Mutants: what is tracked is released as if it had not begun, or the wait*)
(* has no deadline.                                                        *)
ShutdownReleases(p) ==
  /\ router[p] = "draining"
  /\ router' = [router EXCEPT ![p] = "exiting"]
  /\ GiveUp(tracked[p], "released")
  /\ tracked' = [tracked EXCEPT ![p] = {}]
  /\ UNCHANGED handlerVars

ShutdownWaits(p) ==
  /\ router[p] = "draining"
  /\ tracked[p] = {}
  /\ router' = [router EXCEPT ![p] = "exiting"]
  /\ UNCHANGED <<ledgerVars, handlerVars, tracked>>

ShutdownMark(p) ==
  /\ router[p] = "draining"
  /\ router' = [router EXCEPT ![p] = "exiting"]
  /\ GiveUp(tracked[p], "recovery_required")
  /\ tracked' = [tracked EXCEPT ![p] = {}]
  /\ UNCHANGED handlerVars

(* The process ends: its handlers vanish and its memory is gone.           *)
Stop(p) ==
  /\ router' = [router EXCEPT ![p] = "down"]
  /\ tracked' = [tracked EXCEPT ![p] = {}]
  /\ pc' = [r \in Requests |->
              IF host[r] = p /\ pc[r] \in Running THEN "lost" ELSE pc[r]]
  /\ UNCHANGED <<ledgerVars, host, told, refusal, event, closing, called, aged>>

Exit(p)  == router[p] = "exiting" /\ Stop(p)
Crash(p) == router[p] # "down" /\ Stop(p)

-----------------------------------------------------------------------------
(* Other components: the operator's traffic switch, the accounts and time. *)
SetTrafficMode(mode) == SetTraffic(mode) /\ UNCHANGED <<handlerVars, routerVars>>

ChangeAccount(u, active) ==
  SetAccountActive(u, active) /\ UNCHANGED <<handlerVars, routerVars>>

TimePasses(w) == BeginWindow(w) /\ UNCHANGED <<handlerVars, routerVars>>

-----------------------------------------------------------------------------
Init ==
  /\ LedgerInit
  /\ pc = [r \in Requests |-> "new"]
  /\ host = [r \in Requests |-> NoRouter]
  /\ told = [r \in Requests |-> "nothing"]
  /\ refusal = [r \in Requests |-> FALSE]
  /\ event = [r \in Requests |-> "absent"]
  /\ closing = {}
  /\ called = {}
  /\ aged = {}
  /\ router = [p \in Routers |-> "down"]
  /\ tracked = [p \in Routers |-> {}]

(* The steps that the process of r's handler takes by itself.              *)
HandlerStep(r) ==
  \/ Admit(r) \/ Refuse(r) \/ AdmitAckLost(r) \/ Track(r)
  \/ RejectBody(r) \/ InsertEvent(r) \/ CallProvider(r)
  \/ GenerationCompletes(r)
  \/ \E paymentRequired \in BOOLEAN : GenerationFails(r, paymentRequired)
  \/ SettleCommits(r) \/ SettleSkips(r) \/ SettleThrows(r) \/ SettleAckLost(r)
  \/ MarkEvent(r) \/ DisableTraffic(r) \/ Abandon(r)
  \/ ReleaseUnused(r) \/ CatchFails(r)

Next ==
  \/ \E r \in Requests :
       \/ \E p \in Routers : Arrive(r, p)
       \/ HandlerStep(r)
       \/ ClientCloses(r) \/ AbortLands(r) \/ Age(r)
  \/ Sweep
  \/ \E p \in Routers :
       Boot(p) \/ BeginDrain(p) \/ ShutdownMark(p) \/ Exit(p) \/ Crash(p)
  \/ \E mode \in OperatorModes : SetTrafficMode(mode)
  \/ \E u \in ManagedAccounts, active \in BOOLEAN : ChangeAccount(u, active)
  \/ \E w \in Windows : TimePasses(w)

Spec == Init /\ [][Next]_vars

(* Handlers, providers and clients may hang for ever.  Fifteen minutes do  *)
(* pass, someone sweeps (the timer, if enabled, or the recover-reservations*)
(* command), and a drain is bounded by its deadline.                       *)
Fairness ==
  /\ \A r \in Requests : WF_vars(Age(r))
  /\ WF_vars(Sweep)
  /\ \A p \in Routers : WF_vars(ShutdownMark(p)) /\ WF_vars(Exit(p))

FairSpec == Spec /\ Fairness

-----------------------------------------------------------------------------
(***************************************************************************)
(* Properties.                                                             *)
(***************************************************************************)

(* The advertising event of a turn is settled exactly when its reservation *)
(* is, so subsidy and impressions are never reported for an unpaid turn    *)
(* (settleAdmission writes both; abortEvent, markEventRecoveryRequired,    *)
(* sweeps and shutdown run beside it).                                     *)
EventSettledIffPaid ==
  \A r \in Requests : event[r] = "settled" <=> status[r] = "settled"

(* What a process tracks in memory belongs to a handler it still runs, so  *)
(* the drain's wait for activeRequestCount() = 0 waits for live work only. *)
TrackedIsLive ==
  \A p \in Routers : \A r \in tracked[p] : host[r] = p /\ pc[r] \in Running

(* A turn of the agent route whose provider was called is never released   *)
(* as unused: it is settled, or quarantined for an operator to reconcile,  *)
(* or still held, whatever fails (releaseAdmission's knownPreGeneration).  *)
AgentReleaseIsUnused ==
  \A r \in Requests \ ChatRequests : status[r] = "released" => r \notin called

(* Whoever was told a settlement has been charged, or the reservation is   *)
(* quarantined: the turn is never forgotten.                               *)
SettlementAccounted ==
  \A r \in Requests :
    told[r] = "settlement" => status[r] \in {"settled", "recovery_required"}

(* A handler reports a settlement that was not recorded only after its     *)
(* process has given up on it at the shutdown deadline, or if a deadline   *)
(* beyond 15 minutes lets a sweep overtake it.                             *)
UnrecordedOnlyAtShutdown ==
  [][ \A r \in Requests :
        told[r] # "settlement" /\ told'[r] = "settlement" =>
          \/ status'[r] = "settled"
          \/ router[host[r]] = "exiting"
          \/ StaleWhileLive ]_vars

(* The router only ever changes the rows as the ledger's transactions do.  *)
ImplementsLedger == LedgerSpec

(* Every reservation is eventually settled, released or quarantined, even  *)
(* if its router dies, its client leaves or its statements fail: a lost    *)
(* turn cannot hold budget and a concurrency slot for ever.                *)
EveryReservationResolves ==
  \A r \in Requests : status[r] = "reserved" ~> status[r] # "reserved"

(* A drain ends: no handler, not even one that hangs, can keep a process   *)
(* from exiting (the 115 second deadline of shutdown()).                   *)
DrainCompletes ==
  \A p \in Routers : router[p] = "draining" ~> router[p] = "down"

=============================================================================
