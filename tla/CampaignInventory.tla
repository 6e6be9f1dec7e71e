------------------------- MODULE CampaignInventory -------------------------
(***************************************************************************)
(* The campaigns each router routes from (router/src/lib/sponsorStore.ts). *)
(* A router keeps an embedded copy of the approved, active campaigns and   *)
(* the inventory version it belongs to.  It refreshes the copy when        *)
(* PostgreSQL notifies it, when its own owner console has changed a        *)
(* campaign, and when a poll every 15 seconds finds a newer version.  A    *)
(* refresh reads the version, the campaigns and the version again, in      *)
(* three statements that any change may fall between.                      *)
(*                                                                         *)
(* The database raises the version and notifies in the transaction that    *)
(* changes a campaign; that trigger is not part of the repository.         *)
(***************************************************************************)
EXTENDS Naturals, Sequences

CONSTANTS
  Routers,     \* the router processes
  Campaigns,   \* the campaigns
  Refreshes,   \* names for the refreshes of one process that might overlap
  Faults,      \* TRUE if the statements and embeddings of a refresh may fail
  MaxVersion   \* a bound on the changes of the inventory

ASSUME InventoryAssumption == MaxVersion \in Nat \ {0} /\ Faults \in BOOLEAN

VARIABLES
  content,    \* content[v]: the campaigns listed at version v of the inventory
  mode,       \* the life cycle of the process
  cache,      \* the campaigns it routes from
  applied,    \* appliedVersion; 0 before the first refresh
  refresh,    \* its running refreshes (refreshPromise holds at most one)
  listening,  \* the processes whose LISTEN connection is up
  mail,       \* notifications on their way to a process
  polls,      \* versions read by polls that have not compared them yet
  asked       \* owner mutations committed, their refresh not yet requested

vars == <<content, mode, cache, applied, refresh, listening, mail, polls, asked>>

Version  == Len(content)
Versions == 1..MaxVersion

(* The await a refresh is at: reading the version, listing the campaigns   *)
(* and embedding them, reading the version again, comparing the two.       *)
Steps == {"idle", "reading", "listing", "rereading", "comparing"}

RefreshStates ==
  [step : Steps, attempt : 0..2, before : Versions \cup {0},
   next : SUBSET Campaigns, after : Versions \cup {0}]

Idle == [step |-> "idle", attempt |-> 0, before |-> 0, next |-> {}, after |-> 0]

TypeOK ==
  /\ content \in Seq(SUBSET Campaigns) /\ Version \in Versions
  /\ mode \in [Routers -> {"down", "starting", "serving", "stopping"}]
  /\ cache \in [Routers -> SUBSET Campaigns]
  /\ applied \in [Routers -> Versions \cup {0}]
  /\ refresh \in [Routers -> [Refreshes -> RefreshStates]]
  /\ listening \subseteq Routers
  /\ mail \in [Routers -> SUBSET Versions]
  /\ polls \in [Routers -> SUBSET Versions]
  /\ asked \in [Routers -> BOOLEAN]

-----------------------------------------------------------------------------
InFlight(p) == \E f \in Refreshes : refresh[p][f].step # "idle"

Begin(p, f) == refresh' = [refresh EXCEPT ![p][f] = [Idle EXCEPT !.step = "reading"]]

(* Mutant: every request starts a refresh of its own.                      *)
RequestAlways(p) ==
  IF mode[p] = "serving" /\ \E f \in Refreshes : refresh[p][f].step = "idle"
    THEN \E f \in Refreshes : refresh[p][f].step = "idle" /\ Begin(p, f)
    ELSE UNCHANGED refresh

(* requestCampaignRefresh(): join the running refresh or start one.        *)
Request(p) ==
  IF mode[p] = "serving" /\ ~InFlight(p)
    THEN \E f \in Refreshes : Begin(p, f)
    ELSE UNCHANGED refresh

(***************************************************************************)
(* What happens in the database.                                           *)
(***************************************************************************)
ChangeInventory(c, by) ==
  /\ Version < MaxVersion
  /\ content' = Append(content, IF c \in content[Version]
                                  THEN content[Version] \ {c}
                                  ELSE content[Version] \cup {c})
  /\ mail' = [p \in Routers |->
                IF p \in listening THEN mail[p] \cup {Version + 1} ELSE mail[p]]
  /\ asked' = [p \in Routers |-> asked[p] \/ p \in by]
  /\ UNCHANGED <<mode, cache, applied, refresh, listening, polls>>

(* By an owner through router p, or by a trigger or another tool.          *)
OwnerChanges(c, p) == mode[p] = "serving" /\ ChangeInventory(c, {p})
OthersChange(c)    == ChangeInventory(c, {})

(* The owner's route goes on after its commit.                             *)
MutationRequests(p) ==
  /\ asked[p]
  /\ asked' = [asked EXCEPT ![p] = FALSE]
  /\ Request(p)
  /\ UNCHANGED <<content, mode, cache, applied, listening, mail, polls>>

-----------------------------------------------------------------------------
(***************************************************************************)
(* performRefresh().                                                       *)
(***************************************************************************)
At(p, f, step) == refresh[p][f].step = step
Becomes(p, f, state) == refresh' = [refresh EXCEPT ![p][f] = state]

ReadVersion(p, f) ==
  /\ At(p, f, "reading")
  /\ Becomes(p, f, [refresh[p][f] EXCEPT !.step = "listing", !.before = Version])
  /\ UNCHANGED <<content, mode, cache, applied, listening, mail, polls, asked>>

ListCampaigns(p, f) ==
  /\ At(p, f, "listing")
  /\ Becomes(p, f, [refresh[p][f] EXCEPT !.step = "rereading", !.next = content[Version]])
  /\ UNCHANGED <<content, mode, cache, applied, listening, mail, polls, asked>>

RereadVersion(p, f) ==
  /\ At(p, f, "rereading")
  /\ Becomes(p, f, [refresh[p][f] EXCEPT !.step = "comparing", !.after = Version])
  /\ UNCHANGED <<content, mode, cache, applied, listening, mail, polls, asked>>

(* Mutant: the two versions are not compared.                              *)
AgreeAlways(state) == TRUE

Agree(state) == state.before = state.after

(* The copy and its version are replaced without an await in between; at   *)
(* startup the routes are mounted then.                                    *)
Apply(p, f) ==
  /\ At(p, f, "comparing")
  /\ Agree(refresh[p][f])
  /\ cache' = [cache EXCEPT ![p] = refresh[p][f].next]
  /\ applied' = [applied EXCEPT ![p] = refresh[p][f].after]
  /\ mode' = [mode EXCEPT ![p] = IF @ = "starting" THEN "serving" ELSE @]
  /\ Becomes(p, f, Idle)
  /\ UNCHANGED <<content, listening, mail, polls, asked>>

Retry(p, f) ==
  /\ At(p, f, "comparing")
  /\ ~Agree(refresh[p][f])
  /\ refresh[p][f].attempt < 2
  /\ Becomes(p, f, [Idle EXCEPT !.step = "reading", !.attempt = refresh[p][f].attempt + 1])
  /\ UNCHANGED <<content, mode, cache, applied, listening, mail, polls, asked>>

-----------------------------------------------------------------------------
(***************************************************************************)
(* The life of a process.  All it knows is in memory.                      *)
(***************************************************************************)
Forget(p) ==
  /\ mode' = [mode EXCEPT ![p] = "down"]
  /\ cache' = [cache EXCEPT ![p] = {}]
  /\ applied' = [applied EXCEPT ![p] = 0]
  /\ refresh' = [refresh EXCEPT ![p] = [f \in Refreshes |-> Idle]]
  /\ listening' = listening \ {p}
  /\ mail' = [mail EXCEPT ![p] = {}]
  /\ polls' = [polls EXCEPT ![p] = {}]
  /\ asked' = [asked EXCEPT ![p] = FALSE]
  /\ UNCHANGED content

(* The inventory changed during all three attempts, or a statement or an   *)
(* embedding failed: the copy stays as it is; at startup the process ends. *)
GiveUpRefresh(p, f) ==
  IF mode[p] = "starting"
    THEN Forget(p)
    ELSE /\ Becomes(p, f, Idle)
         /\ UNCHANGED <<content, mode, cache, applied, listening, mail, polls, asked>>

Exhaust(p, f) ==
  /\ At(p, f, "comparing")
  /\ ~Agree(refresh[p][f])
  /\ refresh[p][f].attempt = 2
  /\ GiveUpRefresh(p, f)

Fail(p, f) ==
  /\ Faults
  /\ refresh[p][f].step # "idle"
  /\ GiveUpRefresh(p, f)

(* initSponsorStore() refreshes by itself, before anything else can.       *)
Start(p) ==
  /\ mode[p] = "down"
  /\ mode' = [mode EXCEPT ![p] = "starting"]
  /\ \E f \in Refreshes : Begin(p, f)
  /\ UNCHANGED <<content, cache, applied, listening, mail, polls, asked>>

(* stopSponsorStore(): no refresh begins, the running one is awaited.      *)
Stop(p) ==
  /\ mode[p] = "serving"
  /\ mode' = [mode EXCEPT ![p] = "stopping"]
  /\ listening' = listening \ {p}
  /\ mail' = [mail EXCEPT ![p] = {}]
  /\ UNCHANGED <<content, cache, applied, refresh, polls, asked>>

Exit(p)  == mode[p] = "stopping" /\ ~InFlight(p) /\ Forget(p)
Crash(p) == mode[p] # "down" /\ Forget(p)

-----------------------------------------------------------------------------
(***************************************************************************)
(* The listener and the poll.                                              *)
(***************************************************************************)
(* The poll that follows a connection is one of the polls below.           *)
ListenerConnects(p) ==
  /\ mode[p] = "serving" /\ p \notin listening
  /\ listening' = listening \cup {p}
  /\ UNCHANGED <<content, mode, cache, applied, refresh, mail, polls, asked>>

(* What was notified while the connection was down is lost.                *)
ListenerBreaks(p) ==
  /\ p \in listening
  /\ listening' = listening \ {p}
  /\ mail' = [mail EXCEPT ![p] = {}]
  /\ UNCHANGED <<content, mode, cache, applied, refresh, polls, asked>>

Notified(p, v) ==
  /\ v \in mail[p]
  /\ mail' = [mail EXCEPT ![p] = @ \ {v}]
  /\ IF v > applied[p] THEN Request(p) ELSE UNCHANGED refresh
  /\ UNCHANGED <<content, mode, cache, applied, listening, polls, asked>>

PollReads(p) ==
  /\ mode[p] = "serving"
  /\ Version \notin polls[p]
  /\ polls' = [polls EXCEPT ![p] = @ \cup {Version}]
  /\ UNCHANGED <<content, mode, cache, applied, refresh, listening, mail, asked>>

(* Mutant: the poll only runs while the listener is down.                  *)
PollComparesIfDeaf(p, v) ==
  /\ v \in polls[p]
  /\ polls' = [polls EXCEPT ![p] = @ \ {v}]
  /\ IF v > applied[p] /\ p \notin listening THEN Request(p) ELSE UNCHANGED refresh
  /\ UNCHANGED <<content, mode, cache, applied, listening, mail, asked>>

PollCompares(p, v) ==
  /\ v \in polls[p]
  /\ polls' = [polls EXCEPT ![p] = @ \ {v}]
  /\ IF v > applied[p] THEN Request(p) ELSE UNCHANGED refresh
  /\ UNCHANGED <<content, mode, cache, applied, listening, mail, asked>>

-----------------------------------------------------------------------------
Init ==
  /\ content \in {<<listed>> : listed \in SUBSET Campaigns}
  /\ mode = [p \in Routers |-> "down"]
  /\ cache = [p \in Routers |-> {}]
  /\ applied = [p \in Routers |-> 0]
  /\ refresh = [p \in Routers |-> [f \in Refreshes |-> Idle]]
  /\ listening = {}
  /\ mail = [p \in Routers |-> {}]
  /\ polls = [p \in Routers |-> {}]
  /\ asked = [p \in Routers |-> FALSE]

RefreshStep(p) ==
  \E f \in Refreshes :
    \/ ReadVersion(p, f) \/ ListCampaigns(p, f) \/ RereadVersion(p, f)
    \/ Apply(p, f) \/ Retry(p, f) \/ Exhaust(p, f)

Next ==
  \/ \E c \in Campaigns : OthersChange(c) \/ \E p \in Routers : OwnerChanges(c, p)
  \/ \E p \in Routers :
       \/ MutationRequests(p) \/ RefreshStep(p) \/ \E f \in Refreshes : Fail(p, f)
       \/ Start(p) \/ Stop(p) \/ Exit(p) \/ Crash(p)
       \/ ListenerConnects(p) \/ ListenerBreaks(p) \/ PollReads(p)
       \/ \E v \in Versions : Notified(p, v) \/ PollCompares(p, v)

Spec == Init /\ [][Next]_vars

(* A refresh that has begun goes on and is not failed for ever at the same *)
(* step, for the database and the embeddings answer in the end, and the    *)
(* poll timer fires.  Nothing is assumed of notifications, which may be    *)
(* lost or late for ever.                                                  *)
Fairness ==
  \A p \in Routers :
    /\ WF_vars(RefreshStep(p))
    /\ SF_vars(\E f \in Refreshes : ReadVersion(p, f))
    /\ SF_vars(\E f \in Refreshes : ListCampaigns(p, f))
    /\ SF_vars(\E f \in Refreshes : RereadVersion(p, f))
    /\ SF_vars(\E f \in Refreshes : Apply(p, f))
    /\ WF_vars(PollReads(p))
    /\ \A v \in Versions : WF_vars(PollCompares(p, v))

FairSpec == Spec /\ Fairness

-----------------------------------------------------------------------------
(***************************************************************************)
(* Properties.                                                             *)
(***************************************************************************)

(* A router routes from exactly the campaigns of one version of the        *)
(* inventory, the one it reports as applied: never from a mixture of two,  *)
(* whatever changes fall between the statements of a refresh.              *)
CacheIsOneVersion ==
  \A p \in Routers :
    applied[p] # 0 => /\ applied[p] <= Version
                      /\ cache[p] = content[applied[p]]

(* A router that serves never goes back to an older inventory: a refresh   *)
(* that started early cannot overwrite the result of a later one.          *)
NeverGoesBack ==
  [][ \A p \in Routers :
        mode[p] = "serving" /\ mode'[p] = "serving" => applied[p] <= applied'[p] ]_vars

(* A router that keeps serving ends up with the current inventory once the *)
(* changes cease, although a notification that arrives while an older      *)
(* refresh is about to finish joins that refresh and is forgotten.         *)
CatchesUp ==
  \A p \in Routers : <>[](mode[p] = "serving") => <>[](applied[p] = Version)

=============================================================================
