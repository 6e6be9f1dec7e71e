# Verification of AdRouter in TLA+

AdRouter routes the turns of coding agents to model providers and lets
advertisers subsidise them. The repository holds three programs:

| program | directory | what it is |
|---|---|---|
| router | `router/` | Express service; hosted on several processes over one PostgreSQL |
| desktop agent | `adrouterAgent/` | Electron application that runs agent turns in isolated child processes |
| CLI | `adrouterCLI/` | terminal agent derived from an upstream project |

This directory specifies the parts of the system whose correctness depends on
interleavings, failures and order, model-checks them with TLC on small
instances, and proves the important invariants with TLAPS for every value of
the constants. `PROJECT.json` lists the runs, the source lines behind each
definition, the hazards and the theorems.

## 1. Inventory

### Router

**Reservation ledger** (`router/src/runtime/admission.ts`). State: the tables
`reservations`, `usage`, `beta_users` and the single row `platform_settings`,
which caches the number of active requests. Operations: reserve the worst-case
cost of a request, settle it, release it, quarantine it (`recovery_required`),
in the request's own transactions, in the stale sweep and at shutdown. Hard:
all router processes do this at once. Correct when limits hold, the cache is
exact and an outcome is final.

**Life of an admitted request** (`admission.ts`, `routes/agent-turn.ts`,
`routes/chat.ts`, `lib/persistence.ts`, `runtime/recovery.ts`,
`runtime/state.ts`, `index.ts`). State: where each handler is, the reservations
a process tracks in memory, the advertising event of the turn, the life cycle
of the process. It calls the ledger's transactions and the provider. Hard: a
statement can fail, or commit with its acknowledgement lost; clients leave at
any moment, which updates the event without waiting; a sweep or a shutdown can
give a reservation up under a live handler; processes die. Correct when nothing
is charged twice or forgotten, events agree with reservations, every
reservation resolves, and a drain ends.

**Campaign inventory copy** (`lib/sponsorStore.ts`). State: the embedded copy of
the active campaigns, its version, a running refresh, a LISTEN connection, a
poll timer. Hard: a refresh reads in three statements, notifications get lost or
join a refresh that is too old. Correct when the copy is one version of the
inventory, never goes back, and catches up.

**Owner console, registration, submission** (`routes/owner.ts`,
`routes/account.ts`). State: accounts, campaigns, invitations, audit events.
Hard: owners act on rows they loaded earlier, and transactions overlap. Correct
when no change is lost, reviews are final, only approved campaigns are active,
invitations are single-use and an owner remains.

**Device authorization and machine tokens** (`routes/platform-auth.ts`,
`runtime/platform-auth*.ts`, `runtime/machine-auth.ts`). State: device
authorizations, installations, token families, nonces, used proofs. Hard:
polling races approval and cancellation; two exchanges of one refresh token
overlap; answers get lost. Correct when a device authorization is redeemed once
and for the user who approved it, a family has one usable token, a reused one
ends its family, and a cancellation that was answered stays.

**Planning and settlement arithmetic** (`lib/agent-routing.ts`, `lib/tiers.ts`,
`lib/pricing.ts`, `lib/guardrail.ts`). Pure functions, and the order of the
streamed events.

**Provider adapters, local SQLite store, health, metrics, analytics, catalog,
configuration, logging.** I/O and reports.

### Desktop agent

**Runtime scheduler** (`src/main/runtime-scheduler.ts`): leases on workspaces
and Git directories, a queue of at most 32, a capacity (1 in the product, up to
4 in the class). Correct when no two active leases conflict, no earlier
conflicting task is overtaken, and queued tasks start.

**Runtime supervisor and tasks** (`runtime-supervisor.ts`, `task-service.ts`,
`operation-broker.ts`): pending and active runtimes, readiness timeout, stop
timer, crash handling, approvals, operations, delegated children. It drives the
scheduler and writes the journal. Correct when a thread has at most one runtime,
a lease outlives its process, every turn ends in one terminal status, and an
allow-once approval is used once.

**Journal database** (`database.ts`, `session-service.ts`): event sequences,
checkpoints, approvals, forks, recovery of interrupted turns.

**Installation authentication, configuration** (`installation-auth.ts`,
`configuration-store.ts`). State: the configuration file with the installation,
its refresh token and a pending enrollment; the access token, the refresh in
flight and the poll loop in memory. It is the client of the router's platform
authentication. Hard: every operation on the file reads it, awaits, and writes
the whole of it back; writes fail; the process dies between an answer of the
router and the write. Correct when the stored refresh token is one the router
takes, and everything the desktop does keeps the router's own promises.

**Agent runtime process** (`src/runtime/agent-session.ts`, `index.ts`,
`router-client.ts`, `ndjson.ts`): the turn loop and its pending maps.

**Local RPC server, IPC, bundles, Git and review services, tools and sandbox,
renderer, launcher**: mostly glue, policies over strings, and presentation.

### CLI

**Agent loop and harness** (`packages/agent`), **AdRouter provider and
credentials** (`packages/ai/src/api/adrouter.ts`,
`packages/coding-agent/src/core/adrouter-auth.ts`, `auth-storage.ts`), session
tree, interactive and RPC modes, terminal UI, provider catalogs and bundled
extensions.

### Interaction

```
 desktop / CLI --signed HTTP--> router processes --SQL--> PostgreSQL
   scheduler <- supervisor        handlers, sweep,         reservations, usage,
   supervisor <-> runtime child   drain, inventory copy    events, accounts,
   supervisor -> journal          owner console            campaigns, tokens
                                        ^----- LISTEN/NOTIFY -----'
```

## 2. Plan

| # | modules | abstract specification | theorems | state |
|---|---|---|---|---|
| 1 | `ReservationLedger`, `RouterAdmission` | the ledger is what the routers implement | all safety properties, the refinement | done |
| 2 | `CampaignInventory` | - | one version, no step back | done |
| 3 | `OwnerConsole` | - | chain of audits, final reviews, invitations, last owner | done |
| 4 | `Queues`, `RuntimeScheduler` | `WorkspaceLeases`: exclusive, bounded leases granted in order | the loop of `drain()` is its closed form, no lost wake-up, the refinement | done |
| 5 | `RuntimeSupervisor` over 4, `StructuredOperations` over both | the scheduler's and the supervisor's own specifications | leases cover processes, final outcomes, no runtime or turn lost, approvals used once, the refinements | done |
| 6 | `PlatformAuth`, `InstallationAuth` over it | `ServerSpec`: the router with arbitrary clients | one usable token, reuse, single redemption, cancellation; the desktop is such a client and keeps a usable token unless operations overlap or fail | done |
| 7 | `AdmissionStatements`: the ledger's transactions as statements with row locks | implements `ReservationLedger` | the refinement, and with it the ledger's properties | done |
| 8 | journal and checkpoints, the runtime's pending maps, local RPC server, CLI session tree and credential file | - | sequences, recovery | open |

The order follows what the system exists for (money first), then what a single
user can lose (work in a workspace), then authentication. The modules declare
no recursive operators, which the prover cannot take; the one loop that needs
recursion is a recursive function.

How the modules build on one another (an arrow is EXTENDS, so that a step of
the upper module contains the step of the lower one):

```
 RouterAdmission -> ReservationLedger <- AdmissionStatements
 CampaignInventory          OwnerConsole
 StructuredOperations -> RuntimeSupervisor -> RuntimeScheduler -> Queues
                                              RuntimeScheduler ...WITH... WorkspaceLeases
 InstallationAuth -> PlatformAuth
 MC<M> -> <M>, for TLC          <M>Proofs -> <M>, for TLAPS
```

## 3. What is modelled

### `ReservationLedger`

One action per transaction. `Reserve` has the checks of `reserve()`
(`admission.ts:91-168`) as conjuncts: traffic mode, account status, the two
concurrency limits, then the account's and the platform's budgets for day and
month. `Settle` is `settleAdmission` past its row check. `GiveUp(S, target)` is
the statement shared by `releaseAdmission`, `markStaleReservations` and
`markReservationsRecovery`. `BeginWindow` moves the day or the month on.

*Why a transaction is one step.* `AdmissionStatements` shows it, below.
`usage.created_at` is `now()`, the time at which the settling transaction began:
a settlement that is open at midnight commits a row of the past day. `Settle`
therefore counts its row in the windows `begun`, any of `Beginnings`.

*Abstractions.* Requests are names; amounts are natural numbers of microdollars;
limits are constants, so a run is a period between two changes of the limits
(lowering a limit below what is spent would trivially break `BudgetRespected`).
A sum is written as the cardinality of a set of coins, `UNION {{r} \X 1..f[r]}`,
which needs no recursion and lets TLAPS use the theorems on cardinality.

### `AdmissionStatements`

The same transactions, one action per statement that locks or reads. The
ledger's variables are the committed rows. `reserve()` has eight statements before
its writes: the singleton row for update, the account's row for update, the
count, the sums held, four sums spent, with the check that follows each;
`settleAdmission` locks its reservation's row, looks at its status, and comes to
the singleton row last; a release, sweep or mark is one statement of two updates
(`with changed as (update reservations ..) update platform_settings ..`), which
finds its rows in a snapshot, locks them one by one, looks again at a row that
was changed meanwhile, and then locks the singleton row (`giving`, one for each
of the `Sessions`). Between any two of these steps every other transaction may
run.

*Decisions.* Isolation is read committed, PostgreSQL's default, which the code
does not change: a statement sees what is committed when it begins. A locked row
makes others wait (`PlatformFree`, `AccountFree`, `RowFree` are guards), and a
cycle of waiting is broken by the server, which is a rollback; so are a rejected
request, an error, a lost connection and the death of the process
(`RollbackReserve`, `RollbackSettle`, `RollbackGiveUp`, possible at any time).
The writes of a transaction and its commit are one step, as nobody sees them
one by one. `now()` is the time at which a transaction began: `began`,
`created` and `epoch` count days and months, and the sums compare them as
`created_at >= date_trunc(.., now())` does, so a reservation that is open at
midnight adds up two days. `UpdateTraffic` and `UpdateAccount` wait for their
row and are one step; that the owner's transaction is longer only makes
`reserve()` wait. Left out: the lock on the advertising event (`settleAdmission`
may roll back at any time, for that reason too), locks of foreign keys, which
exclude nothing here, changes of limits, and a second `settleAdmission` of one
request, which no handler starts.

### `RouterAdmission`

A handler is a program counter; a step ends at each `await`. `Arrive` to
`ReleaseUnused` follow the two routes. What runs beside a handler: `ClientCloses`
and `AbortLands` (the unawaited `abortEvent`), `Age`, `Sweep`, `Boot`,
`BeginDrain`, `ShutdownMark`, `Exit`, `Crash`, the operator, the owner and the
calendar. `AdmitAckLost` and `SettleAckLost` commit and report a failure. A
handler may hang at its provider or in a statement: nothing but the deadlines
of the code moves it on.

*Decisions.* In the agent route a failing statement of the catch block is an
unhandled rejection (Express 4 does not await handlers), which ends the process:
it is covered by `Crash`. In the chat route the same failure reaches an outer
catch that releases the reservation as unused (`CatchFails`). `StaleWhileLive`
says whether `ROUTER_REQUEST_DEADLINE_MS`, which has no upper bound, was set
above the 15 minutes of the sweep. `NoRouter` stands for no process.

### `CampaignInventory`

`ReadVersion`, `ListCampaigns`, `RereadVersion` are the awaits of
`performRefresh`; `Apply`, `Retry`, `Exhaust` and `Fail` its ends. `Refreshes`
names refreshes that might overlap: the code allows one, and that it does is
what `NeverGoesBack` rests on (its mutant starts one per request). `content`
is the history of the inventory. That the database raises the version and
notifies in the transaction of the change is external: the trigger is not in
the repository. A notification stays in `mail` until the process reads it or
the connection breaks.

### `OwnerConsole`

A mutation is asked for with the revision the owner saw (any up to the present
one), waits for its row (`Free`), decides and locks (`LockAccount`,
`LockCampaign`), counts the other owners when it must (`CountOwners`), and
writes row and audit event with the commit. Registration locks the invitation,
then the account. `Rollback` ends any transaction, as errors and lost
connections do. The revision is raised by a trigger on each update and the
eligibility trigger deactivates campaigns; both are external. `Overlap = FALSE`
restricts owner mutations to one at a time, as `LastOwnerKept` assumes.

### `Queues`, `WorkspaceLeases`, `RuntimeScheduler`

The scheduler's methods are synchronous and end in `drain()`, so `Enqueue`,
`Cancel`, `Release` and `StartRejected` are one step each. `drain()` is a loop
that starts over at the front after each task it lets through; the model has
its closed form, `LetThrough`: the tasks that conflict with no holder and no
earlier task, in order, as many as there is capacity for. `DrainRound` and
`DrainLoop` transcribe the loop (a round lets the first startable task through,
and rounds go on until one finds nothing), and `DrainIsLoop` says that after
each of the three methods both leave the same queue and the same holders.
The operators take the queue and the holders they start
from, because `Cancel` and `Release` drain what they leave. `starting` holds
the tasks whose `start()` has not settled: a rejection takes the lease away,
unless somebody else has already.

`Queues` writes "the queue without these" by the rank of each kept index
instead of `SelectSeq`, so that provers can say what it returns.

`WorkspaceLeases` is what the supervisor relies on: some of those that wait are
granted, never against a holder, never against one that asked earlier and
conflicts, never above the capacity. How many are granted it leaves open;
`NoLostWakeup` says that the scheduler grants all it can.

### `RuntimeSupervisor`

`TaskService.start()` is `CallStartTurn` to `LeaseResolved`, one step for each
await; `Launch` and `LaunchRejected` are the microtask the scheduler leaves
behind, which runs before the next event (`Quiet`). A child process is what
main hears of it: ready, events in order, exit; what it does is free. The rows
of turns, threads and approvals are variables, each transaction of the
synchronous SQLite journal being part of the step that makes it. `Finish` is
`finish()`, `FinishPending` the path of a turn that never ran. `Restart` kills
everything and runs `recoverInterruptedRuns()`.

*What the properties rest on.* `NoOrphanRuntime` and `NoGhostTurn` hold with
`Capacity = 1`, as the product sets it: `start()` checks that its thread is
free, awaits the lease and records the runtime without looking again, so two
starts of one thread can both be enqueued, and what saves the map is that only
one of them runs. Their theorems name this as `OneRuntimePerChat`, while
`OneWriterAtWork` and `OutcomeIsFinal` are proved for any capacity. In `LeaseResolved` a full
queue throws after the pending entry of the thread was overwritten, which the
code then deletes: with the product's bound of 32 this needs 33 chats.
`SessionFails` reports an error that nothing acts upon (`runtime.crash` as an
event), so `TurnsEnd` names it as its exception: such a turn holds its lease
until the user stops it.

### `StructuredOperations`

The broker's operations on top of the supervisor: `Propose` binds one to an
approval, `Request` consumes the approval and begins or queues it, `TurnComes`
and `Ends` are `serializeProcess()`, `CancelRequest` the runtime's time limit.
`Follow` says what a step of the supervisor does to operations: decisions
arrive, `finish()` aborts. An operation that was aborted while it waited begins
all the same and ends early; file operations and `dependency.apply` take no
signal, so all the model says of them is that they end. An operation may
therefore outlive its turn and the lease that came with it: the lease goes with
the child's exit, and nobody waits for the operation. `OverlapIsAborted` says
what `finish()` does ensure: no operation that was left alone works beside
another turn's process under a conflicting lease.

### `PlatformAuth`

A request reads its row without a lock and verifies a proof
(`LookPoll`, `LookRefresh`, `LookCancel`), then acts in one transaction
(`Redeem`, `Rotate`, `RevokeReused`, `Withdraw`); other requests and users come
between. `Slots` are the requests handled at a time. A refused exchange of a
used token goes on to `RevokeReused` in a transaction of its own. `Answer` is
what the client may hear or lose. `grants`, `exchanged` and `replayed` are
history, for the properties. `ServerSpec` has clients that send any token that
was issued.

### `InstallationAuth`

The flows of the desktop's main process: refreshes (`Flights`), the poll loop of
an enrollment, the user's cancelling of it; a step is what a flow does between
two awaits. `flight` is `refreshFlight`, the refresh that callers join. Each
operation on the configuration file is `Reads` and then its write
(`StoresRotation`, `Wipes`, `MarksReconnect`, `StoresEnrolment`, `Saves`,
`Completes`, `Clears`) or the failure of it, so that two that overlap undo one
another as they do in the code. A rotation that cannot be stored
(`RotationNotStored`) drops the flight at once and then wipes the file, so that
another refresh may start during the wipe, and the first one's `finally`
(`FlightEnds`) drops the second's flight; a failed creation of an enrollment is
withdrawn at the router and then tidied out of the file. Writes fail, connections break with the request handled or
not, access tokens expire, the process dies with its flows and starts again
from the file. `Overlap = FALSE` lets a flow read the file only when no other
has read it and not yet written: the runs have `Overlap = TRUE`, as the code
does nothing of the kind, and `PreviousStaysUsable` has `FALSE`.

*Decisions.* One poll loop at a time (a second enrollment aborts the first
before it begins). At most two refreshes are followed at a time: a third would
need a second failing store while the first wipe is still going on. The answer
to a request that nobody waits for is dropped before anything else happens
(`Forgotten`): it could only take up a slot for longer. Left out: the expiry that `enrollmentStatus()` finds by
itself (it does what the poll loop's does), signing out, replacing a stored
enrollment that has expired, nonces and their retry, rate limits and the
polling interval.

## 4. Runs

| run | instance | shows |
|---|---|---|
| `ledger_statements` | 3 requests of 2 accounts, statement by statement, 2 connections that release, sweep and mark, 1 new day or month | every commit is a transaction of the ledger; the counter is exact, limits and budgets hold, usage is one to one with settlements, outcomes are final |
| `admission` | 2 routers, an agent and a chat request, faults, default deadline | every step of every router is a ledger transaction; tracked turns are live; releases are unused (agent route); a settlement that was reported is unrecorded only past the shutdown deadline |
| `router_hangs` | 1 router whose handlers may hang, sweeps that overtake them, fair sweeps and deadlines | events agree with reservations, settlements are accounted for, every reservation resolves, a drain ends |
| `inventory` | 1 router, 1 campaign, 4 versions, 2 possible refreshes, faults, fair refreshes and poll | the copy is one version, never goes back, and the poll alone catches up |
| `console` | 1 owner, 2 users of one address, 1 campaign, 2 transactions, 2 owner mutations | chain of audits, approved campaigns, single-use invitations, final reviews, no self-reinstatement |
| `last_owner_race` | 2 owners, overlapping | **violation**: no owner remains |
| `scheduler` | 4 tasks on 2 worktrees of a repository and a folder, capacity 2, queue of 3 | implements the leases, loses no wake-up, the closed form is the loop, every queued task is served |
| `supervisor` | 2 turns of one chat, capacity 1, faults, restarts, compaction | one writer, no orphan, no ghost, final outcomes, a stop ends its turn, turns end |
| `compaction_of_running_task` | 1 turn of a chat that is compacted, nothing fails | **violation**: the compaction is written while the turn runs |
| `operations` | 2 turns of one chat, 3 operations of which 2 by process | begun once and only if allowed, none after the end, none left alone beside the next turn's process, the queue moves |
| `installation` | 1 installation enrolled, refreshed, cancelled, revoked; 1 user, 2 requests at a time, 3 tokens, faults | one usable token, reuse ends the family, one redemption, final cancellation |
| `rotation_overwritten` | a connected installation, another one enrolled, nothing fails | **violation**: the stored refresh token is a spent one |

*Why the bounds suffice.* The conflicts of the ledger are between two requests
for one slot or one budget, of one account and of two; three requests over two
accounts contain both. Two of them share an account of one slot, any two fit the
platform's slots and its budget, all three fit neither. Of the budgets only the
platform's binds in this instance, never an account's: that the account's half
of `BudgetRespected` holds rests on the theorems (`BudgetsHold`,
`StatementsKeepBudgets`), which cover all values. Two connections release and sweep the same row at once, and one turn of the
calendar may fall between any two statements. A handler interacts with
others through rows and its own process only, so two requests and two routers
show each pairwise race. Four versions let all three attempts of a refresh be
overtaken; one campaign is enough for copies to differ, because a listing is
one statement. Two overlapping transactions are what a row lock orders. Four
tasks give the scheduler a reader and writers before and behind a holder and
one that conflicts with nobody. Two turns of one chat are what the supervisor's
maps can confuse; the third chat that could wait behind them is the scheduler's
matter. Two requests at a time contain every overlap of two exchanges and of a
poll with a cancellation; three tokens let a spent token be presented after two
rotations, and two exchanges of one token both succeed if nothing stops them. One user decides in `installation`: that two users who resolve one
authorization at once cannot both have it is covered by
`AuthorizationsRedeemedOnce` only. `rotation_overwritten` runs without faults
and says nothing of a rotation that cannot be stored; `installation` does. What the instances leave out in number, the theorems cover.

Bounds appear in guards only as `MaxEpoch` (days that begin in
`AdmissionStatements`), `MaxVersion` (changes of the inventory),
`MaxAudit` (owner mutations asked for), `MaxTokens` (rotations of a family) and
the `runs[o] < 2` of a mutant. `CHECK_DEADLOCK FALSE` is set where the system may
really stop: when `MaxAudit` is reached and everything is done, when all turns
are over (each turn is started once), and when all tokens are used. Symmetry is
used in safety runs only, over names that occur in no other constant.

*Mutants.* Each property of a passing run has a mutant: a definition of the
model replaced by a plausible mistake (a dropped status guard, an off-by-one, a
missing `finally`, a lock not taken, a drain forgotten), under which TLC must
find the property violated in the same configuration.

*Fairness.*
- There is none in `ledger_statements`, whose properties are all of safety.
- `router_hangs`: time passes for a reservation (`Age`), someone sweeps, and a
  drain passes its deadline and exits. Handlers themselves are not fair: a
  statement or a provider may hang for ever. The sweep is fair
  only where the operator enables `ROUTER_RECOVERY_INTERVAL_MS` (default 0) or
  schedules `recover-reservations`; without either, only a boot sweeps and a
  lost reservation holds its slot until then. Nothing is assumed of clients,
  crashes, boots or operators.
- `inventory`: a refresh goes on and the poll timer fires. Statements may fail,
  so that some refresh goes through is strong fairness: it fails now and then,
  not for ever. Nothing is assumed of notifications.
- `scheduler`: each holder is released some time.
- `supervisor`: microtasks run, the main process's own awaits are resumed and
  timers fire; a process that was told to end exits; a session that is not
  waiting for an answer ends some time (strong fairness: questions may interrupt
  it again and again), and users answer. `StopEndsTurn` uses only microtasks and
  the stop timer of this. Nothing is assumed of faults and restarts.
- `operations`: while operations run or their turn has come, one of them goes on;
  microtasks run.
- There is no liveness of `installation`: whether an enrollment ends is up to
  the user who approves it, and whether a refresh succeeds up to the network.

### The violations

`last_owner_race`. `openapi.yaml:481` promises "The last active owner is
protected". `mutateAccount` locks the target's row and then counts the *other*
active owners without locking them (`owner.ts:414`), at PostgreSQL's default
isolation. Two overlapping suspensions, A of B and B of A, each see the other
owner active, and both commit. `LastOwnerKept` proves that overlap is the only
way. A lock common to all owner changes, taken before the count, would close it.

`compaction_of_running_task`. `compact()` refuses a chat that is not idle:
"Manual compaction requires an idle task with no pending approval"
(`task-service.ts:107-108`). It then awaits the configuration and writes the
compaction without looking again. A start that was under way when it looked has
set the turn running meanwhile (its own chat is marked only after its awaits),
so the compaction marks the chat of a running turn idle. Looking again after
the await, which nothing interrupts until the last row is written, would close
it.

`rotation_overwritten`. `adrouterAgent/docs/platform-setup.md:105` says that a previous working
installation remains active until its replacement is stored. The poll
loop of a new enrollment reads the file, a refresh stores its rotation, and the
poll loop writes back what it read: the token it restores is spent, and the next
refresh presents it, which ends the family. Serialising the configuration
store's read-modify-write closes it: `PreviousStaysUsable` proves that without
overlap, and without faults, the promise holds.

## 5. Proofs

All proofs are checked without omitted steps. Each invariant was first checked
by TLC. The proof modules hold for every value of the constants that satisfies
the modules' `ASSUME`s.

**`ReservationLedgerProofs`.** `LedgerTypeCorrect`, `CounterExact`,
`UsageExact`, `ConcurrencyBounded`, `BudgetsHold`, `OutcomesFinal`.
The strengthening (`CoreInv`) joins the types with two facts: the counter
equals the number of reserved rows, which makes `greatest(0, ...)` an exact
subtraction, and the usage rows are those of settled reservations, so that the
`on conflict do nothing` of a settlement never meets a row. For the budget,
spent and held are rewritten as one sum over committed amounts: a settlement
moves a request's coins from held to spent, and cannot increase the sum when no
charge exceeds its hold. That condition, `ChargesWithinHolds`, is an assumption
of `BudgetsHold`: the code does not enforce it (it follows if the token estimate
bounds what the provider bills), and the `ledger_statements` run satisfies it.

`StatementsAreTransactions`: the statements of `AdmissionStatements` implement
the ledger. Of all their steps only the three commits change the ledger's rows,
so what is to be shown is that at a commit the guard of the ledger's action
holds: what the transaction has read in earlier statements must still be true.
The invariant (`StatementsInv`) has four parts besides types and `CoreInv`.
`AdmitsAlone`: while a `reserve()` has the singleton row, no other one has, and no
settlement or release has come to it, and all of these need it to commit.
`Informed` says, for each stage of `reserve()`, which of its readings equal the
committed rows; by `AdmitsAlone` nobody can commit a change of them, by the
account's lock nobody can suspend the account, and the day that may turn
meanwhile can only make less of what was summed count (`SpentCounted`): the check
is stricter than the ledger's, never weaker. `RowsGuarded`: a row that a settlement
or a release has locked is reserved and nobody else's, so that a release counts
exactly the rows it changes and `on conflict do nothing` never hides a conflict.
`CalendarKept`: a row of the current day was created in it. The ledger's
properties follow for the statements (`StatementsKeepBooks`,
`StatementsKeepBudgets`); `ReadingsHold` states the argument by itself.

**`RouterAdmissionProofs`.** `RouterImplementsLedger` maps every step of every
router to a ledger transaction or a stutter, so the ledger's theorems carry
over (`RouterKeepsLedgerSafe`). The other invariants are layered: an event is
settled only with its reservation (`EventInv`); a tracked reservation has a
running handler on that process (`TrackInv`); a settling or settled handler's
reservation is neither absent nor released (`OutcomeInv`); on the agent route
the provider was called only past the point from which `releasing` cannot be
reached (`ReleaseInv`); with the default deadlines a handler that is settling
still holds its reservation unless its process is past the shutdown mark
(`ServedInv`).

**`CampaignInventoryProofs`.** `CacheInv`: a refresh that has listed campaigns
between two equal readings of the version has listed that version's, since
versions only grow. `OrderInv`: at most one refresh runs, and what it read is
at least what is applied.

**`OwnerConsoleProofs`.** `ConsoleInv`: a locked row has one holder, the
holder's copy equals the row, the audit trail is a chain that ends in the row,
an invitation being claimed is unclaimed or the claimant's. Everything but the
last owner follows. `OwnersInv` adds that an owner mutation under way is the
only one and that the counted owner is still active; it needs `~Overlap`.

**`RuntimeSchedulerProofs`.** `WakeupsKept`, `DrainLoopExact`,
`SchedulerImplementsLeases`, `HoldersExclusive`. The lemmas on ranks say that
the n-th kept index exists, is unique and grows with n (a finite set of numbers
is in bijection with its ranks, by the library's theorem on injections), which
gives what `Without` returns. The invariant (`Drained`): the queue has no task
twice and none that holds, holders do not conflict and fit the capacity, and
nobody is left who could start. That `drain()` keeps the last part is the heart:
the clear tasks of rank up to the free capacity start, so either the capacity is
used up, or every clear task started; and a task that is clear after the drain
was clear before it, since what stood in its way became a holder or still waits
in front (`DrainClearsNobody`).

`DrainLoopExact` shows that the closed form is the loop, for every queue and
every set of holders, so nothing rests on the choice of the form. After n rounds
the loop has let the first n clear tasks through and nobody else (`Reached`): a
round takes the first startable task, which is the clear task of rank n + 1,
because a task it would overtake is one of the n or still waits
(`RoundStarts`); and it stops exactly when the clear tasks or the capacity end
(`RoundStops`). The queue shrinks in each round, so `Len(q)` rounds are enough
(`RoundsEnd`). The induction is on the number of rounds, by the least number of
rounds that fails.

**`RuntimeSupervisorProofs`.** The invariant `SupervisorInv` has three layers.
*Types.* *Leases* (`LeaseInv`): a turn is enqueued once, when its call is over;
one that waits has no process; a process that works, or may still become ready,
belongs to a holder. `LeaseCoversProcess` follows with `Drained`: the readiness
timeout may free a lease early because a process that is not ready never begins.
*Outcomes* (`OutcomeInv`): what a call has written matches where it is, and a
turn in one of the supervisor's maps is open, which gives `OutcomesFinal`.
*Chats* (`RuntimesInv`): the runtime that the map has for a chat holds its lease
and has not been told to end, and the two properties themselves. What keeps the
map right is that of two turns of a chat one at most has been let through,
`OneRuntimePerChat`: with one worker, which is all `configuredRuntimeWorkers()`
ever returns, or if turns of one chat conflict.
`NoRuntimeLost` and `NoTurnForgotten` follow from it.
`SupervisorUsesScheduler` shows that the supervisor meets what the scheduler
expects of its callers (a task is enqueued again only after its `start()` has
settled), so `SupervisorImplementsLeases` follows from the scheduler's theorem;
both are for `~Restarts`, since a restart begins with a new scheduler.
`OperationsUseSupervisor` adds the operations, whose invariant ties an approval,
the number of runs and the place in the queue: `ApprovalsUsedOnce`,
`ProcessesOneByOne`, `NoLateRequests`. `OverlapsAborted` adds `UnabortedInv`: an
operation in progress that has not been aborted belongs to a runtime that its
chat has and that works, since `finish()` aborts when it takes the runtime away
(`AtWorkUntilClosing`); so its turn still holds the lease, and
`LeaseCoversProcess` leaves nobody beside it.

**`PlatformAuthProofs`.** For any clients (`ServerSpec`). `ServerInv` says that
tokens but the last are used or revoked, that a revoked family has all of them
revoked, that a token was exchanged only if it is used, and what a request
between its look and its transaction may rely on: very little, which is why the
transaction checks again. It gives `OneTokenLeft`, `ReuseDetected`,
`AuthorizationsRedeemedOnce`, `CancellationsFinal`.

**`InstallationAuthProofs`.** `DesktopIsClient`: every step of the composition
is a step of `ServerSpec`, because what the desktop presents was issued, however
stale the file is. The four properties of the router follow for the composition.
`PreviousStaysUsable` is about the desktop itself, with `~Faults` and `~Overlap`.
Its invariant (`AloneInv`): a flow that has read the file knows what is in it
(`OneReader`); what the desktop holds - in the file, or in a call of
`authorize()` that may still start a refresh - is unspent, or is what the refresh
in flight presents and replaces (`StoreSafe`); that refresh is the only request
that presents a token, so it is never taken for a reuse (`RefreshSafe`); and the
token that an enrollment was handed is of an installation of which the desktop
holds nothing else (`EnrolSafe`). Without faults a store never fails, so that
there is one refresh (`OneFlight`) and the file is never wiped (`NothingWiped`).

*Assumptions.* Only the `ASSUME`s of the modules, which TLC evaluates in the
runs, and the hypotheses named above: `ChargesWithinHolds`, `~Overlap` for
`LastOwnerKept`, `~Faults` and `~Overlap` for `PreviousStaysUsable`,
`OneRuntimePerChat` for the supervisor's maps, `~Restarts` for its refinements,
both for `OverlapsAborted`.
`UnrecordedExplained` states its own exception for `StaleWhileLive`.

*Only model-checked.* Liveness (`EveryReservationResolves`, `DrainCompletes`,
`CatchesUp`, `EveryTaskServed`, `StopEndsTurn`, `TurnsEnd`, `QueuedOpBegins`):
the prover has no support for fairness and `ENABLED`. Every invariant, action
property and refinement that a passing run checks is also proved.

## 6. Not modelled

Most of the repository's lines are vendored packages, generated model tables,
terminal and browser user interface, documents and tests; the model covers a
small share of them and aims at the code whose steps interleave, fail and are
retried. What it leaves out of that code:

- The database's own triggers, constraints and migrations, beyond what the code
  relies on; deadlocks that PostgreSQL resolves by aborting one transaction are
  a `Rollback` or a failing statement.
- Audit events of operators and of registrations, which nothing reads back; the
  two operator routes write them in a statement of their own, so a crash
  between the two loses the event.
- Changes of limits, prompts, prices, embeddings, similarity, HTTP and parsing;
  the planning and settlement arithmetic, which is over decimals and floats.
- The router's listener that finishes connecting after `stopSponsorStore`
  (`sponsorStore.ts:107-109` reads `stopping` only before its awaits): the
  process ends soon after.
- The shutdown's wait for a running refresh before it closes the server and
  starts its own deadline (`index.ts:78`).
- Local profile: one process, synchronous SQLite.
- The desktop's journal beyond the statuses of turns, threads and approvals:
  event sequences, checkpoints, forks and imports are synchronous transactions
  of one process. The race of a manual compaction with a start is in the model
  (`CompactBegins`, `CompactEnds`); that the compaction works on an old list of
  entries is not.
- The local RPC server, the agent runtime's turn loop and pending maps, the
  CLI's session tree and agent loop: state of one process without a protocol
  between actors, or still open (plan item 8). The CLI keeps its credential file
  locked through a refresh, so what `InstallationAuth` finds cannot happen there.
- Sandbox and tool policies, path and URL checks, bundles, updates, the renderer,
  the launcher and the build scripts: policies over strings, presentation, I/O.
