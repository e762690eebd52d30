# TLA+ models of ZYRQUEN 1.2 LTS

This directory holds TLA+ specifications of the parts of ZYRQUEN whose
correctness depends on the order of events: what several browser tabs, event
handlers, timers, a web worker and the server do to shared state.  TLC checks
the specifications on small instances; TLAPS proves every invariant and every
safety property of the passing runs for all values of the constants.  Paths below
are relative to the directory that holds `src/`; `src/src/` is the application, `src/server.ts` its Express
server.

## 1. The system

ZYRQUEN is a single-page React application with some forty services in
`src/src/services` and `src/src/utils`, a large number of views, and one server.
Most views only show data.  The state that must stay correct lives in the
services below.

JavaScript runs one callback at a time.  Everything between two `await`s (or
timers, or messages) is therefore one step, and every hazard of this code comes
from what other callbacks, other tabs or the server do *between* two steps.

| Component | State | Operations | Interacts with | Hard behaviour | Correct when |
|---|---|---|---|---|---|
| Offline audit sync (`services/offlineAuditSyncService.ts`) | queue and auto-sync preference in localStorage; per tab `isFlushing`, backoff attempt, four kinds of timers | enqueue, flush, forced flush, retry now, clear, set auto-sync | `POST /api/v1/audit/sync`; every tab shares the queue; `App` enqueues every system event | fetch outlived by other callbacks, two tabs on one queue, time-outs whose request still arrives, closed tabs, used-up retries | nothing enqueued is lost before the server has handled it, confirmed events do not come back, everything is delivered in the end |
| Terminal job engine (`services/TerminalJobLifecycleManager.ts`) | job records by idempotency key, active locks | submitJob, transitionState, executeJob | upload, export and webhook views, verification pipeline, evidence state manager | concurrent dispatch of one key, retries, lock release on each path | one run per key, work done once, terminal records never change |
| Evidence artifacts (`components/EvidenceStateManager.ts`) | artifact states, hash-linked ledger | transitionState | pipeline, verification centre, policy engine; creates jobs | three writers interleave around awaits; failing executors after the attestation | the ledger explains each state, jobs agree with artifacts |
| Atlas worker service (`services/SovereignAtlasWorkerService.ts`) | pending requests, timers, worker | five request methods, onmessage, terminate | web worker, `HologramGrid`, `GravitationalHologramContainer` | answer against time-out, worker failure, termination | each request answered once, by its own result, in order |
| Multi-tab broadcast (`services/broadcastSyncService.ts`, `App.tsx`) | messages and events kept until the channel and the handlers exist; flags; event list | init, subscribe, emit, toggle, handleMessage | all tabs; localStorage | start-up order, crossing messages | events shown once in each tab, flags agree |
| Service worker queue (`public/service-worker.js`, `utils/offlineAuditSync.ts`) | IndexedDB queue | queue, sync, broadcast | would clear the audit queue | – | not registered by any page |
| Chamber queue (`services/sovereignChamberQueueService.ts`) | queue items, `isProcessing` | enqueue, processBatchVerify, replenish | views | enqueue during the 600 ms await and the 1200 ms hold | an enqueued chamber is verified, a batch in progress ends |
| Automated backup (`services/automatedBackupService.ts`, freeze in `App.tsx`) | per tab: running, countdown, cycle, snapshots; freeze flag in localStorage | interval, manual snapshot, cadence, pause, freeze, lock message | `App`, the other tabs | a freeze stops the engine of one tab and only informs the others | a running engine takes its next snapshot |
| Height comparison (`services/githubSyncService.ts`) | heights, drift, label, busy flag | inject drift, force resync | panels, copilot | reconciliations overlap, drifts arrive during their delay | what is shown is what the heights say, no height goes back |
| Copilot autonomy (`services/copilotAssistantService.ts`) | mirror of the drift, suggestions, auto-pilot; swarm tasks and agents | subscription, 3.5 s interval, sweep, suggestions; submit task and its timers | height comparison, store | notifications of overlapping work, timers of displaced tasks | mirror and suggestions agree with the service, drifts are repaired, agents are busy with their own task |
| HSM cluster (`services/hsmClusterService.ts`) | nodes, percentage, flags | degrade, remediate | `App` mirrors and logs | drops during a remediation | all views of the cluster agree |
| Federation (`utils/federationSyncManager.ts`) | stage, packet, root, count | a chain of four timers | views | chains overlap | each synchronisation seals its own packet once |
| Custodian registry and store (`store/systemStateStore.ts`) | slots, anchored digests, bundle ids; counts, copy of the registry | ingest evidence and bundles, set, reset | QR validator, evidence workflow, consoles, auto-pilot | checked at the scan, anchored at a later click; bundles that throw half way | no digest counts twice, the copy shows nothing the registry lacks |
| Sessions (`src/server.ts`, `services/sessionService.ts`) | active sessions and their file, revoked tokens; the browser's session and its copy | login, registration, passkey, logout, restart, reload | browser and server | restarts, failed writes, late and lost requests | a confirmed session is accepted until its end, a logout is final |
| Recovery tickets (`src/server.ts`) | tickets in memory | issue, verify | browser | expiry, restart, newer tickets | a ticket is redeemed once, and only the newest |
| Tuning transaction (`adapters/zyrquenAdapter.ts`, `CommandCenterOperationsConsole.tsx`, `SelfTuningConsole.tsx`) | one transaction in localStorage, copies of it in two components of each tab | stage, request, confirm, approve, roll back, probe | AI workspace, coverage view | two consoles work on copies; tabs overtake each other | every execution is accounted for, open copies are current, the audit trail is kept |
| WORM vault, Merkle proofs (`services/wormVaultService.ts`, `utils/merkleVerificationEngine.ts`) | blocks | append, prove, verify | views | none, pure algorithms | a proof verifies exactly for its leaf |
| Tool gateway and agents, firewalls, contracts, notifications, views | mostly constant tables | – | – | little state | – |

`PROJECT.json` lists every component with its status, and under `hazards` each
hazard with the line at which it bites.

## 2. Modules

| Module | Role |
|---|---|
| `AuditRetention` | abstract promise of the audit service: what is owed is retained |
| `AuditFlush` | the audit service in several tabs with its network and server |
| `AuditFlushProofs` | its theorems |
| `TerminalJob` | the job engine and the two protocols of its clients |
| `TerminalJobProofs` | its theorems |
| `EvidenceLifecycle` | artifacts, ledger and their components, composed with `TerminalJob` by `INSTANCE` |
| `EvidenceLifecycleProofs` | its theorems |
| `OrderedPromises` | abstract promise of the Atlas service: each call answered once, in order |
| `AtlasWorker` | the Atlas service, its worker and its timers |
| `AtlasWorkerProofs` | its theorems |
| `BroadcastSync` | tabs, BroadcastChannel and the App component |
| `BroadcastSyncProofs` | its theorems |
| `GithubSync` | the height comparison |
| `CustodianStore` | registry, store and the two views that feed them |
| `CopilotAutonomy` | the auto-pilot, composed with `GithubSync` and `CustodianStore` |
| `CopilotAutonomyProofs` | theorems about these three |
| `SwarmTasks` | the copilot's agents and the timers of their tasks |
| `HsmCluster` | the cluster, its remediation and App's mirror |
| `FederationSync` | overlapping chains of the federation's timers |
| `BackupEngine` | the backup engines of several tabs and the freeze |
| `ServerSessions` | sessions of server, file and browser |
| `RecoveryTickets` | the server's recovery tickets |
| `TuningTransaction`, `TuningTransactionProofs` | the stored transaction and its copies; its theorems |
| `Services` | the independent services above in one specification |
| `ServicesProofs` | theorems about each of them (cluster, tickets, federation, swarm, sessions, backup) and about their composition |
| `MC*` | symmetry sets and sample data for TLC |

Definitions keep the names of the source where they can.  In each module a
definition whose comment starts with "Mutant:" is a plausible wrong version of
the definition next to it.  It is used nowhere in the specification; putting it
in the place of the right one makes a property fail, which shows that the
property says something about the code.

### Audit synchronisation (`AuditFlush`)

`queue` and `autoSync` are the localStorage entries all tabs share;
`flight[t]` is `isFlushing` of tab *t* together with the fetch it awaits.
`flushQueue` is split at its fetch: `FlushQueue` is the part before it (guards
included) and every caller is an action that contains it: `KickFires`
(the 1.5 s timer of enqueueEvent, the 1.2 s timer of the constructor),
`BackoffFires`, `AutoSyncTick`, `OnlineEvent`, `SyncNow`, `RetryNow`.
`FlushSucceeds` and `FlushFails` are what follows the await.  Success empties
the queue *whatever it holds by then*; failure writes back the batch read before
the await.  An aborted or abandoned request stays on the `wire` and may still
arrive (`LateArrival`).  A forced flush of an empty queue is a flight with an
empty batch.

Facts the model follows and a reader may not expect:

* The preference is shared by the tabs, the interval timer is not.
* A backoff timer that fires offline or during a flush is not armed again.
* `clearQueue` during a flush that then fails is undone by the write-back; the
  properties exempt cleared events, so both outcomes are allowed.
* The endpoint (`src/server.ts:693-713`) answers and stores nothing;
  `received` means that it answered for the events.
* No page registers `public/service-worker.js` and nothing else posts
  `AUDIT_LOGS_SYNCED`, so the two listeners for it
  (`offlineAuditSyncService.ts:140-171`) never run.  The same is true of
  `registerBackgroundSync`.

Left out: progress, history, error records, reports, thresholds, heartbeat
pulses.  They change none of the state above.  A write that localStorage refuses
(`saveQueue` logs the error and goes on, line 1154) is not modelled either: the
retention properties assume that storage accepts the queue.  Retry counts of single
items only feed reports.

### Job engine and evidence (`TerminalJob`, `EvidenceLifecycle`)

`job[k]` is the record of idempotency key *k*.  `RunKey` holds the keys that
are dispatched with `executeJob`, `HandKey` those a component drives by hand
(test, `submitJob`, work, `transitionState`).  No component drives a key
both ways; the model keeps the sets apart.  (A component that did could move a
key to a terminal state while it runs, which the FAILED assignment at line 341,
not made through `transitionState`, would undo.)  `Transitioned`, `Submitted` and
`Released` are pure operators on one record and the locks, used by all
actions.

`EvidenceLifecycle` instantiates `TerminalJob` with two keys for each artifact:
the verification job of the pipeline (executeJob) and the synchronisation job
that `transitionState` creates.  `TransitionState` is the whole method: no-op
test, ledger event, artifact, job.  Its writers are the pipeline's executor
(`Attest`, then `VerifyReturns` or `VerifyThrows`), the verification centre and
the promotion through the policy engine, which always ends in BLOCKED.
`NoLateAttestation` relates the two modules: the pipeline moves an artifact only
while the verification job of that artifact runs, so that a block which comes after
it is not lifted by a handler that was started before; what guards it is the lock
of executeJob.  Left out is `transitionState` for an id that is not registered
(`EvidenceStateManager.ts:109-110,171`): it writes a ledger event, starting from
PENDING_VERIFICATION, and updates no artifact.

### Atlas worker (`AtlasWorker`)

The five request methods differ in their payload only; a request is its number.
`inbox` and `outbox` are the messages to and from the worker, `timers` the 50 ms
timers.  `promise[n]` is the answer to call *n*, `hud` the call whose answer
the component shows.  `onerror` only logs ("switching to inline fallback"): the
service goes on posting, and each later request waits for its timer.
`terminate` is public and modelled, but nothing in the repository calls it.
The inline computation is taken not to throw, which holds for the payloads the
components build; if it threw inside a timer (`SovereignAtlasWorkerService.ts:104-116`)
the promise would stay unsettled.

### Broadcast (`BroadcastSync`)

A tab passes through mounted (App reads the flags in localStorage), initialized
(`init` has opened the channel and posted what was kept) and subscribed (App's
handlers are attached and have been given what was kept).  `wire[s][t]` is the
FIFO of tab *s* to tab *t*.  A toggle happens only in a tab with a channel: React
runs the start-up effects, which open it, before it handles a click.  Events
emitted before that are kept in `pendingMessages` for the others and in
`pendingEvents` for the tab itself, which later replays its own events; the
reducer skips those it already has.  Of the lock payloads only the last is kept.

Left out: presence (ping, pong, heartbeat, stale peers; the lock state in a pong
is read by nobody), `destroy` (no caller), the mode without BroadcastChannel,
snapshots (same path as events), and the double mount of React's StrictMode in
development builds.

### Heights, auto-pilot and store (`GithubSync`, `CustodianStore`, `CopilotAutonomy`)

`StartResync` and `FinishResync` are `forceRemoteResync` before and after its
850 ms delay.  Nothing stops a second one; `awaiting` holds their callers, oldest
first, since timers of one delay fire in order.  `FinishResync` reads the heights
then, which is what keeps a commit that arrived meanwhile.

`CustodianStore` has one action for each way evidence enters: the form and
the bundle upload of the evidence workflow, decrees and arrays, and the QR
validator, whose `Scan` actions check and whose `Signoff` actions anchor at a later
click.  A digest is what it stands for (`of`) together with whether it is written
plainly: the registry compares the former and stores the latter.

`CopilotAutonomy` extends both.  Each notification of the height service goes
through `Mirrored`; `ResyncEnds` continues the sweep in the same step, because no
timer runs between a promise and what waits for it.

Facts a reader may not expect:

* The auto-pilot compares the drift label with '0.0%', which the store never
  holds (it is '0.00%'), so each tick resets the store, seal count included.
* A sweep switches the auto-pilot on when it ends, also after a pause.
* The entries of a decree carry one bundle id: the first is accepted, which
  registers the id, and the others are refused.  Likewise the QR validator gives
  all evidence without an id the same one.
* A reset sets the proof count and not that of the copy; setting the same
  count afterwards does nothing, and the two quorums of the state differ.
* A bundle whose second proof has no digest throws in the loop: its first proof
  is anchored and the store is not told.

### Swarm, cluster, federation, backup

`SwarmTasks`: a task given to a busy agent displaces the one it had.  The 600 ms
and 1500 ms timers of a task and the 1500 ms interval are `Advance`, `Complete` and
`ProcessTick`; ids drawn from the clock are assumed to be distinct.
`HsmCluster`: App's subscription and the effect that logs are part of each
action (`Mirrors`).  `FederationSync`: `StageTimer(n)` is the next timer of the
n-th chain, and equal delays keep the chains in order (`Due`).
`BackupEngine`: `ToggleFreeze` stops or starts the engine of its own tab and
sends a flag; `ReceiveLock` sets the flag and leaves the engine as it is, as
the handler does.

### Sessions and tickets (`ServerSessions`, `RecoveryTickets`)

`calls` are requests under way; one may be handled without its answer reaching
the browser, given up and handled later, or lost.  Tokens of logins are drawn by
the server, those of passkey sessions by the browser, which keeps such a session
locally when its request fails.  `Saves(ok)` is the write of the whole map after a
change.  One that fails leaves the old file, if the file could not be opened, or
a torn one, since `writeFileSync` truncates it first (`server.ts:978`); `loadSessions`
catches the parse error and loads nothing, so a torn file is an empty one.
`Restart` loads the file and forgets the revoked tokens; the sessions in which
memory and file then differ, all of them after a torn write, are `lost`, and
`ConfirmedAccepted` promises nothing for those.  A crash in the middle of a write
is a torn write followed by a restart.  `closed`, `answered` and `lost` are history variables.

What follows the await of a logout ends whichever session is current by then,
also one created during the await.  `POST /api/auth/session` does not look at the
revoked tokens, so a passkey session's own late request can come after its
logout; `LogoutSticks` does not speak of that one.  The browser is one tab; the
other tabs would share its localStorage, which the part of `SessionsDurable` about
the browser's copy does not consider.  WebAuthn challenges are issued and never
read back by any handler.

### Tuning transaction (`TuningTransaction`)

`authoritativeTx` is the entry in localStorage, `operations[p]` and
`selfTuning[p]` the copies that the operations console and the self-tuning module
of page *p* hold.  `Staged`, `Blocks` and `Finalized` are the adapter's functions on
transactions.  A transaction is its proposal, whose id makes the other three.
The six displayed gates follow from the state kept here.

The history variables count what happens to each proposal: `executed` its
executions, `opened` how often its transaction took the place of another's, `late`
its executions by a copy that another tab had overtaken.  `ExecutionsAccounted`
relates them: executions never exceed `opened + late`, and while a transaction is
open, staged any number of times and through either console, one is still owed.

* `stageNewProposalTransaction` compares the proposal with the transaction stored
  last.  A proposal that was executed, displaced by another one (also by the
  signature probe of the coverage view, which writes the same entry) and routed
  to the console again is executed again, although the comment at
  `zyrquenAdapter.ts:745-749` says that the finalized transaction is returned and
  blocked.  The run `tuning_restaged` shows it.  The second execution adds no
  second "locked" entry to the trail.
* `ConfirmApprovalAndExecute` does not ask the guard again.  Within a tab that is
  harmless (`CopiesCurrent`).  With approval modals open in two tabs a proposal is
  executed twice, and the audit entries of the first are overwritten.  These are
  the executions that `late` counts, and the only steps `TrailKept` exempts.
* A finalization by the self-tuning module does not count as a workspace
  mutation; `MutationsCounted` relates the count to the operations console.
* While an approval modal covers the page, only voice commands reach the console.

### Composition (`Services`)

Apart from the store, which `CopilotAutonomy` and `CustodianStore` share, these
services share no variable, so their steps commute.  A behaviour of `Services`
moves one of them, its `focus`; the states explored are then the sum and not the
product, and nothing that a property of one service says is lost.  The auto-pilot
and the consoles change neither the registry nor its copy except for its count,
so the focus "registry" explores the evidence alone, with all its offers, and
"autonomy" everything else.

## 3. Runs

| Run | Instance | Question and result |
|---|---|---|
| `audit_two_tabs` | 2 tabs, 2 events, 1 retry, slow or refusing server | Can two tabs lose an event? Not one that was enqueued while no flush was in flight. The run also checks the refinement of `AuditRetention`. |
| `audit_one_tab` | 1 tab, 2 events, 2 retries, outages, preference, closing | Nothing confirmed is queued again; with the interval timer running and lasting connectivity everything covered is delivered, even after the retries are used up. |
| `audit_zero_loss` | 1 tab, no disturbance | Violation: an event enqueued during a flush is erased when the flush succeeds. |
| `jobs_dispatch` | 3 handlers, 2 run keys, 1 hand key, 2 retries | Locks match runs, work is delivered once, terminal records stay, locks are released. |
| `jobs_duplicates` | 2 handlers | Violation: two upload handlers of the same file overlap at the file read and both commit. |
| `evidence_ledger` | 2 handlers, 2 artifacts, 5 ledger events | The ledger replays to each state, jobs follow artifacts, and no handler attests an artifact whose verification has ended. |
| `evidence_immutable` | 1 handler, 1 artifact | Violation: VERIFIED is followed by BLOCKED. |
| `broadcast_tabs` | 2 tabs, 2 events, 1 flag, 2 toggles, 3 openings | Events are conserved, listed once and in the end shown; a flag toggled by one tab agrees. |
| `broadcast_fragmentation` | 2 tabs, 1 flag, 3 toggles | Violation: a flag toggled while a tab starts up stays different. |
| `services` | 2 tabs, 2 tokens, 2 addresses, 10 nodes, 2 slots and 6 digests, 4 tasks, 3 chains, 2 pages, 5 requests to the worker | Every invariant and action property of the services above; answers, time-outs, failure and termination of the worker race, and each call is answered once, in order, and always; drifts and quarantines are repaired while the auto-pilot is on, each federation chain seals, and a running backup engine takes its next snapshot. 302,173 distinct states. |
| `tuning_restaged` | 1 page, 1 proposal and the probe | Violation: a proposal that was executed and displaced is staged again and executed a second time. |
| `backup_resumed` | 2 tabs | Violation: a tab unfrozen through another tab's message shows activity as resumed while its own backup engine stays stopped. |

The six violations are described under `findings` in `PROJECT.json`, each with
the comment in the source that the code contradicts.

### Bounds

Two tabs, two handlers and two events are the least number for every
interleaving the components have: a tab knows the others only through shared
storage or the channel, and a key or event never depends on a second one except
by sharing the queue.  `MaxOpens` 2 and 3 allow each tab to open, and one tab to be
closed and opened again.  `MaxRetry` 1 and 2 (5 in the code) and `MaxRetries` 2 (3)
reach the exhausted case and the step before it.  `MaxRequests` 5 lets late
answers of several calls pass new requests.  `MaxEvents` 5 bounds the ledger: an
artifact can go through VERIFIED, BLOCKED and VERIFIED again while the other one
moves.  `Disturbance` in `AuditFlush` selects what the environment does, because
all at once with two tabs is too large; each disturbance occurs in a run.
TerminalJob, BroadcastSync, BackupEngine, TuningTransaction and Services may come
to a stop once their bounds are used up, so their configurations disable the deadlock
check.  In the other runs it is on.

In `services`: `MaxAwaiting` 2, `MaxRemediations` 2 and `MaxRuns` 3 let work overlap
and a third one start after; one flag is shared by all, so a third waiting one
adds nothing.  `MaxHeight` 2 allows a drift, its repair and another drift.  The
offers in `MCServices` hold each kind the code distinguishes: fresh, used,
recased, short, medium and missing digests, used and default bundle ids, unknown
and unnamed slots.  `MaxTasks` 4 with two agents displaces a task of each agent;
`Increments` {10, 29} are the ends of what the code draws.  `Drops` {7, 8, 12} lie
below, at and above what the cluster tells apart.  The cadences 3 and 2 stand
for 3600 and 60 ticks: only whether the countdown exceeds the short cycle
matters.  Of two tokens the browser draws one and the server the other, and with
`MaxCalls` 2 a late request meets another one.  `MaxTickets` 3 is two for one
address and one for another.  `MaxTrail` 5 is enough to stage, execute, displace
and stage again, with one page that opens the self-tuning module and one that
does not.  `MaxLate` 1 stops the writes after the first late execution of a
proposal; the copies that are overtaken by it are still explored, and the theorems hold
for every bound.

### Fairness

* `AuditFlush`: a request to a server that answers is answered, an answered or
  failed fetch resumes its tab (the abort timer guarantees an end), and the
  interval timer keeps firing.  User actions, the backoff and the
  one-shot timers get no fairness, so `EventuallyReceived` does not rest on them.
  The property assumes that one tab keeps its timer, and that connectivity is
  back for good.
* `TerminalJob`: every executor and every file read settles.
* `BroadcastSync`: start-up goes on and posted messages are delivered.
* `Services`: timers fire: the delay of a reconciliation (`ResyncEnds`), the
  auto-pilot's interval (`MonitorTick`), the federation's timers (`StageTimer`),
  the backup interval (`Tick`) and a request's timer that is not cleared
  (`TimerFires`).  Nothing is assumed of the worker.  Drifts, quarantines, pauses, reloads and
  users get none; a pause or a stopped engine ends what `HealsEventually` and
  `BackupsContinue` promise.

## 4. Proofs

Every theorem holds for arbitrary sets and numbers as constants, within the
assumptions stated next to the constants: bounds are numbers, there is at least one
retry, one agent and one tick of a cadence, the names "nobody" and "none" are no
tab and no flag, and the callers of a reconciliation are the three of the code.
Every invariant, action property and refinement that a passing run checks is stated
by a theorem.  Each inductive invariant was checked by TLC before it was proved.

**`AuditFlushProofs`.**  `TypeCorrect`, `RetentionCorrect`, `Retained`,
`Implements` and `ConfirmedStaysGone`.  "What is owed is in the queue" is not
inductive: a failing flush overwrites the queue with its batch, so every flight must
already cover what is owed (`CoversOwed`), and a succeeding one empties it, so an
answer must mean reception (`AnsweredIsReceived`).  The history variable `exposed`
excludes exactly the events enqueued during a flight, which is where `CoversOwed`
would fail and where `audit_zero_loss` finds the loss.  `RetentionInv` is the
conjunction, the inductive step has one case per action, and `Implements` maps
each action to a step of `AuditRetention` or to a stutter.  `ConfirmedStaysGone` has
the hypothesis `OneTab`, as its run has: a second tab whose flush of the same events
fails writes them back, so that with two tabs the statement is false.  With one
tab, a confirmed event is in neither the queue nor the batch of a flight.

**`TerminalJobProofs`.**  `JobCorrect`, `DeliversOnce` and `TerminalRecordsStay`.
Delivery once needs that a running key is active (`RunsAreActive`), that
needs the lock to match the run (`LockMatchesRun`), and the last failing run
needs retries left (`RetriesLeft`).  `JobInv` is their conjunction.
`TerminalRecordsStay` is an action property that follows from `JobInv` and a
case split on the actions.

**`EvidenceLifecycleProofs`.**  `EvidenceCorrect`, `LedgerExplains` and
`NoLateVerification`.  That a completed verification has its event in the ledger
(`EvidenceInv`) depends on a handler *between* its attestation and its return:
`AttestedRuns` says that it still runs its key and that the event is already there,
whatever other components did to the artifact meanwhile.  `SyncStates` says that
the synchronisation record is created, worked and completed in one stretch, so a
second verification finds it complete and does nothing.  `Runs` gives the state of the
engine that these rest on; a theorem about an instance cannot be cited, so the few
facts about keys and locks are proved again for the keys of the artifacts.
`LedgerReplays` is stated through the last event of an artifact before a position
(`StateBefore`).  `NoLateVerification` follows from `Runs`: a handler that attests
still runs its key, whose job is then active and not terminal.

**`AtlasWorkerProofs`.**  `AtlasCorrect`, `ShownInOrder` and `ImplementsOrder`.
Order is the point: answers arrive in the order of requests only because the
messages in transit are the last ids given out, in order (`TransitInOrder`), and
time-outs only because the oldest timer fires first; both assume what a browser
guarantees, FIFO messages and timers of equal delay in their order.  With
`TimersGuardCalls` the first answer is always that of the oldest waiting call.

**`BroadcastSyncProofs`.**  `BroadcastCorrect`, `EventsListedOnce` and `FlagsAgree`.

* Events: conservation needs no strengthening, but "listed once" is about the reducer,
  which takes each event only if it is new.  `ReducerFacts` proves for every list and
  every batch that it keeps a list without duplicates, loses nothing and adds
  nothing else.  For an event a tab emits itself, which the reducer does not test,
  the invariant says that all that is listed, kept or in transit was emitted before
  (`KnownWire`, `KnownKept`, `KnownListed`).
* Flags: `LocksAgree` says nothing of a tab with a message still on its way.
  `UpToDate` does: such a tab agrees with localStorage *or* a payload of the flag is in
  transit to it.  When that payload is the last one, its value must be the stored
  one (`LastIsStored`), which holds because a single tab toggles the flag and its
  wire is FIFO (`LockSenders`).  A payload that arrives before App's handlers are
  attached is kept (`PayloadIsStored`); a toggle that comes earlier is
  missed, and `missed` marks it, which is where `broadcast_fragmentation` finds the
  flags apart.  `StartsClean`, `KeepsNoLock` and `StartsUntouched` describe a tab that
  starts up.

**`CopilotAutonomyProofs`.**

* Heights: `DriftCorrect` and `HeightsStay`.  `DriftAgrees` alone allows a remote
  height below the local one, which an alignment would take back; `GithubIInv` adds
  that the drift counter is 0 or `Delta`.  The aligned height is then always the
  remote one.
* Registry and store: `CustodianCorrect` and `SlotsTakeFreshDigests`.  The turns of the
  ingestion loops compose: `Grows` says that a turn keeps the registry invariant,
  anchors more and replaces slots only by fresh digests, and it is transitive, which
  gives both theorems for documents, bundles and bundles that throw half way.
* Copilot: `CopilotCorrect`.  Each notification of the height service is one
  application of `Mirrored`, and `MirroredGood` says that it leads from any
  copilot to one that agrees with the drift, so a step that notifies twice, or that
  continues a sweep, needs the agreement after its last notification only.  The
  invariants of heights and store are part of `CopilotIInv`, because a step of the
  auto-pilot moves all three.

**`TuningTransactionProofs`.**  `TuningCorrect` and `TrailNeverLost`.
`CopiesCurrent` is not inductive.  `CopyInv` adds, for each page, that the
self-tuning module lives in a console whose modal is closed and is overtaken only
together with it, and that a console's copy may lag behind the stored transaction
only when that one is finalized.  It is this last part that makes the guard
enough: a lagging copy can open its modal only if the stored transaction is open.
`ExecutionsAccounted` is inductive with it: a copy that is not overtaken executes
an open transaction, for which an execution is owed, and staging over another
proposal owes one more.  That executions do not exceed one in all is false
(`tuning_restaged`).  `MutationsCounted` needs that no copy, however old, counts more
than what was confirmed (`Counts`).  `TrailNeverLost` follows from the same steps.

**`ServicesProofs`.**  First each service alone, then all of them together.

* `ClusterCorrect`, `TicketsCorrect`: the invariants are inductive together with the
  types; a new ticket has to use up *all* earlier ones of its address.
* `FederationCorrect`: the sealed runs are the oldest only because no run overtakes
  the one before it (`InStartOrder`), which is what equal delays give.
* `SwarmCorrect`: `SwarmInv` chooses the running task of an agent; `BusyWithLatest`
  says the same without a choice, and is kept because a completion frees an agent
  only of the task that completes.  That progress reaches 100 only at the completion
  needs its bounds before and after the two timers (`TaskInv`).
* `SessionsAreDurable`, `LogoutIsFinal`, `ConfirmedStaysAccepted`: the last two
  need to know which requests may still arrive.  A token has one opening request
  (`OpenedOnce`), which no session precedes (`NotYetHeld`), and a closed one stays
  closed in memory and on file (`ClosedStays`) except for what a failed write, torn
  or not begun, lost.
* `ServicesTyped`, `ServicesCorrect`, `ServicesOnlyAdd`: in `Services` each step is a
  step of the service in focus and leaves the others' variables alone (`OwnSteps`), so
  that `ServicesIInv`, the conjunction of all invariants, is kept by the lemmas of
  each.  These theorems are about the specification that the run `services` checks.
  Those of `AtlasWorkerProofs` are about `AtlasSpec`, whose steps the focus "atlas"
  takes there.

Only model-checked: liveness (`EventuallyReceived`, `LocksReleased`,
`EveryCallSettles`, `EventuallyShown`, `HealsEventually`, `EverySyncSeals`,
`BackupsContinue`), since fairness and ENABLED are outside the prover's reach, and
the six violations, each of which is a single counterexample.

Induction: the library's induction rules cannot be instantiated with the installed
provers.  Where a proof needs an induction, over the events given to the reducer
or over the numbers of agents, it takes the least counterexample instead (lemma `Least`,
which follows from the theorems on finite sets).  This works for one recursive
function at a time and is not a general rule.

## 5. Not modelled

* The chamber queue (`sovereignChamberQueueService.ts`): no file imports it, so its
  queue never holds a chamber.  The service worker: no page registers it.
* Credential and role checks of the server: single conditions on one request.  The
  user directory and its file are left for later (section 6).
* WORM vault, Merkle proofs and the verification engine: pure functions over
  digests, with no state that several steps share.
* The tool gateway and the agents (sequential text generation over tables), the
  protection layers (single conditions), the Solidity contract (neither built nor
  deployed), vendor notification services.
* Presentation (some 380 views, the bulk of the repository's lines), exports and
  seed data, and digests and signatures, which are computed over constants or by
  the browser.

The map therefore covers a small share of the repository's lines: most of
them are views without a state of their own.

## 6. Plan

1. Of the proofs, what liveness rests on can be stated as safety: that a stopped or
   exhausted audit service still has its interval timer armed, and that every wait of
   the job engine has an executor to end it.  A multi-tab version of
   `ConfirmedStaysGone`, which says exactly which events a second tab can bring back.
2. App's event path as a composition of `BroadcastSync` and `AuditFlush`, with the
   counter of the verification gate (`App.tsx:2131`).
3. The user directory and its file, next to the sessions.
4. The Merkle functions against a reference definition over bounded trees.
