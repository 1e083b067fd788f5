# Myuna: TLA+ models of the delivery path, its durable state and its activation

Myuna is a single-owner Telegram agent. A message goes from the AstrBot Telegram
plugin over a Unix socket to a single-threaded gateway process
(`telegram_owner_runtime_gateway.py`), which claims it durably, opens a turn,
asks Myuna Core for a reply, prepares the delivery, and answers the plugin. The
turn becomes part of the conversation only when the plugin reports that Telegram
accepted the reply. Long conversations are summarised by a background thread of
the gateway. Beside the epoch the gateway keeps a lossless archive with derived
indexes, sends `/temporal` commands to a worker with a clock of its own, and Core
accounts every provider call against a daily budget. A separate program, the P08
activation, installs a release of all this and must be able to take it back.
All paths below are relative to `src/sources/`.

The project has five models: the conversation epoch with gateway, worker and
plugin; the owner's archive and memory runtime; the provider budget; the temporal
context with its trusted time; and the activation. Each has crashes, restarts,
lost answers and failing steps where the code handles them.

## 1. Inventory

| Component | State it keeps | Operations | Hard parts | What makes it correct |
|---|---|---|---|---|
| External epoch v3 store (`external_context_epoch_v3.py`) | SQLite: epoch row, revisions, turns, summaries, one pending turn, delivery intents, receipts, summary jobs | begin, context, cancel, prepare, resolve, acquire / fail / commit summary, recover | every operation is a transaction, callers hold results across several | one hash chain, each delivered event in it once, final receipts, jobs that can be rebuilt |
| Summary worker (`p07_d_summary_worker.py`) | an Event, a retry flag, a lease | wake, acquire, call provider, commit or record a failure | races the foreground turn; lease outlives the process | no lease without holder, bounded attempts, no forgotten job |
| Telegram owner gateway | locals of one connection; stores | turn, delivery outcome, visual preflight, start-up | several durable steps per turn, each can fail | only shown replies committed; error paths that do not fail themselves |
| AstrBot plugin | one token per event | send envelope, pace, report the outcome once | gives up on its own clock, single try | never reports what did not happen |
| Lossless archive, delivery journal (`episodic_memory/{store,delivery}.py`) | append-only chain, preparations, delivery events, lifecycle records | prepare, resolve, abandon | replay and contradiction of outcomes, stale heads | an append-only log; delivered is final and stronger than cancelled |
| Owner private memory runtime (`p07_owner_private_memory_runtime_v1.py`) and derivatives (`episodic_memory/{index,temporal_bridge}.py`) | temporal index, episodic index with its sidecar, diary, staged profile requests | start, context, prepare, resolve, stage, apply | four files, a crash or a failed write between any two and inside a write | derived files never ahead of the archive and rebuildable; a profile change applied at most once |
| Provider budget (`providers/{budget,audited,deepseek}.py`, `reconcile_stale_provider_budget_v1.py`) | ledger file, archive directory, receipts | reserve, settle, cancel, mark uncertain, roll over, reconcile | concurrent threads, midnight inside a call, crash between four writes | the limit is never exceeded; what may have been charged stays covered |
| Active temporal context (`active_temporal_context/*.py`, `p08_temporal_service_v1.py`, `p08_temporal_gateway_v1.py`) | proposals, facts, lifecycle events, idempotency rows, clock watermark | propose, confirm, read | proposals confirmed late, answers lost, a second database | one active fact per slot, a proposal applied once, expired facts stay hidden |
| Trusted time (`trusted_time/*.py`) | last sample: sequence, instant, monotonic time, boot | sample | clock steps, reboots, crash before the consumer commits | samples its consumer always accepts |
| Activation (`p08_activation_{engine,contract,supervisor,production_adapter,guardian_manager,launcher}_v1.py`) | engine in memory; role evidence, journal, obligation, binding, terminals, discharge, strategy index on disk | 24 roles, replay, convergence, discharge, hard stop | role child, supervisor and guardian die independently; recovery rebuilds the engine from evidence | terminals true of the host, no role call twice, trusted time never taken back, an end |
| Owner profile (`owner_profile/*.py`) | revisions, ledger, selector | stage, publish, select | | no production caller: the v1 write path is retired |
| Operations, capability runtime, affinity | approvals, task and lifecycle states | approve, run | replays | only fakes or contracts use them |
| Release selector (`core_release_selector_transaction.py`) | none | validate | | a pure contract validator |
| Recovery episodes, boot resume, incident history | small files or tables | mark, notify | restart between mark and notice | one notice per outage |
| Legacy epoch, QQ gateway, HTTP front, context policy | as above or none | | | |
| `sources/astrbot`, `sources/runtime-base` | | | | third-party fork and snapshot copies: left aside |

The plugin and the gateway exchange one request and one answer per connection;
gateway and summary worker share the SQLite store, one transaction at a time, and
an in-memory Event; the gateway calls Core, and the worker calls the provider,
while holding no transaction. The memory runtime lives in the gateway's process.
The temporal worker is a process of its own behind a systemd socket. The
activation's guardian starts a supervisor, which starts one role child at a time;
they share nothing but files and the host.

## 2. Modules

| Module | Models |
|---|---|
| `EpochLedger` | the epoch's promise: a log of delivered events without repetition, withheld events outside it, a growing summarised prefix, one revision per change |
| `ExternalEpochV3` | the store, one action per transaction, under the most general client |
| `ExternalEpochGateway` | gateway, summary worker, plugin, crash and restart, calling the same store actions in the code's order |
| `DeliveryLog` | the archive's promise: a log of delivered turns; a withheld turn may still turn out to be delivered, a delivery is never taken back |
| `LosslessArchive` | the archive's tables, one action per transaction |
| `OwnerPrivateMemory` | extends the archive: memory runtime, derived files, gateway and plugin around it |
| `ProviderBudget` | the ledger, the accounted calls, the operator's reconcile tool |
| `TemporalContext` | the temporal worker, its two databases, the host's clock, the gateway's side of the socket |
| `ActivationEngine` | the phase engine: a pure value and its transitions, no state of its own |
| `ActivationAdapter` | extends it: host, journal and the role child, operation by operation |
| `Activation` | extends both: supervisor, replay, guardian |
| `MCExternalEpochV3`, `MCExternalEpochGateway`, `MCProviderBudget` | instances for TLC; the other modules' constants are given in their `.cfg` |
| `ExternalEpochV3_proofs`, `ExternalEpochGateway_proofs` | theorems about the store and about the system around it |
| `LosslessArchive_proofs`, `OwnerPrivateMemory_proofs` | theorems about the archive and about the runtime that extends it |
| `ProviderBudget_proofs`, `TemporalContext_proofs`, `Activation_proofs` | theorems about these three |
| `ActivationInvariant` | the inductive invariant of the activation, in its four parts; `Activation_proofs` proves it |
| `FiniteSums` | lemmas: what a sum over a finite set is, and how it changes with one element |

### The store

A variable is a table: `epoch` is the singleton row of `epoch_state`, `turns`
joins `committed_turns` with their provenance (same key, always inserted
together), the others carry their table's name. A turn digest hashes the
parent's digest and the turn; the model's digest is the list of events from the
start of the chain, which has the one property used, that different chains have
different digests. The text of a turn is its `Size`.

A transaction that raises is rolled back and is a step that changes nothing.
A replay (a second `resolve_delivery` with the same outcome, a second
`prepare_delivery` with the same reply, a commit of a job already committed)
returns what is stored and is a stutter as well; a contradicting one raises.
A summary commit whose candidate does not validate is a provider failure.
The release set, policy overlay and owner scope are fixed for the life of a
process and are not state; profile revisions are content of a provenance. File
permissions and the schema check stop the process and are left out, and so is
the failing `chmod` of `_secure_paths` after a commit. Its worst effect, a
committed outcome whose caller sees an error, is the step `AckUnanswered`.

### The gateway, the worker and the plugin

The gateway serves one connection at a time (`main`: accept, serve, close), so
`gateway` is one record: the step of `process_connection` it is at, and the locals
it holds across steps (`token` from `begin_turn`, `envelope`, the revision the
context was read at, `queued` from `resolve_delivery`). Between two steps anything
else may run. `begin` to `respond` is a turn; `acked` is
`_process_delivery_outcome` after its transaction.

| Action | Code |
|---|---|
| `ClaimInbound`, `TurnBegins` / `TurnRefused`, `LoadContext`, `CoreChat` | claim, `begin_turn`, `context_payload`, `core.chat` |
| `TurnCancelled` | the two `cancel_pending` error paths |
| `ReplyPrepared` / `ReplyRefused` | `prepare_delivery`, and its rejection, which leaves the turn pending |
| `OutcomeRecorded` / `OutcomeRejected` / `OutcomeFails` | `record_outcome` is true, false, or raises |
| `Respond` / `RespondFails` | the answer reaches the plugin, or the delivery is cancelled |
| `OutcomeResolved`, `OutcomeRefused`, `AckAnswered`, `AckUnanswered` | `_process_delivery_outcome`: transaction, then `sendall`, then `trigger` |
| `WorkerWakes` ... `WorkerStoreError` | `BackgroundSummaryWorker._run` and `SummaryWorkerCycle.run_once` |
| `PluginGivesUp` ... `AckLost` | the plugin's handlers; an outcome is sent once, with no retry |
| `Crash`, `Restart` | the process dies anywhere; `startup_recover`, then the worker starts and is triggered |

The listening socket belongs to systemd, so outcomes waiting on it survive a
crash. Telegram and the plugin process are as `src/` uses them; that the plugin
reports "delivered" only after a successful send is its code
(`commit_hybrid_delivery`). Early rejections of an envelope (signature, replay,
owner, rate limit) precede every change of the epoch and are left out. The
gateway's other modes (legacy epoch, owner memory runtime, profile and diary
controls) are not modelled.

### The archive and the memory runtime

In `LosslessArchive` a variable is a table. A turn digest covers the digest before
it, so the model writes it as the sequence of turns it covers; a delivery token and
a turn id come from one inbound event, so a turn stands for both. Replays return
what is stored and are stutters; contradictions raise and change nothing.

| Action | Code |
|---|---|
| `Prepare`, `ResolveDelivered`, `ResolveCancelled`, `Abandon` | `prepare_delivery`, `resolve_delivery`, `append_lifecycle`, each a transaction |

`OwnerPrivateMemory` composes them with `files` (the temporal index with its `.tmp`,
the episodic index with its `.next` sidecar), the diary, the requests staged in
memory, Core's temporal events and the plugin. `Stopped` and `Killed` enumerate what
a write that raises, or a process that dies inside it, leaves behind; `Derived` is
what the next start makes of it. `brittle` says whether a write may also fail while
the process lives on; both cases are initial states. A profile request is dropped
when the process dies after the archive's commit: the code accepts this
(a test of the runtime says so) and the model has it.

### The budget

Core serves each request in a thread. A ledger operation is atomic towards other
threads (thread lock and `flock`) but writes up to four files, so `Stages` gives the
files as they stand after each write, and a crash or an I/O error leaves one of
them. `call` is where a request's thread is in `AuditedBudgetedProvider.generate`;
`billed` and `opened` are history: what the provider charged, and on which day the
reservation was made. `ClockMoves` lets midnight fall anywhere and the clock step
back.

### The temporal context

The worker serves one connection: `Accept`, then a time sample committed in one
database (`TimeSampled`, `TimeRefused`, `TimeUnavailable`, `TimeAmbiguous`), then the
operation in another (`ProposalStored`, `CreateConfirmed`, `RevokeConfirmed`,
`SupersedeConfirmed`, `RestoreConfirmed`, `FactsRead`, or a refusal), then `Answer`. A
capability that refused a sample ends the process. `memory` is what a start reads
once from the store: the guard, which moves with every sample, and the provider's
floor, which does not. `GatewayGivesUp` is the socket timeout: the request stays in
the socket's backlog or in the worker's hands and is served all the same.
`host` is the machine: the true time, by how much its clock is ahead, the boot.

The idempotency rows are written (`confirmed`) but no request of the gateway is ever
a replay: each message derives its own request id and is sent once. A wrong code, an
unknown id or a foreign scope is refused without effect and left out, as are size
limits, `valid_to` (the gateway never sets it), categories and paging.

### The activation

`ActivationEngine` is a value fed one role result at a time. In `ActivationAdapter` a
role child is the list of operations it still has to do (`Program`); it is refused
at any of them (`ChildRefused`, `ChildFails`) or lost after any (`ChildLost`), and
its writes of the journal are two steps (exclusive write, rename). `Activation` adds
the supervisor (`StartRole`, `TakeCapture`, `WriteTerminal`, and the replay of durable
evidence, `BeginRecovery` to `Resolve`) and the guardian (`ManagerStarts`, `Discharge`,
the strategy index, `CloseRecovers`, `HardStop`), which the service manager starts at
most twice. With `orphansRun` a role child survives its supervisor and goes on
(`Switch` lets either run): `run_capture` gives the child a session of its own and
the guardian kills only the supervisor's group. `HardStopWritten` accepts an equal hard
stop of an earlier generation; the code also compares the generation and raises, and
`main`'s handler then writes the same index.

## 3. Runs

| Run | Question | Bounds | Result |
|---|---|---|---|
| `store` | does the store keep its promises whatever its callers do? | 4 events, 2 workers, limits scaled down together (trigger 2 turns or 4 characters, jobs of 2 turns, 2 attempts) | holds |
| `gateway` | does the whole system, with crashes anywhere? | 4 events, production limits in thousands of characters, 2 attempts | holds |
| `summaries` | is every summary job committed or given up? | 3 events, acknowledgements always answered, 2 attempts, fairness | holds |
| `lost_wakeup` | and when an acknowledgement is not answered? | 2 events, fairness | violated |
| `summary_race` | can a prepared reply still be committed? | 3 events | violated |
| `verbatim_capacity` | does the next summary job always fit, with the verbatim-first policy? | 4 events of the largest size | violated |
| `archive` | is the archive a log of deliveries? | 3 turns, any outcome order | holds |
| `memory` | do archive, derived files, diary and plugin stay consistent? | 3 turns (a chat, a profile request, a temporal command), crashes and failed writes unbounded | holds |
| `memory_restart` | can the gateway always start again? | 2 turns | violated |
| `budget` | does the ledger hold the limit and the costs? | 3 requests of 1 attempt, one twice as dear, limit 3, 2 days | holds |
| `temporal` | do the facts, their time and the answers agree? | 3 proposals or faults, 6 samples, 1 slot, 2 texts, clock ahead by 0 or 1, at most 2 pending | holds |
| `activation` | is every record true, whatever fails, and does it end? | 2 faults anywhere, or 1 with orphans | holds |

Why the bounds suffice. Four events give two generations of summaries (two jobs,
the second built on the first summary) in `store` and, in `gateway`, the projection
cap and the job limit filled to the last character: three turns of 4 and 8
thousand characters fill 20, the job limit, exactly. Two attempts distinguish a
first failure, a retry and giving up; two workers let one worker meet another's
lease. In `store` deadlock is not checked: once all events have been resolved the
store has nothing left to do. The store's own events may be begun again after
their receipt, which the gateway's durable claim prevents; `store` shows that the
store does not rely on it. The gateway's runs have one worker because the gateway
has one; its `Crash` is always possible, so they check deadlock. Events of equal size are
symmetric; no liveness property is checked with symmetry.

Three turns let one be delivered between another's preparation and its report, with
a third before both. In `budget` the dear request and one
other fill the day and the third goes over it, so that what is reserved at once, spent
and refused all meet the limit; two days give a rollover at any point of any call. A
rollover on top of an unfinished one needs a third day: the same properties hold over
three days with equal costs (three million states), and the theorems are for any number
of days and of attempts. In `temporal` `MaxWork` counts proposals and faults together:
three reach two proposals against one target, a confirmation repeated after a lost
answer, and a clock step with a reboot behind a confirmed fact; with
`MaxWork = 4` and one text the same invariants hold over ten million states. A
restore needs three proposals, a restore into a slot taken since needs four and is
beyond the run. `Life = 3` and `Ttl = 1` let proposals lapse and facts expire within
`MaxNow` and one clock step. In `activation` the second fault meets the recovery
of the first; the engine's and the guardian's own limits (each role once, two
generations) need no bound. `archive`, `temporal` and `activation` do not check
deadlock: the owner has no more messages, the activation has ended.

### What is checked

- `store`: `ChainIntact`, `ExactlyOnce`, `ProvenanceNamesParent`, `RevisionsStepwise`,
  `JobsSound` (`SummariesCoverPrefixes`, `OpenJobReconstructs`, `AttemptsBounded`),
  `OneOpenTurn`, the action properties `HistoryPermanent` and `PreflightHolds`, and the
  refinement `LedgerSpec`.
- `gateway`: `CommittedWereShown`, `WithheldNeverShown`, `WorkInHandIsOwn`
  (`ServedTurnIsOpen`, `LeaseHasHolder`), `DeliveryFits`, and the action property
  `ForgottenOnlyUnanswered`. `summaries`: `JobsSettle`.
- `archive`: `ArchiveSound` (`ArchiveChain`, `ContextIsPrefix`) and the refinement
  `ImplementsLog`.
- `memory`: `ArchiveIsWhatWasShown`, `IndexSound` (`IndexBehindArchive`,
  `SidecarPromotable`), `TemporalSourcesArchived`, `ProfileAppliedOnce`.
- `budget`: `LimitHolds`, `CostsHeld` (`ChargesCovered`, `CallsHoldReservations`),
  `RolloverRecoverable`, and the action property `BooksPermanent`.
- `temporal`: `LifecycleExplainsFacts`, `AppliedOnce`, `TimeSound` (`SamplesAccepted`,
  `ExpiredStaysHidden`).
- `activation`: `TerminalsTruthful` (`PremutationLeavesNothing`, `AcceptedTargetLive`),
  `IndexTruthful` (with `RecoveryWhole`), `RolesRunOnce`, the action property
  `TimeNeverRewound`, and `Settles`.

`RolesRunOnce` counts children, not intents: `launched` is a history variable that
no step reads, so a call whose intent is lost, rewritten or replayed away shows as
a second child. `PreflightHolds` speaks of the three transactions of a turn with an
image (`projection_readiness`, `begin_turn`, `context_payload`): what the first
announced is still so when the other two run. `ForgottenOnlyUnanswered` holds where
acknowledgements time out, so it says how far the finding `lost_wakeup` reaches: only a
job nobody has tried, and only at the end of an unanswered acknowledgement.

Each is stated in words above its definition. Every property has a mutant, a
bug the code might have had (`Mutant_...`, beside the definition it alters),
with which the property fails.

### Fairness

`FairSystemSpec` assumes: the worker thread is scheduled, an acknowledgement
being answered is finished, and systemd restarts the service
(`Restart=on-failure`), all weak; and strong fairness for three steps that can be
interrupted again and again: that a started worker some day gets to run before
the next crash, and that a worker's transaction some day succeeds although the
database may refuse it (locked, disk). Nothing is assumed of the owner,
Telegram, the plugin, Core or the provider; the provider may fail every time.

`FairActivationSpec` has one weak fairness condition, on `Progress`: as long as the
role child, the supervisor or the guardian has a step to take, one of them takes
it. Faults are never owed. `Settles` is claimed only where no orphan runs.

### Findings

1. `summary_race`. A summary may commit while a turn is open
   (`commit_summary_candidate` looks neither at `pending_turns` nor at
   `delivery_intents`). It moves the revision, so the acknowledgement of a reply the
   owner has already read is refused with `epoch_v3_delivery_prestate_drift`; the
   reply is lost to the conversation and its pending turn blocks every later one
   until a restart.
2. `lost_wakeup`. The worker is triggered after the plugin has been answered. If
   the plugin has closed the socket, the trigger is skipped, and as no second job
   is queued while one is open, the summary waits for a restart.
3. `verbatim_capacity`. With the verbatim-first policy, turns accumulate behind
   a slow summary past the size of one job. The next delivered turn then tries to
   build that job inside its own transaction and is refused with it.
4. `memory_restart`. The temporal index is written through a `.tmp` file opened with
   `O_EXCL`, which only an exception removes. A process killed inside that write
   leaves it, and as every start has to rebind the index to the archive's head, every
   later start raises `FileExistsError`. ADR-066 calls the indexes rebuildable.

### Known exceptions

Behaviours of the code that the models contain, met while the properties were
written, and which the properties therefore except. They are not runs.

- Budget: only the last attempt's error decides what happens to the reservation of
  all attempts, so with more than one attempt a refusal after an attempt that may
  have been charged gives the reservation back (`RefusedAfterDoubt`). Core clamps the
  attempts to one (`providers/runtime.py`, and
  `docs/provider-runtime-single-attempt-invariant-v1.md`), so this concerns only other
  callers of the provider; with one attempt `CostsHeld` excepts nothing.
- Activation: a reconcile that cannot even start (missing binding, unverified arm)
  raises without `forward_state_possible`, and the engine drops the forward state it
  was asked about. A `stop_socket` that fails after its marker makes engine and
  adapter derive different convergence scopes. A replay that stops between `recover`
  and `postflight` signs a product convergence as infrastructure only. A strategy
  index can say `target_accepted` over a host a forced recovery began to take back.
  A `JOURNAL.NEXT.json` left behind blocks every later journal write, convergence
  included. A `recovery_install` that failed before its obligation ends as
  `convergence_failed` with an unknown product state. An orphan role child can
  restore or commit trusted time beside the recovery, which is why `TimeNeverRewound`
  and `IndexTruthful` speak of runs without orphans.
- Temporal: when the answer to a committed confirmation is lost the owner is told
  that nothing was written, and every later confirmation fails as already consumed
  (ADR-059 speaks of explicit unknown-commit recovery). `expire_due` has no caller:
  reads hide an expired fact at once, but it stays active and keeps its slot, so the
  next `create` there is recorded as a conflict. A host clock stepped forward fails
  every sample of that boot by its drift.
- Gateway: turns left pending by `ReplyRefused`, `OutcomeFails` or `TelegramRefuses`
  wait for a restart. While recording a failed summary attempt keeps being refused,
  the worker calls the provider again without counting an attempt.

## 4. Proofs

Every theorem is about the whole specification and holds for all values of its
constants that satisfy the named assumptions; none bounds the number of steps,
crashes or turns. Each inductive invariant was an invariant of a TLC run before it
was proved. `PROJECT.json` names the property of a run that each theorem states.

### The store and the gateway

Assumed: `SizeAssumption`, `NobodyAssumption`, `LimitAssumption`, `WorkerAssumption`
(sizes are numbers, limits are positive, no worker is called nobody).

- `TypeCorrect`. `TypeOK` alone is not inductive: `CoveredEnd` looks up the active
  summary, so `TypeInv` adds that the active summary is the last one.
- `HistoryIsPermanent`, an action property from the same invariant: sequences are
  only appended to, the function of revisions only extended, receipts written only
  where there is none.
- `ChainAlwaysIntact`: the one step that appends a turn has compared the intent and
  the pending row with the epoch row (`Undrifted`); a summary keeps both.
- `RevisionsAreStepwise` and, on `ChainIntact`, `RevisionsStepwise` and
  `IntentsBound` (an intent's provenance is its base revision),
  `ProvenanceAlwaysNamesParent`.
- `DeliveredExactlyOnce`: the places of an event in the chain are none or one
  (`PlacesOf`), according to its receipt; the delivering step is the only one that
  changes them.
- `TurnsOpenedAlone`: with one open turn every preparation is of it
  (`PendingCurrent`).
- `PreflightAnswerHolds`: only a delivery adds to the projection, and it needs a turn
  that was begun; a summary takes a prefix out of it (`JobsSound`), and the turns left
  have no more characters than before (`SumCarried` of `FiniteSums`).
- `JobsAlwaysSound`: an open job can be rebuilt because committed jobs lie behind
  the last summary (`CommittedBehind`), so a job's version is the next summary's.
- `StoreImplementsLedger`: `Spec => LedgerSpec`, a refinement with the mapping in
  `ExternalEpochV3`, step by step: delivery, withholding, summary, stutter.
- `SystemImplementsStore`: `SystemSpec => Spec`. Every step of the system is a step
  of the store's client or leaves the store alone; `GatewayInv` says what the
  locals of the gateway must satisfy (the base of the token it holds is a
  revision). All theorems of the store follow for the running system.
- `OnlyShownRepliesAreCommitted`: by `ReportsTrue`, a waiting "delivered" outcome
  and an event in channel state "shown" are of events in `shown`.
- `WithheldRepliesStayHidden`: `TraceInv` follows a turn on its way, claimed before it
  is opened, open while it is served, and out of the plugin's hands once its reply
  is cancelled.
- `WorkInHandStaysOwn`: `LeaseInv`, a lease of the worker has its holder or a retry
  that is due, and a worker that is up is the one that holds it.
- `RetriesAreNeverForgotten`: `ForgottenOnlyUnanswered` without a hypothesis, for
  acknowledgements that time out as well. A job that was tried is on its way again
  (`RetriedJobComing`): whoever gives a lease back, fails or restarts also sets the
  retry, the wake-up or starts the worker. A job can then be forgotten only as it is
  queued, by the one step that skips the trigger.
- `DeliveryAlwaysFits` has the hypothesis `RecentTurnsFitJob` (the recent turns and one
  more fit a job). It cannot be dropped: `verbatim_capacity` violates the property in
  a configuration that breaks it. The proof bounds a sum over what no summary covers
  yet, with `FiniteSums`.

### The archive and the memory runtime

Assumed: `HeadAssumption`, `KindAssumption`, `FileAssumption` (a turn has one kind;
the markers for a missing or torn file are not files).

- `ArchiveIsSound`, `ArchiveImplementsLog`. The context of a preparation is a prefix
  that ends before its turn only because a prepared turn was not delivered before,
  which needs `JournalAgrees` (events are about prepared turns, the chain holds
  the delivered turns, each once) and `HeadIsLast`.
- `MemoryUsesArchive`: `MemorySpec => Spec`, so the theorems of the archive hold in
  the composition (`ArchiveSoundInRuntime`), also under restarts.
- `ArchiveHoldsWhatWasShown`, from `Reports`: a turn is reported about only after the
  plugin is done with it, and nothing else is said of it at the same time.
- `ProfileChangesOnce`, `IntervalsFromArchive`, and `ReportsArchiveAtOnce`, a promise of
  ADR-066 that is proved only: every report taken in meets a live preparation.
- `IndexNeverAhead`: an index was derived from the archive and the temporal
  snapshot as they once were (`Behind`); the cursor never goes back, and a whole
  sidecar is current unless a write failed while the process lived
  (`SidecarCurrent`).

### The budget

Assumed: `CostAssumption` (finitely many requests; costs, limit and days are
numbers). Finiteness is what makes a page's total a number.

- `BudgetLimitHolds`, `BudgetCostsHeld`, `BudgetRecoverable`, `BudgetBooksPermanent`.
  The total a page commits is not enough: `BudgetInv` accounts for a day request by
  request, on the live page and on archived ones, and bounds what the provider
  can have charged by what the request's thread knows (`ChargesBounded`).
  `BudgetCostsHeld` has no exception for one attempt a request: then a doubtful request
  is always the one to be marked uncertain (`SingleAttempt`). What each
  of the four writes leaves behind (`Stages`) is treated once, as a property of the
  ledger files that every stage of a load keeps.

### The temporal context

Assumed: `TemporalAssumption`, `NoneAssumption`. The counters bound proposals and
faults in the model; the theorems hold for every value of the bounds.

- `ConfirmationsApplyOnce`, `FactsExplained`: every consumed proposal is confirmed once
  (`ProposalsApplied`), the last event of a fact and its replacement give its state
  (`Explained`), events are in order of trusted time (`EventsOrdered`).
- `TemporalTimeSound`: every mark -- guard, floor, sample in hand, row in either
  database -- is behind the trusted time (`Behind`), which never goes back, so what
  has expired stays expired (`HiddenExpired`).

### The activation

Assumed: `MaxFaultsAssumption`, `OrphanFaultsAssumption`. TLC explores two faults; the
theorems hold for any number.

- `ActivationTypeCorrect`. That the next role of a running engine is a role is not a
  matter of types: a continuity role must know its outcome (`EngineSound`), and a
  role child has only operations of its role left (`ChildSound`).
- `NoRoleRunsTwice`: `RolesRunOnce`. The children ever created (`launched`) are no more
  than the calls on record (`LaunchesKept`), intents are never withdrawn, and a running
  engine, also one a replay rebuilt, has counted no call of a role that lies ahead of the
  one it is at (`CalledKept`), so the next call is the role's first, or the
  convergence's postflight.
- `CommittedTimeStays`: `TimeNeverRewound`, from `TimeInv`. `TransitionKnown` says that in the first
  sequence the engine has counted the transition it called, so it is called, and
  an assessment written, only before anything moved; `TodoHonest` says what a child
  may still have to do (no restore of the old time after a commit, no call but
  right after the journal says ambiguous); `CommitRecorded`, that the journal never
  denies a commit, which is what a convergence decides by.
- `TerminalsAreTruthful`, with orphans too. Its premutation half is from `InstallInv`.
  The engine keeps to its order (`EngineKept`: how often each role was called, which
  scopes it must have claimed); a child that may touch the host starts with a check of
  the armed gate, so without an obligation the host is untouched (`HostKept`); and
  where an installation has begun, the calls before it are all good on disk
  (`InstallCalled`), so neither the first run nor a replay can close as premutation
  (`InstallAhead`, `InstallReplayed`, `NothingInstalled`).
- Its acceptance half is from `AcceptInv`. An acceptance is the capture of a postflight
  that saw the target (`AcceptSeen`), taken when every earlier child had ended; after
  it, and before a convergence is called, only a reconcile can still be called, which
  then finds the transition committed and changes nothing (`AcceptedLive`, `Quiet`).
  `ContinuityTrue` and `ToldContinuity` relate what the engine was told of the trusted
  time to the journal and the provider.
- `IndexIsTruthful`, from both. What the guardian's files say is in the captures
  (`FilesSeen`); a `recover` that succeeded saw the predecessor, and no later child
  moves it (`RecoveredStays`); once the time was moved, no child, capture, engine or
  terminal restores the old one (`RestoreTrue`); and without a forced recovery a target
  that is converged after its acceptance is not called accepted (`UnrecoveredKept`).

### What is only model-checked

Liveness (`JobsSettle`, `Settles`), which is out of the prover's reach, as is
`ENABLED`. Every other property of a passing run is a theorem. The counterexamples are
runs by nature. `SumFunctionOnSet` is a recursive function over finite sets;
`FiniteSums` does its induction on the set of subsets for which a fact holds, as the
general induction theorems cannot be instantiated.

## 5. Plan

Modelled and proved: the epoch store with its ledger, the gateway around it, the
archive and the memory runtime, the budget, the temporal context with trusted time,
and the P08 activation. Left: the gateway's legacy in-memory `pending_deliveries`, and
the recovery episodes.

## 6. Not modelled

Listed with the reason in `PROJECT.json`. In short: text (prompts, parsing,
ranking), signatures and permissions, read-only metadata, the QQ channel, the legacy
epoch, and AstrBot itself, a vendored fork that makes up most of the repository.
Of the modelled parts these stay out: time corrections and `append_complete_turn` of
the archive and `stage_profile_server_intents`, which nothing in production calls; a
preparation against a stale head, which the serial gateway cannot make; outcome
replays inside the memory composition, as the plugin reports once; the activation's
boot recovery, bootstrap and top-level entry, its identity and byte checks, a torn
`PLAN.json`, a torn failure file (it takes a second fault), a failing plan-only terminal, a first generation that starts after its
deadline, and the p07 and current-release upgrade scripts, which repeat the
activation's pattern over other files; the forward transition of trusted time as a
provider operation (it is one step of the activation's adapter). The owner profile's
v1 store is retired: `/Benchmark` answers so, and profile changes go through staged
requests. The release selector is a pure contract validator.
