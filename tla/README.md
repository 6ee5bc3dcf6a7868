# A TLA+ verification of Mishkan

Mishkan (`src/src/mishkan`) runs governed, multi-agent work on a repository: a daemon
takes idempotent commands over a local API, keeps every decision in a relational store
(SQLite locally, PostgreSQL in distributed mode), lets CrewAI plan and execute runs,
journals every tool call that changes something, fires schedules, and may hand tasks to
remote workers. What makes it hard is that all of these act on the same rows: a crash, a
repetition, a cancellation or an expiry may fall between any two transactions, and an
effect outside the store must still happen at most once and be neither lost nor invented
in the record.

The modules here model the parts of the code that carry this burden, check them with TLC
on small instances and prove their main invariants with TLAPS for all instances.
`PROJECT.json` holds the component list, the runs, the mutants, the map from definitions
to source lines, the hazards, the findings and the theorems. Paths below are relative to
`src/src/mishkan`.

## Inventory

| Component | State | Operations | Interacts with | Hard behaviour | Correctness |
|---|---|---|---|---|---|
| Durable runs (`persistence/sqlite.py`, `crewai/flow.py`) | run, task, result, rejection rows; the flow in memory | start, accept plan, claim, validate, review, accept, fail, cancel, recover | gateway, mission claims, worker coordination, commands | crash between transactions; recover in two transactions; cancel during planning or execution | dependencies first, durable acceptance, cancellation settles |
| Planned-call journal (`tools/gateway.py`) | planned call rows with state and effect settlement | reserve, dispatch, complete, mark uncertain | flow, adapters | crash or timeout around the adapter's effect; retry | a declared effect happens at most once |
| Worker coordination (`workers/coordination.py`, `workers/recovery.py`) | worker, placement, lease, envelope, completion, acceptance rows | heartbeat, revoke, place, claim, begin, renew, deliver, accept, expire, reconcile | run rows, operator commands | competing workers; late and repeated deliveries; expiry against renewal | one active lease, one acceptance, no authority after expiry, leases end |
| Worker process and identity (`workers/process.py`, `state.py`, `repository.py`, `pki.py`) | delivery journal, certificates, credential files | enrol, rotate, revoke; claim, execute, upload, deliver | coordinator, artifacts | lost answers; death between two file writes, or between execution and delivery | no rerun, one completion, a key that fits its certificate |
| Scheduling (`scheduling/`) | schedule and occurrence rows; driver's due list, dispatch tasks and lock | create, transition, run_now, fire, dispatch, retry, settle, reconcile | command ledger, runs | stale due list; duplicate dispatch tasks; restart; catch-up limit | no slot lost, overlap excluded, one effect, occurrences settle |
| Application commands (`daemon/api.py`, `persistence/application.py`) | command receipts, aggregate revisions; tasks and locks in memory | replay, refuse, mutate, reserve, verify, complete, fail, accept run | every service behind `_dispatch` | repetition in flight, after settlement and after a crash; stale revision | effect once, answers agree, revisions count acceptances |
| Policy and authority (`policy/`, `application/authorization.py`) | policy documents, refusals | load, evaluate, derive a scope, refuse, execute | commands, gateway | documents and approvals that lapse; definitions looked up later | nothing is done that no rule covers; an author is the actor; a refusal stays |
| Plans (`planning/`, `crewai/coordinator.py`) | the plan and its evidence in memory | propose, validate, execute calls, synthesize, review | gateway, runs | a model may answer anything; nested retries | the loop never spins, evidence is complete, results are grounded |
| Event outbox (`persistence/application.py`, SSE in `daemon/api.py`) | outbox rows, holds, plans, cursors | append, read, hold, plan and apply retention, stream | every command | retention against subscribers | no silent gap, held events stay |
| Schema (`persistence/migration.py`, `runtime.py`) | layout, version, backup | observe, back up, stamp, migrate, check | every store | two managers; death inside a revision | a current schema is whole, the original can be had back |
| Artifacts (`artifacts/`) | bodies, manifests, references, holds | upload, commit, reference, collect, reconcile | tools, workers | body and row written separately; collection against publication | no row without body, references stay live |
| Edits (`edits/service.py`) and Git (`edits/git.py`) | change sets, operation journal; repository and remote | plan, apply, verify, roll back, recover; stage, commit, push | commands, runs | crash in the middle of an apply; other programs and clones | foreign changes kept, settlements are true |
| Execution supervisor (`execution/`) | session record, process | start, ready, poll, cancel, settle, reconcile | gateway, runs | processes that outlive the daemon; three threads on one session | outcomes witnessed and recorded once, sessions settle |
| Browser (`browser/`) | sessions, action journal, profile | open, observe, act, close, reconcile | Playwright | death during an action; repeated and stale actions | an action sent to the page under one key and observation is not sent again |
| MCP (`mcp/`) | servers, schemas, call journal, remote tasks | connect, call, poll, cancel, resume, reconcile | remote servers | lost answers, changed schemas | sent once, never called lost too early |
| Missions (`missions/`) | mission, Briefs, Crews, assignments, bindings, reports | revise, assign, bind, report, claim, complete | runs, environment, conversations | checks and writes in different transactions | changes on the view seen, completion rests on accepted runs |
| Conversations (`conversations/`) | channels, decisions, escalations, interventions | stage, settle, escalate, intervene | missions | two threads read before either writes | decided once and for good |
| Team effectiveness (`missions/team_*.py`) | collaboration plans, signals, health, adaptations | plan, detect, evaluate, adapt | missions | records checked against rows that move on | every record rests on earlier ones |
| Skills (`skills/`) | versions, pointer, pins, learning requests, uses | register, inspect, decide, archive, learn, use | runs | whole rows written from older readings | only inspected versions are active, used ones were activated |
| Environment (`environment/`) | observations, bindings, operations, attempts, verdicts | observe, resolve, plan, attempt, verify, invalidate | missions | stale observations; repeated attempts | one binding, readiness is earned |
| Organization (`organization/`) | evidence, promotions, decisions | show, promote, decide, expire | missions | two promotions of one subject | a scope in effect was earned |
| Knowledge (`knowledge/`) | operation journal, corpora, queries | ingest, refresh, publish, cancel, reconcile, query | providers | silent providers; two operations on one corpus | dispatched once, reported as it happened |
| Web (`web/`) | crawl frontier, cache, slots | search, fetch, crawl | network | limits, redirects, credentials | scope and credential confined, coverage told |
| Tools, adapters, configuration, telemetry, model prompts, clients, repository inspection | none that others rely on | | daemon | | |

## Modules

One module per component; each lists the source it models in its head.

| Module | Models |
|---|---|
| `RunLifecycle` | durable runs, the planned-call journal and the flow |
| `WorkerCoordination` (extends `RunLifecycle`) | remote placement in the shared store |
| `WorkerDelivery`, `WorkerIdentity` | the worker's journal; its certificates and files |
| `Scheduling` | schedules, occurrences and the driver |
| `CommandLedger`, `CommandPromise` | `execute_command` and the receipts; what it promises about one identity |
| `PolicyDecision`, `CommandAuthority` (extends it) | the effective policy; who may do what through commands |
| `PlanPipeline` | plan proposal, validation, execution and review |
| `EventOutbox`, `SchemaMigration`, `Artifacts`, `Edits`, `GitEffects` | the stores |
| `Supervisor`, `BrowserSessions`, `McpCalls` | what acts outside the daemon |
| `Missions`, `Conversations` and `TeamEffectiveness` (both extend it) | one mission, what is said about it and the records of its team |
| `Skills`, `Environment`, `ProfessionalEvolution`, `KnowledgeMutations`, `KnowledgeQueries`, `WebCrawl`, `WebRequests` (extends it) | what the organization learns and looks up |
| `RunLifecycleProofs`, `WorkerCoordinationProofs`, `CommandLedgerProofs`, `SchedulingProofs`, `StoreProofs`, `EffectProofs`, `GovernanceProofs`, `GrowthProofs` | theorems |
| `MC*` | instances for TLC |

The definitions marked "Mutant" in the modules are variants of the definition that
follows them, each with one plausible mistake; they take part in no specification and are
there to show that the properties can fail.

Components that share no variable are checked together in one MC module. It adds a
variable `focus` that is chosen in the initial state and never changes: the component in
focus takes its own steps and the others rest in their initial states, so the state spaces
add up instead of multiplying. `MCGovernance` keeps more together: the commands on the
mission act beside the part in focus, because that is where those components meet.

### How state and actions correspond to the code

* A repository method is one transaction and one action. Where the code commits, awaits,
  or reads outside the transaction that writes, there are two actions and a variable for
  what is carried from one to the other: `recovering` (`RecoverScan`, `RecoverRelease`),
  `tick` (the due list of the schedule driver), `flight`, `drafting` and `desk` (what the
  threads of missions, conversations and team records decided and did not write yet), the
  pending commands of `Skills` and `Environment`, `manager` (what a schema manager saw).
* A method that raises is a disabled action unless the exception is handled, when the
  handler is part of the action.
* A unique index is a write that leaves the row alone when it is there.
* What the code cannot see is a variable of its own where a property needs it:
  `performed` counts what adapters did, `effects` what commands did, the page, the server
  and the remote repository of the effect modules likewise.
* A crash forgets what is in memory and keeps the rows; files, processes, servers and
  providers keep what was done to them.

Notes on single modules:

* `RunLifecycle`: `flow` is the executing flow: its stage, run, task, call and what it
  remembers to have completed. Its stages follow `establish_plan` and `execute_plan`.
  `MissionClaim` is `mission.task.claim`; `OtherEffect` stands for the sessions, browser
  and MCP calls `_unresolved_durable_effects` looks at.
* `WorkerCoordination`: distributed mode requires PostgreSQL, while the flow of
  `run.initialize` keeps a SQLite file of its own, so a run enters this store planned and
  running and no flow acts on it. Envelope and lease are named by task and attempt, as the
  unique constraints say. A deadline is a timer that counts down to 0, which is
  `expires_at <= now`. `issue_lease` has no caller outside tests and is left out.
* `Scheduling`: an instant is a number and a cron schedule has a slot at every instant; an
  occurrence is a schedule with a slot or with the `run_now` command that asked for it. A
  trigger is a command whose identity is derived from schedule and slot. The dispatch is
  split where the daemon can stop: check, claim, reservation, run row, receipt, settlement.
* `CommandLedger`: `execute_command` holds no lock across an await and does not suspend
  between its look at the active commands and the receipt or task it ends in, so a
  submission is one step. Mutations (`schedule.`, `worker.`, `registry.entry.`) commit with
  their receipt; every other command is reserved, waits for the lock of its target, looks
  at the revision again, performs its effect and stores the receipt; `run.initialize` takes
  the run lock instead and is not checked again.
* `PlanPipeline`: a kick-off goes through the pairs of a model and a credential that a route
  offers (`ModelCandidates`), with its retries for each of them (`_kickoff_structured`,
  `candidates_for`). What does not return a value of the declared form uses all of them up.
* `Edits`: an operation takes effect and is undone by system calls of its own: a move links
  the destination and then unlinks the source, and its rollback links the source and then
  unlinks the destination. The daemon may die and a call may fail in between and before the
  journal is marked, forwards and backwards. `raced`, `others` and `torn` are histories: the
  paths others changed in the windows the service does not look at, those changed since the
  plan, and the operations whose rollback was interrupted while their entry said applied.
* `Supervisor`: clients act at any time, also on a launch that is not recorded yet, and
  settle what a dead daemon left running. `hasty` is the history of that.
* `WorkerDelivery`: `kept` is the history of the claims whose result was in the journal.
* `Missions`: commands on the mission carry the revision their author read (`seen`);
  assignments, bindings, reports and claims have targets of their own and interleave with
  them. A rejected or failed task of a run is made eligible by `RecoverRun` and claimed again;
  `refused` holds the tasks a rejection row exists for. The control that governs a task is
  the latest whose target is the task or whose scope matches it (`Governs`, `Held`).
* `KnowledgeMutations`, `McpCalls`, `BrowserSessions`: one journal discipline against three
  kinds of outside worlds, each of which performs, refuses, fails or stays silent.

### Assumptions of the models

* Every repository method is serializable. On SQLite the writer lock and the daemon's
  single event loop make this close to true; under READ COMMITTED two writers may both see
  an old row, which is not modelled (hazard at `persistence/sqlite.py:1509`).
* Data is abstracted to what the properties tell apart: a payload is its fingerprint, a
  plan its dependency graph, a file one content, an effect a count.
* Models, tools, providers and people may answer or do anything their interface admits.

## Runs

Each passing run asks one question of a group of components. A property that begins with
"[]" parts below is a conjunction of invariants and action or liveness properties, named
in the module that defines it.

| Run | Instance | Shows |
|---|---|---|
| `runs` | one run of two chained tasks, a stateful and a read-only call, two attempts, reviews and tries, one crash; or two interchangeable workers on its first task, two completions each, lease 2, task 3, placement 3 (1.3 M states) | the rows of a run under the flow and under workers |
| `recovery` | the same chain with one worker, its first task stateful, no crash, fair (137 K) | what lost leases and cancelled runs leave behind |
| `schedule` | a one-shot schedule and a `run_now` of it, two attempts, two dispatch tasks, one crash, fair; or a cron schedule over three instants with catch-up limit two | fired, dispatched and settled occurrences |
| `commands` | two effects on one target, a mutation and a run, two contents, three requests, one crash, fair; policy documents of two sources over three days; seven command types by two actors; every plan of two tasks over two tools | admission of commands and the plan a run carries out |
| `stores` | three events, one hold, plan and reader; two uploads of one content, two artifacts, two plans or reads at once; one change set on two paths, two foreign writes and two faults; two Git calls, three commits; two schema managers and three revisions | the stores of the daemon |
| `effects` | one session per request kind and its three threads; two browsers, two keys, two faults; three MCP calls (plain, repeatable, remote) and two schemas; one worker's certificates with three faults; two claims of one output with two faults | what acts outside the daemon |
| `governance` | two tasks, one run, two binding keys, two threads, one escalation, two Briefs and Crews, eight revisions, one proposal with three interventions per target, and controls of both tasks with every scope | one mission from its Brief to its completion |
| `growth` | three versions of two skills, two engines and operations, two promotions, six knowledge operations on two corpora, one query by two callers, every link graph in scope over four pages, three origins | what the organization learns and looks up |
| `recover_race`, `schedule_stuck`, `mission_readable`, `upgrade_backed_up` | the smallest instances that show them | disagreements of code and documentation, below |

| Property | Run | Says, in its parts |
|---|---|---|
| `TypeOK`, `EffectAtMostOnce`, `DependencyEligibility`, `DurableAcceptance`, `AcceptedResultStable` | `runs` | rows keep their ranges; no declared effect happens twice; a task past pending has its dependencies accepted; acceptance and result rows agree; an accepted result stays |
| `OneActiveLease`, `SingleAcceptance`, `ExpiredAuthority` | `runs` | one active lease and one acceptance per task; authority that is over stays over and yields nothing |
| `NoOrphanedLease`, `LeaseEnds`, `CancellationSettles` | `recovery` | a leased task has a lease that can end it, and it ends; the flow settles a cancellation on every way out of `execute_plan` |
| `ScheduleRows` | `schedule` | `TypeOK`, `SlotsAccounted`: every slot up to the next fire is an occurrence, coalesced or skipped by rule |
| `OverlapExclusive`, `SingleEffect`, `OccurrencesSettle` | `schedule` | a non-overlapping schedule has one claim or run; an occurrence starts one run; `OccurrencesFinal`, `OccurrenceSettles` |
| `LedgerConsistent` | `commands` | `LedgerTypeOK`, `EffectOnce`, `RevisionCountsAccepted`, `AcceptedExclusive`, `AnswersAgree` |
| `EffectOnExpectedRevision`, `RequestsAnswered`, `KeepsPromise` | `commands` | effects start on the revision they expect; everyone who waits is answered; `CommandLedger` implements `CommandPromise` |
| `AuthorityHolds` | `commands` | `AllowedWasGranted`, `ApprovalInTime`, `NoAmbiguousPolicy`, `DeedsGranted`, `AuthoredByActor`, `RefusedStays` |
| `PlanCarriedOut` | `commands` | `NeverSpins`, `EvidenceComplete`, `AcceptedGrounded`, `KickoffsBounded` |
| `StreamSafe`, `StreamKept` | `stores` | `RetainedDelivered`; `EvidenceKept`, `RetentionBounded`, `ReaderCatchesUp` |
| `SchemaSafe` | `stores` | `CurrentIsWhole`, `OriginalKept`, `ServedCurrent` |
| `ArtifactsKept` | `stores` | `AvailableHasBody`, `OneArtifactPerUpload`, `ReferencesLive`, `DerivationKept` |
| `EditsFaithful` | `stores` | `ForeignKept` (forwards and backwards), `VerifiedInEffect`, `RollbackRestores` |
| `GitFaithful` | `stores` | `CompletedReached`, `CommitExact`, `RemoteGuarded` |
| `SessionsSettle` | `effects` | `RetryableSafe`, `CompletedWitnessed`, `SettledOnce`, `SessionSettles` |
| `BrowserGoverned` | `effects` | `ActedOnce`, `ObservationOnce`, `LostMeansSettled`, `DrivenWhileActive`, `ProfileKept` |
| `CallsSettled` | `effects` | `SentOnce`, `LostIsHarmless`, `TaskNotForgotten`, `SchemaPinned` |
| `IdentityWhole` | `effects` | `OneCurrentCertificate`, `KeyRecoverable`, `FilesAgree`, `RotationAnswer`, `RotationChain` |
| `DeliveryCompletes` | `effects` | `EvidenceOfRun`, `CompletedOnce`, `LeaseRemembered`, `NoRerun`, `JournalFrees` |
| `MissionHolds` | `governance` | `ReportsHold`, `CompletionHolds`, `SettledBindingFinal`, `SettledOnEvidence`, `ChangedAsSeen`, `TerminalStays`, `NoSecondStart` (of an accepted task) |
| `DecisionsHold` | `governance` | `OneDisposition`, `CeoDecidesOnce`, `StopStands` (the task itself takes no control after a stop, and only a resume of another task whose scope matches releases it), `DecisionsStay` |
| `TeamGoverned` | `governance` | `PlansFollowCrews`, `HealthSawSignals`, `AdaptationsGoverned` |
| `EnvironmentGoverned` | `growth` | `OneBinding`, `AcceptedResolves`, `DefinitionsProtected`, `ReadyIsEarned` |
| `EvolutionEarned` | `growth` | `AgainstPreserved`, `EffectiveEarned` |
| `SkillsGoverned` | `growth` | `ActiveInspected`, `UsedWereActivated`, `SettledLearningStays` |
| `KnowledgeAccounted` | `growth` | `DispatchedOnce`, `SucceededHappened`, `CancelledUnpublished`, `ReadyFollowsIndexer`, `ReturnedIsDurable`, `CompletedIsWhole` |
| `WebGoverned` | `growth` | `CompleteWhenNothingLost`, `SlotsBalance`, `CredentialConfined`, `RedirectsInScope`, `CredentialedUncached`, `VerifiedTwice` |

### Bounds

They are chosen so that the interesting cases happen: a repeated effect needs two attempts
and one crash; an unfinished dependency a chain of two; a race of leases two workers or two
attempts; a renewal matters when a lease lasts longer than one tick and shorter than its
task; a repeated or late completion needs two submissions; catch-up is truncated when more
slots are due than the limit; a stale revision needs two commands on one target and a
replayed one a third request; a gap needs more events than a page and a plan that removes
some of them; a lost rotation needs a fault in the answer and one between two files; a
check that is stale when it is used needs two threads (`Hands`, `EnvHands`, `SkillHands`,
`Fetchers`, `Callers`); three interventions on a target are the fewest in which a comment
hides an earlier decision; a redirect that leaves the scope and returns needs two hops.
Two model candidates are the fewest in which a failing one is followed by another; two
plans (`MaxPlans`, one budget of collections, reconciliations, reads and member checks) the
fewest in which two of them interleave; two faults of an edit the fewest in which a rollback
fails and the daemon then dies, or the reverse. The two uploads are alike, and `InOrder`
fixes which is opened first.
Threads and workers that play the same part are symmetric in the runs that check no
liveness. Deadlock checking is off where requests, commands and instants are bounded and
the model may therefore come to rest; it is on in `runs` and `recovery`.

### Fairness

* `LifecycleFairSpec`: the flow's thread runs until it returns or raises, and a
  `run.recover` in progress finishes. No operator is obliged to do anything.
* `WorkerCoordination!FairSpec`: time passes and the recovery driver sweeps
  (`workers/recovery.py` loops until it is stopped). Workers owe nothing.
* `Scheduling!FairSpec`: the wake-up loop, the restart of the daemon and its
  reconciliation go on, commands return; the dispatch lock is an `asyncio.Lock`, which
  serves tasks in arrival order, hence strong fairness of the step that takes it.
* `CommandLedger!FairSpec`: effects and runs return (tools have timeouts) and the target
  locks are `asyncio.Lock`s.
* `OutboxFairness`: a connected reader's stream loop polls; nothing obliges it to connect.
* `Supervisor`: the starting thread, the monitor's polling loop and each thread inside a
  settlement go on. Processes owe nothing, which is why the limits must end them.
* `DeliveryFairness`: the worker's loop makes another pass and a claim's expiry passes.
  Answers may be lost up to the bound.

### Findings

* `schedule_stuck`: a schedule changed between the driver's read and its trigger is
  refused under an identity that never changes, and is not fired by the driver again.
* `recover_race`: `run.recover` releases a task whose call was dispatched between its two
  transactions.
* `mission_readable`: a proposed mission without a Brief is cancelled, by its transition or
  by the CEO's stop; both store the state without running the row's validator, and the row
  can no longer be read.
* `upgrade_backed_up`: the operator's upgrade command builds its manager without a path, and
  no copy is made of the database it promises to back up.

### Neighbouring weaknesses

Met while modelling and described with the hazards or here; the states are in the models,
and the properties are stated so that they say what does hold.

* `accept_plan` makes tasks of a cancelled run eligible, and the expiry of a lease does so,
  too; a cancelled run whose task was claimed outside the flow is settled by nobody, so
  `CancellationSettles` speaks of tasks under an executing flow.
* `run.recover` does not know envelopes that wait for reconciliation
  (`persistence/sqlite.py:1975`), and a queued placement of a cancelled run at the head of
  the queue makes claims fail until its deadline (`workers/coordination.py:411`).
* An occurrence that settles as uncertain keeps no run, so the overlap rule no longer sees
  it (`scheduling/driver.py:144`); `reconcile()` serves at most the catch-up limit per start.
* `run.initialize` and `run.prospective.create` share a target and take different locks, and
  the former does not look at the revision again: `EffectOnExpectedRevision` is about the
  other commands.
* A change set left in the state applied, an MCP call left reserved, a learning request left
  in review and a knowledge operation left in cancel_requested are settled by no restart
  (`edits/service.py:207`, `mcp/repository.py:511`, `skills/learning.py:420`,
  `knowledge/operations.py:649`).
* The gap rule of the event stream compares with the smallest retained cursor of all
  events, not of those a filter selects (`daemon/api.py:2719`).
* A lost enrollment answer costs the identity (`workers/state.py:100`), and a certificate
  that lapses during a rotation cannot be rotated (`workers/repository.py:287`).
* A rollback whose calls fail or are cut short after a restore and before its journal entry,
  or between the link and the unlink of a move, leaves the entry applied. A later apply skips
  it and answers VERIFIED although the operation is not in effect (`edits/service.py:465`),
  against `src/docs/PROJECT/SRS.md:1737`: a partial application does not claim verified
  completion.
  `VerifiedInEffect` excepts exactly these operations (`torn`).
* A client that asks for the status of a session between its row and its handle settles the
  launch as retryable, and the launch goes on (`execution/supervisor.py:813`); a cancel
  before the identity is recorded is overwritten by the record; a client may settle what a
  dead daemon left running. `RetryableSafe` and `SessionSettles` hold where no client did
  any of these (`hasty`); the clients do them in the run.
* The latest control whose target or scope matches a task governs it
  (`missions/execution.py:491`), so a resume of another task with a scope that matches
  releases a stopped task for claims, although
  `tests/unit/test_conversation_repository.py:628` has the CEO stop a task because it "must
  terminate permanently". `StopStands` says that nothing else does.
* A second skill version may stay in the state active without being pointed at
  (`skills/repository.py:459`); an assignment revised under a pending binding is not
  claimable any more (`missions/repository.py:1349`); a claim inspected before a pause, or
  before its binding was settled and the run recovered, still starts its task
  (`missions/execution.py:316`).
* A push whose remote could be read neither before nor after is settled as absent
  (`edits/git.py:354`); specificity counts the selectors of all groups together
  (`policy/evaluator.py:157`); two planned calls with equal arguments are accepted and the
  second can never run (`crewai/coordinator.py:568`).

## Proofs

Every theorem is about the component's own specification, without `focus`, for every value
of the constants that satisfies the component's named assumption (`RunsAssumption`,
`WorkersAssumption`, `LedgerAssumption`, `SchedulingAssumption`, `SchemaAssumption`,
`OutboxAssumption`, `GitAssumption`, `McpAssumption`, `BrowserAssumption`, `IdentityAssumption`,
`MissionsAssumption`, `ConversationsAssumption`, `TeamAssumption`, `EvolutionAssumption`,
`EnvironmentAssumption`, `KnowledgeAssumption`, `QueryAssumption`, `PipelineAssumption`,
`PolicyAssumption`, `AuthorityAssumption`, `CrawlAssumption`, `WebAssumption`,
`SkillsAssumption`, `ArtifactsAssumption`, `SupervisorAssumption`, `DeliveryAssumption`).
These say that
functions among the constants have their domains and ranges, that bounds are numbers large
enough for the initial states, that null values are no identities, that policy documents are
finite and have integer priorities, that a page has finitely many links, and that a corpus
is either semantic or structural: it belongs to one source (`_require_corpus`), and a source
has one class. TLC evaluates all of them, and it checked every inductive invariant below on
the run of its component before it was proved.

* `RunLifecycleProofs`. `LifecycleInv` adds two parts to the properties. `FlowInv` says
  what the flow's stage guarantees about what it holds: without it, nothing relates the
  call in memory to the row it came from. `EffectInv` says that the effect of a call has
  not happened while the journal would still let it be dispatched: `EffectAtMostOnce` alone
  is not inductive, since a state with one effect and a dispatchable row satisfies it.
* `WorkerCoordinationProofs`. `CoordinationInv` adds `LeaseInv` (an active lease is the
  current envelope of its task's leased placement, and belongs to an attempt already
  counted), which makes two active leases of a task equal, and `CompletionInv` (a delivered
  or accepted completion closed its lease), which is why a second one is stale.
* `CommandLedgerProofs`. `LedgerInv` adds `ReceiptInv` (receipt, task and effect agree) and
  `PassedInv` (an accepted command moved its target past the revision it expected), from
  which exclusive acceptance follows. `RecordInv` adds who holds which lock, that a command
  that verified its revision under the lock is still current, and that an answer is the
  stored one; it is about `Guarded` commands, the ones that take the lock of their target,
  because a run takes another. The revision is counted by cardinality with the lemmas of
  `FiniteSetTheorems`. `LedgerKeepsPromise` is the refinement of `CommandPromise`, step by
  step.
  `PipelineInv` carries the planning pipeline: what each stage has in hand (`FlowInv`), that
  the task in hand and those of the pass are not accepted yet and wait for nothing
  (`PassInv`), that the completed calls of the party in turn have given up their
  fingerprints (`InvocationsInv`), that what a review cites was run (`CitedInv`), and how
  many kick-offs are spent at each stage (`KickoffInv`): `KickoffsBounded` alone does not
  say how many are left. The bound is a product of the retries and the model candidates.
  `AuthorityAlwaysHolds` is about `GovernedSpec`, all interleavings of policy decisions,
  approvals and commands. `PolicyInv` says that a stored definition never changes and an
  answer stays; `AuthorityInv` adds that a waiting command still has the scope it was
  allowed for (`PendingFounded`) and that every effect is covered by such a scope
  (`DeedsFounded`). `DeedsGranted` is about the whole scope decided on, including the named
  identity, since a deny rule narrower than that scope does not match it.
* `SchedulingProofs`. `SchedulingInv` relates schedule, occurrence and attempt rows
  (`RowsInv`), the receipts and effects of an occurrence's attempts (`AttemptInv`: before
  its current attempt every one was refused without effect, which is why a retry cannot be
  a second run), the driver's list and lock (`DriverInv`) and the claims under one overlap
  key (`OverlapInv`).
* `StoreProofs`. `SchemaInv`: one manager migrates at a time, a database at the head is
  whole, and a copy was made before anybody touched it. `OutboxInv`: cursors are unique and
  bounded by the last one given, readers are never ahead, so what is retained below a
  reader was delivered; the action properties `EvidenceKept` and `RetentionBounded` are
  proved one by one, as `StreamKept` also has a liveness part. `GitInv`: what a call in each
  of its phases has observed of HEAD, the index and the remote. `ArtInv`: what each thread of
  the artifact service relies on between its readings and its writes; `CommitInv` says that a
  commit in progress holds the lock of its content and that what it published stays,
  `OriginInv` that the upload of an artifact is over and that what a plan or a reader found
  was made. `ArtifactsStayKept` holds for every
  bound on plans, reads and faults and covers the interleavings beyond those of the run.
* `EffectProofs`. `McpInv`: what the journal's state of a call says about what its server
  received, and what the one worker thread holds. `BrowserInv`: session, drive and action
  rows agree with the page, and a profile has one session. `IdentityInv`: serials are given
  in order and each certificate has a key of its own (`CertificateRows`), and between any
  two file writes the directory and the pending rotation still hold the key of the current
  certificate (`DirectoryHolds`, `CommandHolds`). `DeliveryInv`: what the stage of a
  claim says about its uploads, its place and its completion; `KeptInv` is the part about the
  journal, that a claim whose result was there is over or still the one in hand, from which
  `NoRerun` follows. `SessionInv`: what the starting thread and each thread of a settlement
  hold (`StartInv`, `DoingInv`). `DeliveryHolds` and `SessionsHold` are the safety parts of
  `DeliveryCompletes` and `SessionsSettle`.
* `GovernanceProofs`. `WholeSpec` puts missions, conversations and team records together
  without a focus, so every interleaving of the three is covered. `MissionInv` adds that a
  view of the current revision is the current mission (`SeenIsPast`) and what a thread
  between its check and its write may rely on (`FlightFounded`): a thread that checked a
  completion excludes every other command on the mission, and its runs stay reported and
  accepted because reports and results only accumulate. `EvidenceInv` says that the evidence
  a thread read for the settlement of a binding is there until it inserts it, which is so
  because a task is not claimed again once accepted and a rejection row is never removed.
  `TeamInv` says the same of the
  desk of each thread (`DeskFounded`) and that the plans of a Crew were recorded after it.
  `TalkInv` says what a thread that found a decision unsettled holds; the order of
  interventions follows from `OrderKept`: a validated kind appended to a history in order
  leaves it in order. `StopInv` is about controls: none on the task itself follows its stop.
* `GrowthProofs`. `EvolutionInv`: what a deliberation read is still on record and was not
  shown by the subject itself, and every decision keeps what its predecessor held against
  the identity. `EnvironmentInv`: attempts, verdicts and pending commands are founded on
  rows that never change, and each attempt ends once. `KnowledgeInv` goes by operation and
  by corpus: `PhaseAgrees` and `StepAgrees` say where the command on an operation is and
  that the steps after its own were not dispatched (`DispatchedOnce` alone does not say that
  the next one may be), `ImageAgrees` that while the row a command read is the row of the
  corpus, nobody else began to index it, and `CorpusAgrees` that what is published was
  brought about. `AnsweringInv` says that the bundle of a query is the one its thread
  returned. `KnowledgeSpec` lets operations, promotions and queries interleave freely.
  `CrawlInv` says of a crawl that lost nothing that what it keeps and queues is at its
  distance from the root, that all its kept pages lead to is known and that the level in
  turn is complete (`WalkInv`, `LevelKnown`), and of every crawl that depths never fall and
  the queue spans two of them (`OrderInv`). The levels are a recursive function; what it
  says for every depth follows by a least counterexample (`LeastNumber`), from the
  well-foundedness of finite sets. `WebInv` says where each thread is, what it holds of the
  slots (`SlotsInv`) and that a search which one route may end has one that did
  (`SingleRoute`). `WebSpec` interleaves a crawl with requests and searches.
  `SkillsInv` is about images of rows: an image without an inspection waits only while its
  version is neither active nor pointed at, which the lock keeps so (`ImageGoverned`), and
  the row that supersedes a version carries that version's own inspection (`PriorGoverned`).

Only model-checked:

* liveness (`CancellationSettles`, `LeaseEnds`, `OccurrenceSettles`, `RequestsAnswered`,
  `ReaderCatchesUp`, `SessionSettles`, `JournalFrees`), as the prover has no rules for
  fairness and `ENABLED`;
* the violations, which are counterexamples;
* for now `EditsFaithful`.

## Not modelled

The formats of payloads, prompts and evidence, argument and path validation, logging and
telemetry are abstracted. The command line and the HTTP client send what the submissions of
`CommandLedger` and `CommandAuthority` already allow. Tool adapters act through the journals
and are modelled by what they may do to the world. Configuration and resources are
constants. Model-backed agents may answer anything. Repository inspection changes nothing.
The reasons are listed per component in `PROJECT.json`, and what is left out of a component
modelled in part is in its note. Store isolation weaker than serializable is not modelled.
Of the web component the final URLs of redirected crawl pages and the slots and cache of
searches are left out. In `Missions`, the cancellation of a run and the limit of 1,000
interventions read by a claim are left out.

## Plan

The modules of the inventory are built. What is left is the safety of `Edits`, to be proved
in `StoreProofs`.
