# Poker deliberation framework: a TLA+ verification project

The repository runs poker reviews as workflows whose every step is recorded on
the local disk: runs are immutable revisions behind a `current.json` pointer,
resources are reserved and settled in a second store, helper processes and
roles of a language model run under approval, and all of it must survive
crashes, several processes on one directory and callers that repeat what they
are not sure of.  This project models that machinery in TLA+, checks it with TLC
on small instances and proves its main safety properties with TLAPS for every
value of the constants.

Source paths below are relative to `src/src/poker_deliberation/`.

## 1. Inventory

| component | state it keeps | operations | interacts with |
|---|---|---|---|
| revision store (`storage/revision_store.py`) | per run: `current.json`, revision directories, staging directories, temporaries, claims; per root: ownership and marker | `publish`, `claim_orphan`, `read_current`; initialization, inspection and reconciliation of the root | takes the authority lock; is the persistence of the durable budget, isolated jobs and phase revisions |
| authority lock (`storage/revision_lock.py`) | registry of keys per process, one lock file, its kernel lock | `acquire_authority`, `AuthorityLease.release` | used by every writer of a run |
| durable budget (`budgets/durable_store.py`, `durable_models.py`) | a log of snapshots: policy, usage, permits, attempts, cancellations, failure latch, operations | create, reserve, start, settle, release, cancellation request and record, policy tightening, load, resume | revision store below; bounded execution, isolated jobs and terminal store above |
| isolated job control (`isolated_jobs/`) | job state of nine statuses, child process, its evidence | `execute`, `recover_after_restart`, `reconcile`, the preparation lease of the Windows backend | durable budget, revision store, approvals, Windows job objects |
| terminal run store (`storage/terminal_store.py`) | product revisions, `current.json`, audit of failed approvals | `publish`, `publish_approval_decision`, `read_current`, `append_approval_failure_audit` | durable budget (reserve, start, settle, release), authority lock |
| approval authority (`approvals.py`) | requests, decisions, lineage, expiry | add, read, decide, reverify, reissue, recheck before execution | terminal store, isolated jobs |
| local data cleanup (`local_data_cleanup.py`, `local_data_policy.py`, `storage/local_data_cleanup_store.py`) | quarantine and deletion journals, cleanup revisions, tombstones | dry run, quarantine, delete, reconciliation | authority lock, terminal store |
| workflow orchestrator (`orchestrator.py`, `phases/`) | workflow state, phase traces, revision authorizations | run, confirmed run, resume, phases, publication of each revision | all stores, providers, tools |
| state machine and serial ledger (`state_machine.py`, `budgets/ledger.py`) | state and events of a run, usage and its clock | transition, project failure; observe, apply, pause, resume | orchestrator |
| bounded execution (`budgets/execution.py`) | tasks, cancellation tokens, worker threads, retries | execute | durable budget, contexts |
| Codex bridge (`codex_bridge/`) | prepared runs, confirmations, claims of identifiers, published results, attempts | prepare, confirm, execute, adopt an orphan; two transports | own storage, child processes |
| bounded river review (`bounded_river_review_workflow.py`) | plan, confirmation, linkage, one receipt per role | prepare, confirm, run, resume, roles, report | bridge, terminal store |
| legacy run store and migration (`storage/run_store.py`, `storage/legacy_migration.py`) | flat run directories | write, migrate, repeat a migration | terminal store |
| hand and pot ledger (`tools/hand_pot_ledger.py`) | local to a call | replay of betting actions into pots, oracle | tools |
| context lifecycle, tool registry, ranges, equity, normalization, reporting, evaluation, security scan, command line | none, or local to a call | pure functions and adapters | orchestrator |

What is hard in this code: there is no transaction over two stores, so every
component is a sequence of durable steps between which a process may die;
readers take no lock; callers repeat operations whose answer was lost, and only
operation and transaction ids keep the repetition from taking effect twice; a
call of the operating system may fail after it has taken effect; threads of one
process share the lock registry; asynchronous interruptions fall between any two
statements; decisions are taken on snapshots that another process has replaced;
a thread that was given up may still finish its work.  `PROJECT.json` lists each
hazard at its line with the properties that would catch it.

## 2. Modules and the code

| module | models | state | actions |
|---|---|---|---|
| `RevisionLog` | what the stores promise: an append-only log in which an id occurs once and an acknowledged entry stays | `log`, `acked` | `Publish`, `Acknowledge` |
| `RevisionStore` | `publish`, `claim_orphan`, `read_current` of one run | the directory (`current`, `revs`, `staging`, temporaries, `claims`), the kernel lock, program counter, request and report of every thread; `history` and `acked` are ghosts | one action per durable step of a publish, of a claim and of a lock-free read, release, crash of a process |
| `RootInitialization` | initialization, inspection and reconciliation of a storage root | the root's directories and marker, each call's place and answer | one action per directory or file made or looked at, crash |
| `RevisionLock` | one key of the lock | registry per process, lock file, kernel owner, program counter of every thread | the stages of `acquire_authority` with every handler, `release`, crash |
| `BudgetState` | the decisions of a budget operation on one snapshot | none (operators): `Admits`, `Apply`, `ValidSnapshot`, `ValidSuccessor` | |
| `DurableBudget` | processes that call these operations | the published snapshot, whether load accepts it, each process's cached generation, clock readings and prepared successor | one action per kind of operation, comparison with the current revision, publication with its uncertain outcomes, load, resume, restart |
| `IsolatedJob` | `execute`, recovery and reconciliation of one job | job state, budget snapshot (`BudgetState`), approval, children, processes | one action per call of a store or of Windows |
| `PreparationLease` | the worker thread that creates the suspended child, and its interrupted caller | phases of caller and worker, lease, child | each statement that an interruption can separate from the next |
| `TerminalStore` | processes that publish product revisions of one run | `current`, `revs`, `staging`, the lock, the budget snapshot (`BudgetState`), each process's frozen request, flags and report | the caller's read and freeze; reserve, start, lock, admission, guard, staging, rename, reread, replace, settle, confirming read, release of the permit and of the lock, crash |
| `ApprovalLedger`, `Approvals` | the approval state as operators; decisions, reissue, resume, execution and the failure audit by several processes | the product with its ledger, the audit, each caller's place, clock and authority | one action per read, validation, publication, winner read and audit write |
| `LocalDataPolicy`, `LocalDataCleanup` | dispositions and retention as operators; quarantine and deletion of a finished run | where the tree is, journals, cleanup revisions, approvals, holds, time | one action per journal, rename, unlink, revision and failure |
| `LegacyMigration` | the copy of a flat run beside its writer | source files, what was read of them, destination, answers | reads file by file, reservation, staging, pointer, the writer |
| `WorkflowMachine`, `Workflow` | the table of transitions and the serial ledger as operators; one run from reservation to answer | machine, ledger, provider thread, product, answers | admission, phases, provider rounds, tool batches, synthesis, publication, crash |
| `PhaseRevision` | the coordinated, authorized end of a run | machine, bundles, publications, authorizations | prepare, publish, apply, budget failure |
| `ContextLifecycle`, `BoundedExecution` | context envelopes as operators; `DurableBoundedExecutor.execute` on thread pools | budget snapshot, tokens, worker threads, results | admission, start, work, cancellation, grace, settlement, retry, replay, crash |
| `HandPotLedger` | the replay of betting actions and the oracle | the hand so far, the builder, the oracle | one betting action, the end of the list |
| `BridgeContracts`, `CodexBridge` | roles, artifacts, audits and successors as operators; prepare, confirm, execute over the shared registries | runs, registries, locks, each caller's place | one action per file published or claimed |
| `BridgeTransport` | one turn sent by the subscription or the API transport | parent, child, pipe, provider, attempt directory | prepare, spawn, write, events, caps, deadline, classification |
| `RiverReview` | the review workflow around a bridge run | plan, confirmation, linkage, receipts, bridge, clock | one action per file, the bridge's own commands |

The instances: `MCRevisionStore`, `MCDurableBudget`, `MCIsolatedJob` and
`MCTerminalStore` give one module its constants.  `MCProgress` composes
`RevisionLock`, `PreparationLease` and `BridgeTransport`; `MCLocalData` composes
`LocalDataCleanup`, `LegacyMigration` and `RootInitialization`; `MCConsent`
composes `CodexBridge`, `Approvals` and `RiverReview`; `MCWorkflow` composes
`Workflow` and `PhaseRevision`; `MCToolWork` composes `BoundedExecution` and
`HandPotLedger`.  The parts of such an instance do not share state: a variable
`flow` chooses in the initial state which of them a behaviour is about, so that
their state spaces add up and do not multiply.

Where components do interact, one model takes the other by what is shown of it:
`DurableBudget`'s publication is the append of `RevisionLog`, which
`RevisionStore` is proved to implement; `IsolatedJob`, `TerminalStore` and
`BoundedExecution` apply the operations of `BudgetState` in one step, because
`DurableBudget` is proved to be a log in which each operation takes effect at
most once; `Workflow` and `PhaseRevision` take a publication at its pointer.

Digests are modelled by the values they are digests of, byte formats by
identities, and time by readings from a small range.  A call of the file system
may raise before or after its effect (`MaxFaults`, `env.faults`), a process may
die between any two steps (`MaxCrashes`, `env.crashes`, restarts), a settlement
may be applied and reported as failed, an approval may lapse or be revoked at
any time, a thread may be interrupted (`MaxInterrupts`).

## 3. Runs

Bounds are constants of the cfg or members of an `Environment`, `Scenarios`,
`Cases`, `Setup` or `Reviews` set: the initial state chooses one, which says
what requests, failures and clock readings a behaviour can have.  One run so
covers scenarios whose product would be too large.

* `store`: two writers in two processes, two transactions of two bodies, two
  revisions, two claims, two faults and one crash, with a byte quota that the
  orphans of failed attempts can exhaust; or a reader without lock beside two
  publishers, one fault and one crash.  Two of each is what every race and
  every retry of this code needs: a loser, a winner and one leftover.
* `progress`: three threads of two processes race for one authority, two of
  them allowed to bootstrap the file, with two faults and a crash; or a worker
  prepares a suspended child while its caller is interrupted up to four times;
  or one turn of a role is sent by either transport, with up to four events of
  the child, its caps, its deadline, a crash and a second execution.
* `budget`: two processes and three workloads: everything that can end one
  permit; two permits that compete for the limits while the policy is tightened
  and one overruns; retries after a lost answer, a restart and a clock that
  steps back.
* `job`: two controllers on one request and one operator; failing calls with an
  operator who waits for the controllers, the same with runtime passing, and a
  recovery that races live controllers with stops unconfirmed anywhere.
* `terminal`: two processes, three transactions of two statuses, two revisions;
  one environment with a failing call and a crash anywhere, one with refusals of
  the caller's guards, a lock that other components hold, overruns of the
  reserved runtime and a crash.  Three transactions let a loser compete for each
  of the two revisions.
* `local_data`: two executors with two plans to quarantine and two to delete a
  run, with an error, a crash and a disturbance of the world anywhere; two
  migrations of two flat runs to one destination beside the writer of one; three
  calls that initialize or reconcile one root.
* `consent`: two callers of two bridge runs from five states of the store; eight
  cases of approval batches with up to three calls; nine stages of a review with
  up to three calls, on their own or beside the bridge's own commands.  A resume
  of historical V1 requests races every other call, as nothing in the code keeps
  them apart: `_publish_buffer` without `previous_read` takes whatever is current
  as its base (`orchestrator.py:1655`).  `NothingIsTakenBack` (through
  `SettledForGood`) therefore speaks of every step but such a publication over a
  revision the resume had not read.  The ghost `rebased` remembers that one
  happened, and from then on `ApprovalRecordsAreTrue` no longer asks that every
  acknowledged record be in the ledger (`OutcomesAreTrue`), and `AuthorityIsHeld`
  not that the revision checked before an execution be still the current one.
  Coherence of the ledger, authority at every commit and the failure audit hold
  without exception.
* `workflow`: two processes and seventeen kinds of case (every admission, every
  kind of approval and of versioned range, blocked, legacy and inexact ones), one tool round; two
  drivers and two bundles of a coordinated end.
* `tool_work`: two processes, two tasks, up to two retries, eight setups of
  pool, budget, runtime, cancellation and failure; three players, eleven hands,
  seven actions with sizes two and three and blinds one and two.
* `store_read_spurious`, `migration_interrupted`,
  `approvals_concurrent_legacy_resume` are expected to be violated (section 4).

`CHECK_DEADLOCK FALSE` is given where the calls of a run end and nothing is left
to do.

Fairness.  Only `progress` checks liveness: `EveryCallReturns`.  It assumes weak
fairness of each actor's own steps: of a thread inside a call of the lock, which
waits for nothing; of the calling thread and of the worker thread of a
preparation, both of which the interpreter schedules; of the parent of a turn
and of its thread that writes the request.  Interruptions, faults, crashes, the
child and the provider are not fair, and the first three are bounded in number.

## 4. Findings

Each violation run is a place where the code does not do what its documents or
comments say; `PROJECT.json` quotes both sides.

* `store_read_spurious`: with no fault at all, `read_current` reports a healthy
  run as corrupt when a publisher renames an entry it has listed.
* `migration_interrupted`: a migration that died after it had reserved its
  destination can never be repeated.
* `approvals_concurrent_legacy_resume`: of two resumes of a run with historical
  requests, the later takes back what the earlier rejected.  The same step can
  replace the V2 ledger that a reissue opened in between, and lose the record
  that was acknowledged to its caller.

Observations without a run of their own:

* Revision store and lock.  When the check of a run's names under the lock fails
  (`storage/revision_store.py:2931`), `publish` reports effect `none` and asks
  for no reconciliation before it has looked for its transaction, also when an
  earlier attempt left a staging or an unreferenced directory of it on the disk;
  `NamesRefused` is the one exception in `ReportsTruthful`.  On contention `acquire_authority` releases its
  registry keys twice (`storage/revision_lock.py:343`, `:361`), so that after an
  unconfirmed release another thread can drop the key, although the docstring of
  `LockReleaseError` says that registry keys remain held.  An inspection of a
  root looks twice without a lock and may answer "corrupt" or "incomplete"
  beside an initialization; a crash before the control directories are all made
  can never be completed.
* Durable budget.  An exact repetition that races another process may be
  answered `idempotency_conflict` (`budgets/durable_store.py:747`) although
  `docs/budget-execution-contract.md:131` promises the recorded result; a later
  repetition is answered correctly.  A settlement of an unknown effect without a
  failure category would publish a snapshot that every later load rejects
  (`:359`); no caller in the repository makes one, which is `CategoryAssumption`
  of the proof of `LedgerSound`.
* Isolated jobs.  A second interruption inside the cleanup of
  `_prepare_with_lease` leaves the suspended child alive
  (`isolated_jobs/windows_backend.py:656`); an unconfirmed stop
  (`coordinator.py:1166`) and a recovery beside a living controller (`:1298`)
  settle the permit of a child that may live, which is why
  `PermitOutlivesConfirmedWork` excepts both.
* Terminal store.  A publication that has moved `current.json` and whose
  confirming read fails is reported as `current_unchanged`
  (`storage/terminal_store.py:1737`), and so is one whose `os.replace` raised
  after its effect; `ReportsTruthful` says exactly which reports are excepted.
  A refusal of the verifier before staging leaves a started permit that is never
  given back (`:566`).  The comparisons of the pointer at admission and before
  the replacement are never the only protection: a number belongs to the
  transaction that reserved its ordinal (`NumbersAreOwn`), which is why an
  unreferenced revision never shares its number with a published one.
* Approvals.  A crash between the audit's event and its pointer makes every
  later failure audit refuse; a decision dated before an earlier mutation is
  found only when the successor is read, outside the handlers of
  `decide_approvals`; a staging failure makes every retry of that batch fail; an
  audit that is not confirmed is answered `approval_ledger_corrupt`, not
  `audit_unconfirmed` (`docs/approval-authority-contract.md:82`).
* Bridge and transports.  `confirm_role` during a launch makes the executor's
  final publication lose its comparison, and the admission stays open; a crash
  while a claim file is being written makes every read of every run fail; a turn
  that starts without a thread identity is classified as a state the audit
  refuses, and the error escapes with the admission open.
* River review.  A crash inside `prepare_product_bridge`, or while a linkage, a
  confirmation or a receipt is being written, makes every later status and
  resume fail, although `docs/bounded-river-review-workflow.md:31` says such an
  interruption can be resumed.
* Workflow.  Tool output bytes are charged twice; `run`'s handler may append
  `COMPLETED -> FAILED`, which is not in the table, after a storage failure; a
  confirmed run whose process died unpublished keeps its id for ever; a
  confirming read that fails after a publication makes the coordinator's
  repetition a conflict for ever (safe, and stuck).
* Bounded execution.  The replay of an overrun task disagrees with its first
  answer (`budgets/execution.py:597`); a retry runs on the caller's thread with a
  token nobody can set, so it is started after a cancellation and may never
  return; an exception of the store leaves later permits started and the pool
  running.
* Cleanup.  Between the quarantine's rename and its pointer the answers are
  always the conservative EFFECT_UNKNOWN: the branch for a moved source cannot
  be reached.
* Hand ledger.  No order of the players is enforced, a player may check and then
  bet on one street, and a player without chips may call 0; the oracle agrees,
  because it follows the same rules.

## 5. Proofs

Eight modules hold theorems; `PROJECT.json` lists them with the property each
one states.  All are proved for any number of threads, processes, transactions,
permits, requests, faults and crashes.

**Revision store.**  `RevisionStoreProofs` proves the type invariant and
`ChainCorrect`, `PublishedOnce`, `AckDurable`, `ClaimFinal` and the action
property `NoLostUpdate`.  None is inductive alone.  `SafeInv` says that only the
holder of the kernel lock is inside a critical section (`LockInv`), that a
transaction has one directory (`DirInv`), that the published revisions form a
chain whose last is `current`, distinct in number and transaction (`HistInv`),
that a writer past its admission still sees the pointer it was admitted on
(`PipeInv`), and what claims and acknowledgements point to.  The walk of
`_read_chain` is shown to collect exactly the history by a least counterexample
(`WalkIsHistory`).  The module's last part builds on it: `StoreIsALog` is the
refinement of `RevisionLog` (every step appends one entry, acknowledges one, or
stutters); `ReadsAreCurrent` adds what a reader without lock has seen
(a pointer of the history, at or after the one at its call); `ReportsAreTruthful`
ties what each step has reported to what is on the disk while the lease is held,
but for a refusal over the names of the run (section 4);
`QuotaHolds` bounds the bytes that a step may still add by those it has reserved.

**Lock, preparation and transport.**  `ProgressProofs` is about the three parts
of `MCProgress`.  For the lock it proves `LockIsExclusive`, `NoKeyLeaks`,
`SectionsDoNotOverlap` and `NeverTakenOver`: `LockInv` says for each stage of
`acquire_authority` which of registry key, open file and kernel lock the thread
has.  `LeaseInv` says of the preparation lease which steps of caller and worker
can coincide and in whose hands the child is then; with `LockInv` it gives
`NothingLeaks` (the property `NothingIsLeaked`) for any number of interrupts,
under the hypothesis `~InterruptedCleanup` that no interrupt falls into the
cleanup: the one that does leaks the child (section 4), and the run sets the
constant to FALSE as well.  `TurnInv` gives `TurnsAreAccountedAlways`
(`TurnsAreAccounted`) for streams of any length and any number of executions and
deaths of the parent.  The child's place tells whether it has transmitted
(`ChildHolds`); a child, and so a transmitted turn, needs the attempt directory,
which is made once (`SpawnHolds`); what was said on the pipe, read or not, is
true of the child that said it, and a turn is said only under a thread
(`PipeHolds`).  What the classifiers make of a stream is proved of every stream
(`SubscriptionAnswers`, `ApiAnswers`, from `ReadablePrefix` and
`CountedEvents`), so that the answer follows from what was said (`AnswerHolds`,
`AuditHolds`).

**Codex bridge.**  The last part of `ProgressProofs` proves `BridgeIsSerial`
(`ExecutionIsSerial`) and the action property `BridgeRunsGrow` (`RunsOnlyGrow`)
of `CodexBridge`, for any number of callers, runs and independent roles, whatever
crashes.  `BridgeInv` says of each caller what it may count on at its step
(`CallFits`): from the checks of a publication to its replay it has the lock of
the run (`Holds`) and its proposal succeeds the published revision; between the
replay of its admission and the launch it is the only one entitled to launch the
role (`Entitled`, `ClaimsDiffer`), its admission is published and neither the
published revision nor an orphan beyond it has the audit of the role
(`NoAuditYet`); a launch belongs to one caller at most.  An orphan adopted by
another caller is a proposal once made, so that it adds at most the audit of the
execution it was made for (`Proposes`).  One admission is open at most in a legal
revision, which gives the serial order across runs of any number of roles.

**Durable budget.**  `BudgetStateProofs` has the lemmas about the operators: what
an admitted operation changes and leaves (`ApplyEffect`, `ApplyRest`), that
recorded operations stay, that outcomes and latches are final.
`DurableBudgetProofs` proves `SettlementIsFinal`, `CancellationWins`,
`LatchIsFinal`, `RecordsHold`, `AnswersTrue` and the refinement
`OperationsAreALog`.  `BudgetInv` adds to the types that the published snapshot
is one an admitted operation can make (`SnapInv`) and that a prepared successor
is an admitted step from the snapshot of its generation, however many were
published since (`WorkInv`): a publication succeeds only if the generation is
unchanged, so each step of the published snapshot is an admitted one, whatever
the caller's cache said.  `LedgerSound` says that every
published history can be loaded, and that usage and all reservations stay within
the policy until a failure is latched.  It needs facts about sums over a finite set
of permits; as no induction over an operator is at hand, they are proved from
the recursive function by a smallest set for which they would fail.

**Isolated job.**  `IsolatedJobProofs` proves `EffectsRecorded`,
`TerminalsBacked`, `PermitsOutlive` and the action property `EffectsAdmitted`
from `JobInv`.  It relates the job's status, the permit, the settlement, the
children and each process's place: what a controller at a step may assume of both
stores although other controllers and operators move them, which of them can be
at the same time in the launch, and what a recovered state remembers of the
launch.

**Terminal store.**  `TerminalStoreProofs` proves `PublicationsHold`, `DoubtHolds`
and `ReportsAreTrue` from `StoreInv`, which has a part for each root and one for
each process.  `BudgetHolds`: a number is reserved by one transaction and for one
body (`OriginsHold`, from `AdmitLineage`: `NumbersAreOwn`), and a permit that was
closed was settled with the pointer of that reservation (`SettlementsHold`).
`FilesHold`: numbers of directories are unique and gapless up to the pointer, and
every directory is based on the directory before it and was started in the
budget.  `ProcInv`: where the process stands, what it knows of both roots there,
and that its flags are true.  `Grows` and `FilesGrow` are what no step of another
process takes back, so that a process's knowledge survives them (`OtherKeeps`).
That a new directory cannot share a number is then a consequence of both roots
(`NumberIsRevision`), and the walk of `read_current` is the set of directories up
to the pointer (`WalkIsChain`).

**Workflow.**  `WorkflowProofs` proves, for any set of processes, threads, bundles
and cases, `RunIsOrderly`, `ProductIsTrue` and the action property
`FailureIsFinal` of the orchestrator, and `CompletionIsDurable` of its phase
revisions.  `RunsInv` says of each process either what a run that was answered
leaves behind (`Left`) or, while it works, what every run keeps (`Live`: its
events are a path of the table of transitions that ends in its state, one worker
is alive at most, and a refusal of the durable budget has its evidence) and what
holds at its place (`Placed`: the states the machine can be in there, what has
been judged, what the report and the buffered product repeat, and which tool
results are vouched for).  Across processes it says that one at most has started
the run, that there is no product before that one stands behind the store, and
that the product is what it buffered.  Each transition of the machine is shown to
append one legal event (`AppendedPath`), whatever error raised it.  `Carried`
states of a step that it keeps `RunsInv` and forgets no failure, which gives
`FailureIsFinal` from the same case split.  `RevisionInv` gives
`CompletionIsDurable`: an authorization names the bundle the store has as its
head, and a machine is completed by the one bundle that was applied to it.

**Local data.**  `LocalDataProofs` proves the four properties of `local_data`, for
any number of callers, plans, artifacts and entries.  `RootInv` gives
`RootNeverIsCorrupt`: an owned root is whole and has no temporary entry, the
temporary entries of one without an owner carry one identity (`RootShape`), and
each place under the authority lock has its own picture of the disk (`UnderWay`).
`MigrationInv` gives `CopyIsGenuine`: versions only grow, so that a snapshot taken
file by file either is a content the run has had at one instant, or some artifact
has left the version in it behind for good (`LeftBehind`); the second reading then
finds that one changed (`SourceHolds`).  `CleanupInv` gives
`PayloadStaysSafe`.  The disk is always in one of the shapes a quarantine and a
deletion lead through, from `Untouched` to `Deleted` (`DiskShape`); the step that
is due under the lock tells which (`Place`), and only who has the lock
changes it, while time passes and plans are made beside it (`DiskKept`); a call
knows which marks it has left (`Knows`).  A shape in which the tombstone has a day
records that the retention had expired on that day (`Lawful`), and one without the
tree in quarantine that the review of the plan that took it was over
(`Reviewed`).  A failure takes its journal back to an earlier shape
(`RollbackShape`) or answers what the marks allow (`FailureAnswers`), and an answer
once honest stays so, as revisions are never taken off the record.  The three
invariants together give `LocalAnswersStayTrue`.

The assumptions on the constants are named in the modules that declare them and
evaluated by TLC on every run: the fields that requests of a kind carry
(`RequestAssumption`, `BudgetRequestAssumption`), that `Null` is not a value
(`RecordAssumption` and others), that sizes, runtimes and limits are naturals and
a run has one slot (`TerminalAssumption`, `StateAssumption`), that a settlement
of an unknown effect names its category (`CategoryAssumption`, observed of every
caller), that `None` is no bundle (`BundleAssumption`), and that a case asks for
tools the registry knows, a bounded river case for the exact combinations alone
(`ScenarioAssumption`), that no caller is named like the absence of one, an
artifact is either replaced or appended to and the run that is written is one of
the flat runs (`LocalDataAssumption`), that the runs of a bridge's store have executed a
prefix of the roles (`BridgeConstants`), and that a plan quarantines or deletes,
a tree has an entry and days are finitely many naturals (`CleanupAssumption`).

Model-checked only:

* liveness (`EveryCallReturns`): fairness and ENABLED are out of the prover's
  reach;
* `RecoveryIsComplete` of the job: two operators who recover at the same time can
  each find the other's half-done work, so that it holds for one operator, as
  the runs have it, and is not an invariant for any number of them;
* `ReadNeverFailsSpuriously`, `InterruptedMigrationsCanBeRepeated`,
  `RejectionsStay`: false, see section 4;
* the properties of `consent` but `ExecutionIsSerial`, and those of `tool_work`:
  not proved (section 7).  What is computed by recursion over the data (the pots of a hand,
  the chain of approval records) can only be checked on bounded inputs: the
  library's induction theorems take an operator as a parameter, which none of
  the installed provers can instantiate.

## 6. Not modelled

Byte formats and their canonical form, file permissions and reparse points,
floating-point poker arithmetic, text rules of the natural-language intake,
reports, provider adapters, the security scan and the command line: they keep no
state that two steps share.  Their outcomes are inputs of the models.
`PROJECT.json` gives the reason for every part.

## 7. Plan

1. Proofs that need no induction over data, in this order: the exclusive
   identities of `CodexBridge` (`RegistriesAreTrue`), on top of `BridgeInv`;
   `WorkIsCovered` and `RecordsAreTrue` of `BoundedExecution`, whose budget steps
   are those of `BudgetStateProofs`.
2. The read-only listings of the revision store and the bounded river admission
   stores, which are not modelled.
