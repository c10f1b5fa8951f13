# Game-Localizer in TLA+

A verification project kept beside the code of Game-Localizer (`src/src/localizer`). It holds TLA+
modules translated from the source, TLC configurations that check them on small instances, and
theorems about them checked by TLAPS.

## The system

A *project* is a set of text resources of a game. A *run* reads the source resources, reuses what the
*translation memory* (TM) holds, asks a model for the rest, checks the results, writes an artifact and,
when the run is a release, promotes its translations to *formal* ones. People correct translations in the
review panel of a local dashboard or through ParaTranz; the older flat `database.json` can be
synchronised in until SQLite is declared the authority.

| component | state | operations | interacts with |
|---|---|---|---|
| translation memory store (`adapters/storage/sqlite_tm.py`) | `tm_entries`, `tm_source_history`, `tm_authority`, `tm_migration_history` | lookup, guarded upsert, human write, promote, retire, replace shadow, switch authority, restore | every other writer |
| run pipeline (`application/project_runner.py`, `local_build.py`, `quality_gate.py`) | the run directory: `state.json`, checkpoint, pending/candidate/artifact trees | plan, translate, QA, stage, gate, build, promote, rebuild from an earlier run | TM, batch orchestrator, artifact builder |
| translation planner (`translation_plan.py`) | none | group the units, resolve them from TM, seeds and rules | TM |
| batch orchestrator (`batch_orchestrator.py`) | attempt counters, checkpoint | batches, retries, splits, budget, recovery of a checkpoint | provider, checkpoint |
| task service (`web/tasks.py`) | task table, kept preflights, `task-request.json`, `owner.lock` | preflight, submit, claim, resume, confirm, publish, release | run pipeline, review service |
| review service (`web/review*.py`, `application/review_log.py`) | the append-only review log, the TM rows of the panel | draft, validate, commit, revert, recover | TM, task service |
| ParaTranz synchronisation (`paratranz_sync.py`) | none | export, merge by stage | TM |
| legacy migration (`migrations/legacy_tm.py`, `compat/legacy.py`) | `database.json` and its provenance sidecar | sync, export, authority report | TM |
| seed and accepted-artifact imports | none | check and apply through the human write | TM |
| glossary (`adapters/storage/glossary.py`) | terms and decisions | import, propose, accept, conflict | planner, prompt |
| artifact builder (`artifact.py`, `atomic_io.py`) | staging and final directory, manifest | build, verify, replace | run pipeline, publishers |
| publishers (`publish.py`, `adapters/publishers/*`) | remote objects | upload, pointer update | artifact |
| run lineage and evidence (`project_runner.py`, `translation_evidence.py`) | `run-lineage.json`, `translation-evidence.json` | rebuild from a run, inherit evidence | checkpoints of other runs |
| quality gate (`quality_gate.py`) | the baseline of accepted debt | evaluate, accept debt | run pipeline |
| resource adapters, rules, configuration, provider client, CLI, dashboard views | - | parse, write, match, route | - |

### What is hard here

- **Several writers.** The dashboard runs one task at a time and refuses human writes while it runs; a CLI
  command of another process is not held by that. Several operations read the store, leave the
  connection, and write in another transaction.
- **Silent refusal.** The one guarded upsert does nothing for a row it refuses. Each caller must notice
  by reading back.
- **Two authorities.** A release establishes an artifact on disk and a formal baseline in SQLite; the
  review panel writes the TM and an append-only log. There is no transaction over the two.
- **History.** A coordinate whose source changes and changes back must find its translation again.
- **Long runs.** A run survives crashes by a checkpoint, may be resumed, and must keep its
  budget and retry limits.

### What makes each component correct

- **Store**: a human or locked result is never replaced by a machine one, a translation formal for a source stays
  reachable for that source, a refusal is always noticed, a release is promoted whole or not at all.
- **Run pipeline and planner**: what a run ships is what it planned, staged and validated; its manifest,
  artifact and formal rows agree.
- **Batch orchestrator**: no unit is lost, none is paid for twice, requests stay in the budget, and what is
  resumed translates the current source.
- **Task service**: one process runs a run, a stopped run can be resumed and a completed one cannot, every
  submission is answered, and the API shows nothing that is not on disk.
- **Review service**: the rows are what the log replays to, a revert and a compensation take back their own
  writes only.
- **ParaTranz, legacy, imports**: a synchronisation never downgrades a protected row.
- **Artifact builder and publishers**: a directory is the old or the new artifact, never a mixture; a pointer
  names only objects that are uploaded.
- **Glossary**: an accepted term is changed by a decision only.

## The modules

| module | models | composed with |
|---|---|---|
| `TMStore` | rows, lookup, and what each SQL statement does to the tables | - |
| `TranslationMemory` | the store under concurrent runs, panel writes, retirements and synchronisations | `TMStore` |
| `TMAuthority` | the way from the old JSON file to SQLite: synchronise, export, seed, adopt, switch | `TMStore` |
| `ReviewMutation` | the panel's mutations over store, log and ledger | `TMStore` |
| `RunOwnership` | who runs a run: claims, takeover, resume, crash | - |
| `DashboardTasks` | one dashboard: requests, worker, maintenance lock, environment, other programs | - |
| `TranslationRun` | the translation phase: threads, batches, retries, splits, budget, checkpoint | - |
| `RunLineage` | generations of runs: rebuild, reuse of checkpoints, evidence | - |
| `Release` | what a release promises: bundles become complete, pointers name complete bundles for ever | - |
| `ReleasePipeline` | build, gate, artifact, and publication with its retries | implements `Release` |
| `MC...` | instances for TLC | the module of that name |
| `...Proofs` | theorems | the module of that name |

Definitions marked "One slip" or "Mutant" are faulty variants of the definition after them. No action uses them;
they are substituted for that definition to see that a property notices the fault.

### `TMStore`

`tm_entries` is a function from a stable identity to a row or `NoRow`; `tm_source_history` a function from
identity and source fingerprint. A row keeps the columns that decide a guard, a lookup or a promotion:
fingerprint, translation, origin, review state, quality state, run, `is_formal` and `human_authored`.
`Usable`, `LookupHistory` and `Lookup` are `lookup` as the planner calls it; `StaleFormal` is
`stale_formal_identities`; `Gate` is the `WHERE` of the one upsert statement; `Upserted`, `Archived`,
`Deleted`, `ShadowReplaced`, `Promoted` and `Promotable` are the effects of the write statements. The row
constructors (`MachineRow`, `HumanRow`, `LegacyRow`, `RemoteRow`) are the only shapes the repository's
writers produce, so the inputs of the actions are states the program can be in. `RemoteRow` takes the review state of
a ParaTranz stage; `RemoteReviews` are the states the stages map to.

### `TranslationMemory`

One action per transaction. What a caller reads outside of its transaction is an action of its own, so
that other writers come in between exactly where the code lets them:

| actions | code |
|---|---|
| `Plan` | planner lookup at the start of `ProjectRunner.run` |
| `StageRead`, `StageWrite`, `StageReport` | `upsert_many`: before-image, transaction, read-back; `StaleFormalEntryError` on a rejection |
| `StopAtGate` | a preview, or a release blocked by the quality gate |
| `Kill` | the process of a run ends between any two of its steps, also between artifact and promotion |
| `Validate`, `BuildArtifact`, `PromoteRead`, `PromoteWrite` | `LocalBuildPipeline.build` from `validate_promotable_run` to `promote_run` |
| `HumanRead`, `HumanWrite` | `apply_human_review` |
| `RetireHuman` | `retire_human_entries` |
| `Preflight`, `RetireStale` | the stale-formal preflight and `retire_stale_formal_entries` |
| `ReplaceShadow`, `RestoreProtected` | `LegacyTMSynchronizer.sync` |

`SingleProcess` tells the two deployments apart. When TRUE every writer is the dashboard: a human write, a
retirement and a synchronisation are refused while a task is active (`Quiet`). When FALSE a CLI
command (`tm-seed`, an accepted artifact, a synchronisation, a run) may start at any point. `Authoritative`
stands for the authority switch, whose own protocol is in `TMAuthority`. `LegacyImports` and `SidecarImports` are the
kinds of rows a synchronisation may bring: clean or quarantined legacy rows for the shadow, and human, locked,
questionable or formal model rows from a sidecar.

### `RunOwnership`

`web/tasks.py` over one run directory. `lock` is `owner.lock` with its creator (process and start time) and
whether its payload has been written; `snap` is `task-request.json`; `mem` the task table of each process;
`call` the request a process is handling and `worker` its single executor thread. Every file operation is an
action, because another process may come in between:

| actions | code |
|---|---|
| `Submit` | `_submit` up to the first file access; a release, and a rebuild, need a new directory |
| `ReadSnapshot`, `IsLive`, `HasCheckpoint` | `_validate_resume` and `_is_live`: the status of the snapshot, the liveness of its owner, the checkpoint, then the mode the run had |
| `Claim`, `Inspect`, `TakeOver`, `Create`, `WritePayload` | `_claim_run`: `O_EXCL`, read the owner, unlink, `O_EXCL`, payload |
| `Enqueue` | the snapshot, the task table and the executor, or the undoing of all three |
| `Start`, `Checkpoint`, `End`, `WriteFinal`, `Show`, `Release` | `_run` on the worker thread |
| `Crash` | the process is killed and started again |

`LockFree` stands for `TaskService._lock`, which a request holds from the resume check to the claim; it is not
reentrant, so `IsLive` blocks for ever when it needs it again.

### `ReviewMutation`

One mutation of a dashboard is a record in `op`, and each step between two of the three stores is an action:
the coordinator's image (`Begin`), the service's before-image (`ReadBefore`), the write transaction (`Write`), the
after-image (`ReadAfter`), the revision check and the log (`CheckRevision`, `AppendLog`, `FailAppend`), the ledger
(`SaveLedger`), the compensation (`ReadUndo`, `Restore`), the safe revert (`BeginRevert`, `Revert`) and the marks
that touch no row (`BeginMark`). `CliWrite` is a row that a provenance sidecar restores; `CliWriters` says when the CLI
may write one: never, between mutations, or at any step. Only the first and the last are what a deployment can
give, for no lock is held across processes. `FailIn` and `MayCrash` allow one failed append or one kill. `base`, the rows before the
first decision, is what `Replayed` starts from.

### `TranslationRun`

`ProjectRunner.run` from the plan to the collection of the results, with `BatchOrchestrator` and
`JsonCheckpoint`. `mem` and `disk` are the checkpoint in memory and on disk; a source text is its version and a
translation the version it translates, so "translates the current source" is an equation.

| actions | code |
|---|---|
| `Execute` | the plan, `configure_run` with `_invalidate_stale_units` and its flush, the queue; the first time, after a kill, after a failure, after a later stage has failed |
| `TakeFile`, `CompleteFile`, `FailResource` | `run` of one file: `start_resource`, `complete_resource`, `fail_resource` |
| `NextBatch`, `TooLarge` | the planned batches, and a unit that fits in none |
| `Send`, `Transient`, `Permanent`, `Malformed`, `Parsed`, `Break` | `_process`: one call of the provider and its outcomes |
| `Accept`, `Close` | the results, unit by unit, and the end of a batch |
| `Collect`, `Kill` | `finalize` after all threads have ended; the process is killed |

`stack` holds the batches that recursion would still process: the halves of a split and the content retry.
`RecordOr` is what every step does to the checkpoint: a flush writes, falls into the merge interval, or fails; the
failure that reaches `Threshold` ends the thread. The parsing of answers, the token estimates and the log of batch
events are left out. The order of the units in a file decides nothing here, so a batch is a set.

### `TMAuthority`

Every command (`tm-sync-legacy`, `tm-export-legacy`, the seeds, `tm-adopt-artifact`, `tm-verify-artifact`,
`tm-switch-authority`, a ParaTranz pull, the old program behind its facade) over the database, the JSON files and
their sidecars. A command is split where it leaves a transaction or goes from one file to another: `SyncRead`,
`SyncCheck`, `SyncShadow`, `SyncRestore`, `SyncRecord`; `Export`, `ExportSidecar`; `AdoptCheck`, `AdoptWrite`,
`AdoptReport`; `Switch`, `SwitchCommit`; `LegacyStart`, `LegacySave`. A digest is the content it is taken of.
`PullRemote` is external: only the row it writes is in `src/`, and `Remote` says which review states it may have.
`attested` is a history variable: the texts a human vouched for that the store admitted. `Overlap` says whether two commands may run at once.

### `RunLineage`

A source text and a translation are the number of the version they are of. `Begin` is `rebuild_from_run` (or an
ordinary run) with the nearest checkpoint `Resolved` through the task requests; `Configure`, `Seed`, `Ask`,
`Finalize`, `SaveEvidence` and `Build` are the stages of `ProjectRunner.run` that touch the checkpoint, the lineage or
the evidence; `Stop` kills it between any two, also while the reused translations are being recorded. `by` of a
checkpoint names the run whose request paid for a translation, which the code does not keep: it is what the
evidence is compared with. `Again` says how a run identifier is executed again, `OldRuns` which runs come from
versions that wrote neither file.

### `ReleasePipeline` and `Release`

| actions | code |
|---|---|
| `CheckRun`, `Translate`, `Inspect`, `Report` | `ProjectRunner.run` and `LocalBuildPipeline.build` up to the quality gate; the report is written whatever it says |
| `Render`, `Archive`, `Metadata`, `Manifest`, `Promote` | `ArtifactBuilder.build_release`, one file per action, the manifest last |
| `Abandon`, `AcceptDebt` | a kill or an exception; `qa-accept-debt` |
| `Load`, `Open`, `Close` | the publish commands, and `verified_payloads` per target |
| `Head`, `Upload`, `Compare` | one object: look, put, download and compare |
| `UploadLost`, `TargetFailed`, `KillPublish` | an upload whose answer is lost; a target that fails; a kill |

`Release` has two variables: the complete bundles, and what each target's pointer names. The refinement maps
`complete` to the manifests whose digests fit the files beside them, and `live` to the pointer objects. Every file write
is a stutter but the one that makes a manifest fit; every upload is but the one that creates a pointer.

### `DashboardTasks`

A request goes through `pc`; each step is what an HTTP thread does between two moments at which another thread can
come in: `PreflightStart`, `PreflightPlan`, `PreflightKeep` (`preflight`); `Submit`, `SubmitRebuild`,
`PublishStart`, `PublishQueue`; `ConfirmPreflight` and `ConfirmRun`, `ConfirmPlan`, `ConfirmRetire`, `ConfirmEnd` or
`AuditLost` (`confirm_stale`); `ReviewStart`, `ReviewLook`, `ReviewCommit`, `Exclude`. `Take`, `TaskPlan`, `TaskWork`,
`PublishWork` and `TaskSave` are the worker; `TaskLost` is a final snapshot that cannot be written. `OtherProgram`
changes the source, the formal row or the glossary. The memory is one formal row with a token per write, which is what
`old_row_token` tells apart. `bundles` are the runs a publish accepts: those whose release directory has a manifest
that verifies. A request that `hangs` keeps `TaskService._lock`, so that the worker of that variant waits too. `env` is the one environment variable a dotenv file sets.

## The runs

| run | question | bounds |
|---|---|---|
| `tm_dashboard` | the dashboard as the only writer: are refusals reported, is history exact, is the release baseline continuous, are human and formal translations kept, are retirements as approved | 1 coordinate, 2 fingerprints, 2 texts, 2 runs |
| `own_shared` | two dashboards, no crash: one runner, and the API behind the disk | 2 processes, 3 tasks, 1 failed write |
| `own_restart` | one dashboard killed once at any step: submissions are answered, tasks end | 1 process, 3 tasks, 1 crash |
| `own_deadlock` | a resume that waits for its own lock (violation) | 1 process, 1 failed write |
| `rev_single` | one dashboard, one failed append or kill at any step: the rows are ahead of the log by the failure at most, the ledger behind it by one entry, expected revisions are honoured, a compensation spares what is logged | 2 coordinates, 2 texts, 2 entries, 1 failure |
| `rev_writers` | one dashboard and a CLI that writes between any two steps: what a unify or a revert tested is not lost | 1 coordinate, 2 texts, 1 entry |
| `bat_run` | two threads, two faults: no unit is lost, a kill loses the open batches only, nothing recorded is paid for again | 2 files, 3 units, 2 requests per thread |
| `bat_resume` | source texts that change between executions: exact rebuilds, termination | 1 thread, 3 units, 2 versions, 1 fault |
| `rel_pipeline` | builds, kills and publications to two targets implement `Release`; receipts stay true; retries complete | 2 runs, 2 versions, 2 contents, 2 targets, 1 fault |
| `auth_import` | every sequence of commands of the migration with one kill: marks are earned, protection and authority hold, the round trip protects | 2 coordinates, 2 texts, 6 commands, 1 kill |
| `lin_rebuild` | three generations with edits, retries and one kill: nothing stale is handed down, evidence is complete, nothing is paid for twice | 3 runs (1 old), 2 units, 2 versions |
| `dash_tasks` | three requests of every kind, the worker, another program and a failed write: no request disturbs a run, one publish, confirmations as shown, requests and tasks end | 3 requests, 2 directories |

Two fingerprints are enough for a source to change and change back; two runs for one to find what an
earlier one left; two coordinates for a batch of which one member fails and for two legacy texts that conflict. The
statements treat coordinates independently of each other, except for the all-or-nothing checks. Three tasks let two
processes submit, resume and submit once more; three requests are a preflight, a run and its confirmation, or a
release and two publishes. Two log entries make a decision and its revert. One is enough for
`rev_writers`: the revert is at its write when the log holds the decision alone, and a unify needs no entry
before it (the theorems are for any log). A file of two units splits, a batch of one
cannot; the second file gives the other thread its work. Two requests let a budget end inside a split or a retry. Two
versions and two contents are enough for two builds to collide on an object name with other bytes. Three runs are a
parent, a child, and a grandchild or a retry. Six commands are what it takes to reach the switch (synchronise, adopt,
verify, switch) with two others anywhere in between. The threads and the units of the first file are
interchangeable, as are the coordinates of `rev_single`, the units of `lin_rebuild` and the values of `rel_pipeline`:
symmetry is used in runs without liveness only (`RetrySucceeds` and `ImplementsRelease` are safety properties).

`own_restart` allows one crash: a second one, between the unlink and the creation of a takeover, leaves an
interrupted run without a lock file, from which the next resume reaches the deadlock of `own_deadlock`. In `dash_tasks`
that deadlock is the request that `hangs`; its liveness properties say "or a fault happened".
The imports of `tm_dashboard` are all that a synchronisation can bring; `HumanHistoryKept` is not among its
properties, because a quarantined legacy row violates it (`tm_history`). `bat_resume` starts from fresh checkpoints: with
`Legacy` its currency properties fail. `rel_pipeline` has one builder and one publisher at a time (`SharedRuns`,
`SharedTargets`); `auth_import` one command at a time (`Overlap`): the configurations below show what fails otherwise.

Each run lists what is specific to it. The type invariants of all modules were checked while the modules were written;
all of them are proved now (`TypeCorrect` of each module of proofs).

Deadlock is not checked (`CHECK_DEADLOCK FALSE`) where a system comes to rest by using up its bounds.

**Fairness.** Safety runs assume none: a process may stop at any step. `own_restart` assumes that the threads of a live
process are scheduled (weak fairness of every step of a request and of the writes of the worker), and that the worker,
which competes with requests for `TaskService._lock`, gets it in the end (strong fairness of `Start`, `End` and
`Show`); a run of the pipeline ends. `bat_resume` assumes that a thread that can go on does and that each request is
answered or times out, which the provider client's timeout gives. `dash_tasks` assumes that the worker goes on and that
some request that can be served is (weak fairness of `Work` and of the disjunction of `Serve`); nobody need send a
request. Kills, faults, other programs and resumes are not fair.

### Further configurations

These end in a known violation and keep disagreements found while modelling:

| configuration | property | what happens |
|---|---|---|
| `tm_race_release` | `ReleaseContinuity` | a CLI write between the artifact and its promotion leaves an artifact without its baseline |
| `tm_race_remote` | `RemoteKept` | a locked remote row written between the guard and the transaction of `apply_human_review` is overwritten |
| `tm_sync` | `SyncKeepsProtected` | a synchronisation with a provenance sidecar replaces a newer human row |
| `tm_history` | `HumanHistoryKept` | a quarantined legacy row hides a human translation of the history, and the machine result replaces it there |
| `own_takeover` | `OneRunner` | two dashboards take over a dead owner's claim: the second unlinks the first one's fresh lock |
| `own_atomic` | `ResumedAfterStop` | a second dashboard claims a run between its completion and its own earlier check |
| `own_restart` with `MaxCrashes = 2` | `SubmitAnswered` | the resume after a kill inside of a takeover waits for its own lock |
| `tm_dashboard` with `SingleProcess = FALSE` | `RefusalsReported` | a CLI row that comes between the before-image of `upsert_many` and its transaction |
| `rev_comp` | `Projection` | a revert whose compensation is refused |
| `rev_after` | `AfterIsWritten` | a CLI write before the after-image is read is logged as the decision's outcome |
| `rev_stale` | `RevertIsAtomic`, `UnifyIsAtomic` | a CLI human row written after the freshness test, or after the divergence guard, is discarded by the revert or the unify |
| `bat_rebuild` | `RebuildIsExact` | a resume that vouches for translations of unknown sources |
| `bat_splits` | `SplitsOnlyDecrease` | a split for another reason than a timeout starts with a new allowance, which the docstring of `_process` says only decreases |
| `rel_race` | `ReceiptHolds` | two publish commands look, find nothing and upload both: the first one's receipt is false |
| `rel_rerun` | `ImplementsRelease` | two builds of one run identifier pass the check before either has written: a complete bundle is overwritten |
| `auth_crash` | `SkippedIsCurrent` | a synchronisation killed after its first transaction, and the earlier file put back: it is skipped as done |
| `auth_overlap` | `AuthorityHolds` | a synchronisation that asked for the authority before the switch rebuilds the shadow after it |
| `lin_resume` | `EvidenceComplete` | a rebuild that is resumed as an ordinary run inherits no evidence |
| `dash_confirm` | `ConfirmedRunResumes` | a confirmed release retires its rows and is refused the resume |
| `dash_env` | `TaskEnvironment` | a preflight puts back the environment under a running task |
| `dash_glossary` | `ExclusionsKept` | a review service writes the glossary from the copy it read once |
| `dash_stuck` | `AlwaysIdleAgain` | the final snapshot cannot be written and the dashboard stays busy |

## The proofs

`TranslationMemoryProofs` proves for any sets of coordinates, fingerprints, translations and runs, and for
both deployments: `TypeCorrect`, `HistoryAndFormal` (`HistoryExact` and `FormalPassed`), `HumanIsKept` and
`FormalIsKept`. The inductive invariant conjoins the type invariant, the two safety properties and
four facts: every row of a run is `passed` (`RunRowsPassed`), a batch that is staged consists of machine
rows of that run (`StagedShape`), a pending panel write consists of human rows (`PanelShape`), and a legacy
row is never marked human (`LegacyNotHuman`). `FormalPassed` is not inductive without them: promotion
validates in one transaction and updates in another, and what saves it is that no writer ever puts a
row that is not `passed` under a run's identifier. `RetiresAsApproved` (`RetiredAsApproved`) holds for both deployments
too. With one dashboard (`SingleProcess`) it proves `RefusalsAreReported` (`RefusalsReported`), `ReleasesContinue`
(`ReleaseContinuity`) and `RemoteIsKept` (`RemoteKept`). Each of them is about rows that were read in one transaction
and matter in a later one, so the invariant (`Disciplined`) says what is still so then: at most one run is active
(`SoleTask`), every entry a run has staged without a report is in the table (`Staging`), and the rows a human
write looked at are the rows it will replace (`PanelGuard`). `tm_race_release` and `tm_race_remote` show what a second
process does to the last two.

`TranslationRunProofs` proves for any files, units, threads and bounds: `TypeCorrect`, `Written`
(`CleanIsWritten`) and, when no checkpoint was begun without fingerprints, `Currency` (`TranslatesCurrent` and
`RebuildIsExact`). The argument is one lemma, `WorkerStepRecords`: every step of a thread records a checkpoint that
differs from the one before in units of this execution only. It needs the typed invariant `Shape`, in which
the sets a thread carries are sets of units of this execution, and not merely of units. `Currency` is inductive
with one fact more (`Faithful`): the fingerprints in memory are those of the sources this execution planned, so a
success that is recorded is recorded under the fingerprint it belongs to.

It also proves that nothing is lost and nothing paid for again: `NothingDropped` (`EveryUnitHasResult`), `BoundedLoss`
(`LossIsBounded`) and, again without `Legacy`, `NeverPaidTwice` (`PaidOnce`). What they have in common is how the units of
an execution are dealt out (`Dealing`): each has a result, waits in a file of the queue, or is in the hands of exactly
one thread, in its batch, on its stack or in the rest of its file. The steps of a batch move units between these places,
and a unit that leaves them has been recorded. `PaidOnce` compares with the file on disk as well, which may be behind the
memory but never disagrees with it on a unit (`Behind`). The proofs use that there is a thread (`SomeWorkers`), and that
every unit is in a file.

`Bounded` (`SentWithinBudget`) says that the calls of a thread stay within `max_requests`, for any bounds and any answers.
A call is made before it is counted, so the invariant (`Within`) allows one that is on its way, and says that a thread
in any other state, unless it has stopped, has counted all it sent.

`DashboardTasksProofs` proves for any numbers of requests, directories, preflights, faults and writes of other
programs: `TypeCorrect`, `PublishedOnce` (`OnePublish`), `Undisturbed` (`RunsUndisturbed`) and `RetiredOnlyAsShown`
(`RetiredAsShown`). The invariant says who holds the maintenance lock: a request between two steps that will write
holds it, and no task is queued or running then (`HoldsLock`, `NothingRuns`), because a task enters the queue only from
a request that could take the lock. It is inductive with what the queue, the worker and the kept preflights refer to.
The steps are first sorted into three kinds (a request arrives, one is served, nobody is), so that each conjunct is
proved per kind and not per action.

`RunLineageProofs` proves for any runs, units, versions, kills and repetitions: `TypeCorrect`,
`RebuildsShipCurrent` (`ShipsCurrent`) and `PaysOnce` (`NothingPaidTwice`). The strengthening for the first is one fact
about checkpoints, `Truthful`: a translation is of the version its fingerprint records. Comparing the fingerprint is then
as good as comparing the translation, however many runs handed it on. The second needs the converse (`Kept`): what a run
has put into a build is in its checkpoint as long as the text is the same, although the run may be executed again,
under another plan, or killed while it records what it reuses. A child that sees its parent's build therefore finds it in
the parent's own checkpoint, which comes before that of any other ancestor.

`EvidenceIsComplete` (`EvidenceComplete`) is proved when one run executes at a time (`MaxParallel = 1`), none is cut off
(`MaxKills = 0`), and a run is executed again from its own parent only, until it has evidence (`Again` at most
`"retry"`). The invariant (`Alone`) says that a run that is not executing names, in its evidence or, for an old run, in
its checkpoint, every run that was paid for something in that checkpoint; `inherited_for_rebuild` then finds each payer,
whichever of its three sources it takes (`InheritsPayers`). After a kill a checkpoint may be without evidence, and the
payers are found along the chain of ancestors, which is a recursive definition; so `lin_rebuild` checks the case of one
kill. The conditions are needed: with `"repeat"`, with `"resume"` (`lin_resume`), and with two runs at once TLC finds a
violation, and with two kills as well. There a rebuild r2 of r1 is killed before it has written its lineage, r3 is rebuilt
from r2 and killed after its checkpoint, and r2 is then rebuilt from r3: the two lineages name each other and r1 is lost.

`RunOwnershipProofs` proves for any numbers of dashboards, tasks, kills and failed writes `TypeCorrect`, and, when no
process is killed, `Exclusion` (`OneRunner`), `Claimed` (`RunnerHoldsLock`) and `DiskFirst` (`DiskBeforeApi`). The
invariant says who holds `owner.lock`: a process does from the creation of the file to its release, whether its request
or its thread is at work (`OneClaim`), and no process is about to unlink the claim of another (`NoneTaken`), because
every owner is alive. The assumption is needed: `own_takeover` shows two runners after one kill.

`ReleasePipelineProofs` proves for any numbers of runs, versions, contents, debt keys, targets, builders, publishers and
faults, when builds of one run id do not overlap and publish commands do not either (`Exclusive`): `TypeCorrect`,
`PointersComplete` (`PointerComplete`), `ReceiptsHold` (`ReceiptHolds`), `PublishedClean` (`PublishedWasClean`),
`RetriesSucceed` (`RetrySucceeds`) and `Implements`, the refinement of `Release`. The invariant has two halves. `BuildInv`
says how far the files of a run are: the manifest is the last one, no build of that run follows it, and so what it
describes is final (`GoodFiles`). `PublishInv` says what an object holds once a publish has passed it (`GoodPublish`), and
every step only adds objects (`Grown`). Each step of a build is shown to be a `BuilderStep` and each step of a publish a
`PublisherStep`, and the two halves are proved of those. `Exclusive` is needed: `rel_race` and `rel_rerun` show what happens
without it.

`TMAuthorityProofs` proves for any coordinates, texts, files, commands that overlap or not, kills and hand edits `Earned`
(`MarksAreEarned`) and `Kept` (`ProtectionKept`), and, when commands do not overlap, `OneWay` (`AuthorityHolds`) and
`RoundTrips` (`RoundTrip`). A mark that leaves the database in a sidecar must be the mark of the text beside it when it
returns, so the invariant follows the marks through the sidecar and through a synchronisation that is on its way
(`GoodSidecar`, `GoodState`): each is of the text of its export, and the comparison of digests lets no other file have it.
What the two others need is that between the steps of a command only kills and hand edits happen (`AloneInv`);
`auth_overlap` shows what a second command can do there. `TypeCorrect` is proved for any commands and any finite number of
coordinates (`FinitelyManyIds`). `SkipsAreSound` (`SkippedIsCurrentUnlessKilled`) is proved when commands do not overlap
and there is one old file (`OneFile`). It follows a digest from the file that was read: the entries on their way are of
that file (`TakenInv`), and the shadow rows are of it from the moment they are written, and of the recorded one when no
synchronisation is under way (`CurrentInv`). `OneFile` is needed, because the shadow is one for all files and the digests
are kept per file: with two files TLC finds a synchronisation of the second one that replaces the shadow of the first,
whose digest stays recorded, so that it is skipped from then on.

`ReviewMutationProofs` proves `TypeCorrect` for any number of dashboards, coordinates, texts and entries, failed appends
and kills, with a CLI that writes at any moment. `UnifySparesDecisions` assumes nothing either. The other
theorems are about one dashboard (`OneDashboard`): its operation is the only one under way. They assume as little else
as they need:

| theorem | property | besides `OneDashboard` |
|---|---|---|
| `ExpectedRevisions` | `RevisionHonoured` | nothing |
| `RevertsAreFresh` | `RevertIsFresh` | nothing |
| `LedgerLagsByOne` | `LedgerLags`, the ledger is at most one entry behind | nothing |
| `LedgerIsDerived` | `LedgerDerived` | no kill |
| `UnifySparesDecisions` | `UnifyKeepsDecisions` | nothing, and not `OneDashboard` |
| `StoreLeadsTheLog` | `StoreLeads` | no CLI writer (`Alone`) |
| `CompensationTakesItsOwn` | `CompensationSparesLogged` | no CLI writer (`Alone`) |
| `DecisionsChain` | `Chained`, until a failure | no CLI writer (`Alone`) |

`RevertsAreFresh` and `UnifySparesDecisions` say what is lost to a CLI that writes between a test and the write it
allows: a human row that came in between, and nothing the test has seen. `rev_stale` shows that row being lost.
For `StoreLeads` the invariant says of each step of an operation which of its rows are still those the log accounts for
and which are the ones it is about to log, and that its images are of the one or the other (`OpOK`); a kill or a failed
append may then leave any of these (`Accounted`). `rev_after` and `rev_comp` show what `Alone` excludes and what a
failure leaves. With two dashboards (`rev_single` with `Procs = {p1, p2}` and no failure) `RevisionHonoured` and
`CompensationSparesLogged` are violated.

The proofs assume what the modules assume of their constants, and the conditions named above. Liveness under
fairness, ENABLED and what a recursive definition computes are outside of the prover's reach and stay with TLC;
`Ancestor` of `RunLineage` is recursive, and the proofs use of it only that a chain begins with the run itself. Every
safety property of a passing run is stated by a theorem, under the conditions above; where a run goes beyond them (the
kill of `lin_rebuild`) it is model-checked only. The liveness properties (`SubmitAnswered`,
`TaskEnds`, `ExecutionEnds`, `BusyEnds`, `RequestsAnswered`) are model-checked only.

## Plan

What is left, most important first:

1. Theorems: `EvidenceComplete` with one kill.
2. `Planner`: grouping, variants and the order of resolution, as operators checked against a declarative
   definition over bounded inputs.
3. ParaTranz: the comparison of remote and local strings by stage.
4. `Glossary`: import, proposals and conflicts of terms.
5. `ReviewMutation`: the panel index, the recheck, and a ledger written in two steps.

## Not modelled

File formats, regular expressions, configuration, token estimates and the dashboard's read-only views: their
verdicts enter the modules as nondeterministic choices. Process identifiers that are reused, clocks that jump, and
several users or hosts are outside of what the task service claims to handle. `PROJECT.json` lists every component with
what is left out of it.
