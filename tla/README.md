# impostarr: specifications, model checking and proofs

impostarr asks, for every episode file Sonarr imports, whether the file really
holds the episode it claims to be. A file is discovered, becomes a job, a worker
extracts assets from it, plugins compare them with references, a score routes
the job, and a file that is an impostor may be replaced or remapped in Sonarr,
by the worker or after an operator approves.

This directory holds TLA+ models of that program, translated from its source,
the TLC configurations that check them on small instances, and TLAPS proofs of
some of their properties for every instance. Paths below are relative to the
repository; Python files without a directory are in `src/impostarr/`.
`PROJECT.json` maps every definition to the lines it stands for.

To check a run: `tlc -config MCJobQueue.cfg MCJobQueue`. To check the proofs:
`tlapm` on each of `JobQueueProofs.tla`, `RemediationProofs.tla`,
`PipelineProofs.tla`, `WorkerPoolProofs.tla`, `RefSubsProofs.tla`,
`DiscoveryProofs.tla`, `ScoringProofs.tla` and `JudgementProofs.tla`.

## 1. Inventory

### Components

| Component | State it keeps | Operations | What makes it correct |
|---|---|---|---|
| **Job queue** `jobs.py`, `models.py` | table `jobs`: status, claimed_by, heartbeat_at, attempts | create_job, claim_next, claim_for_api, heartbeat, release, reap_stale, requeue, park, unpark, set_status_checked | one holder per job; a stale holder changes nothing; a job that keeps failing stops; every job settles; statuses move along `VALID_TRANSITIONS` |
| **Worker pool** `worker.py` | asyncio tasks: N worker loops, each with a claim thread, a process task and a heartbeat task; reaper, trash sweep, one discovery loop per instance | start, claim, run, heartbeat, stop; reap; sweep; poll | tasks survive each other's failures; gates are respected; shutdown ends; pending jobs are worked off |
| **Review endpoints** `api/routes.py` | none beyond the row a request loaded | park, unpark, rerun, verdict, approve, reject, replace, trash restore and delete, backfill, pause | a decision taken on a stale read must lose |
| **Remediation** `remediate.py` | `verdicts.remediation_log`; Sonarr; staging directory | replace (fail history, trash copy, delete, search), remap (slot check, hardlink, delete, import) | no file is lost, no step done twice, "remediated" is true, a dry run touches nothing |
| **Trash** `trash.py` | trash directory, table `trash_items` | move in, sweep, restore, delete | every copy is listed, an outcome is final |
| **Discovery** `discovery.py` | `instances.history_watermark`, `backfill_cursor`; tables `files`, `jobs` | poll_once, backfill_step, capture | nothing is skipped, no file gets two jobs |
| **Pipeline** `pipeline.py` | tables `assets`, `frame_hashes`, `transcripts`, `plugin_results`, `verdicts`, phash corpus | extraction over a cache, plugins under a budget, verdict, release | no status without evidence, a working cache, a bounded budget |
| **Scoring** `scoring.py` | none (pure) | aggregate, route | one dissenter does not outvote two, more evidence for the claim does not hurt it, no automatic action without backing |
| **Normalization** `normalize.py` | none (pure) | normalize; `_build_claimed_ident` | a candidate means the episodes it names, all or none |
| **Reference subtitles** `refsubs.py` | `quota.json`, subtitle files, token, two asyncio locks | get | quota held, one login, no deadlock |
| **Throttle** `throttle.py` | claim timestamps of the last hour; `paused` in the settings | has_capacity, consume, in_active_hours; pause, resume | no more than `jobs_per_hour` claims in any hour |
| **Events** `api/events.py` | bounded queue per subscriber | publish, subscribe | slow readers do not block |
| **Sonarr client** `sonarr/client.py` | none | HTTP with retries | retries of mutations |
| **Plugins, LLM** `plugins/`, `llm.py`, the plugin packages | none shared | identify, chat_json | missing evidence is no evidence; a provider is passed over only when it is down |
| **Extraction** `assets/` | files under the work directory | ffmpeg, ffprobe, whisper | (subprocess I/O) |
| **Application shell** `main.py`, `config.py`, `db.py`, auth, logs | wiring | | |
| **Web UI** `web/` | none authoritative | | |

### How they interact

The database is the meeting point. Discovery inserts `files` and `jobs`; worker
tasks and request handlers claim rows of `jobs` with conditional UPDATEs; the
reaper takes rows back whose heartbeat is old; the pipeline, called by the
worker that holds the lease, writes its results, calls remediation if the
instance allows it, and releases. The approve and replace endpoints claim the
same rows and call remediation themselves. Trash rows are written by
remediation and ended by the hourly sweep or an operator. Everything but
ffmpeg, whisper, the queue's own claims, heartbeats and reaps (which go to a
thread) runs on one asyncio event loop per process, so code between two awaits
is atomic for the others on the loop, and code in threads or in another replica
may commit in between.

### What is hard

* **Leases.** Read and UPDATE are separate; a worker may lose its lease in
  mid-work and go on until a heartbeat or its release notices.
* **Side effects without transactions.** Sonarr's API, the media directory, the
  trash and the database change one after the other; a process may die, or an
  answer be lost, between any two.
* **State read before an await.** The target slot, the budget, the watermark,
  the proposed action are read, something is awaited, and they are used.
* **Long transactions.** Discovery holds SQLite's write lock across awaits.
* **Retries and reruns.** A job may be judged many times over; caches, logs
  and counters of earlier runs stay.

`PROJECT.json` lists each hazard at its line with the properties that watch it,
or says why none does yet.

## 2. Modules

| Module | Models | Composes |
|---|---|---|
| `JobStatus` | `JOB_STATUSES`, `TERMINAL_STATUSES`, `VALID_TRANSITIONS`, as data | |
| `JobLifecycle` | abstract: what one job's status may do | `JobStatus` |
| `JobQueue` | `jobs.py`, driven by workers, reaper and endpoints | implements `JobLifecycle` |
| `Trash` | `trash.py`; an open module of actions over disk and rows | |
| `Remediation` | `remediate.py` with the parts of pipeline and endpoints around it | extends `Trash` |
| `Discovery` | `discovery.py` with SQLite's write lock and the event loop | |
| `Pipeline` | `pipeline.process_job` | |
| `RefSubs` | `refsubs.RefSubService.get` | |
| `WorkerPool` | `worker.py`'s loops and tasks, `throttle.py`, start and stop in `main.py` | |
| `Scoring` | `scoring.py`: `aggregate`, `route` | |
| `Normalize` | `normalize.py`, `pipeline._build_claimed_ident` | extends `Scoring` |
| `Identifiers` | the rules of the three bundled plugins, `llm.py`'s failover | extends `Normalize` |
| `Judgement` | one call of these functions, and what is true of it | extends `Identifiers` |
| `MCPipeline` | ties `Pipeline`'s outcomes to `Scoring`'s | extends `Pipeline`, `Scoring` |
| `JobQueueProofs`, `RemediationProofs`, `WorkerPoolProofs`, `RefSubsProofs`, `DiscoveryProofs`, `ScoringProofs` | proofs | extend the module they are about |
| `JudgementProofs` | proofs about `Judgement` | extends `Judgement`, `ScoringProofs` |
| `PipelineProofs` | proofs about `Pipeline` and `MCPipeline` | extends `MCPipeline`, `ScoringProofs` |
| other `MC*` | small instances for TLC | |

Each module with behaviour has a section *Slips*: forms that a plausible bug
would give to an operator below it (a dropped conjunct, an off-by-one, a missing
reset). No action uses them. Put in place of the operator they imitate, each
makes the property named with it in `PROJECT.json` fail, which shows that the
property looks at something. (`PollSwallows` in `Discovery` is beside the action
it imitates because it uses that action's helpers.)

### JobQueue and JobLifecycle

A row is `status`, `claimed_by`, `stale` (heartbeat_at older than the timeout)
and `attempts`. An actor is a worker task or a request; `pc`, `job`, `view` and
`op` are its program counter, the job it is about, the status its session
loaded, and a request's operation. Every function of `jobs.py` that reads and
then updates is two steps, so another session may commit between them:
`claim_next` is `ClaimSelect` and `ClaimWin` or `ClaimLose`, `reap_stale` is
`ReapSelect` and `ReapWrite`, an endpoint is `OpenRequest` and `Park`,
`Requeue`, `ClaimForApi` and so on, or `RequestLost` when the conditional UPDATE
matched nothing. `Release` and `Heartbeat` carry the fence
`status='active' AND claimed_by=me`. `Abandon` is an exception that escapes the
pipeline, `Crash` the end of the process.

`JobLifecycle` says what is left when workers, leases and sessions are
forgotten: a status moves along `VALID_TRANSITIONS`, and a job the reaper has
condemned may be put back from whatever it has become. `LifecycleSpec` is the
refinement, `condemned` being the rows the reaper's SELECT returned. The
exception, `Overwrite`, is in the abstract specification because the code makes
it; see *The reaper's late write* below.

### Trash and Remediation

`Remediation` follows one runner (worker or request) through `replace` or
`remap` step by step: each Sonarr call is an effect and an answer, either may be
missing, retries included (`sonarr/client.py` retries mutations). The order of
the steps, the guard on the log at the start, `dry_run` at each step and the
final release are the code's. A run loads the verdict's log when it starts
(`own`), and every entry it makes writes that list back as the whole column,
over what another run has written there since (`WriteLog`); an entry that is not
ok is not kept in the model, but its write is (`LogFailure`). Leases may be lost
at any moment: an API remediation sends no heartbeat, and a copy on the event
loop stops a worker's. What runs between two awaits is one step, for instance
the trash copy with its row. `Trash` adds the sweep and the operator's restore
and delete, each split between disk and commit.

Abstracted: one trash item per job; a name collision is modelled where two jobs
share `StagedName`; a link to a name that exists fails before the cross-device
fallback is tried, so staging is exclusive; a human verdict's own row may be
missing after a death between its two commits.

### Discovery

`library` and `history` are Sonarr's; `rows`, `watermark`, `cursor` and `lock`
the database's. A step of `poll_once` or `backfill_step` reaches from one await
to the next. The first INSERT takes the write lock and the commit gives it
back; another coroutine that writes meanwhile blocks the loop (`blocked`) until
SQLite's busy timeout (`BusyTimeout`). `PollFails` is any exception: the
transaction is rolled back whole.

Abstracted: one answer of `history_since` stands for its pages; the reasons for
which a file is passed over are one constant set plus a file Sonarr no longer
has; SQLite is the database (`db.dsn` may name another, without its single
write lock); one poll loop per instance. A `batch_size` of 0, which the API
accepts, is among the sizes; one below 0 acts as 0.

### Pipeline

A worker's `run` goes through context, lookup / extract / store for each stage,
transcription, the plugins, the verdict, release, remediation and the corpus.
`assets` counts rows per stage and output file, `results` the inputs a plugin
has an "ok" answer for, `today` the executions that count against its budget.
An input fingerprint is the set of stages that yielded an asset. The job may be
in two workers' hands. Every await and commit is a step, which is finer than
one event loop is and covers two replicas.

Abstracted: the score, to the outcomes `route` can give (inconclusive when no
plugin answered "ok", never an action when fewer than `MinEvidence` did); the
series cache and duplicate check; remediation, to the status it ends in; of the
queue only status, owner and number of claims. For each set of plugins
`MCPipeline` computes with `Scoring` which outcomes `route` can give when just
these have answered; `RoutesAsScored` says that what a run may decide on is
exactly what the set it has heard from allows: nothing but inconclusive from
none, no action from a single one.

### RefSubs

One record per concurrent `get()`. `door` is `_login_lock` with those who wait
for it, `line` is `_pacing_lock`; the head of `line` has the request in flight.
`count` is `quota.json`, `debited` what OpenSubtitles has counted. Headers are
computed before waiting in line, hence `sent`. The quota lock is released before
any await and needs no state. A 429 sleeps off the line once, a 401 logs in
again without the door and repeats once, `Cancel` is cancellation at any await
with what `finally` does, `NewDay` is UTC midnight. `write_text` truncates
`quota.json` and then writes it, and a file that is not JSON reads as nothing
used: a step that writes it may be cut short (`Torn`), by the end of the process
(`Crash`) or by a full disk, which ends that call only (`WriteFails`).

Not a property, because the code does not have it: that callers share one login
after a dropped token. Every caller that met the 401 logs in for itself, since
that path does not pass the login lock.

### WorkerPool

A worker is a loop task (`pc`), the thread its claim runs in (`ask`), and while
it has a job a process task (`proc`) and a heartbeat task (`beat`) with the
event `lease_lost` between them. A step is the code between two awaits.
`Round` is the top of the loop: the gates are read, then the claim is awaited
(`ClaimThread`), and only then is the token spent (`StartRun`). With several
instances a worker takes turns (`idx`, `tries`), while `claim_next` takes the
oldest job of any instance. `Stop` requests the cancellation of every loop;
where it is delivered depends on what the loop awaits: at the sleep or the claim
(`CancelDelivered`), or through the process task and `_run_job`'s `except`
(`RunReturns`, `ReRaised`). A thread outlives the task that waits for it.
Time is the age of the limiter's stamps in ticks; an entry leaves at `Window`
ticks. `late`, `crossed` and `recent` are history for the properties.

Abstracted: the table of jobs to pending, active and settled; the reaper and
operators to `Requeued`; the trash sweep and poll loops, which are in
`Remediation` and `Discovery`.

### Scoring, Normalize, Identifiers, Judgement

These are the pure functions between what a plugin is given and what becomes of
the job. A confidence is a percentage; a score keeps its weighted sum and its
weight, so that means are compared without division; log-odds come from a table
in thousandths on a grid of eleven percentages. A series is a sequence of
episodes in Sonarr's order, each with its season, number, absolute and scene
numbers. A plugin's answer is its status and a set of candidates. Texts, prompts
and comparisons are a ratio or a model's reply. `Judgement` has one variable,
the call under test; its initial states are the inputs and its properties
compare the functions with what they should mean.

## 3. Runs

Twelve runs; seven pass, five show a disagreement.

| Run | Instance | Checks |
|---|---|---|
| `queue` | 1 job, 2 workers, 1 request, `MaxAttempts` 2 | `TypeOK`, `LeaseShape`, `PoisonBounded`, `PoolFenceSound`, `NoSteal`, refinement `LifecycleSpec`, `JobsSettle` under `FairSpec` |
| `api_fence` | 1 job, 1 worker, 2 requests of one identity | `ApiFenceSound`, violated |
| `remediation` | 1 file, 1 worker, 1 request, 2 verdicts, trash and dry run on and off | `PreservedUntilImported`, `NoOrphanCopy`, `OncePerVerdict`, `RemediatedMeansDone`, `DryRunTouchesNothing` |
| `redrive` | 1 file, 1 worker, 2 verdicts | `SingleExecution`, violated |
| `discovery` | 4 files in 2 interleaved series, one uncapturable, 2 history records, 1 backfill, batches of 0, 1 and 2 | `NothingPassedBy`, `OneRowPerFile`, `CursorHonest`, `BackfillComplete` |
| `loop_block` | 3 files, 1 backfill | `LoopNeverWaitsForItself`, violated |
| `pipeline` | 1 job, 2 workers, 2 plugins, one with a budget of 1, the probe or all stages may fail, 2 claims, 1 midnight | `TypeOK`, `BudgetOvershoot`, `EvidenceBehindStatus`, `VerdictBehindStatus`, `RoutesAsScored` |
| `asset_cache` | 1 worker, 2 plugins, 2 subtitle streams, 3 claims | `CachedLookupSucceeds`, violated |
| `refsubs` | 2 callers, 1 episode, 2 languages, quota 2, two troubles (lost answers, dropped tokens, midnights, torn writes) | `QuotaBound`, `SingleFlight`, `GetReturns` under `FairSpec` |
| `pool` | 2 workers, 1 instance, 1 job, 1 claim per hour of 2 ticks, a day of 2 hours of which 1 is active | `TypeOK`, `RateBound`, `OneLateClaim`, `OnlyStopEndsLoops`, `StopEnds` and `Drains` under `FairSpec` |
| `wrong_instance` | 1 worker, 2 instances, 2 jobs | `OwnInstance`, violated |
| `judgement` | one call of each function over small inputs, `MaxCandidates` 2 (about 200,000 inputs) | `LoneDissenterLoses`, `RaiseHelps`, `AutoRemapBacked`, `ClaimedRoundTrip`, `NeverPartial`, `ClaimedMeasured`, `AnswerDecidesClaim`, `NoEvidenceNoAction`, `PassedOverForCause` |

`TypeOK` in `Remediation`, `Discovery` and `RefSubs` documents the variables; no
run spends a check on it.

### Bounds, and why they are enough

* *Queue.* No operation relates two jobs but the choice of the oldest pending
  one, so one row with two workers, the reaper and a request shows the races.
  `MaxAttempts` is 3 in the code; with 2 a job goes through a first retry, a
  last one and "give up". The safety properties are proved for all instances.
* *Remediation.* Two verdicts are what a re-driven job needs. A clash of two
  files in staging needs two files, and is proved for any number of them
  (`ImportsOwnFileHolds`) instead of run, as are `PreservedUntilImported`,
  `NoOrphanCopy` and `DryRunTouchesNothing`.
* *Discovery.* Four files over two series, numbered so that id order and series
  order differ, let a batch end inside a series, at its end and beyond it. Two
  records are enough for one to fail or be rolled back behind another. The sizes
  are a batch that asks for nothing, one that ends inside a series and one that
  may reach over its end. The run's
  four properties are proved for all instances as well.
* *Pipeline.* Two workers and two claims put the job in both hands at once; the
  budget is 1 with up to one execution already used, so both "just reached" and
  "already spent" occur. With two plugins and `MinEvidence` 2, its default, a run
  hears from none, from too few or from enough. `Outages` bounds the failures:
  the probe may fail by itself, the other stages as long as nothing has
  succeeded. Three claims are what the partial cache needs: one to
  leave it, one to double it, one to trip over it.
* *RefSubs.* Two callers contend for both locks; quota 2 is below the four
  fetches they can ask for. Two troubles of any kinds let one come on top of
  another, such as a torn write after a lost answer.
* *Pool.* Two workers meet at the gate with one token. An hour of two ticks lets
  stamps age, expire and be renewed; a day of two hours opens and closes the
  active hours. The instances' turns need a second instance, in
  `wrong_instance`; `RateBound`, `OneLateClaim` and `OnlyStopEndsLoops` are
  proved for all instances.
* *Judgement.* Three plugins are what an outlier needs; the grid has a value on
  each side of, and on, every threshold and bound. Series have three episodes in
  two seasons in any order, or four, more than `MaxCandidates`, which is 10 in
  the code. Two providers with four replies each are what the two nested retries
  can use up. All nine properties are proved besides, most of them for inputs of
  any size.

Deadlock is checked in all of them.

### Fairness

`JobQueue.Fairness`: a worker's next step, a heartbeat that notices the loss of
a lease, an open request's next step and the reaper's two steps are taken
eventually, since the event loop schedules every ready task and the pipeline's
stages have timeouts; a lease whose holder is gone gets old, since time passes.
Nothing is assumed of operators, crashes or exceptions, and `JobsSettle` holds
only of behaviours in which crashes and new requests stop (`Quiet`). It assumes
a reaper that keeps running: an exception other than `LeaseLost` would end that
task for good (hazard at `worker.py:197`).

`RefSubs.Fairness`: every caller that can go on does, since HTTP requests end, by
timeout if need be, and asyncio's locks serve in order of arrival. Nothing is
assumed of which answer comes. `GetReturns` needs no bound on failures.

`WorkerPool.Fairness`: of all the tasks that belong to one worker one that can go
on does (weak fairness of their disjunction: the loop may favour any of them),
time passes, and `gather` returns when the tasks are over. Nothing is assumed of
operators, the reaper, exceptions or the clock's hour. `Drains` holds of
behaviours in which the pool stays up with its gates open, a worker survives,
and nobody puts jobs back (`LeftAlone`). `StopEnds` holds unless a worker was
told of a lost lease while it was being stopped; see *A shutdown that does not
end* below.

### What the passing runs show

* **Queue.** The conditional UPDATEs do what their comments say for the pool:
  no claim is stolen, a stale worker passes no fence, lease columns and status
  agree through every endpoint, a poison job is claimed at most
  `MAX_ATTEMPTS + 1` times between two reruns, every job settles.
* **Remediation.** With the trash on no interleaving or crash loses a file; a
  copy that is the last one is always listed; dry runs are dry. By tasks with ids
  of their own, and as long as one worker judges, no step is done twice under
  one verdict, and "remediated" has a log that explains it.
* **Discovery.** Rollbacks, crashes and a concurrent backfill make the poll pass
  nothing by; the cursor tells the truth, and only a request for no files erases
  it before the library has been seen.
* **Pipeline.** The budget can be overrun, by at most one execution per other
  worker; no settled status lacks evidence or a verdict row, and no action is
  decided on without the answers of two plugins; what a run may decide is what
  scoring answers of the plugins it has heard from can give.
* **RefSubs.** The quota is exceeded by nothing but lost answers, midnight, and
  one quota for each write of `quota.json` cut short; callers share one login;
  every call returns.
* **Pool.** The hourly limit is passed by at most one claim per other worker; a
  worker that was claiming when the gates closed starts one more job, not two;
  loops end by shutdown or a failing claim only; pending jobs are worked off.
* **Judgement.** With the default settings one dissenter among three plugins
  never causes an action; a higher report on the claimed episode does not lower
  its score on its side of the outlier bounds; an automatic remap has two
  answers and a confident one behind it; numbers and ids translate both ways
  without loss within a season; silence, in any plugin, is inconclusive.

### Disagreements the runs show

* `api_fence`: all requests of an identity share a worker id, so the first of
  two approvals passes the lease fence of the second.
* `redrive`: `remediate.py:13-23` promises that a reaped and re-driven job is
  quarantined; the re-driven job has a new verdict with an empty log, so the
  guard sees nothing and Sonarr's steps are repeated.
* `loop_block`: a synchronous write on the event loop waits for a lock whose
  holder needs the loop, for the whole busy timeout.
* `asset_cache`: the assets table has no key; two rows for one output make the
  lookup raise, and every later run of that file ends in error.
* `wrong_instance`: `claim_next` (`jobs.py:112-140`) knows no instances; the
  worker whose turn is the second instance's claims the first one's job and runs
  it with the second one's Sonarr and settings (`worker.py:140-145`), against
  `pipeline.py:104-105` and the design (`docs/specs/`).

The models also have the following, which no run checks:

* *The reaper's late write.* The reaper writes back by primary key what it read
  earlier, so a release in between is undone and a remediated job returns to
  pending, although `jobs.py:50-51` calls the table of transitions the single
  source of truth. `JobLifecycle` allows it as `Overwrite`.
* *One step twice under one verdict.* With two requests of one identity
  `OncePerVerdict` fails: the first, overtaken by a rerun and a second approval,
  puts the job down through the fence while the second is at work on it, and a
  third approval repeats the steps. This is `api_fence` carried into the
  remediation. With an id for each it still fails if two workers judge and
  remediation is automatic (`worker.pool_size` is 2 by default, the automatic
  actions are off): a worker whose job was rerun, and settled by the other
  worker, adds its own verdict all the same (`pipeline.py:705`, no fence) and
  begins to remediate under it; that verdict is now the latest, so an operator's
  replace runs under it too, and both do the steps. In every other case the
  property is proved (`OncePerVerdictHolds`); the `remediation` run has one
  worker and one request.
* *One log, two writers.* `_log_step`'s docstring says that it appends
  (`remediate.py:115-120`), but it writes the session's whole list. Two runs under
  one verdict, which arise as just described, erase each other's entries, and a
  remediated job may be left with a log that does not explain it:
  `RemediatedMeansDone` fails in the same two cases and is proved in every
  other (`RemediatedMeansDoneHolds`).
* *A torn quota.json.* `refsubs.py:213` writes the file in place; a crash or a
  full disk in that write lets the day's quota be spent once more, beyond
  `daily_quota` (`config.py:108`). `QuotaBound` is the bound that holds.
* *A shutdown that does not end.* If the heartbeat loses its lease while `stop()`
  cancels the worker, `_run_job` takes the cancellation for the heartbeat's,
  swallows it, and the loop goes on to claim; `stop()`'s gather then waits for
  it. `StopAlwaysEnds` fails for this reason.
* *A claim nobody hears of.* A worker cancelled while it awaits its claim leaves
  the thread to claim a job, which stays active until it is reaped.
* *The hourly limit.* `throttle.py:28-34` and `config.py:150` say at most N
  claims in any rolling hour; with W workers N + W - 1 are possible, since the
  gate is read before an awaited claim and the token is spent after it. A
  restart forgets the stamps as well.
* *An active job can be rerun.* `requeue`'s docstring speaks of a settled job,
  but `VALID_TRANSITIONS` admits active and hold (`jobs.py:252-256`), so a rerun
  may take a job from under its worker. The fence keeps this harmless for the
  row (`PoolFenceSound`).
* *Two remaps into one empty slot.* `remediate.py:362` reads that the target
  slot is empty, three awaited calls follow, and both imports run, although the
  remap design (`docs/specs/`) says that auto-remap fires only into empty slots.
* *The budget as a maximum.* `README.md:90` calls it the maximum of real
  executions per UTC day. `BudgetOvershoot` is the bound that holds, and it is
  reached.
* *A file of two episodes.* whisper-subs compares single episodes, so none of its
  candidates is the pair a double-episode file claims, and `aggregate` counts
  0.0 for the claim, the fabricated zero its own docstring sets out to avoid.
  `ClaimedMeasured` is about files of one episode for this reason.
* *Outliers.* Two reports of 0.8 or more exclude any number of reports of 0.2 or
  less, and raising a report from 0.2 to 0.3 can bring it back in and lower the
  score. `RaiseHelps` is stated for each side of the bounds.
* *Evidence.* `auto_min_evidence` counts the plugins that answered, whatever they
  weigh and whichever episode they support; if all weigh 0 the score is 0.0,
  which is the way to remediation.
* *The stream.* `routes.py:1245` puts a timeout on the subscription's
  `__anext__`; it cancels the generator, so after the first quiet period the
  stream sends its heartbeat and ends. Not modelled.
* *batch_size 0.* The API accepts it (`routes.py:79`); the walk does not start and
  the saved cursor is erased (`discovery.py:373-413`), as if the library had been
  seen. `BackfillComplete` makes this one exception.

## 4. Proofs

### JobQueueProofs

For every number of jobs, workers, requests and every `MAX_ATTEMPTS`:

| Theorem | States |
|---|---|
| `TypeCorrect` | `Spec => []TypeOK` |
| `AttemptsCappedHolds` | `Spec => []AttemptsCapped` |
| `LeaseShapeHolds` | `Spec => []LeaseShape` |
| `PoisonBoundedHolds` | `Spec => []PoisonBounded` |
| `PoolFenceSoundHolds` | `Spec => []PoolFenceSound` |
| `NoStealHolds` | `Spec => NoSteal` |
| `ImplementsLifecycle` | `Spec => LifecycleSpec` |

*Assumptions.* `NumJobs` and `MaxAttempts` are natural numbers; workers and
requests are different; nobody's id is NULL; a worker's id is its own
(`WorkerIdsAssumption`). The last is what `worker._mint_worker_id` establishes
within a process. Across replicas nothing does: `main.py:157` makes ids of the
instance's name and a task index, so two replicas on one database would have
equal ids, and `PoolFenceSound` would fail as `ApiFenceSound` does.

*The argument.* `TypeOK` is not inductive: that `ReapWrite` keeps `attempts` in
range needs that a row past the cap is not active, and that an endpoint writes a
status needs that it works from one it read. So `Inv1` is `TypeOK`,
`AttemptsCapped` and `ActorShape` (a busy actor has a job, that job's row exists,
the view is one its operation admits). `LeaseShape` is proved over `Inv1`.
`PoisonBounded` counts claims, while the code counts attempts; `Paid` relates
the two (every claim beyond `attempts` is the one in progress) and `SnapCovers`
says what the reaper's snapshot knows about it, without which a claim between
the reaper's two steps would go uncounted. `PoolFenceSound` follows from ids
that identify their owner. Each conjunct has a lemma of its own with one step
per action. `ImplementsLifecycle` has one case per action: a `Move`, a
`Condemn`, an `Overwrite`, or a stutter.

### RefSubsProofs

`QuotaBoundHolds`: `Spec => []QuotaBound` for any finite set of callers, any
number of languages and strategies, any quota and any number of troubles.
`QuotaBound` is not inductive, as it says nothing about downloads that are about
to be debited. The invariant is a ledger: what is debited today plus the number
of reservations held is at most the count plus the strays plus a quota for each
torn write, and the count is at most the quota. A torn write takes the count to
0, so it gives back at most a quota, whoever holds reservations at that moment.
Every caller's step is shown to *pay*: it writes its own record only, and what
it debits or gives back is matched by its reservation or by a stray
(`PaysKeepsLedger`). Midnight, a dropped token, torn writes and a crash are
treated apart. Its types are weaker than `TypeOK`: the two queues and which
token was sent play no part.

`SingleFlightHolds`: `Spec => []SingleFlight`. Its invariant (`OneLogin`) is about
who stands where: while there is no token, whoever logs in is at the head of the
login door and the only one to do so, those behind it look at the token again
when their turn comes, and who gives up leaves both queues. As long as no token
has been dropped, no caller holds a bad one (`Untroubled`), so nobody takes the
path of a 401, which logs in without the door.

### DiscoveryProofs

| Theorem | States |
|---|---|
| `NothingPassedByHolds` | `Spec => []NothingPassedBy` |
| `OneRowPerFileHolds` | `Spec => []OneRowPerFile` |
| `CursorHonestHolds` | `Spec => []CursorHonest` |
| `BackfillCompleteHolds` | `Spec => BackfillComplete` |

For any files and series, any library, any number of concurrent backfills with
any batch sizes, 0 included, and any number of records. The properties speak of
what is committed; the invariant says what a transaction under way will commit.
`Locked`: who has inserted something holds the write lock, and what it has
inserted has no row yet, so no two commits store one file. `BatchCovered`: every
record up to the last of the batch is dealt with or still to do. `Walking`: a walk
has seen whatever lies before its series, before the cursor it started from and
before the one it will save. That last point rests on the batch cap taking the
files with the smallest ids (`FirstOnesAre`): a cap in any other order leaves
files behind the cursor. `BackfillComplete` needs besides that a walk which
saves null has nothing ahead of it, unless it was asked for no files: that
request (`NothingAsked`) ends where it began, and erases the cursor.

### WorkerPoolProofs

| Theorem | States |
|---|---|
| `TypeCorrect` | `Spec => []TypeOK` |
| `RateBoundHolds` | `Spec => []RateBound` |
| `OneLateClaimHolds` | `Spec => OneLateClaim` |
| `OnlyStopEndsLoopsHolds` | `Spec => OnlyStopEndsLoops` |

For any finite set of workers and any number of instances and jobs, any limit
and any hours. `RateBound` says nothing of the workers that have read the gate
and not yet spent their token, so it is not inductive. The invariant is a
ledger: the recent claims are the limiter's stamps, and with the workers between
gate and token they stay below the limit plus the number of workers.
`OneLateClaim` needs that a worker which claimed while
the gates were closed is not claiming again (`GateLate`); `OnlyStopEndsLoops`
that a cancelled process task outside a shutdown has a lost lease behind it
(`Causes`).

### RemediationProofs

| Theorem | States |
|---|---|
| `ImportsOwnFileHolds` | `Spec => ImportsOwnFile` |
| `FilesPreserved` | `Spec => []PreservedUntilImported` |
| `NoOrphanCopies` | `Spec => []NoOrphanCopy` |
| `DryRunHolds` | `Spec => DryRunTouchesNothing` |
| `RemediatedMeansDoneHolds` | `OwnIds /\ OneJudge => (Spec => []RemediatedMeansDone)` |
| `OncePerVerdictHolds` | `OwnIds /\ OneJudge => (Spec => []OncePerVerdict)` |

For any number of jobs, workers, requests, verdicts, slots and staged names.

*Where the files are.* `OneUser`: a name in the
staging directory has one user, a run between its link and its import command
or a command Sonarr has accepted; two runs on that stretch are about different
jobs. It follows from links being exclusive, however names coincide. `Files`
adds what a run counts on (`InHand`): past the trash copy there is one, past the
row there is a row, whoever sweeps, restores or deletes in the meantime; the
delete call is safe because of it.

*The log.* The last two theorems speak of the log, the lease and where a run
stands, so `NextKinds` first sorts the actions of `Remediation` into a few kinds
of steps (a run ends, opens, claims, judges, starts, goes on; a job is put back
or overruled; the process restarts) and the invariants are carried over these.
`Reported` says what a run's place in the choreography implies about its own copy
of the log: past the deletion the deletion is there (`Told`), at the end the
whole sentence is. It holds of any runs, but says nothing of the column in the
database, which another run's copy may have replaced.

Both theorems therefore have two conditions, and the disagreements above show
that they need both. `OwnIds`: no two runners share an id, so that an operator's
requests do not pass each other's fence. `OneJudge`: there is one worker, or no
action is automatic. Under them two runs never work under one verdict (`Sole`):
an approval always takes the latest verdict, and a run that is still at work when
its job can be approved, or when another run is about to make that possible,
works under an older one (`Behind`, `Cleared`). So nobody writes over a run's
entries (`Mirrored`: its copy is the column), and what is in a log stays in it
(`LogsKept`), which gives `RemediatedMeansDone`. `Once` adds that the steps a run
still has ahead of it (`Ahead`) have no real entry under its verdict: at the
start the guard sees to that (`_was_interrupted`), later the order of the steps
does.

### PipelineProofs

| Theorem | States |
|---|---|
| `TypeCorrect` | `Spec => []TypeOK` |
| `EvidenceHolds` | `Spec => []EvidenceBehindStatus` |
| `VerdictHolds` | `Spec => []VerdictBehindStatus` |
| `BudgetHolds` | `Spec => []BudgetOvershoot` |
| `RoutesHolds` | `Spec => []RoutesAsScored` |

For any jobs, finite set of workers, list of plugins, budgets, parts, outages,
`auto_min_evidence` and number of runs. `Typed` says also that a run indexes only
stages, files and plugins that exist. `Behind` says that what a run carries in its
record is in the tables: an answer it counts on is stored, once it has an outcome
to release there is a verdict row with it, and behind a decision to act there are
enough answers; results and verdicts only grow, which is why a run whose lease is
gone cannot spoil another's. `WithinBudget` is a ledger of executions counted
today and executions begun.

`RoutesAsScored` ties the module to `Scoring`: what `Pipeline` lets a run decide on
(`RouteOutcomes`) is what `aggregate` and `route` make of the panels in which just
the plugins it has heard from answered (`Decisions`, `Panels`). They make nothing
else (`NothingElse`), since `route` wants an answer to decide and enough of them to
act (`RoutedIs`). They leave nothing out (`NothingLeftOut`), which is shown by two
panels whose plugins all speak alike (`AlikeIs`): plugins that are sure of the
claim match it (`SureMatches`); plugins that have nothing to say for it score 0,
which is acted upon or left to a human as the flags have it (`MuteActs`).

### ScoringProofs and JudgementProofs

Each property of `Judgement` has a general theorem about the functions, and a
second one that draws from it the property as the run checks it. The first three
general theorems are about `Scoring` alone and are in `ScoringProofs`.

| About every input | As the run checks it | States |
|---|---|---|
| `RaisingHelps` | `RaiseHelpsHolds` | more confidence in the claim never lowers its score |
| `DissentersLose` | `LoneDissenterLosesHolds` | enough plugins that agree outvote all others |
| `RemapIsBacked` | `AutoRemapBackedHolds` | an automatic remap has a doubter and a witness |
| `AskedInOrder` | `PassedOverForCauseHolds` | a provider is passed over only if it was down |
| `RoundTrip` | `ClaimedRoundTripHolds` | the numbers told of a file lead back to its episodes |
| `WholeOrNothing` | `NeverPartialHolds` | a key stands for all the numbers of its candidate |
| `OneVoteOnTheClaim` | `AnswerDecidesClaimHolds` | a model's answer is one vote on the claim |
| `WhisperMeasures` | `ClaimedMeasuredHolds` | whisper-subs speaks of the claim if it measured it |
| `NoEvidence` | `NoEvidenceNoActionHolds` | without evidence nothing is proposed |

*Hypotheses of the general theorems.* Plugins are a finite set of any size
(`Panel`), confidences are on the grid the log-odds table covers, weights are
natural numbers (the code takes fractions of at least 0; finitely many have a
common denominator, and a score is a ratio). `DissentersLose` takes
`outlier_high` at its default, 80. `RemapIsBacked` takes candidate lists that
are finite and keys of the kinds `normalize` makes (`Keyed`), and
`outlier_min_agreeing` of at least 1. As a plugin may have weight 0, the doubter
it promises may be one that does not count, which the run's weights exclude. A
series has any length and order; its ids are unique (`Listed`), no two of its
episodes have the same season and number (`Distinct`, which Sonarr's numbering
gives), and a file's episodes are of one season (`FileOf`). `WholeOrNothing`
needs no `Distinct` but leaves out scene numbering, as the property does. In
`WhisperMeasures` the file holds one episode.

*The argument.* A call keeps no state, so `Init => P` is the whole of each
`Spec => []P`. The sums are what needs work: the library's sum over a set is a
choice among functions that satisfy a recursion. That there is one, and that any
two agree, is shown by least exceptions (`LeastNat`, `SetInduction`), which take
the place of the induction theorems. `TotalStep` then takes a sum apart one
plugin at a time, which gives `FuseMonotone` and `FuseAtLeast`: a mean is
between the reports it is a mean of. The best alternate exists because being
higher is transitive on fractions. That `_build_claimed_ident`'s list names
every episode once rests on `AscendingIs`.

### Only model-checked

Liveness (`JobsSettle`, `GetReturns`, `Drains`, `StopEnds`) is beyond the proof
system. Every safety property the passing runs check is proved, `OncePerVerdict`
and `RemediatedMeansDone` under the two conditions above, which their run
satisfies.

## 5. Not modelled

* **Events** (`api/events.py`): publishing never blocks and never fails a
  publisher, so nothing modelled depends on it; the stream and its subscribers
  are presentation.
* **Sonarr client**: without state. Its retries are outcomes in Remediation, its
  history paging is Discovery's `IdsSince`.
* **Plugins**: text comparison, prompts, SRT parsing and the loader are data;
  their results are inputs of `Identifiers`.
* **Extraction**: subprocesses; outcomes in Pipeline.
* **Application shell**: of `main.py` the order of shutdown; configuration parsing,
  database setup, authentication and the log buffer have no state the properties
  are about.
* **Review endpoints** that only read; the fingerprint a human verdict stores.
* **Web UI**: presentation.

## 6. Plan

1. **Composition** of Pipeline and Remediation over `JobQueue`'s leases, so that
   "which verdict is the latest" (hazard at `pipeline.py:705`) can be stated.
2. **Proofs**: `TypeOK` of Remediation, Discovery and RefSubs; that Remediation's
   view of a job's status implements `JobLifecycle`, stated and checked first.
3. **Discovery under fair answers**: that a record behind one that fails at every
   poll is never discovered (hazard at `discovery.py:269`), as a liveness run.

New questions take the place of weaker ones or join an existing run where the
instance allows, so that the whole suite stays checkable in minutes.
