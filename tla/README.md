# Guardian VOC: TLA+ models and proofs

Guardian VOC collects customer feedback about a retailer (social pages, review
exports, marketplaces), classifies it with a language model and publishes
insight cards. It is one Python process: a FastAPI application, a scheduler
thread, a pool of request threads and one database handle (DuckDB or
PostgreSQL). What is hard to test is what happens between its parts: who may
write, what survives a failure between two statements, what is read again after
a restart, and whether the numbers that readers see are numbers of the same
feedback. Paths below are relative to the repository; `application.py`, `db.py`
and the other modules of the service are in `guardian_voc/`.

## 1. Inventory

| component (source) | state | operations | correct when | module |
|---|---|---|---|---|
| Pipeline election and runs (`application.py` 293-602, 863-1133) | `_pipeline_lock`, `_run_state_lock`, `_active_run_id`; `pipeline_runs` | `initialize`, `queue_import_bytes`, `execute_queued_import`, `import_bytes`, `run_all`, `crawl`, ... through `_execute_pipeline` | one writer, no deadlock, each run settles once and is ingested at most once | `PipelineRuns` |
| Classification (`application.py` 1447-1726, `data_layer.py` 1704-1745) | `analysis_status`, `duplicate_of`, brand; `feedback_analyses`; `classification_failures` | ownership, sweep, requeue, quarantine, attempt, persist | nothing reads as classified that is not; failures are neither forgotten nor repeated | `FeedbackLifecycle` |
| Ingestion repository (`db.py` 400-1090) | `feedback_items`, `ingestion_runs`, `imported_files`, `source_status` | create and finish a run, insert, quarantine, register a file, mark replays | statuses and history tell what was stored | `IngestRepository` |
| Collector watcher (`runtime.py` 72-794) | cursor in memory, checkpoint file, failed page reads, page cache | `poll` | no snapshot lost, torn or paid for twice | `CollectorWatcher` |
| Scheduler and lifespan (`runtime.py` 810-965, `api/main.py` 75-94) | `_state`, stop event, failure count | `start`, `run_once`, `stop` | stops, retries, never works on a closed handle | `SchedulerLoop` |
| Live acquisition (`data_layer.py`) | `discovery_results`, `fetch_attempts`, `page_reader_cache`, `page_extractions` | seed, discover, fetch, agent, extract, ingest | bounded, resumable paid work; the audit tells what was read | `LiveAcquisition` |
| Marketplace APIs (`connectors/marketplace_api.py`, `application.py` 1260-1342) | sync manifest, `source_checkpoints` | list products, page through reviews, reconcile, record | complete is said exactly when it is true | `MarketplaceSync` |
| Insight publication (`application.py` 1953-2743, 4751-4786) | `insight_*` tables, `_built` | rebuild, persist, patch, restart | a card, its evidence, its history and its reference agree | `InsightPublication` |
| Analytics (`analytics/`, `insights/ranking.py`) | none | count, assess, compare, rank | counts do not depend on order; a signal is a change | `CountedUnits`, `TrendSignals`, `MatchedCohorts`, `InsightAnalytics` |
| Read views (`application.py` 3201-4735) | none | dashboard, problem detail, readiness, feedback list | views of one feedback agree | `DashboardViews`, `ServiceAnswers` |
| AI provider and validation (`ai/`, `insights/generator.py`) | none | request, retry, validate, fall back | only grounded answers are used | `CardText` |
| File import (`connectors/file_import.py`) | none | read, group, map, quarantine | no row is lost or costs another | `ReviewFile` |
| Database handle (`db.py` 190-390) | connection, lock, transaction depth | `query`, `execute`, `transaction`, `migrate` | statements of all threads are serialised | none |
| Text pipeline, public discovery, registry, configuration | none that persists | normalise, redact, map | pure functions | none |
| Social crawler (`social_crawler/`) | output files | crawl, atomic replacement | readers see whole files | as a producer in `CollectorWatcher` |
| HTTP API, CLI, maintenance, scripts | none of their own | delegate, repair, back up | see what they call | with what they call |
| Web dashboard (`web/src`) | component state | import panel polling, rendering | shows what the API answered | none |

How they interact: requests and the scheduler call the service; the service
calls the repository and, inside an elected run, the data layer, the provider
and the rebuild of the insights; the collector calls the service's
`import_bytes`; every statement goes through the lock of the one database
handle. Operators patch cards, and readers read, at any time. The only callbacks
are the FastAPI background tasks that execute queued uploads.

What is hard: opposite lock orders, a lock held over network calls, runs cut
off between two autocommitted statements, retries counted in rows, two
checkpoints (database and file) for one fact, files and lists that change while
they are read, paid requests that must not be repeated, a rebuild that races
operators, a shutdown that waits a bounded time, and the same feedback counted
by several queries. `PROJECT.json` lists these hazards line by line with the
properties that watch them.

## 2. Plan

Done: 1. who may write (`RunLedger`, `PipelineRuns`, `PipelineRunsProofs`);
2. what a run does to each item (`FeedbackLifecycle`); 3. what an ingestion
records (`IngestRepository`); 4. and 5. where files come from and what drives it
all (`CollectorWatcher`, `SchedulerLoop`); 6. paid acquisition
(`LiveAcquisition`, `MarketplaceSync`); 7. publication (`InsightPublication`);
8. the answers (`ServiceAnswers` and the modules it extends).

With each goes a proof module (`RuntimeProofs` for 4. and 5.), and every safety
and action property that a passing run checks is a theorem there (section 6).

Left: the crawler engine and the database handle's reconnection. Liveness and
the two disagreements stay with TLC.

`PipelineRuns` implements `RunLedger`. `ServiceAnswers` composes the modules of
pure answers. The others are composed by what they take for granted of each
other: `SchedulerLoop` that the service's calls return (`CallsReturn`); the
modules of what happens inside a run that there is one writer
(`OneElectedWriter`); `CollectorWatcher` that an answered import settled
(`ImportAnswersAreFinal`); `InsightPublication` that a build found what
`TrendSignals` computes.

## 3. The modules

Every definition that models code is mapped to its lines in `PROJECT.json`.
A definition marked "Broken variant" is not used: it is a plausible bug, placed
before the definition it would replace, with which a property fails.

**RunLedger** is the abstract service: a run is accepted or begun, at most one
is live, it settles once, or its process is lost and an operator repairs it.
It knows no locks, no threads and no uploads.

**PipelineRuns** is the service as written. `pc[t]` is the place of a thread in
`_execute_pipeline`; the two locks are separate variables because the code
takes them in opposite orders (an election takes `_run_state_lock`, then tries
`_pipeline_lock`; the end of a run holds the second and takes the first).
`_pipeline_lock` is reentrant, hence `pipeDepth`: start-up holds it while
hydration enters `_execute_pipeline` again. Each statement on `pipeline_runs`
is a step and, when `Faults`, may raise; a statement that raised had no effect.
`Crash` loses memory and keeps the tables. `imported` is the file history as
far as the upload check sees it, whoever registers a file: uploads, direct
imports and inbox scans. Files of the `Generic` profile skip the check and the
history. `ingestions` is an observer.

**FeedbackLifecycle** gives each statement of a run on the classification
tables one action; `Abort` cuts the run off between any two of them, `Deploy`
changes the classifier contract. Rows in `Replays` were stored by versions that
did not refuse replays, and may have been classified before.

**IngestRepository** has one variable per table column that decides something.
Files are contents (their SHA-256); a row is an identity with a URL and a hash.
`Generic` files take the path of `_ingest_raw_rows`, which goes on after a bad
row and keeps no file history; the others that of `ingest_connector`.

**CollectorWatcher** lets producers replace a file, or write it in place in two
halves, at any time; a read takes the halves in two steps. The version of a
file stands for its inode, size and modification time. Crawler output is
replaced atomically (`social_crawler/output.py`), other producers are external.

**SchedulerLoop** has the scheduler thread and the lifespan thread. Calls of
the service are single steps that succeed or fail.

**LiveAcquisition** runs the stages of the data layer in the order and with the
options of a call. A page is a source and a URL, so that two pages can share a
row of the cache. `RecordRead` and `CacheText` are the two statements of a read;
agent runs take the places of the semaphore and end in any order. `Cut` ends a
run anywhere, `Deploy` brings another registry or another extractor between
runs. Ingestion takes one staged unit after the other, and any of them may end
it: the acquisition goes on then, as the code calls it with
`raise_on_error=False`. What a page says when it is read is a free choice. The
rows of a query
are a set; where the code reads them in order, or only the first of them, the
order of the pages (`PageOrder`) decides.

**MarketplaceSync** is one connector over a list that customers and moderators
change while it is read. Answers are true when they are sent; an odd one may
claim anything about the pages that follow. The module has both protocols:
Shopee's cursor and explicit "more", Lazada's page numbers and optional total.
Products are read one after the other in the order of the catalogue, which
stands for the order in which they were found; the rows of one page are a set.
A call names the products it wants first (`Calls`). `Closes` is the last update
of the ingestion run, which is outside the `try` and may raise. Two observers:
`atStart`, the wanted reviews when the sync began, and `given`, those its pages
have shown.

**InsightPublication** has each statement of `_persist_built_insight` and of
`patch_insight` as an action; a patch may read its card in the middle of a
rebuild. A build stands for what the analytics found in
it. `crossed` and `lost` are observers of two patches that overlapped and of
work that was cut off.

**ServiceAnswers** asks one question at a time and computes the answer as the
code does: a state is a question with its answer, so that TLC goes through every
input and the properties speak about both. It extends
**InsightAnalytics** (what a rebuild asks), **CountedUnits** (repost groups,
rates, drivers, evidence), **TrendSignals** (windows, health, signals,
recurring, improving), **MatchedCohorts** (benchmark, choice of Today),
**DashboardViews** (dashboard, problem detail, readiness, list), **CardText**
(requests with retries, validation, draft) and **ReviewFile** (what a file
yields). **Collections** has the two operators that several of them need: sorting
a set by an order that is given as a relation, and multiplying. What a loop
computes step by step (the units kept so far, the cards chosen so far, the
posts of a request) is a function of the number of steps. Shares are fractions
and compared by multiplying out: the models do not have the rounding of the
code's floating point. The period of a view is its range, or else its preset
(`PeriodOf`). The range `all` has no windows: callers that give it dates and a
preset as well are left out.

What the inputs of `InsightAnalytics` and `ServiceAnswers` may be is said by their
assumptions (`IsUnits`, `IsRows`, `IsLines`, `Strata` and the conditions on
connectors, windows, weeks, cohorts and candidates). They ask what the tables
and the schemas guarantee: finite sets, ids that name a row, times that were
parsed or are missing. They exclude no row that a reader can meet between two
writes: one whose analysis is stored and whose status is not set yet
(`application.py` 1460-1519), or one whose brand was set while its old analysis
is still there (`data_layer.py` 1731-1743). TLC evaluates all of them for the
inputs of the runs.

## 4. What the runs check

Every passing run terminates with all its states explored and every action of
its module taken. Deadlock is checked where the system should always go on
(the first six runs, whose idle states are steps of
their modules); the others end when their bounded calls are used up.

| run | instance | shows |
|---|---|---|
| `contention` | 2 threads, 3 calls, 1 file, no raising statement, fair | `OneElectedWriter`, `NoCircularWait`, `NoOrphans`; `QueuedRunsSettle`: an upload settles even when bodies fail |
| `faults` | 2 threads, 2 calls, 2 files of which one is generic, any statement raises, 1 crash, fair | `TypeOK`, `IngestedAtMostOnce`, `ImportAnswersAreFinal`; `ImplementsLedger`, and `CallsReturn` |
| `classification` | 2 items (one a replay), 3 causes, 2 contracts, 2 cut-off runs, fair | `RowsAgree`: analyses, statuses, skips and owners; `AttemptsAreDue`; `FailedIsRevisited` |
| `ingestion_audit` | 3 runs over 3 files and 6 rows, 2 faults | `AuditAgrees`: rows, run statuses, history, source health; `ReplaysAreCollapsed`, `ReplaysAreRefused` |
| `collector_polls` | 2 files, 4 contents, 3 writes, 2 faults, fair | `CheckpointIsTrue`, `FailedReadsAreNotRepeated`, `LastSnapshotIsPublished` |
| `scheduler_cycles` | interval 2, bound 11, 2 paid calls, 5 failures, fair | `CyclesAreSafe`, `StopEndsTheThread`, `FailedCyclesAreRetried` |
| `live_acquisition` | 3 pages on 2 URLs, 3 contents, 2 runs, units that raise, 1 cut or deployment, fair | `ReadsAgree`, `CompletedUnitsAreKept`, `RequestsAreDue`, `RunsEnd` |
| `marketplace_sync` | both platforms, 2 products, 3 kinds of calls, 4 reviews and a new one, 2 syncs, 1 change, 1 odd answer, fair | `CompletenessIsTrue`, `QuietSyncIsComplete`, `CompleteStoredAll`, `SyncEnds` |
| `insight_publication` | 2 topics, 2 builds, 2 operators, 2 patches, 1 cut | `CardsAgree`, `HistoryFollowsCards`, `EvidenceIsOfTheCard`, `DecisionsSurviveRebuilds` |
| `service_answers` | the inputs below | `CountsAreIndependent`, `ChangesAreMeasured`, `HealthIsRespected`, `SelectionIsFair`, `ViewsAgree`, `RepliesAreJudged`, `FilesAreReadWhole` |
| `startup_reference` (violated) | as `insight_publication` | a start-up overwrites a frozen reference |
| `unsafe_fallback` (violated) | as `service_answers` | the deterministic draft is refused and the rebuild raises |

Some properties are conjunctions with a name for each part (`RowsAgree`,
`AuditAgrees`, `CheckpointIsTrue`, `CyclesAreSafe`, `ReadsAgree`,
`CompletenessIsTrue`, `CardsAgree` and those of `service_answers`): the parts are
stated and explained one by one in the module, next to the code they are about.

Why the bounds are enough. Two threads are enough for every cycle of two locks
and for a busy caller beside a writer; three calls let an upload wait behind a
writer while a third call arrives; the proofs below lift the safety part to any
number. In `FeedbackLifecycle` items only meet in `todo`, so one ordinary item
and one replay cover each other's interference; three causes are needed because
two already quarantine; two cut-off runs allow a second failure during the
recovery from the first. Six rows are three replays of one content, a plain row
at the same URL, one ordinary row and one filtered row, and three runs allow an
import, its repetition and a later sweep. Three writes are a file, a torn
rewrite of it and its completion; two faults are a failed step and a restart.
The interval and bound of the scheduler are chosen so that doubling passes the
bound between two powers. In `LiveAcquisition` two pages share a URL and a
product has its own; contents are usable with an old or a new text, or a wall;
the second run resumes what the first left. One kind of call is the scheduled
collection, the other a prefetch of one page that refreshes it and asks the
agent. In `MarketplaceSync` three reviews
are one full page and a short one, and the pages may end at `MaxPages`; one
added or removed review moves a row over the page boundary. In
`InsightPublication` one topic monitors an improvement and the other does not;
the second build replaces cards and evidence of the first.

`service_answers` takes all inputs of these small kinds: three units in two
repost groups, windows, brands and sources, on the topic or not, with inferred
dates allowed or not; two strata with denominators around
the thresholds (2 in place of 10 or 20); five weeks of two topics with a
lookback of four; hours around local midnight; three candidates of three
strengths and two owners; up to four dashboard rows around each boundary of the
periods, which are asked for by range or by preset, with months of 10 days, a long range of 20 and three trend months in
place of 12; three rows on pages of one or two; four replies of each kind with
one transport and one validation retry; files of three lines with two
conversations, and of four lines where three are allowed. Each threshold is
crossed from both sides.

Fairness. Only weak fairness, and only of the program's own threads:
a running Python thread goes on (`Step(t)`), a supervisor restarts the process
and start-up is carried through (`StartUp`), the scheduler keeps starting runs
(`RunStep` of `FeedbackLifecycle`, `PollStep`), its loop goes on (`LoopStep`,
which rests on `CallsReturn`), a shutdown that began is carried through
(`Shutdown`), a run of the data layer and a sync go on because each of their
requests has a timeout (`RunStep` of `LiveAcquisition`, `SyncStep`). Python's
locks are not fair; that nobody starves in `QueuedRunsSettle` rests on the
finite number of calls in the instance: arrivals that never end could pass a
waiting upload by forever. Nothing obliges clients, producers, operators,
agents, customers, crashes or deployments.

## 5. Where the code and its documents disagree

Two runs show a disagreement:

* `startup_reference`: every start-up rebuild uses the run id "startup", so the
  next one overwrites the observation an operator froze (`application.py` 334,
  2316; `docs/DATA_DICTIONARY.md` 6-8 calls these facts immutable).
* `unsafe_fallback`: `generator.py` 151 calls the deterministic draft a safe
  fallback; it quotes a driver value, and its validation outside the `try`
  (155) refuses a number in it, which ends the rebuild.

Met while modelling, in the models as the code has them, and with no run of
their own:

* The file history is asked when an upload is queued and not when it is
  executed (`application.py` 884): two queued uploads of one content are both
  imported.
* A scheduled inbox scan imports a known file again and takes over its history
  row before it succeeds (`db.py` 849).
* Attempts are counted as distinct failure rows, so that the same failure never
  uses up its "one later pipeline retry" (`application.py` 1547, 1573). A failed
  row is tried in every run.
* Ownership and the deletion of the analysis made without it are two statements
  (`data_layer.py` 1731-1743); a run cut off between them leaves that analysis.
  `AnalysesKnowTheOwner` is stated for runs that were not cut off.
* The agent stage reads by the stored eligibility, Fetch by the current registry
  (`data_layer.py` 1019 and 732).
* Pages are settled before their units are stored (`data_layer.py` 1662-1681),
  and nothing stores the units later. They are lost when the run is cut off in
  between, and also when one unit raises while it is normalised or inserted:
  this ends the ingestion quietly (`db.py` 1057-1080), the acquisition goes on,
  and only the status of the ingestion run shows it. `CompletedUnitsAreKept`
  says that there is no third way.
* When the last update of an ingestion run raises (`db.py` 1082),
  `_execute_pipeline` settles the pipeline run as failed and returns
  (`application.py` 553-570), and a complete checkpoint is still recorded
  (1297-1342) beside an ingestion run that reads running. Everything it vouches
  for is stored, however (`CompleteStoredAll`).
* With `voc_allow_inferred_dates` (off by default, `config.py` 46) the rate may
  count the inferred post of a group (`application.py` 2576) whose reported
  repost is shown as evidence (2139). `EvidenceWasCounted` asks the evidence for
  the default, and the drivers for both settings.
* A preset limits the dashboard's counts, but its evidence only goes by the range
  (`application.py` 3504-3538, 4094). The HTTP endpoint offers no preset for the
  dashboard; callers of the service may pass one.
* A conversation's time is that of the first line that states one, even if it
  cannot be read (`file_import.py` 562-567).
* Improvement needs all source groups: observations are stored without theirs
  and read back with all (`application.py` 2331, 2065-2069).
* The dashboard counts completed analyses, the detail of a problem those of low
  confidence as well (`application.py` 3668, 4274-4281); `ViewsAgree` bounds the
  difference.

## 6. What is proved

`PipelineRunsProofs` holds for every number of threads, calls, crashes, files
and runs, under the assumptions named in `PipelineRuns` (the model values are
distinct from what they stand beside, the bounds are naturals):

* `TypeCorrect`: the type invariant.
* `WritersAreSerialized`: `SingleWriter`; `ElectionIsExclusive`:
  `OneElectedWriter`; `LocksAreAcyclic`: `NoCircularWait`.
* `UploadsRunOnce`: `IngestedAtMostOnce`; `BusyAnswersAreBegun`:
  `CoalescedRunHasBegun`; `RunsOnlyMoveForward`: `RunsMoveForward`.
* `LedgerImplemented`: the service implements `RunLedger`.
* `NothingIsOrphaned`: while statements do not raise and no process dies, a run
  that reads as running is executed by a thread (`NoOrphans`);
  `ImportsAreAnsweredFinally`: `ImportAnswersAreFinal`, whatever raises.

None of these is inductive by itself. The argument is one inductive invariant,
`IndInv`, a conjunction of named parts: the types; who holds which lock at
which `pc`, and with which depth; that a thread inside a body owns the active
id; that a run which was ingested is no longer queued; and that what a busy
caller observed was begun. Without the lock part a second thread could enter a
body; without the ingestion part a queued run could have been ingested.
`Invariance` proves it with one step per action; the theorems follow from it,
and the refinement proof uses it to show that what is live in the ledger is
what the holder of the pipeline lock executes. The last two theorems add a part
of their own: `OwnedInv`, that every running row has its thread as long as
nothing was lost, and `AnswerInv`, which follows what a caller has read of its
run through the places between the end of the body and the answer.

The other proof modules are built the same way: an inductive `IndInv` whose
parts are named, `InitInv`, one lemma per group of actions, `StepInv`, and the
theorem. Each holds for all values of the constants that satisfy the module's
assumptions.

* `FeedbackLifecycleProofs`, any items, causes, contracts and cut-off runs.
  `RowsAlwaysAgree`: `RowsAgree`; `AttemptsAreAlwaysDue`: `AttemptsAreDue`. A
  settled row and its analysis are written by two statements, so the invariant
  says which half is written at each place (`HalfInv`, `WholeInv`), and that
  what a run selected is still due when its turn comes (`DueInv`): nothing
  between the selection and the attempt makes an item undue.
* `IngestRepositoryProofs`, any files, rows, earlier replays, runs and faults.
  `AuditAlwaysAgrees`: `AuditAgrees`. `StoredInv` carries what the loop has
  stored so far to the registration of the file, and `HistoryInv` keeps it true
  of files registered before; the sequence of stored rows only grows, and a
  swept row keeps an older one of its content (`OldestExists`, by a least
  element). `ReplaysAlwaysCollapse`: `ReplaysAreCollapsed`, by `CollapseInv`: a
  marked row names the oldest row of its content and URL, and once one row is
  marked every replay is, because a row stored later is none;
  `ReplaysAlwaysRefused`: `ReplaysAreRefused`. These two assume of the tables
  left by earlier versions that no row is in them twice: `feedback_id` is their
  primary key.
* `RuntimeProofs`, the collector, any files, contents, writes and restarts.
  `CheckpointIsAlwaysTrue`: `CheckpointIsTrue`. The hard part is `ReadInv`: a
  read in two halves is a snapshot the file held only because its version
  counts the writes and never comes back; then `SettledInv` and `AheadInv` take
  that snapshot through import, commit and save. `FailedReadsAreNeverRepeated`:
  `FailedReadsAreNotRepeated`, by `FailedInv`, by which a page read in vain is
  remembered and is not among the pages still to read.
* `RuntimeProofs`, the scheduler, any interval, bound, failures and paid calls.
  `SchedulerIsSafe`: `CyclesAreSafe`. `OpenInv` says that the handle is closed
  only after the join of an ended thread. `PowersAssumption`, that a power of 2
  is a positive number, stands in for an induction; TLC evaluates it.
* `InsightPublicationProofs`, any topics, operators, patches, rebuilds and
  cut-offs. `TablesAlwaysAgree`: `CardsAgree`; `DecisionsAlwaysSurvive`:
  `DecisionsSurviveRebuilds`. `WrittenInv` relates what the rebuild concluded
  to the cards it has written; `ConclusionInv` and `AgeInv` keep the evidence
  of an improvement below a frozen share while patches change the history under
  the rebuild; `PatchInv` keeps the row an operator has read grounded.
  `HistoryIsCurrent`: `HistoryFollowsCards`, by `HistoryInv`, by which only a
  patch between its two statements is ahead of the history, and only one is
  while patches do not overlap; `EvidenceIsComplete`: `EvidenceIsOfTheCard`, by
  `EvidenceInv`, which says of the one card that is being replaced which
  evidence it has so far.
* `LiveAcquisitionProofs`, any pages, contents, limits, runs and deployments.
  `TablesAgree`: `ReadsAgree`; `UnitsAreKept`: `CompletedUnitsAreKept`, by
  `IngestionInv`: a run ingests once, after its extractions, so a unit is stored,
  or still staged, or its run's ingestion has the end that the audit shows;
  `NothingIsPaidTwice`: `RequestsAreDue`. `StageInv` says what each stage may
  still have open; `CachingInv` and `CacheInv` relate the cache of a URL to the
  newest usable read of any of its pages, across the two statements that write
  them; `DueInv` that what a stage chose when it began is still due when it is
  asked for.
* `MarketplaceSyncProofs`, any provider, products, reviews, page sizes and odd
  answers. `CompleteRunsStoredAll`: `CompleteStoredAll`. A product is in the
  manifest as pending before its first request, so a run that ends early leaves
  one behind (`ManifestInv`); what pages have shown is stored, or waits until
  the page is left (`GivenInv`). `CompleteIsTrue`: `CompletenessIsTrue`. The hard
  part is a product whose list changes while it is read. `ReadInv` says that
  the largest total reported so far counts a list to which all rows seen until
  now belong; with as many rows as that total the two are equal (`FS_Subset`),
  and nothing of the list was skipped. `StartInv` keeps the reviews of the
  beginning in every list as long as none was deleted, `MatchedInv` and
  `FoundInv` carry the finished products to the end of the sync, and `TakenInv`
  and `StoredInv` what was read to the tables. `QuietIsComplete`:
  `QuietSyncIsComplete`, the converse, for lists that fit into the pages that
  may be read (`PagesSuffice`, which TLC evaluates for the instance). `PageInv`
  says that the rows seen are the first part of the list, so that pages
  continue one another and the last one ends it.

* `ServiceAnswersProofs`, any inputs of any size, any thresholds, limits and
  retries. A state is a question with its answer, so an invariant is true of
  every answer or of none: there is nothing to strengthen, and the work is in
  what the operators compute.
  - `GroupsCountOnce`: `CountsAreIndependent`. `CollapseKeepsFirsts`: the loop
    over the units keeps the first unit of each group, whatever order they come
    in. So a unit that stands for its group among all brands (evidence)
    also does among those of the brand (the rate), and every group has at most
    one unit, one source and one product (`NoMoreThanGroups`).
  - `ChangesAreOfCustomers`: `ChangesAreMeasured`. The change of all channels
    is a weighted mean (`ChangeOfStrata`, over the product of the
    denominators), and a weighted mean is neither below nor above all it is
    the mean of (`MeanIsBetween`); the shares of two brands have the same
    weights, and sums of smaller summands are smaller (`SumMonotone`).
  - `HealthOnlyTakesAway`: `HealthIsRespected`. A stratum that fails only leaves
    the eligible ones and is then missed among the required groups; readiness
    counts at least the groups that a signal counts (`GroupsAreEnough`).
  - `StrongestThenSpread`: `SelectionIsFair`. By induction over the cards each
    was the best of those left (`TodayIsWellChosen`); evidence comes in
    rounds with one row of each product (`ProductsTakeTurns`).
  - `ViewsAddUp`: `ViewsAgree`. A set has as many elements as its parts have
    together (`SumOfParts`): the parts are products, months or days. Pages cut
    one sorted list (`InOrderSorts`), in which each place has one page.
  - `OnlyJudgedReplies`: `RepliesAreJudged`. `PostsFollow` and `PostSkipsFailures`
    say which reply a request ends with after any number of failures.
  - `EveryFileIsReadWhole`: `FilesAreReadWhole`. Units are single lines or
    conversations, and no line is in two (`OneUnitEach`); a bad line is never
    the first of a valid unit, so that without it the valid units are the same
    (`WithoutBadLines`).

  They rest on a small library in the same module. `MapThenFoldSet` and recursive
  functions are defined by a CHOOSE, so that something has to exist first:
  `FoldsExist` and `Recursion` build it, by induction with a set in the place of
  the predicate (`NatSetInduction`, `SubsetInduction`), since the installed
  provers cannot instantiate the library's induction over an operator. A fold
  whose operation does not mind the order may begin with any element
  (`FoldFirst`), once for sums and products: an operation is a function on
  pairs. That sums are taken over sets in the order of CHOOSE is no
  restriction, therefore.

Only model-checked: liveness, because TLAPS cannot reason about it under
fairness (`QueuedRunsSettle`, `CallsReturn`, `FailedIsRevisited`,
`LastSnapshotIsPublished`, `StopEndsTheThread`, `FailedCyclesAreRetried`,
`RunsEnd`, `SyncEnds`), and the two properties that the code violates.

## 7. What is not modelled

* The database handle's reconnection, the migrations, and that DuckDB threads
  share one result handle (`db.py` 717 fetches after the lock was released);
  the modules take a statement and its rows as one step.
* Text normalisation, language, redaction, source mapping and prompting: pure
  functions; they enter as constants (which rows a content holds, which identity
  a row has, which answer is grounded).
* CSV and XLSX reading, column detection, request signing and token exchange,
  exports, source status texts, locales and rendering.
* The demo mode with its seeded reference and business events.
* A Shopee shop with no source id (`application.py` 1303-1306): its sync is the
  one modelled, only without a checkpoint.
* The crawler's browser engine and the web dashboard.
* Several processes on one PostgreSQL database: `docs/ARCHITECTURE.md` 30-36
  demands one process, while the serverless deployment of the README (90-96)
  may run more; every module here assumes one.
* Operator scripts under `scripts/`.
