# Verification of patchman-engine

TLA+ models of the parts of patchman-engine in which several pods, goroutines,
transactions and Kafka consumers meet, the TLC runs that check them on small
instances, and TLAPS proofs of the results that matter most. `PROJECT.json` says
for every definition which lines of the repository it stands for.

Run a model with `tlc -workers 2 -config <run>.cfg MC<Module>`, a proof with
`tlapm <Module>Proofs.tla`.

## 1. The system

patchman-engine stores, for every host registered in Red Hat Insights inventory,
which advisories and package updates apply to it. Its processes share one
PostgreSQL database and talk through Kafka topics; there is no lock or coordinator
above those two. A host is in the database as `system_inventory` (identity, profile,
staleness), `system_patch` (`last_evaluation`, template, counts) and
`system_advisories`; per account, advisories are counted twice, in
`advisory_account_data` (deltas, the evaluator) and in `account_advisory` (recounts
per workspace, the aggregator).

| component | state | operations | talks to |
|---|---|---|---|
| listener: uploads (`listener/upload.go`) | event buffers, open transaction | validate, upsert the host, decide whether to evaluate, buffer and flush requests | inventory events in; database; evaluation topic out |
| listener: delete events (`listener/events.go`) | `deleted_system` | record the deletion, mark the host for culling | inventory events in; database |
| listener: template events (`listener/templates*.go`) | `template`, `system_patch.template_id` | create, update, delete templates, refresh their advisories and systems | content-sources events; rhsm |
| evaluator (`evaluator/`) | caches of packages and VMaaS answers | load, ask VMaaS, merge, compare, save packages, store, count, notify, publish | evaluation topics in; VMaaS; database; remediation, notification, advisory-update topics out |
| aggregator (`aggregator/`) | advisory buffer, timer | recount `account_advisory`, send the instant notification, mark it sent | advisory-update topic in; notification topic out |
| mqueue (`base/mqueue/`) | committed offsets | fetch, retry, panic, commit, write | Kafka |
| database (`database_admin/schema`) | triggers, PL/pgSQL functions | `check_unchanged`, `on_system_update`, cache refreshes, `delete_system` | everything |
| vmaas_sync (`tasks/vmaas_sync`) | `timestamp_kv` | synchronize errata, packages and repos; request re-evaluation | VMaaS; database; evaluation topic out |
| culling, cache refresh, backfill, cleaning (`tasks/`) | job progress | scheduled changes of many rows | database |
| manager (`manager/`, `turnpike/`) | caches of account ids and advisory details | queries; assignment of templates; admin calls | database and its replica, Candlepin, RBAC or Kessel |
| database_admin (`database_admin/`) | schema version, session locks | migration | database |

### What is hard

* **Nothing locks a system during an evaluation.** It is read, VMaaS is asked over
  the network, and the result is stored in a later transaction. Uploads, deletions and
  other evaluations fit in between.
* **Time stands for order.** `unchanged_since` is the *start* of the upload's
  transaction, `last_evaluation` the wall clock of the evaluator, the timestamp of a
  request loses its fraction of a second on the wire; all three are compared.
* **Requests are in memory.** The listener and the aggregator commit the offset of
  an event while its consequence is in a buffer.
* **Check, then act.** `deleted_system` is read before the upload is written; culling
  lists its candidates first; the cache job recounts and marks in two transactions.
* **Deltas beside recounts.** A wrong or missed delta stays until a recount.
* **Caches behind caches.** VMaaS answers, package ids, counts per account and details of
  advisories are cached in pods or tables, and put out of date by other processes.
* **A list is many requests.** VMaaS's pages move while the job downloads them, the
  manager's pages while a client follows their links.
* **Publish, then commit.** The aggregator can consume the event of a change
  before the change can be seen.
* **Kafka delivers again.** Retries, panics, rebalances and late commits.

`PROJECT.json` lists these hazards one by one, at the lines where they bite, with
the properties that cover them.

## 2. The modules

| module | models | proved in |
|---|---|---|
| `EvalPipeline` | upload, buffer, topic, evaluation, retry: the core of the system | `EvalPipelineProofs` |
| `MQueueReader` | consumer group of `base/mqueue` | `ListenerProofs` |
| `AtLeastOnce` | what that package promises: the abstract specification | refined by `MQueueReader` |
| `HostLifecycle` | upload, delete event and culling of the same host | `ListenerProofs` |
| `AdvisoryCounts` | deltas, trigger, deletion, recount and cleaning of `advisory_account_data`, and the evaluator's instant notifications | `DatabaseProofs` |
| `Aggregator` | events, buffer, timer, concurrent recounts and notifications of `account_advisory` | `AggregatorProofs` |
| `TemplateSync` | assignment of templates by the manager, content-sources events, Candlepin | `TemplateSyncProofs` |
| `DbMigration` | the migration Job, its advisory lock, LOGIN and sessions of the components, init containers | `DatabaseProofs` |
| `VmaasSync` | the vmaas_sync job against a VMaaS that goes on exporting | `VmaasCacheProofs` |
| `VmaasCache` | composes `VmaasSync` with the evaluator's cache of answers and the evaluations | `VmaasCacheProofs` |
| `UpdatesMerge` | operators: what yum and VMaaS report, merged and filtered | `PackageStoreProofs` |
| `PackageStore` | packages of systems: pod caches, lazy saving, storing, cleaning, counts per account; uses `UpdatesMerge` | `PackageStoreProofs` |
| `ManagerAccess` | operators: permissions and workspaces from RBAC or Kessel | `ManagerQueriesProofs` |
| `ManagerQueries` | the read-only API: lists, links, counts and caches; uses `ManagerAccess` | `ManagerQueriesProofs` |
| `MC*` | constants and symmetry for TLC | |

Two modules of proofs are about two components each: `ListenerProofs` extends `HostLifecycle` and `MQueueReader`,
`DatabaseProofs` extends `AdvisoryCounts` and `DbMigration`. So that they can, the second of each pair names its
specification apart (`ConsumerSpec`, `MigrationSpec` and so on).

### EvalPipeline

`row[s]` is the committed database row of a host. A listener reader goes through
`UploadBegin` (the transaction starts: `begin` is what `CURRENT_TIMESTAMP` returns in
it), `UploadWrite` (row lock, trigger `check_unchanged`, the `RETURNING` values)
and `UploadCommit`; then `UploadNoEval` or `UploadBuffer`. `Flush` and `FlushFail`
both empty the buffer, as `flushEvalEvents` does. An evaluator goes through
`EvalTake`, per system `EvalSkip` or `EvalLoad`, `EvalCompare`, `EvalStore`,
`EvalCommit`, `EvalPublish`, and then `MessageDone`, `MessageRetry` or `MessagePanic`. `Return`
overwrites the error of the previous system exactly as the loop of `evaluateHandler`
does. The payload of a host is a pair of checksums, and `Report` stands for VMaaS
(external): a function of that pair.

`raced[s]` is a history variable. It is set by exactly two events: an evaluation that
stores a result for data (or against stored advisories) that are not those it read, and an upload
that commits changed data with an `unchanged_since` older than the `last_evaluation` in
the row. `FreshUnlessRaced` then says that these are the *only* ways in which
a host that would be answered "no eval required" can show advisories of other data;
losing the buffer, failed sends, retries, redeliveries, skipped messages, deletion
and registration again under a new id are not.

### MQueueReader and AtLeastOnce

A consumer owns partitions, fetches in order and handles one message at a time; a
rebalance may take the partition away while it is busy, and its late commit may move
the committed offset of the new owner backward or forward. `AtLeastOnce` knows only sets: `done`
and `committed`. The refinement mapping reads a committed offset as the set of
messages before it; a late commit that moves an offset backward is a step that removes
messages from `committed`.

### HostLifecycle

Uploads, delete events and the culling job on the columns `stale`,
`stale_warning_timestamp`, `culled_timestamp` and the table `deleted_system`.
The job reads its candidates (`ORDER BY id LIMIT`) and then treats each in its own
transaction, with what it read and not with what is there by then. `excused[h]`
remembers that a delete event failed half-way or met an upload past its check.

### AdvisoryCounts

`Delta` is `calcAdvisoryChanges`, `Trigger` is `on_system_update`, `Recount` is what
`refresh_advisory_caches_multi` counts. `rows` are the rows of `advisory_account_data` that exist, the only ones
that can be locked or marked; the counts of the others are zero. `drifted` remembers the advisories for which the model
knows that a delta was not the difference of the shares, or that it was computed from
what a commit in between has changed; everything else must be exact. The causes are:

* an inexact delta of `calcAdvisoryChanges` (`Inexact`), or an evaluation that overlapped another change of its system;
* the trigger. A stale flag and a deletion are two steps: `StaleFlip` and `DeleteSystem` take the snapshot of the
  advisories (`pend[s].seen`), then `FlipCommit` and `DeleteCommit` wait for the rows that an evaluation holds, and add
  or subtract the shares they saw, although that evaluation may have changed them;
* the recount. `JobLock` locks the rows there are, `JobCount` has them and counts in a snapshot of its own, and
  `JobWrite` writes and deletes, also rows that were inserted in between. What others commit to those after the count
  is in `job.late`, and `JobWrite` writes over it. A row it has locked waits, and is safe.

`EvalStore` is the transaction up to its commit: `validSystem`, the rows, the deltas, and
`PublishNewAdvisoriesNotification`, which sends the advisories whose row counts a system
and has no mark, and marks them. The rows stay locked until `EvalCommit`, so other
evaluations, the recount and `CleanAdvisoryAccountData` wait. `silent` is a history variable for the known
ways in which an installable advisory is not announced. `JobErrOverwritten` is the `err` that
the goroutines of the refresh job share: a recount that failed, reported as done. `missed` says that the account
is marked valid all the same: by that error, a failed invalidation, or one of the causes above between the count and the mark.

### Aggregator

One account (accounts share only the buffer, and are separated when it is
flushed). Evaluators publish and then commit; `StaleFlip`, `MoveWorkspace`
and `DeleteSystem` change what is counted without an event. The reader, one timer
goroutine and the backfill job may each work on a batch: `RefreshRead` waits for the
locks of the rows that exist and takes the snapshot, `RefreshWrite` writes it. Rows that
do not exist are not locked, so two batches can overlap on them. `missed` and `unsent`
are history variables for the known ways to lose a recount or a notification. The
nightly drift check only reads and logs, and is left out.

### TemplateSync

One account. `tmpl` is the table `template` with its `template_advisory` rows, `tid` is
`system_patch.template_id`, `env` what Candlepin says, `cs` what Content Sources says,
`inst` the installable advisories of the stored evaluation. Listener readers go through
`TemplateUpdate` (upsert, fetch, difference, transaction, request) and `TemplateDelete`
(look up, request, unassign, remove the advisories, remove the template) one statement or call
at a time; errors are dropped, as `TemplatesMessageHandler` does. The three handlers
of the manager differ only in how they begin: then Candlepin is changed, the transaction is
committed and the request is sent, and each of the three can fail. An upload reads Candlepin and
writes `template_id` only if it found a template. Foreign keys are modelled: an assignment
to a template that is gone fails, and a template that has a system is not deleted.

The flags `template_advisory_eval` and `template_change_eval` are on (without them nothing is
asked for). VMaaS reports every advisory, so an evaluation stores the advisories of the
template; skipping of old messages is left to `EvalPipeline`; the deletion of a system during
an assignment shows as the failure of its transaction.

`missed`, `apart` and `lagging` are history variables: they record the known causes for which
an evaluation, an assignment or a template may be out of date, and the three
invariants say that there is no other.

### VmaasSync and VmaasCache

Time is the number of VMaaS exports. `Export` may come between any two requests of the job:
an advisory that changed moves in the listing, and every page says anew how many pages there
are. `runSync` reads the time of the export before anything is downloaded; `syncAdvisories`
stores one page of errata, in which some may be unusable and some updates may fail, and
`ErrataPageFails` half of one; `getUpdatedRepos` reads the repos page by page and `syncRepos` marks them in two statements; `storeTimestamps` comes
before the requests for re-evaluation, which `getVmaasRepos` prepares page by page and `SendMessages`
sends. `JobEnds` may happen at every step. `skipped` and `dropped` are history variables: advisories
that could not be stored, and systems whose request was lost in a known way.

`VmaasCache` adds the evaluator: a consumer looks up the checksum of the profile, calls VMaaS on
a miss (`CallVMaas`), adds the answer, which is the export it was computed from (`AddAnswer`), and stores the evaluation.
A call that fails for good is no fatal error: `CallFails` ends the evaluation with its message handled, as status 400 does, or goes on with the
updates of yum alone (answer 0). `StoreFails` is the transaction: its message comes again if the error is fatal and is not
overwritten. `SkipOld` is the request that `tryGetSystem` finds older than the stored evaluation: `old` has the systems
whose last request is, because that evaluation is from the same second or was still under way. `CheckValidity` compares at each tick
the timestamp that the job stored with the one the cache was reset with.
`EvaluatedUnlessLost` goes from one end to the other: a package update that the job has handled was
used in an evaluation of every system it concerns. `outdated` excuses a system that was evaluated by two
consumers at a time, or with a cached answer that need not hold the update (`CacheOutdated`): before
the reset, across it, or when the stored timestamp is itself older than the update. `missed` excuses one whose last evaluation failed or did
without VMaaS, or whose request is skipped as old although the evaluation had its answer before. Uploads, which a pod of their own evaluates, stale
systems and deletions are outside `VmaasCache`.

### UpdatesMerge and PackageStore

`UpdatesMerge` has the operators of `base/utils/vmaas.go` and of `getUpdatesData`: updates of yum are
installable, those of VMaaS are applicable for a satellite system, two lists are merged
without duplicates and reduced to the newest of every name. The reference definitions `Installed`
and `Installable` in `PackageStore` say the same by looking at all updates at once, and
`StoredMatchesReportedUnlessLost` compares them with what ends up in the database, when `package_cache` is on.

Two evaluator pods, for uploads and for recalculations, each with its cache `cache[w]`, go through `Begin`,
`lazySavePackages`, `loadPackages`, `evaluateAndStore` and `invalidateCaches`. An id is the position
of its nevra in `nevraOf`: a package that `deleteUnusedPackages` deleted and a pod inserted again
has two ids, and a cache may hold the old one. `Written(plan) \subseteq package` are the foreign
keys. The refresh of `package_account_data` is a step per statement; `accountsWithoutCache` and `RefreshCounts` read the
`ReadReplica`, which follows the primary at any distance where a deployment has one (`Replicate`), and the rest of the job writes to the
primary. A refresh that counted while the replica did not show the last rows (`Lagging`) is `dirty`. A deployment chooses which jobs
run and which profiles occur, so that TLC explores the interesting combinations and not their product.

### ManagerAccess and ManagerQueries

A client asks for a list, an export, a list of ids or the detail of an advisory and follows
the links. A request is the call of RBAC or Kessel, the lookup of the account, for some endpoints
a statement that prepares the list, and the statement that reads the page; `Change` actions (an upload, a stale mark,
a deletion, another grant, a refresh, replication, a restart of the pod) fit in between. Filters, the order,
offsets and links are operators named as in `controllers/`. A request carries no characters; instead the constant `Unescaped` says of the requests whose
filter values hold a plus, a blank, an ampersand, a number or a percent sign what a link of theirs asks for: `ToQueryParams` and
`createLink` write such values as they are, so `createLink(q)` gives the request that comes back, with a value that means something else,
that is cut short, or that is refused, and `walk.altered` records it. `walk.expected` is the whole list
at the first page and `walk.changed` says that some statement found another; `WalkExactUnlessChanged` compares what
the client saw with it. `CountsMatchLists` compares the three ways to count the systems of an advisory (computed,
`advisory_account_data`, `account_advisory`), and those of a package and a template, with the
list of systems behind them.

### DbMigration

A migrator goes through `UpdateDB`: the advisory lock, `unlock_users`, the decision of
`migrateAction`, `blockUsers` and `unblockUsers` user by user, `terminateAppSessions`,
`waitForSessionClosed`, `MigrateUp` (force, and for each file the version with the dirty flag,
the DDL, the clean flag) and the repair of `system_advisories_0`. `Panic` may happen at every
step between; `entrypoint.sh` starts the process again until `MIGRATION_MAX_RETRIES`. A second migrator
stands for a duplicate Job. Old components open and close sessions as they
like, as far as LOGIN allows. `CheckUpgraded` is the init container of a new pod: it
reads the same configuration as the Job, and the pod restarts it when it gives up. Every configuration is an initial state. The files
have the versions 1 to `Files`. The lock lives as long as its process: a lost database session
of the migrator is taken as its death.

## 3. The runs

| run | module | result | what it shows |
|---|---|---|---|
| `eval_fresh` | `EvalPipeline` | pass | two listeners, two evaluators and a recalculation: a system that looks evaluated shows the advisories of its data unless an evaluation overlapped another commit on it |
| `eval_live` | `EvalPipeline` | pass | crashes, failed sends, retries, panics: requests are consumed, and without a fault an upload that needs an evaluation gets one |
| `lifecycle` | `HostLifecycle` | pass | a deleted host stays doomed, stale flags converge, culled hosts are removed with a limit of one per run |
| `counts` | `AdvisoryCounts` | pass | counts are exact but for inexact deltas, overlaps and what a recount or a trigger writes from an outdated snapshot; a valid cache is exact but for these, between count and mark, or a lost error; an installable advisory was announced but for the known causes |
| `mqueue` | `MQueueReader` | pass | at-least-once delivery, refinement of `AtLeastOnce`, every message handled |
| `aggregator` | `Aggregator` | pass | counts current unless a recount was lost in a known way; notifications neither claimed nor forgotten; every event recounted |
| `templates` | `TemplateSync` | pass | installable advisories, assignments and templates are current but for the recorded causes |
| `vmaas_sync` | `VmaasCache` | pass | what VMaaS had exported at the stored timestamp is in the database, whatever pages move and whenever the job dies; cached answers are old only if a call overlapped a reset; an update reaches the evaluation of the systems it concerns unless it is lost in a known way |
| `packages` | `PackageStore` | pass | the stored packages and updates are those the system reported, whatever the caches hold and however ids change; valid counts are exact but for the known causes, a lagging replica among them |
| `manager` | `ManagerQueries` | pass | following the links gives every row once and in order but for the named cases; counts agree with the lists behind them; no hollow detail is served once the database has a full one |
| `migration` | `DbMigration` | pass | no session during DDL, no pod on an incomplete schema, nobody locked out without an abort, and without a fault the upgrade reaches the pods |
| `migration_serve` | `DbMigration` | violation | a migrator that dies after `blockUsers` leaves old pods without sessions and LOGIN |

Every property of a passing run is shown to be about the code by a mutant: a plausible
error in a mapped definition (they stand beside the definitions, named `Bug...`) under
which TLC finds the property violated. The type invariant of `MQueueReader` is not repeated in its
run: theorem `Delivery` proves it.

### Bounds

The bounds are CONSTANTS named `Max...`, and `Exports`. They are chosen so that each race needs
fewer steps than they allow: two uploads, so that one can overlap the
evaluation of the other; a second of two or three ticks, so that events fall in the same
and in different seconds; one or two faults, so that a fault can hit a retry; a limit of one candidate
with two hosts, so that candidates wait for the next run of the job; a buffer of two
events, so that both the reader and the timer flush; two files and two faults, so that a migration
can be dirty half-way and abort twice; three changes around one system and two templates, so that two
requests can overlap and a template can be deleted under them. Two readers, evaluators or
batches show every pairwise race; no step of the code involves three of them.

For the newer runs: `vmaas_sync` has five configurations, and `Exports` bounds for each what an export may change: where the job
asks for evaluations, packages of two repos on pages of one, the first a content set of two repos with a package in the first of three
exports, so that one can fall into each of two jobs and the second job can find a filled cache; where it does not, also two advisories and a third repo,
so that what moves under a listing falls into an earlier or a later page. One system and one consumer (the
theorems hold for any number), which may fail at every step. `packages` has four
deployments (recalculation and cleaning; a small cache, synchronization and cleaning; lists that overlap; culling and refresh, with a replica), two
uploads of one system, and one id more than there are packages; with every nevra parsable. `manager` has
three systems in two workspaces and one of another account, pages of one and two rows, three
configurations, four grants and one change around the client: with two, each statement could
find another list, which `walk.changed` excuses; and requests with each kind of value that a link does not escape. `counts` has two evaluations of two systems by two evaluators
and two stale flips, or a flip and a fault, so that an evaluation can overlap another, a flip, a deletion or a recount, with a flip that
finds the result; its systems and evaluators are symmetric,
since no step compares them.

### Fairness

* `EvalPipeline`, `MQueueReader`: weak fairness of the steps of each consumer (it polls
  in a loop, and transactions end) and of the flush timer, which is armed again by
  every event. Fault actions are not fair.
* `HostLifecycle`: time passes, and the job is a CronJob that runs again.
* `Aggregator`: as for the pipeline, and strong fairness of the steps of a batch, since it waits
  for row locks that PostgreSQL grants in the order of the requests.
* `DbMigration`: weak fairness of the migrators' steps (the process runs) and of the init
  containers (they poll). Nothing makes a component close its session, so the liveness
  property needs `terminate_db_sessions`.
* `AdvisoryCounts`, `TemplateSync`, `VmaasCache`, `PackageStore`, `ManagerQueries`: safety only.
  Their jobs are cron jobs that may fail every time, so nothing has to happen.

`CHECK_DEADLOCK FALSE` stands where the bounds end the behaviour, or where the system may
really stop: a blocked migrator sleeps until the next deployment.

### Where code and documentation disagree

`migration_serve` (*violation*) checks a statement of the migration runbook that the code does not keep;
`PROJECT.json` quotes the lines. Other disagreements are excused by name in the history variables
and premises of the passing runs, each of which shows that there is no further cause:

* Evaluation. A request in the same second as the stored evaluation, but after it, is skipped as old
  (`evaluate.go:458`; the loss of the fraction is in `timestamp.go`). A fatal error of one system of
  a message is overwritten by the next (`evaluate.go:775`), although `base/errors.go:14` calls it "fatal error restarting pod".
  The advisory update is sent before the commit (`evaluate.go:537`), although `docs/md/architecture.md` puts it after.
* Notifications. An evaluation that fails after the notification, or two that overlap, announce an
  advisory twice. The mark goes with the row when a recount or the cleaning deletes it; counts that drifted can
  suppress a notification; a system that comes back from stale is announced by its next evaluation only.
* Counts. An update counts a system as applicable again, and the end of an applicable advisory takes an installable one
  away (`evaluate_advisories.go:275`). `on_system_update` adds the shares of its snapshot, not those of the evaluation it waited for
  (`create_schema.sql:103`). `refresh_advisory_caches_multi` counts without a lock on the rows that did not exist when it began (`:124`).
* Synchronization. A failed call of VMaaS, unless its answer was status 400, is wrapped "fail hard" (`evaluate.go:328`), but not as a fatal
  error: the message is committed, and the evaluation waits for the next upload or change. The content-set overwrite of `getVmaasRepos` and the added second lose
  requests. When the request to `/dbchange` fails, or VMaaS exports after it, the job asks for evaluations of updates
  that the stored timestamp does not cover: no cache is reset for them, and a cached answer without the update is used. One erratum with an unparsable issued date fails the job.
* Packages. `storeOrUpdate` never sets `synced` on a row that exists, so the cleaning deletes packages that VMaaS
  lists (the comment in `clean_unused_data.go` says it does not). With `package_cache`
  off, single lookups find nothing. A store that a foreign key refuses is not a fatal error, and the message is
  dropped. A stale mark leaves `valid_package_cache` alone. The refresh counts on a replica and marks valid on the primary. `deleteOldCache` with no count at all is
  `NOT IN (NULL)` and deletes nothing. `getCounts` counts rows, so a system with two versions
  counts twice. `RemoveNonLatestPackages` compares by name only. Merging lists that hold a nevra that cannot be
  parsed does not end; the model leaves such a nevra out.
* Manager. Links repeat filter values without URL escapes (`filter.go:207`, `paging.go:36`): a time zone `+02:00` comes back as a blank and is
  refused, and a value with `&` or `#` is cut short and lists other rows. With `limit=-1` the next link has offset -1 and the last link is past the end. The last link misses
  a last page that is not full. The total of package versions counts rows before `DISTINCT`. A tag
  without a namespace is no filter, and its links are refused. Systems with several versions of a
  package tie in `package_systems`. Ids after a full last page are an error. The comment at
  `advisory_systems.go:61` says that stale systems can be listed; the query excludes them always. The
  `account_advisory` path shows nothing without a list of workspaces, ignores workload filters and takes the name
  of a workspace from any system. Exports of systems sort by id first. The second query of
  `/views/advisories/systems` does not repeat the workspaces. A failed lookup of the account does not
  end the request: it goes on with account 0 and finds nothing. A cached detail is not replaced when
  the advisory is modified.

## 4. The proofs

All constants are arbitrary, within the named assumptions.

* `EvalPipelineProofs!TypeCorrect` and `Freshness`: `Spec => []FreshUnlessRaced`, from
  `PipelineAssumption`. The invariant is not inductive: when an evaluation commits, freshness
  needs to know that its `stored` set is what the row held, and when an
  upload commits, that the `since` and `seen` it computed under the row lock are still those of
  the row. `WriterFits` says that (no two writers of a row at a time, and a
  writer's values agree with the row it locked); `FreshInv` is the conjunction with
  `TypeOK`. There is one lemma per group of actions: those that leave the rows
  alone, and one for each action that writes them.
* `ListenerProofs!Delivery` and `AtLeastOnceRefinement`, from `ReaderAssumption`:
  for any number of partitions, consumers, messages and retries, a committed offset has
  only handled messages behind it, and `MQueueReader` implements `AtLeastOnce`. The
  inductive invariant is `NothingSkipped`: a commit is safe because of what the busy consumer knows
  (`BusyInOrder`), which a fetch establishes from `FetchedIsHandled`, which a restart or a
  rebalance establishes from `CommittedIsHandled`. It also covers a former owner that commits
  late.
* `DatabaseProofs!MigrationTypeCorrect`, `Quietness`, `PodsStartUpgraded` and `NobodyForgotten`: all safety
  invariants of `DbMigration`, from `MigrationAssumption`. The inductive invariant `SafeInv`
  says of each migrator that it holds the lock exactly while it is inside (`HoldsLock`), that its
  `todo` bounds who has or lacks LOGIN (`LoginFits`), that sessions are gone when it applies something
  (`OpenFits`), and that it still has the reason for which it decided to migrate (`ActionFits`):
  without the last, a forced version could move the schema under pods that have started.
  `SchemaFits` carries the decision over an abort: only a migration that had its files leaves
  the dirty flag. A step of one migrator cannot disturb another because of `HoldsLock`
  (lemma `OthersFit`), so each action is proved for its own migrator.
* `ListenerProofs!TypeCorrect` and `DeletionHolds`, from `LifecycleAssumption` (there is a host, and the limits
  are positive). `DeletedIsDoomed` becomes inductive (`DoomedInv`) with `CheckedIsExcused`: an upload past its check of
  `deleted_system` when the delete event comes is exactly what `excused` remembers. The candidates the culling job
  read earlier need no invariant, since it only ever deletes.
* `DatabaseProofs!CountsExact`, `ValidIsExact` and `InstallableAnnounced`, from `CountsAssumption` (finitely many
  systems, so that a count is a number). Each action changes the set that is counted by one system, and lemmas on
  cardinality turn that into the delta. `ExactInv` adds that a system never evaluated has no advisories, that whoever waits with a snapshot has a
  system that exists (`PendingIsAlive`), that an advisory without a row has no counts (`NoRowNoCounts`), that a recount still has
  the right number of everything that is not in `job.late` (`CountIsFresh`), and that it has counted nothing for the rows it will delete (`DoomedIsZero`). A
  locked row stays fresh because nobody else holds it (`RecountHoldsAlone`). `ValidInv` carries the
  recount over the steps until the mark (`RefreshedIsExact`), and says that whoever puts a valid cache out of step has yet
  to invalidate it (`DriftIsAnnounced`). `AnnounceInv` is about the row locks between `EvalStore` and `EvalCommit`: a row
  has one holder (`OneHolder`), which has sent what it marks (`MarkIsSent`), and what it adds is marked or about to be (`AddedIsMarked`).
* `AggregatorProofs!CountsCurrent`, `NotifiedHolds` and `NotForgotten`, from `AggregatorAssumption` (finitely many
  systems). `CurrentInv` says of a snapshot that a batch has taken and not written yet that it is current, or another
  recount comes, or another batch with a current one is at work (`SnapCurrentUnlessMissed`), and that a row the batch did not see, and
  so did not lock, is still missing unless another batch wrote it (`UnseenIsMissing`). `SentInv` and
  `NotifyInv` say who is still at work on a notification (`NotifierAtWork`), and that the backfill job sends none.
* `TemplateSyncProofs!AssignmentAgrees`, `InstallableCurrent` and `TemplateCurrent`, from `TemplateAssumption`. `IdInv`: the
  table gives an id out once, so a row that was deleted and created again is not taken for the old one. `AgreeInv` follows
  a request from Candlepin to the commit (`RequestShape`, `AssignedSticks`), and knows every pair that overlaps
  (`OverlapKnown`). `InstallableInv` says that an evaluation is announced, under way or excused before what it is for
  is visible. `TemplateInv` says of a reader in the middle of `TemplateUpdate` or `TemplateDelete` that it still leads
  to what Content Sources has (`OnCourse`), or that the template is recorded as lagging.
* `VmaasCacheProofs!CacheOldHolds`, `SyncedHolds` and `EvaluatedHolds`, from `SyncAssumption` (finite listings of
  numbers, in whose order VMaaS lists them; positive page size, at least one export). `CacheInv`: no stored time
  is later than the last export, and an answer not added yet is as new as the cache unless it was reset since. `SyncedInv`
  has the argument about pages: a listing only grows while it is read, so the rank of a member only grows
  (`RankGrows`), it moves to later pages and never to one that was read (`PagesStored`). `EvaluatedInv` repeats it
  for `/repos`, where what changes under the job is dropped (`PagesRead`), and for the repos that are marked (`ReposListed`); and it says of every evaluation, and of
  every answer on its way, that it has the updates handled so far (`AnswersCover`), and of a request that is not `old` that no stored
evaluation will hide it (`RequestIsNew`). The bounded runs had not met the case
  that this proof turned up: a request for an update that the stored timestamp does not cover. `CacheOutdated` names
  it now, and the first export of the run holds a package, so that TLC meets it.

* `PackageStoreProofs!TypeCorrect`, `PackageCountsExact` and `StoredMatches`, from `UpdatesAssumption` and the
  assumption of `PackageStore` (profiles hold lists as `MergeVMaaSResponses` requires them: updates under their own
  package, sorted). `TypeInv`: ids are given out once, a nevra has one row and one id in a cache, and rows refer to
  packages that exist. `CountsInv`: a valid account is counted right or an evaluation has yet to invalidate it
  (`Busy`), and what the refresh holds is what the primary has unless it is marked `dirty`, as it is when the
  replica was `Lagging`. `StoredInv` says what the rows of a settled system are, and
  becomes inductive with `CleanInv`, which follows an evaluation that nothing disturbed: its list is that of the profile,
  all its packages have been saved, and its plan leads from the rows to the report. What the lists hold rests on
  lemmas about the operators: `MergeMerges` (the merge of two sorted lists is sorted and has the updates of both),
  `UpdatesDataReports` (the latest of the list is what the reference definition `Installable` finds), `StoredFits` (the rows that
  are written say so). The merge is a recursive function; no induction is needed, because of all pairs of positions that would
  be a counterexample one has the fewest updates left (`NatMin`), and that one cannot be.
* `ManagerQueriesProofs!TypeCorrect`, `DetailComplete`, `CountsMatch` and `WalkExact`, from the assumptions of `ManagerQueries`
  (finite tables with typed columns and the foreign key of `system_advisories`; requests that the routes accept). `Ordered` gives a
  row the position of the number of rows before it, and `Ranked` shows that a strict total order on a finite set fills every
  position once, so that a list is known by its set and its order (`Lists`). From there `CountsMatch` is about cardinalities: the counts of
  `account_advisory` are summed over workspaces (`SumCounts`), and every path counts the set of which the list is made. `WalkExact` needs to
  know where a client is: `Before` says what it has seen when it waits for the page at an offset, and `Got` when
  it has it, each for the three ways to walk (onwards, by ids, backwards). `UpTo` and `After` are the parts of the list
  on either side of an offset, and a page joins them (`ComesAfter`, `ComesBefore`). A page that is read answers to the list
  of the first one because the filters of a link come back as they were (`FiltersAgain`) unless the link was `altered`, which is known as soon as
  it is followed (`AlteredHolds`), and
  the order has no ties (`NoTies`) outside `package_systems`; the links lead to the next part because of the arithmetic of `createLastLink` and
  `createPreviousLink` (`NextLink`, `LastLink`, `PreviousLink`). Backwards, the pages join only if the offsets are
  multiples of the page size, as they are when the last page is full: the property excuses the others.
  The proof turned up a case that the property had left open: backwards through an unlimited list, where
  the last link leads past the end; it is named now, and a request of the run meets it.

Every component with a theorem also has its type invariant proved (`TypeCorrect`; `MigrationTypeCorrect` for `DbMigration`; for
`MQueueReader` it is a part of `Delivery`). TLC checked the invariants on the instances of the runs before they were proved.

Only model-checked are the liveness properties: `EventsRecounted`, `RequestsConsumed`, `UploadEvaluated`, `StaleConverges`,
`CulledRemoved`, `UpgradeReachesPods` and `EveryMessageHandled`. Fairness is out of the prover's reach. Every invariant and action property that
a passing run checks is also proved.

## 5. What is not modelled

* Kafka, PostgreSQL, VMaaS, Candlepin, content-sources, RBAC, Kessel and inventory are external: modelled by what the
  code relies on (ordered partitions and committed offsets; row locks, READ COMMITTED
  snapshots; an answer that depends on the request).
* Listener: validation of the message, the download of yum updates from S3, the rows of `repo` and
  `system_repo`. Each is a function of one upload.
* Manager: search (a text in a link has the fate of a filter value without escapes), subtotals, the statement for `has_systems`, the details of systems and packages,
  the deletion of a system (it calls the function that `HostLifecycle` models), request limits and timeouts.
* The order of rpm versions is the order of numbers, and a checksum is the data it is of.
* `deleteUnusedAdvisories` (one statement, like that for packages), `refresh_system_caches`, repack (an
  external program) and the recovery of partition 0 (a one-off job whose requests skip notifications, an
  input of `AdvisoryCounts`).
* `reset_schema`, `update_users` and `update_db_config` of the migration.
* Turnpike starts other components' code; the platform mock is for development; metrics,
  payload tracker events and inventory views are written after the fact and read by nobody here.
* Wording and layout of logs, notifications and API answers.

## 6. Plan

Order: what decides which advisories a user sees first, then what the users see counted,
then what surrounds it.

1. Done: all modules of section 2, and the proofs of section 4: every safety property of every run.
2. Next models: upload ingest (repositories, yum updates) and search, if a property across
   several steps turns up for them.
