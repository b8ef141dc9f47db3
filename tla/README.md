# CyberBrain in TLA+

A verification development for CyberBrain, a memory and knowledge server for
agents. It models the parts in which several processes share a store without
transactions, checks them with TLC on small instances, and proves the central
safety properties for every instance with TLAPS.

## The system and its parts

CyberBrain keeps *Knowledge* (versioned, canonical conclusions) and *Episodes*
(what happened in a session) in two Qdrant collections, and its work queues in
SQLite files. Three processes run: the API server (`api/main.py`, many request
threads), the dream worker (`dreaming/main.py`, one loop) and the dream
scheduler (`dreaming/scheduler.py`). They share nothing but the collections, the
SQLite files and one lock file. Qdrant offers single-point writes and no
transactions; SQLite offers transactions within one file.

| Part | State | Operations | What is hard | What makes it correct |
| --- | --- | --- | --- | --- |
| Knowledge evolution (`knowledge/evolution.py`) | Knowledge records; a lock file; a lock per identity | `store`, `reconcile_pending`, recovery inside `store` | a version takes three writes; any of them may fail, lose its answer or be cut by a crash; two processes and many threads | one active version per identity, linear append-only history, staged versions always recoverable, nothing acknowledged lost |
| Relation index (`relations/storage.py`, `maintenance.py`) | projections inside the records' extensions | `rebuild`, census, checkpoint, apply | writes back extensions read earlier | does not disturb the evolution protocol |
| Dream queue (`dreaming/queue.py`) | one job per session | enqueue, claim, retry, recover, defer, settle, bulk requeue | rows rewritten by id by four parties | attempts bounded, settled means done, every job settles |
| Dream worker (`dreaming/worker.py`, `session.py`) | the job at hand | load, reason, write back, mark, settle | errors and crashes between steps on two stores | episodes marked only after the writeback and completely |
| Dream scheduler (`dreaming/scheduler.py`) | none | scan, enqueue after a quiet period | acts on a stale scan | pending sessions get a job |
| Reason task inbox (`dreaming/reason_task_inbox.py`) and MCP-first reasoner (`run_reasoner.py`) | tasks with leases, runs | register, publish, claim, submit, fall back, retire | late submissions, lost leases, wall clock steps, fallback racing a provider | the acknowledged answer is the one used, answers are final, runs end |
| Promotion, audit, review, writeback (`promotion.py`, `audit.py`, `operations.py`, `writeback.py`) | runs, decisions, resolutions, written rows | evaluate, write and record, list, review, rescue | decision, write and record are separate steps of three processes | nothing written that was not decided, resolutions final, rows true, listing complete |
| Evidence retrieval (`engine.py`, `retriever.py`, `associative.py`, `planner.py`, `orchestration.py`) | what one attempt gathered | plan, recall bucket by bucket, expand, deduplicate, build tasks | the store moves between two searches of one gathering | evidence in scope, nothing falls between two buckets |
| Evidence gate (`gate.py`) | none (pure) | evaluate | merging duplicates changes the candidates it iterates over | decision a function of the evidence, merges lose nothing |
| Fallback router (`fallback_router.py`) and its client (`adapters/mcp_transport.py`) | cooldown per route and model, the call served | `reason_task` | a call outlives its client, cooldowns outlive a call | tries what it may, in order; rests only what failed |
| Tenancy (`tenancy/`) and the tool surface (`api/http.py`, `mcp/server.py`) | quota rows in SQLite, authority of a call or job | authenticate, authorise, reserve, dispatch, snapshot, restore | concurrent reservations, window edges, legacy rows | never over budget, all keys or none, no foreign row |
| Prediction learning (`cognition/prediction.py`, `coordination.py`, `producer.py`, `heartbeat.py`) | predictions and outcomes as Episodes; two kinds of locks | record, resolve, observe, pending, calibrate, track a command | retries from two processes, two scrolls that may be cut | what was acknowledged is stored, reports are sound |
| Recall (`cognition/runtime_path.py`, `knowledge/search.py`, `memory/service.py`, `retrieval/`, `concepts/`) | a window of concept evidence in process memory | search, rank, revalidate, select, touch, answer | a call of many storage calls beside other servers | hidden rows not returned, touched rows recallable |
| Memory lifecycle (`lifecycle/`, `salience/`) | lifecycle fields of records | evaluate, apply, record access | read-modify-write of single fields | counts true, protected records stay |
| Working memory (`working_memory/`) | one snapshot per process | select, activate | bound, rank and clipping in one pass | budgets kept, rank respected |
| Relations (`relations/`) | assertions in extensions, projections, a checkpoint file | propose, admit, review, traverse, roll out | cycles, budgets, stale anchors, versions that change under a traversal | paths held, complete unless cut, reviews name what they change |
| Self-model (`self_model/`) | Knowledge records of its class | propose, accept | readiness on incomplete scans | fail closed |
| Bounded reasoning, agent adapter, backup, migrations | none, none, files, files | see `PROJECT.json` | | |

Interactions: the API server calls evolution, memory, the dream operations and
the inbox; the scheduler reads Episodes and writes the queue; the worker claims
from the queue, reads and marks Episodes, runs the reasoner (which talks to
providers through the inbox, served by the API server), audits, and writes
Knowledge through the same evolution code as the API server.

`PROJECT.json` lists every part with its status, and every hazard at its line.

## Modules

| Module | Models | Refines / uses |
| --- | --- | --- |
| `KnowledgeEvolution` | `store`, `_recover_pending`, `reconcile_pending`, `_process_guard`, the identity locks, the Qdrant calls, start-up, `RelationIndex.rebuild` | refines `KnowledgeHead` |
| `KnowledgeHead` | abstract: an identity has a numbered head that moves one version at a time and may be hidden for a moment | |
| `DreamPipeline` | scheduler, queue, worker loop, session loader | |
| `ReasonTaskInbox` | inbox and one runner per run | |
| `DreamReview` | promotion audit, review, writeback, rescue script | uses evolution's effect as shown there |
| `PredictionLearning` | predictions, outcomes, guard, tracked commands, the readers | |
| `TenancyPolicy` | the pure part: scopes, decisions, attribution, filters, snapshots, charges | |
| `RequestPath` | a tool call on several servers, the limiter, a job on the worker | extends `TenancyPolicy` |
| `MemoryLifecycle` | the pure part: scores, decisions, the fields they write | |
| `WorkingMemory` | the pure part: ranking and budgets of the active context | |
| `RecallPath` | a recall on several servers, storage call by storage call | extends the two above |
| `RelationGraph` | assertions, their review, traversal, packing for dreams, rollout | |
| `DreamEvidence` | the pure part: buckets, scope, expansion, tasks | |
| `EvidenceGate` | the pure part: fingerprints, confidence, decision, merge | extends `DreamEvidence` |
| `DreamReasoning` | a job's attempts: gathering, router, assembly, gate | extends `EvidenceGate` |
| `KnowledgeEvolution_proof`, `DreamPipeline_proof`, `ReasonTaskInbox_proof`, `DreamReview_proof`, `PredictionLearning_proof`, `RequestPath_proof`, `RelationGraph_proof`, `DreamReasoning_proof` | theorems | extend the module they are named after |
| `MC*` | instances for TLC | |

Definitions that begin with the comment "Wrong variant" are not used by any
specification: each is a plausible mistake in the code, put in the place of the
right definition to see the properties fail.

### KnowledgeEvolution

`points` is the collection: a record per id with status, key, version, content
and the three links (`supersedes_id`, `superseded_by_id`,
`_evolution_previous_id`). A key is an entity, as the caller spelled it, together with a
context; `Trimmed` and `Folded` say which spellings `strip()` and `strip().lower()` make
equal. Locks and the start-up reconciliation go by `Folded`, the storage filters by the
spelling, and the reconciliation recovers under the trimmed one. Contents are told
apart as `content_hash` does. A thread's `pc` names the storage call it
makes next, so each call is one atomic step: `guard` (flock), `reconcile`
(scroll at start-up), `lock`, `recover` (scroll for a staged version),
`retrieve`, `r_supersede`, `r_activate` (recovery's writes), `search`, `upsert`,
`supersede`, `activate`. Validation before the locks changes no state and is
part of `StoreBegin`.

Failures: a call fails without effect (`CallFails`), a write takes effect and
its answer is lost (`WriteLostAnswer`), a write times out and may land at any
later time (`WriteTimesOut`, `DeliverLate`, only with `LateWrites`), the embedding
service fails (`EmbedFails`), a process dies with all its threads and its flock
(`Crash`). `Restart` runs `reconcile_pending` before anything is served; if that
raises, the process goes down again. An exception leaves both locks and nothing
else, as the `with` blocks do.

`SearchHits` is any subset of the active records of the entity of at most
`SearchLimit` members: the lookup is a vector search with a limit and without a
context filter. The relation index rebuild reads a record's extensions and
writes them back later.

### DreamPipeline

`eps` is the dream status of an episode, `jobs` the queue row of a session (status,
attempts, and whether `available_at` has passed), `order` the order `claim_next` serves,
`cand` what the scheduler's scan found and has not yet enqueued, `wpc`/`wloc` the worker's
step and locals. `dreamed` and `forced` are history: the episodes read by the session's
last written-back run, and the sessions a caller asked to dream. `retry_failed`,
`recover_processing` and `requeue_all_failed` are two statements each (select, update by
id) outside a common transaction and are two steps; `enqueue`, `claim_next`, `defer`,
`mark_processed` and `mark_failed` are transactions of their own, one step each. The bulk
requeue belongs to the rescue script, another process: `rescue` holds the rows it
selected, at most `RequeueLimit` of them, and the update tests the status of none. An
error of the worker may come at each of its storage calls, `mark_processed` included
(`Raise`). Load, reasoning, writeback, the second scroll of `update_status` and each
`set_payload` are separate steps, between which the worker may raise or die.

### ReasonTaskInbox

One row per task (status, claim token, lease, deadline, answer and route), one
per run, one runner per run. Times are small integers; `wall` may be stepped
(`ClockStep`), `mono` may not. Tokens are numbered in the order of claims.
`acked` holds the answers a provider was told are stored. Each inbox method is
one `BEGIN IMMEDIATE` transaction and one step; the runner's wait, read, fallback
call and store are separate.

### DreamReview

`run`, `decision`, `review`, `row` are the four audit tables, `hist` the versions
of an identity with the candidate that caused each. The worker writes all
candidates of a run, keeping the results in memory, and then records them; a
reviewer reads the resolution, inserts his own, checks the prior row, writes and
records, in five steps; the rescue script selects once and then writes and
updates row by row; a client pages through the pending reviews with the cursor
of the last row. The gate is any assignment of its three decisions. A knowledge
store appends a version unless the head has the same content; one cut short may
or may not have taken effect (recovery completes it before the next store of
that identity, which is `KnowledgeEvolution`'s business).

### PredictionLearning

`store` holds the prediction episodes by id, `outcomes` the outcome episodes.
A prediction with a correlation id has an id computed from its attribution and
correlation (a retry hits the same point); one without has a fresh id. A
recording is `RecordBegin`, `GuardThread` (the process's lock of the stripe),
`GuardFile` (the file lock of the stripe), `Lookup`, `Put`; either lock may time
out (`GuardTimeout`), each call may fail without effect or after it
(`RecordFails`), and a write that timed out may land later (`DeliverLate`). A
resolution is two calls, `ResolveLoad` and `ResolveStore`. A tracked command
(`Track*`) records, runs, resolves, and on an exception resolves again as the
`except` branch does; it may be killed. Readers make two scrolls
(`ScanPredictions`, `ScanOutcomes`), each of which may be cut at its limit; what
they compute (`Pending`, `Observation`, `Calibration`, `StaleCount`) are operators
over the two results.

### TenancyPolicy and RequestPath

`TenancyPolicy` translates the decisions of `tenancy/policy.py`, `principals.py`,
`durable.py` and `mcp/server.py` as operators over scopes of the five identity dimensions:
`Decide`, `Attribution`, `Visible` (the storage filter), `SnapshotVisible` (in Python) and
`SqlVisible` (in SQL), `Authorized`, `Charges`, `QuotaKeys`. In `RequestPath` a tool call
is `CallBegin` (authenticate, authorise, take the time stamp), `Reserve` (one `BEGIN
IMMEDIATE` transaction, at any later time up to SQLite's patience, else `ReserveTimeout`),
and a dispatch: `ReadCall`, `StoreCall`, `EnqueueCall`, `Approve` or `DispatchFails`. The
worker claims a visible job, restores its authority, reserves and runs. Rows and a job
from before principals existed are in the initial state. `charged` is the ledger as it
should be: what was admitted. `RegistryAssumption` is what `PrincipalRegistry.load`
ensures: a credential names an entry, an entry has a finite scope; `RequestAssumption`
what `quota.py` does: every resource but the size of a recall has a window.

### MemoryLifecycle, WorkingMemory and RecallPath

Scores are integers (percentages and their products), and time is a count of quarters of a
year, the unit in which ageing matters. `Facts` of a record never change, its payload
does. A recall is a search (`RecallVector`, or `RecallLexical`, `RankCorpus`,
`Revalidate`), `Process` (working memory and concepts decide on the rows), then for each
row `AccessRead`, `AccessWrite` for the selected ones and `EvaluateRow` with its write,
and `Answer`. Concepts are what `concepts/discovery.py` finds in the rows the process
remembers, grouped by domain and topic: enough support (more where all of it is Knowledge,
several sessions where an episode is among it), breadth, no generic topic. A concept
competes for the context and raises the retention of the rows of its topic. `ExactRecall`
is the fetch by id. Other servers, `RecordMoves` (a dream of an episode, a supersession)
and `Restart` come in between. `raced` marks records on which two accesses overlapped: for
those the code gives no count.

### RelationGraph

A record carries the assertions of its version; a write is a read
(`ProposeRead`, `ReviewRead` or `ContentStore`), admission with the proofs' state,
and the staged protocol of `KnowledgeEvolution` in four steps (`Enter`, `Stage`,
`Supersede`, `Activate`), cut short by `Crash`. Here its failures are reduced to that
crash, since `KnowledgeEvolution` covers them. A recall reads page by page
(`ReadSeeds`, `ReadOwners`, `ReadHeads`, `ReadProofs`, `Hydrate`,
`HydrateEpisodes`), expanding level by level with its budgets and revalidating
each path on the last read. The rollout takes a checkpoint, scans, writes the
projections one record at a time, each write with the assertions and the evolution
state of the scan, and verifies. `rollout.undone` and `before` are history: the
versions that such a write put back to pending, and those put back before this scan;
`complete` says that a rollout reported success at a moment when no write was half
done. `AllPaths` is the reference definition: the paths there are, by recursion on
the depth, without reads, levels and budgets.

### DreamEvidence, EvidenceGate and DreamReasoning

Which texts belong to a topic, what a query hits and what a record is associated
with are constants; the ages of records, the edges of the buckets, limits, scopes
and the order are modelled. `DreamReasoning` runs the attempts of a job: `Load`, then for
every topic and bucket its own query and those of the associations it brings up, level by
level; each recall is a search of the episodes (`SearchEpisodes`) and one of Knowledge
(`Recalled`), and each group of related records a step of its own (`RelateGroup`). Then
a task after the other is answered by a provider (`AnswerMcp`) or by the router
(`CallRouter`, `Serve`, `ModelAnswers`, `ModelFails`), `ClientTimeout`, `AssembleAndGate`,
and `Retry` after an exception. `Move` lets others touch, store and supersede records
between any two of these searches. The reads inside one relation recall are one step here
(they are `RelationGraph`'s subject), and what its budgets leave is the constant `Related`.
A claim may cite any positions of its task's evidence, in any order and repeated. The
router serves one call at a time and goes on with a call whose client has given up; calls
given up while they were queued stay in its `backlog`, ahead of those of later attempts.
`misses` counts protocols that failed, which is what a rest is earned by. `Evaluate` follows
`gate.py` in integers; `Gate` folds over the candidates in order, changing an
earlier one in place when a duplicate merges into it.

## What TLC checks

All runs that can stop say so (`CHECK_DEADLOCK FALSE`): the environment's bounds
are used up, or nothing is queued. The evolution runs check deadlock.

| Run | Instance | Shows |
| --- | --- | --- |
| `evolution_two_processes` | 2 processes, lock file, 1 identity, 3 records, 2 contents, the rebuild, 1 fault, 1 crash | type, one active version, recoverability, `VersionChain` (linear history, no forks, retries add nothing), history is only appended; a pending marker the rebuild brings back is harmless because the status is checked too |
| `evolution_one_process` | 1 process without lock file, 2 threads, 2 records, 1 fault, 1 crash, fairness | the identity locks suffice within a process; `RecoveryCompletes` (the process always comes up, and where stores of an identity keep coming its staged version gets activated); refinement of `KnowledgeHead` (under the same premise a hidden head returns) |
| `evolution_late_writes` | 2 processes, 2 spellings of one entity, forced stores, a write that may land late, 1 crash | a head is never lost, acknowledged versions endure |
| `dream_pipeline` | a session of up to 4 episodes with limit 3 and one without episodes, 2 attempts, one error, crash and bulk requeue in its two statements | `QueueConsistent` (types, counted attempts bounded), marks after writeback, processed is complete and is taken back by no step but the update of a requeue that had selected the row before, refusal at the limit instead of partial marks |
| `dream_liveness` | 2 sessions, fairness, one crash and deferral | `WorkGetsDone`: every job settles (`JobSettles`), every pending session gets a job (`ScheduledEventually`) |
| `inbox` | a run with one task and one without, 2 answers, 2 claims, lease 1, wait 2, one clock step, one publication, retirement, fairness | `AnswersKept` (the acknowledged answer wins, the last claim wins), `InboxConsistent` (used is stored, no task of a live run is lost), no replay, answers final, every run ends |
| `review_writeback` | 2 candidates of one entity, one without a domain; 2 reviewers, rescue, a client with pages of one row, another writer, one failure | written was decided, rows true (`AuditConsistent`), listing complete, resolutions final |
| `predictions` | 2 threads of one process and 1 of another, 1 correlated prediction, 1 tracked command, 1 reader with scan limit 3 and list limit 1; 3 calls, 1 error, 1 late write | what was acknowledged is stored; `LearningSound` (outcomes fit, pending and observe sound, calibration counts distinct predictions); the heartbeat sees the stale ones; no failure makes a failed command a confirmed one, and without a storage error its one verdict is that of its exit |
| `request_path` | 2 servers, 1 worker, 2 tenants with a user of the same name, one caller bound to a project, a session and an agent, modes `agent_ready` and `multi_user`, a budget of 1 or 2 in windows of 2 ticks, 3 calls | `QuotaExact` (ledger exact, writes within the budget), isolation, `AuthorityConsistent` (both snapshot filters agree, no approval that cannot be written, but for the ambiguous principals named below) |
| `recall` | 2 servers, 4 records and a quarantined one, vector, hybrid and exact recall, 3 calls, 1 fault or restart, one quarter passes | `RecallSound` (answers and contexts), `AccessSound` (counts, non-recallable classes), what a call touched is recallable |
| `relations` | a cycle of 3 entities with a record and an episode as proofs, and the same store before the rollout with an interrupted version; 3 writers of which 2 review, 2 events, 3 kinds of recall | `PathsSound` (types, paths held at one moment, dreams get whole paths), `PathsComplete` (none missing unless a limit is reported), rollout sound, reviewed assertions kept |
| `reasoning` | 2 session episodes, 1 older one and 2 knowledge records on bucket edges, 2 topics, 2 router pairs, one of 1 protocol that rests for one tick and one of 2 protocols that never rests, 2 attempts, 3 faults or claims, 3 ticks | `EvidenceExact` (in scope and complete), `GateSound` (promotions supported, merges exact), `RouterSound` (configured order, earned rests) |

A property named here that is a conjunction of named parts is checked as one; each part
has its own definition, comment and wrong variant.

Bounds. Three records hold a predecessor, a staged successor and a competing write, the
smallest number at which a fork or a lost head can appear (the liveness run makes do with
a predecessor and its successor); a fault beside a crash reaches a failure during the
recovery of a failure; one crash stops a process at every step and lets it restart beside
a live one. Two attempts reach retry and exhaustion; with four episodes and a limit of
three a session is below, at and above the limit, and below it has more than one episode
to mark. Times up to 4 let a lease of 1 run out twice within a wait of 2. Three prediction
calls are a recording, its retry from another process and a resolution; with three records
in a scan it is below, at and above its limit. A window of two ticks and three calls fill
a budget, exceed it and cross into the next window while a reservation waits. Three
recalls over two servers overlap and follow each other; one quarter of a year takes a
record from ordinary to suppressed, and its next touch back. Two relation events put a
complete version, or one crashed half way, under a running traversal; three entities are
the shortest cycle of a causal chain closed by a contradiction. Two attempts leave a call
of the first with the router while the second asks; two routes with one and two protocols
distinguish the failure of a protocol from that of a route, and a cooldown of one tick
beside one of none makes a pair usable again within a call, or never rest. The concept policy of `recall` is scaled down with its
window of evidence: three rows of Knowledge, or two with an episode among them; the bulk requeue of `dream_pipeline` takes one row instead of a hundred.
`dream_liveness` has no bulk requeue: it may take up its job again and again, and one is
already too much for TLC there. Record ids, the episodes of a session, servers and
reviewers are symmetric in safety runs where they are only compared for equality; liveness
runs use no symmetry.

Fairness. `evolution_one_process` assumes that a thread
inside `store` keeps running, that the locks are handed to waiters, and that a process
that died is restarted (the compose file's `restart: unless-stopped`). That alone brings a
process back up. A staged version of a live process is completed by the next store of its
identity, so what is said of it (`PendingResolved`, and `HeadReturns` in `RefinesHead`)
has a premise, `StoresKeepComing`: callers do store to that identity again and again. It
is part of the property, per identity, and no assumption of the specification: the code
cannot make callers come back. `dream_liveness` assumes that worker and scheduler loops
run and that time passes. `inbox` assumes time passes and the runner runs; nothing is
assumed of providers. The specifications have fairness for no caller, error, crash or
operator. The other runs state safety only: their calls end by themselves, and what they
wait for (a lock, SQLite, a model) is left by a timeout that is an action of the model.

### What the modelling brought up

#### Where the code differs from what it or its specification says

Four behaviours of the code are in the model as they are in the code, and no property
claims what is said of them. The first and the third can be seen by giving the constants
the values named.

* The predecessor is looked up among ten hits over all contexts of an entity
  (`knowledge/evolution.py:347`). An entity with more can get two active versions in one
  of them, against `specs/EVOLUTION_SPEC.md:9`, "at most one version is `active` after a
  successful evolution operation". With one thread, `SearchLimit` 1 and two `Contexts`,
  `AtMostOneActive` fails without a fault; this is why `Deployed` below bounds the
  contexts.
* `specs/EVOLUTION_SPEC.md:13` says "Canonical identity is computed from normalized"
  fields. The lock is named by them, but the filters match what was spelled
  (`knowledge/evolution.py:124`): each spelling of an entity has an active version of its
  own. `AtMostOneActive` is about the identity as spelled.
* Two staged versions of two spellings make `reconcile_pending` raise
  (`knowledge/evolution.py:223`) at every start, although each could be recovered alone,
  and the comment at line 588 promises "A later store call completes activation". A
  deployment of one process has nobody left to store. With two `Entities`, `Folded` to
  one, four `Ids`, one thread, a fault and a crash, `StartupCompletes` fails.
* The bulk requeue of the rescue script is documented as "Reset failed dead-letter jobs"
  (`dreaming/queue.py:236`). It updates by id the rows it selected before, and so takes
  back a job that was retried and processed in between (`dreaming/queue.py:254`):
  `ProcessedIsFinal` names that step as its one exception.

#### Other behaviours met on the way

The properties are stated so as to hold beside them, and none of the runs depends on them
being absent.

Knowledge:

* With `LateWrites` a timed out supersede or activate may land after the locks were
  released, and `AtMostOneActive` is not claimed then: nothing in
  `storage/qdrant.py` fences such a write. `evolution_late_writes` checks what
  holds all the same.

Dreams:

* An episode that arrives once its session has a job that was loaded is not
  enqueued again by the scheduler (`dreaming/scheduler.py:210`), and
  `dream_enqueue` does not re-run a settled job (`dreaming/queue.py:122`).
* The worker replaces the row of an approval made while it was writing
  (`dreaming/audit.py:281`), so a retried approval may write twice.
* The client of the router gives up after its timeout (240 s as deployed,
  `docker-compose.yml:110`), while a call may try several routes and protocols of up to
  120 s each: the router works on for nobody and a retried job waits behind it. It reads
  the clock once per call, so a cooldown that ends during a call does not count for it,
  and a cooldown of 0, which the configuration allows, rests nothing.
* Session episodes, which carry no verification, take precedence over the same
  record found by recall when evidence is deduplicated; a touched record has a
  later `updated_at` and may fall out of the range of a dream of an older session.
* One claim without evidence ids fails the assembly of its whole run. An id cited
  twice can carry a candidate to review (never to promotion), and merging a weak
  duplicate can lower a promotion to review.
* Replacement and caveat tasks take the oldest matching evidence
  (`replacement[:4]`, `caveats[:2]`). `dreaming/evolution_groups.py` is not called by
  the engine.

Predictions and quotas:

* A tracked command that returned 0 is recorded as contradicted, or both confirmed and
  contradicted, when storing its verdict failed (`cognition/producer.py:96`).
  `TrackedVerdict` says what holds then: the confusion never goes the other way.
* A prediction write that timed out may land after a retry was acknowledged and
  replace it: `AckedIsStored` leaves out ids on which that happened (`landed`).
* `dream_review_resolve` checks the caller's grants before it commits the resolution, and the
  attribution of the Knowledge row only when it is written: a principal with `write` and
  `admin_review` whose scope names several values of a dimension commits an approval
  that cannot be written. `ApprovalWritten` names that exception (`Ambiguous`), which the
  proof brought up: no principal of the run's registry is one.
* A reservation takes its time before it waits for the write lock: it may be
  charged to a window that ended, whose row the next reservation purges.
  `WritesWithinBudget` counts by that time stamp; calls admitted with one already
  out of date are left out.

Recall:

* The raw slots of a recall are `max_items - 2`, computed before the policy sees the
  rows, and a lifecycle decision without reason codes raises.
* A high salience alone reactivates a record but does not protect it from
  suppression: the hysteresis of `specs/MEMORY_LIFECYCLE.md:123` is one of the
  retention score only.
* Two servers that touch one record at once may count one access
  (`lifecycle/service.py:177`): `AccessSound` exempts records on which that happened
  (`raced`) and asks for exact counts of the others only.
* A record that one server touched can be suppressed by another server's decision
  on a row read before (`cognition/runtime_path.py:534`); `TouchedIsRecallable` names
  that exception. Rows selected for the context count as accessed although they
  are beyond the caller's limit.

Relations:

* The rollout writes whole extensions from its scan, so it can put a version that went
  active meanwhile back to pending, on a record that stays active
  (`relations/maintenance.py:189`). The proof of `RolloutIsSound` brought up that an
  earlier wording of `RolloutSound`, which denied this, only held within the bounds of
  the run. What holds is that the run that did it does not report success, because the
  record's `updated_at` differs from its scan. A recall passes over such a version
  (`relations/traversal.py:110`) until the next one is stored.
* The verification sees no write that is half done at that moment. `RolloutSound` therefore
  speaks of rollouts that ended with none.
* Two stale assertions in one bundle block each other's rejection, and one whose
  anchor was superseded cannot be anchored again, only proposed anew.
* A recall as of an earlier time uses the state a record has now where it keeps no
  history (lifecycle, activation after that time).

## What TLAPS proves

Eight parts have theorems: for every value of the constants that satisfies the
assumptions in the modules (which TLC evaluates in every run), a safety property
holds in every behaviour. Each is proved from an inductive invariant: the initial
states satisfy it, each action keeps it, one step of the proof per action, and it
implies the property. The invariants were first checked by TLC on the instances above.

### Knowledge evolution

For every number of records, threads, processes, identities, faults and crashes
`TypeCorrect` (`TypeOK`) needs no further assumption. The others assume `Deployed`:
the lock file is configured or there is a single process; an entity has no more
contexts than `SearchLimit`; no write lands late. Each of the three is needed: more
contexts than the lookup returns, late writes and a missing lock file each break
`AtMostOneActive`. Spellings are arbitrary here: keys are those the callers spelled, and
what is proved holds for each of them (not for the normalized identity, see "Where the
code differs").

| Theorem | Property |
| --- | --- |
| `OneActiveVersion` | `AtMostOneActive` |
| `AlwaysRecoverable` | `PendingRecoverable` |
| `HistoryIsAppendOnly` | `HistoryAppendOnly` |
| `VersionsAreAChain` | `VersionChain`, if no caller forces an evolution |
| `HeadIsNeverLost` | `NoLostHead` |
| `AckedStays` | `AckedDurable` |
| `ImplementsHead` | `Abstract!HeadSafety`: the protocol implements `KnowledgeHead`, but for its fairness |

`AtMostOneActive` is not inductive: superseding and activating are separate
writes, and recovery may be anywhere between them. The inductive invariant
`TInv /\ SInv` adds

* `Locked`: who is in a critical section holds its identity lock and, if there is
  one, the flock; with `Deployed` this gives mutual exclusion per identity
  (`Mutex`);
* `PointsOK`: a staged record is pending, its predecessor is of the same identity
  and either active or superseded by it; an identity has one staged record and
  one *head* (the active record, or the staged one whose predecessor is already
  superseded); what the rebuild holds of a staged record is current;
* `ThreadsOK`: what a thread at each step knows of the records in its hands.

`SupersedeEffect`, `ActivateEffect` and `UpsertEffect` show that each of the three
writes keeps `PointsOK`, whoever makes it and whether or not its answer arrives;
`SearchComplete` that the lookup misses nothing when contexts fit the limit.

The history builds on it. `PointCases` says that a step inserts a first
version, stages one, supersedes, activates, rewrites extensions, or leaves the
records alone; everything else is shown for each of the five. `HistoryOK` adds what
the history needs: links in both directions (`ChainBack`, `ChainForward`), and a head
for every identity with a history (`HeadExists`), newer than all of it (`HeadNewest`).
Without the last two a fork could not be excluded: the next version is numbered from
the head. `NewContent` with `CallsFresh` (a call about to write has content other than
the version it found) gives that a retry never writes twice; it is where no caller may
force. For the refinement, `ChainSets` describes the mapping by heads and committed
versions: an insert, a supersede and an activation are `Insert`, `Advance` and `Reveal`,
all other steps show nothing.

### Reason task inbox

`InboxTypeCorrect`, `InboxStaysConsistent` (`InboxConsistent`), `AcknowledgedAnswersKept`
(`AnswersKept`), `RetiredStaysRetired` (`NoReplay`), `ResultsAreFinal` (`ResultIsFinal`),
for every number of runs, tasks, claims, consumers and clock corrections. The invariant
adds: a retired run has ended and its rows are gone (`Tombstones`), while a run works
all its rows are there (`Present`), a claimed row holds the last token issued for it
(`LastToken`), an acknowledged answer is the row's until retirement (`AckedDone`) and
what the run used, for each task it has worked off (`UsedDone`, `AckedUsed`).

### Dream pipeline

`MarkedAfterWriteBack` (`MarkAfterWriteBack`) for any number of workers.
`QueueStaysConsistent` (`QueueConsistent`), `ProcessedWasDreamed`
(`ProcessedMeansDreamed`) and `ProcessedStays` (`ProcessedIsFinal`) assume one worker,
which is what the compose file starts (`docker-compose.yml:72`): rows are updated by id,
and the recovery of a second worker takes back the row the first one works on. The
invariant for the marks (`MarkInv`) says of each worker that what it marks are episodes
it loaded of a session that was written back. The one for the queue adds that a waiting
row has an attempt left (`RowsOK`); that the worker's job is processing, a row selected
for recovery still is and has an attempt left or is to fail, and one selected for a retry
failed, unless the rescue script has made them pending meanwhile (`ClaimOK`); and that
what is not yet marked is still to do (`MarksOK`). Of the rows the rescue script has
selected nothing can be said by the time it updates them, and nothing is: the properties
hold beside that update because it makes a row pending with no attempts, whatever the row
was. What they say is relative to it: attempts are those since the last requeue, less what
deferrals gave back, and `ProcessedStays` is that nothing but such an update, of a row
selected before, takes a processed job back.

### Review and writeback

`AuditIsTrue` (`AuditConsistent`), `KnowledgeWasDecided` (`WrittenWasDecided`),
`PagingIsComplete` (`ListingComplete`), `ResolutionsAreFinal` (`ReviewIsFinal`), for every
number of runs, candidates, reviewers, clients and stops. Worker, reviewers and script
replace each other's rows, so truth of the rows is not inductive alone: `RowsOK` says
it also of every result a process holds and has not recorded yet, and `CallsOK` that
the worker writes of an evaluated run, a reviewer or the script of an approval. For the
listing, stamps are pairwise distinct and grow (`StampsOK`), and what a client has
seen is what precedes its cursor (`ListerOK`).

### Prediction learning

`RetriesAnswerTheSame` (`AckedIsStored`), `CommandsAreJudged` (`TrackedVerdict`),
`LearningIsSound` (`LearningSound`), `HeartbeatIsHonest` (`HeartbeatSeesStale`), for every
number of callers, processes, stripes and limits. `Guarded` is the mutual exclusion of
recordings of one stripe across processes, `PutFree` that a record looked up and not
found is still not there when it is put. `ScanOK` relates what the two scrolls of a
reader returned to the store as it was at their time and is now. The conclusions count:
a list that says it is complete has as many members as there are, shown with
cardinalities of the seen and the resolved sets.

### Tenancy and quotas

`QuotaIsExact` (`QuotaExact`), `CallersAreIsolated` (`Isolation`), `AuthorityIsConsistent`
(`AuthorityConsistent`), for every registry, quota policy, number of servers and of
calls. `PathInv` says that each call in progress and each job carries an authority of
this deployment, pinned to one value in every required dimension (`Pinned`), and that
each row is attributed to the required values of the authority it was written under:
then a visible row agrees with the reader in all of them. `LedgerInv` says that rows
written plus calls still to write never exceed what was charged in their window
(`BudgetsOK`), and what was charged never exceeds the limit.

### Relations

For every store, set of assertions, writers, requests, budgets, and every interleaving of
proposals, reviews, content writes, crashes, recoveries, rollouts, lifecycle switches and
recalls.

| Theorem | Property |
| --- | --- |
| `RolloutIsSound` | `RolloutSound` |
| `ReviewedIsKept` | `ReviewedKept` |
| `PathsAreSound` | `PathsSound` |
| `AssertionsImmutable` | no step takes a version away or changes its assertions |
| `Invariance` | `RelInv`, the invariant of the writing part |

`RelInv` says that an entity has one line of versions, of which at most one is active and
at most one staged (`OneLine`); that a lock holder knows what it holds (`KnowsOK`): the
staged version, its predecessor, and that a change of reviewed assertions is one it may
make (`AllowedOK`, which `ReviewedIsKept` rests on); and, of a rollout, how each record it
scanned relates to the one stored now (`ScanOK`). That relation uses `updated_at`: a
version that was committed, or put back, since the scan has a later one, so the comparison
at the end fails. Every action is shown to satisfy `Grows`, what no step does to a
version, and to leave the entities that others hold `Calm`; what a writer knows then
follows without looking at the action again.

`RecallInv` says of a recall in progress that its frontier and paths are sequences of
`PathSet`: non-empty, from a seed, with both records of each step among the records of the
path. This is kept by every page read, whatever was written between two pages, since
versions are never taken away. That the assertions of a returned path were current is
*not* kept: it is re-established by the last read of the records, the basis of the answer
(`HydratedFacts`, `HopsHold`, `EndpointIsHead`), and only because a path that fails the
revalidation is left out as a whole.

Expansion, packing and the choice for a dream are folds. `FoldExists` and `FoldTyped` are
the two facts needed of a fold over a sequence, stated of a function on sets of positions
and proved by a least counterexample (`LeastNat`), which is first-order: each fold is then
shown to be such a function (`TakeAllTyped`, `ExpandedTyped`, `PackedTyped`,
`DreamItemsTyped`).

### Router and gate

`RouterKeepsOrder` (`RouterSound`) for every number of pairs, protocols, cooldowns, attempts
and faults. `RouterInv` (`RouterConsistent`) adds to what `PreferredRoute` says of a step that
a served call began in the past, that a client waits for its own call, queued or served,
and counts the protocols the current pair has failed on (`Tried`): the sum over the pairs
that rest plus those never exceeds the failures of protocols (`misses`). A cooldown may be
0: then a pair that was passed over failed no earlier than the call began, and for a pair
with a cooldown strictly later, or in an earlier call. `TotalIsSum` shows that the fold over the
set of resting pairs does not depend on the order it takes them in.

`PromotionIsSupported` is about the weights and thresholds of the gate, for every candidate
and all evidence: a promotion cites two different pieces of the request's evidence, one of
which has a verification. It is what `PromotedSupported` needs of `Evaluate`.

`MergeIsExact` is about the merge of duplicates, which changes results it has already
written, for every list of candidates and all evidence. `Gate` is a fold over the
candidates; `MergedSoFar` says of its accumulator after `k` of them what `MergedExactly`
says of the result, for the first `k`. `GateStepWrites` says what one step writes and
`GateStepKeeps` that it keeps `MergedSoFar`; `StepByStep` carries that to the end.

`VerdictFollows` (`GateSound`) takes both to every run of the specification. `RunInv` is what
it adds to `RouterInv`: the gathered evidence is of the records (`GatheringOK`), every task
cites some evidence on its own topic, no more tasks have been resolved than there are, exactly
all of them at the assembly (`ResolvingOK`), and a verdict is the gate's of what was claimed
(`VerdictOK`). `Built`, `KeptFrom` and `GatedFrom` lead from the evidence to the tasks, from
these to the candidates and from these to the verdict; `Ordered` shows that sorting by time
is a permutation, by counting the items before each.

`GatheringIsExact` (`EvidenceExact`) is about the evidence itself, for all buckets,
topics, hits, limits and moves of the store. `TakenOK` follows the gathering: the loaded
session ends with its latest episode (`SessionOK`), the present topic holds what its
buckets up to here should give (`Holds` of `Searched`) and a topic left behind holds that
of all buckets, each id once (`Complete`). What others change meanwhile is in `moved`, so
a record outside it was in its bucket when that was searched (`MoveKeepsTaken`); the end
of the session cannot move because only Knowledge is touched, which is why the two
collections are assumed to share no point. A recall makes two searches with moves between
them: `PartOK` holds what the first one found until the second is merged with it
(`RecalledWithin`). `PickedPositions` says what a search returns, `FoundFits` what the
filters leave of it, `DeduplicateFacts` that the last step loses no id, and `SomeBucket`
that every time up to the session falls into a bucket.

### What is only model-checked

* Liveness: `RecoveryCompletes`, the settling of jobs, the end of runs, and the fairness
  conjunct of `RefinesHead`. The provers do not reason about ENABLED.
* What `evolution_late_writes` shows, `NoLostHead` and `AckedDurable` beside writes that land
  late: the theorems assume `Deployed`, and `SInv` does not hold without it.
* `PathsComplete` of `RelationGraph`: that no path is missing compares what the folds return
  with a definition by recursion over the depth, an induction over data. The folds of
  `PathsSound` are within reach only because an invariant of the accumulator suffices.
* `RecallSound`, `AccessSound` and `TouchedIsRecallable` of `RecallPath`, which sorts with
  `SortSeq`, a choice among all permutations that the provers cannot look into.

None of the modules declares a RECURSIVE operator: recursion is by functions and
folds.

## Plan

1. Proofs. `AccessSound` and `TouchedIsRecallable` of `RecallPath`, which need
   its sorts by position as `ByTime` of `DreamEvidence` has them.
2. `SelfModel`: scan, readiness, hypotheses stored through evolution by two servers at
   once; today its accepted rows are a constant of `RecallPath`.
3. The agent adapter (a sequence of calls that may stop after any of them) and the
   backup (what a restore of snapshots taken one after another contains).
4. A second run of the same job in `review_writeback`, once its state space allows.

## Not modelled

Floating point (lifecycle, salience and gate compute in integers here; thresholds
and orders are kept), embedding similarity and BM25 beyond the hits and ranks given as
constants, prompts and wire formats, argument checking of the MCP and HTTP surface,
metrics, logging, heartbeat files, one-off migrations. The modules other than
`RequestPath` are the view of one tenant. Of relations the start of validity and the
direction given to each kind are left out; of retrieval the shadow comparison, which
changes no result. `reasoning/engine.py` (bounded reasoning) and
`dreaming/evolution_groups.py` have no caller in the runtime. Self-model, agent
adapter and backup are in the plan. Two dream workers at once are not modelled: the
compose file starts one.
