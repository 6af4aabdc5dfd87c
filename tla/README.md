# Study Loop in TLA+

Study Loop is a FastAPI service (Python) with a React client: learners upload
documents, chat with an agent that calls tools, take quizzes, follow learning
paths, and have their mastery remembered. Almost everything it promises under
failure rests on a few durable tables (SQLite or PostgreSQL) whose rows are
claimed, leased, fenced and completed by short transactions while the slow part
of the work, a model call or a tool, runs outside any transaction. This
directory holds TLA+ models of those protocols, the TLC configurations that
check them and TLAPS proofs about them. Paths below are relative to `src/`.

## 1. Inventory

### Idempotency receipts (`services/idempotency.py`)
State: one row per Idempotency-Key: state (`pending_v2`, `effect_started_v2`,
`completed`, `ambiguous`, or of an earlier release), a binding of the key to
operation and payload, an owner token, a lease, a recovery token, the response.
Operations: `begin`, `renew`, `mark_effect_started`, `complete`, `abort`,
`reconcile_completed`. Every operation is one transaction in a worker thread.
Hard: a cancelled caller drains its thread only up to a deadline, so any
transaction may commit after its request gave up; leases lapse under slow model
calls; processes die with a lease; a repair writes without an owner token.
Correct when: effects that cannot be replayed are those of one attempt per key;
every answer to a key is the same; a clean abort means nothing happened.

### Autonomous session store (`services/autonomous_sessions.py`)
State: one row per paused conversation of the agent: paused / in flight, claim
token and lease, whether the claim crossed the progress barrier, the digest of
the reply it was claimed for, an outcome tombstone, a TTL. Operations: `save`,
`inspect`, `claim`, `renew`, `mark_progress`, `cancel`, `discard_paused`,
`consume`, `finish`, `handoff`; each starts with a purge of expired rows and a
sweep of stale claims, and the inserting ones enforce the capacity.
Hard: everything of the receipts, plus the sweeps, which act on rows of others.
Correct when: a pause has the effects of one continuation; its outcome is
replayed to the reply it answers and nobody else; a live claim is never taken.

### Autonomous agent (`routers/autonomous.py`, `services/tool_loop.py`, `services/tool_registry.py`, `services/autonomous_snapshot.py`)
`POST /agent/autonomous` runs a ReAct loop under a receipt and may end in a
pause, stored before the receipt is completed. `POST .../continue` holds two
leases, the receipt of its key and the claim on the pause, and must leave both
right whatever fails in between. `DELETE` discards a waiting pause. The tool
registry writes the effect marker immediately before a non-replayable handler.
Inside a run the model answers round after round with text or a batch of calls; a
pause carries the transcript, the rounds used, the reservations of
updates and the suspicion of a leak into the next run.
Correct when: retries of one start agree and find the pause a lost run stored; a
conversation is continued once, and only by the run whose outcome is kept; a
grade is written once; no forbidden handler starts; every call gets one answer and
every run ends.

### Quiz sessions (`routers/session.py`, `services/quiz_sessions.py`, `services/session.py`, `services/grader.py`)
State: a row per quiz: the aggregate (answers, verdicts, report, the receipts of
answers, two outboxes), a claim token with a lease, a TTL. Operations: create
(with purge and eviction), find_start, claim, checkpoint, complete, release;
the routes start, answer, view, grade and report. Every instant is read before
the worker thread that uses it starts. A completed quiz must still reach the
learner's memory and then the stage of its path; later requests repair both.
Hard: takeovers between two checkpoints, late clocks, cancelled callers whose
thread commits, an eviction of a row whose outboxes are not empty.
Correct when: what was answered, judged or reported is never lost or changed; a
lease ends by its owner; memory and stage get the canonical grade, once.

### Adaptive sessions (`routers/adaptive.py`, `services/adaptive_sessions.py`, `models/adaptive_session.py`)
As the quiz sessions with a revision checked by every checkpoint: one submit
takes input, verdict, memory, mastery, decision, artifact and receipt through up to
eight checkpoints; a takeover resumes at the first one missing, and the aggregate
is validated at each. The last decision may publish a learning path.
Correct when: every turn is bound, judged and decided once and answered by its
receipt; memory gets canonical verdicts; one plan publishes one path.

### Learning paths (`services/learning_path_store.py`)
Immutable paths, created under a key, and one completion row per stage.
Correct when: a replayed creation finds the same path; stages complete in order, once.

### Learner memory (`services/memory.py`, `services/memory_persist.py`, `services/srs.py`)
State: rows of a store without transactions: briefs, mastery (EMA), weak points,
mistakes, a schedule (SM-2), archives, a legacy profile; in PostgreSQL, or in
memory with a snapshot file. A commit is five operations of several writes each,
then a marker in the session's own table. One operation at a time per process (a
gate), one per learner (a lock); a cancelled request leaves its thread running.
Correct when: a marked session survives a restart; every session counts once in
each part; nothing durable is forgotten.

### Knowledge graph service (`graph_service/`)
A second process: knowledge bases, documents, versions, and a job queue with a
worker that builds a version and publishes it; retry, rebuild and purge. State:
PostgreSQL rows, originals on disk, LightRAG's index, a lock per base. Correct
when: the index of a ready base is exactly its published versions, these only
move forward, a deletion stays and reaches the disk, an interrupted job leaves a
visible failure.

### Vector store and BM25 cache (`services/vectorstore.py`, `routers/documents.py`)
State: a Chroma collection per document (absent, ghost, legacy, indexed, deleting,
deleted), staging collections, a cache of chunks with their BM25 index and a
version per document, and a channel: one daemon thread, a bounded queue, the lock of
the active job, a generation that shutdown closes. A job that runs cannot be stopped.
Correct when: a deleted or replaced text is never served from the cache; a
document ends only by being deleted and its name is never free again; no slot or
lock is lost or given back twice.

### Tutor and supervisor graphs (`agents/`), client recovery state (`frontend/src/state/`)
LangGraph loops that must end; and the browser's choice of which key to reuse
after a lost response, the other half of the receipts' protocol.

### The rest
Model providers, document parsing, the HTTP frame, generation, evaluation and
scripts are I/O, wording or sequential data transformation. `PROJECT.json` lists
every part with its sources and the reason it is or is not modelled, and, under
"hazards", the places in the code that are hard to test.

## 2. Modules

| module | what it is |
|---|---|
| `Receipts` | a receipt row and what each transaction of `idempotency.py` does to it, as operators of the row and the transaction's instant |
| `OneShotRequest` | abstract: a request has effects of one actor and at most one response |
| `IdempotencyStore` | concurrent attempts on the receipts, with cancellation, cleanup, late threads and death; refines `OneShotRequest` key by key |
| `PauseRows` | a row of the pause table and the statements of `autonomous_sessions.py`, sweeps, capacity and hand-off included |
| `AutonomousSessions` | concurrent continuations on a table of pauses; refines `OneShotRequest` pause by pause |
| `AutonomousSessionsProofs` | TLAPS: the pause store, row by row, its capacity and its refinement |
| `AutonomousStart` | `POST /agent/autonomous`: `Receipts` composed with the pause it stores |
| `AutonomousStartProofs` | TLAPS: the answers and effects of one start |
| `AutonomousContinue` | `POST /agent/autonomous/continue`: `Receipts` composed with `PauseRows` |
| `AutonomousContinueProofs` | TLAPS: the one outcome of a continued conversation |
| `SourceLibrary` | abstract: published versions move forward, deletions are final, answers come from all published versions or not at all |
| `KnowledgeJobs` | one knowledge base: uploads, job queue, worker, publication, retry, recovery, purge and restart; refines `SourceLibrary` |
| `KnowledgeJobsProofs` | TLAPS: rows, files and index of the knowledge base, and its refinement |
| `QuizRows` | a quiz row, its aggregate and the transactions of `quiz_sessions.py` |
| `QuizSessions` | start, answer, view, grade and report over `QuizRows`, the stages of `LearningPaths` and the learner's memory |
| `QuizSessionsProofs` | TLAPS: one verdict per quiz in every store, leases, and that stored work stays |
| `LearningPaths` | creation of a path and its stage completions |
| `AdaptiveRows` | an adaptive row, its aggregate with its validation, and the transactions of `adaptive_sessions.py` |
| `TurnProtocol` | abstract: a turn is bound, judged, decided, then left under its receipt; a finished session stays finished |
| `AdaptiveSessions` | start, snapshot and submit over `AdaptiveRows`, memory and published paths; refines `TurnProtocol` session by session |
| `LearnerMemory` | one learner's memory: commits, reviews, archiving, migration, both stores, the snapshot file, several processes |
| `LearnerMemoryProofs` | TLAPS: one thread, one count per session, nothing durable forgotten |
| `AgentLoop` | rounds, batches, tool policies and pauses of the autonomous agent, and the chat loop, for one conversation |
| `AgentLoopProofs` | TLAPS: grades, transcript and allowed handlers of the loop |
| `VectorStore` | documents, cache and the job channel of `vectorstore.py` |
| `StoreProofs` | TLAPS: the inductive invariants and properties of `VectorStore` and of `IdempotencyStore` |
| `MC...` | symmetry sets, initial tables and stores for TLC; each extends the module it is named after |

`Receipts`, `PauseRows`, `QuizRows`, `AdaptiveRows` and `LearningPaths` hold no
state: they say what a transaction does to a row. The stores and endpoints that
extend or instantiate them share these operators, so what is checked of a row in
one place is the row the others use. The correspondence:

* An *attempt* is one HTTP request (a request with the same key is another
  attempt). It also names the tokens the code draws with `uuid4`: an owner
  token, a claim token, a run id or a recovery token is the attempt that drew it.
* A database transaction is one atomic action. The code takes `BEGIN IMMEDIATE`
  (SQLite) or `SELECT ... FOR UPDATE` (PostgreSQL) first and reads the clock
  afterwards, so the row and the instant are those of the transaction.
* `await` points are where `pc[a]` changes: between two of them anything else
  may happen. `late[a]` is the worker thread that outlives its caller
  (`_drain_cancelled_worker` reached its deadline).
* `now` is the wall clock in units of a lease; ticks are not fair.
* `Fault` steps are database errors or lost acknowledgements ("the commit
  happened and the caller saw an error") and process deaths, at most `MaxFaults`.
* A response is a value naming its author; key digests, JSON, validation of
  formats and log lines are left out. Validation that reads another row (a
  replayed pause must still be waiting) is kept: it is `CheckPause` and `Check`.
* History variables (`ran`, `settled`, `bound`, `everStored`, `outcomes`,
  `dispatched`, `got`, `told`) record what the outside world saw; no guard of a
  handler reads them, except that an attempt has returned when `got` is set.

In `KnowledgeJobs` a request's transaction (`begin_job` with its `setup`) is one
action, taken while the base's write lock is free; the worker holds the lock in
`writing` and `written` only, as `process_one` does: it claims before taking it
and calls `fail_job` after letting it go. An upload has steps of its own because
it reads the base, stores its file and queues its job at three different times.
The index is `engine`: `index` is what it holds whole, `torn` what a call that
has not returned may have left half written, `applied` the corrections in it. A
call that returns makes its versions whole, as `engine.insert` checks the SDK's
status. A rebuild empties the index first. A DeletionRefused (`refusal`) takes
the fallback to a rebuild, and can only be met for a version the SDK knows. The
process dies (a shutdown cancels the worker, which is the same to the rows) and
restarts with any index configuration. Versions are numbered in the order their
requests passed `get_kb`. A replay by Idempotency-Key changes nothing but the
response; of the keys, only that of a retry is a guard. `docs/LIGHTRAG.md` fixes
one service process, so the advisory lock that keeps a second worker out is not
modelled.

In `QuizSessions` and `AdaptiveSessions` a request is a record with the route it
serves, where it is, the row it last read and the instant its next call will use;
each await is a place where it may fail, be cancelled (its thread may then commit
late) or die with its process. A quiz has `Total` questions, answered in order; an
adaptive quiz has one. Providers answer anything the validation lets through, and
fail. Memory and paths are what the other side must agree with: a history of which
verdict was written for which session.

In `LearnerMemory` an operation is a list of writes computed from the rows it
read under the lock, put one at a time; a restart keeps PostgreSQL's rows, or
what the snapshot file holds. `req[a].stage = "late"` is the thread of a cancelled
request.

In `VectorStore` every job is a few steps of the one thread, each one call to
Chroma; `asked` is the cancellation event a job polls, `left` that nobody waits. The
lock of the active job goes back before the result is published (`End`, then
`Settle`). The rename of a staging collection is ahead of its fence by one step
(`published`). Only texts are told apart, by the upload that brought them.

In `AgentLoop` a call is a tool with arguments that are a grade, "fine" or "bad";
the registry may replace a tool while the model thinks, and the contract a pause
stores is compared when it resumes. One run at a time: leases are in
`AutonomousContinue`. Its snapshot is the record `Snapshot`, its restoration
`Restored`.

## 3. Runs

| run | question | instance |
|---|---|---|
| `receipts` | does a key get the effects of one attempt and one answer, do clean aborts tell the truth, is a cancelled `begin` let go? Does the store keep the promise of `OneShotRequest`? | 3 attempts on 1 key, 2 bindings, 2 responses, lease 2, clock to 4, 1 fault |
| `pauses` | a pause has the effects of one continuation (`OneShotRequest`), its outcome goes to its reply, capacity holds, and it ends rightly: by its claim's owner, for good, and let go by a cancelled claimant | 2 conversations, 2 attempts, 2 replies, room for 1, TTL 3, lease 2, clock to 4, 1 fault |
| `start` | do all requests of one start agree, are effects those of the answer, and do they end with it? | 3 requests, lease 1, clock to 3, 1 fault |
| `continue` | is a conversation continued once, by the run whose outcome is kept, whatever lapses, fails or is cancelled? | 2 requests, 2 keys, 2 replies, both leases 1, TTL 2, clock to 4, 1 fault |
| `jobs` | is a base that answers whole, do versions move forward and deletions stay, do files match rows? | 2 documents, 3 uploads, 3 jobs, 1 correction, 1 rename, 2 configurations, 1 fault, retries of the last job |
| `jobs_live` | does every job end and every committed deletion reach the disk? | 1 document, 2 uploads, 3 jobs, 2 faults, lost acknowledgements among them |
| `jobs_refused` | is a base whole after a refused deletion, a failed rebuild and a retry: violated, finding 1 | 2 documents, 4 jobs, 2 faults |
| `quiz` | do answers agree, is memory canonical, does a stage follow its grade, does a lease end by its owner, is stored work kept (and an active session not evicted)? | 2 requests, 1 key, 2 sessions, 2 questions, 1 stage, lease 1, TTL 2, clock to 3 |
| `adaptive` | is a turn bound, judged, decided and left once (`TurnProtocol`), do replies agree, is memory canonical, is there one path? | 2 requests, 1 key, 2 sessions, 2 answers, 2 turns, lease 1, TTL 2, clock to 3 |
| `memory` | is a marked session durable, does it count once, is nothing durable forgotten, is there one thread per process? | 2 requests, 2 processes, 2 sessions (one tutored), 3 old briefs, archive above 1 |
| `vectors` | is the channel sound, is what is served published, do documents end only by deletion? | 3 requests, 1 document, 2 slots, 2 generations |
| `agent` | is a grade written once, is the transcript whole, do only allowed handlers start, does every run end? | 2 grades, 3 rounds (2 in chat), batches of 2, 2 reservations |

Why the bounds are enough for the cases the code worries about. A takeover needs
one lapse and two attempts; a stale owner that acts after the takeover needs no
third, and the third attempt of `receipts` and `start` is the retry that finds
what both left. The clock allows a lease to lapse after a takeover and after a
TTL (in `continue`, claim at 1, lapse at 2, takeover, expiry at 3 or 4). One
fault is one lost acknowledgement; a run with `MaxFaults = 0` would check only
lapses and cancellations, which are unbounded. Room for one pause makes the
second conversation evict or be refused. The `continue` invariants were also
checked once with three requests (5.4 million states); the run keeps two for time.

Two uploads of a document that race need a published version before them: three
uploads and three jobs. A job that fails, its retry and one more job are three
jobs as well. `jobs` was also checked with four jobs and two uploads, and with two
faults of the four kinds other than refusals under one configuration (11.6
million states): no violation. With a refusal among two faults it is
violated (finding 1), which is why `jobs` has one.
A commit whose acknowledgement is lost is not among the faults of `jobs`:
`LoseUpload` then removes the file of a version it did record, and after
`LoseFinish` of a base's deletion `fail_job` turns the base back to dirty until the
deletion is retried. `jobs_live` has both, and shows that jobs still end.

`quiz` and `adaptive` start from tables that hold what earlier requests left: a
fresh session, one cut off after each kind of checkpoint, a finished one whose
outboxes are full, rivals for one stage, or none. Two requests are then a takeover
or a retry from any point, and a table that is full makes the second session evict
or be refused. Lease 1, TTL 2 and clock 3 let a lease lapse twice, once before and
once after an expiry. Two questions are one answered and one not; two turns
(five in the code) are one that goes on and one that must end.
`memory` archives above one brief, so that the three old ones are archived
while a commit runs; two processes share PostgreSQL, and the same instance has the
store in memory with one process at a time. Deadlock is checked there: a gate or
lock that is never given back would stop it.
In `vectors` two slots and three requests put one job in the thread, one in the
queue and one outside; with one document every request is about the same name,
and documents share nothing but the channel. Two generations are one shutdown
with a waiter left over from before.
In `agent` two grades in batches of two and three rounds repeat an update in one
batch, in a later round and after a pause; two reservations reach the limit.

Each property is paired, in `PROJECT.json`, with a mutation of the code's model
(a guard dropped, a check ignored, a reset forgotten) under which TLC finds it
violated; the mutated definitions stand next to the originals, marked "Mutant".

`CHECK_DEADLOCK FALSE` everywhere but in `memory`: an attempt ends, and the clock's
bound ends the behaviour; the system may really stop when there are no more
requests. Symmetry is used only for runs without liveness properties.

### Fairness
No liveness rests on a lease lapsing, and none is assumed of the clock, of clients
or of faults.

`KnowledgeJobs!Fairness` assumes that the worker's loop and a purge under way go
on, that an upload's coroutine resumes, that a process that died is started
again (by its operator: liveness says nothing of one left down), and, strongly, that
the periodic sweep comes round: it is due every minute before the next job is claimed
(`worker.py:327`), so jobs cannot keep it off for ever. Faults are bounded.

`AgentLoop` assumes weak fairness of the loop as a whole (`Works`): provider calls and
handlers have time limits (`tool_registry.py`, `tool_loop.py`), so a round ends one
way or the other. It assumes nothing of which answer comes.

### Where code and documentation disagree
1. *The retry of a refused deletion publishes an index without the other
   documents* (`jobs_refused`, a bug). `engine.py:21` says the refusal repeats on
   retry. The fallback rebuild drops the workspace first; if it then fails, the
   retry finds no such document in the SDK, has nothing to delete, and succeeds;
   the base becomes ready with the other documents missing from its index.

Met while modelling, each reproduced with the modules of this directory under
other constants or by one more invariant, but with no run of its own:

2. *An adaptive session that opens with a lesson cannot go on for a learner who was
   never graded on the document* (a bug). `tests/test_adaptive_loop.py:362`
   describes that path with a mastery of 0.3. `get_mastery` answers None for a new
   learner, `_checkpoint_mastery_and_decision` stores it (`routers/adaptive.py:1045`)
   and `validate_pending_decision` (`models/adaptive_session.py:302`) refuses a
   decision without a mastery, on every retry. Run `adaptive` with
   `INVARIANT PagesCanBeAnswered` and `Gaps <- CleanGaps`.
3. *A knowledge gap with surrounding blanks stops a session* (a bug).
   `AdaptiveTurnArtifact.normalize_gaps` strips the gaps of the next page,
   `validate_state_machine` (`models/adaptive_session.py:447`) compares them with the
   report's, which are not stripped: `complete` refuses the aggregate every time. The
   same run with `Gaps <- AnyGaps`.
4. *A failed job can be retried after it was made good.* `retry_job`
   (`graph_service/service.py:1253`) looks only at the job's own row, which stays
   'failed' after its retry or a rebuild succeeded; a late retry publishes the old
   version again beside the newer one (`RetriesAnyJob = TRUE`). The UI offers only the
   last job.
5. *A lost acknowledgement followed by a failed inspection stores two
   conversations.* `routers/autonomous.py:1511` says the shielded lookup prevents
   that; it does only if the lookup succeeds. `inspect` fails in the same outage,
   its error is re-raised, the receipt is aborted, and a retry draws a new recovery
   token (two requests and two faults in `AutonomousStart`).
6. *The fence before a pause is published is not part of the publication.*
   `routers/autonomous.py:1474` says a stale worker cannot reconcile over the current
   owner; if the lease lapses between the fence and `save`, it can. Run `start` shows
   that the answers still agree.
7. *A malformed update of the learning profile keeps a run from pausing.* The registry
   records it in the trajectory as carried out, without the reservation
   `session_to_payload` demands of every one, so a later `ask_user` ends the run with an
   error (`Storable` in `AgentLoop`); so does a receipt mark that fails.
8. *The legacy profile is migrated once, or not at all.* `services/memory.py:20` says it
   is migrated at the first read. A migration cut off half-way, or any write before the
   first read, leaves rows in the new bank, and with them it never runs again.
   `NothingDurableIsForgotten` counts what the new bank holds.
9. A snapshot file that cannot be read at start-up leaves the store empty, and the next
   snapshot overwrites it; the model's file is always readable.
10. A drain of the Chroma channel that runs out of time leaves the thread, and the
   lifecycle cannot open again until a later shutdown finds it gone (`StopThread`).
11. A finished adaptive session whose plan was never published may be evicted with it.

## 4. What is proved

Eight modules hold theorems, for every value of the constants. Each has an inductive
invariant, checked by TLC on bounds near those of the component's run and proved here.

`StoreProofs` is about two stores that share nothing. For the receipts of `IdempotencyStore`,
for any sets of keys, attempts, bindings and responses, any lease and any bounds, the proofs
use of the constants only that the lease is positive and that `None` is no attempt:

* `StoreTypeCorrect`; `StoreInvariance`: `Spec => []IInv`;
* `AtMostOnce`, `OneAnswer`, `CleanAborts`: the three state properties;
* `CleanClaims`, `StableRecoveryToken`: two action properties;
* `KeepsThePromise`: `Spec => PromiseSpec`, the refinement of `OneShotRequest`.

`EffectsOfOneAttempt` is not inductive: a second attempt is kept out by the row,
not by who ran. `IInv` ties what attempts did to what the row says.
`ActorsAreRecorded`: an attempt that has marked or run a handler is alone in
that, and its row is *shut* for the others: ambiguous, completed, or marked
effect-started in its own name. `ShutStaysShut` is the heart: no transaction by
anyone, late or not, reopens a shut row, because `begin` on such a row answers
ambiguous or a replay and every owner's write is fenced by the token.
`AnswersAreRecorded`: a returned response is the one in the completed row, and
completed rows never change. `CleanAbortsAreOver`: an attempt told "no effect"
is finished. `RowsAreTidy` says a deleted row is empty and only completed rows
carry a response, which a replay needs. The lemma `TransactionsEvolve` reduces
every action to the six row transactions, and the action properties and
the refinement are read off those.

`AutonomousSessionsProofs`, for any sets of conversations, requests, replies and
responses, any TTL, lease, capacity and bounds, from the assumptions of `PauseRows` (the
limits are positive, `None` is none of the values) and the bounds' types:

* `SessionTypeCorrect`; `SessionInvariance`: `Spec => []IInv`;
* `SameReplySameOutcome` (`OutcomeOfTheSameReply`), `CapacityHolds` (`WithinCapacity`);
* `PausesEnd`: the action property `PausesEndRightly`;
* `SessionsKeepThePromise`: `Spec => PromiseSpec`, the refinement of `OneShotRequest`.

The table is the difficulty: one transaction purges, sweeps and evicts rows of
conversations it was not called for. So every transaction is first split into what it does
to each row (`KeyStep`: quiet, inserted, claimed, by the owner, cancelled or finished) and
what it does to the table as a whole (`TableStep`); every later lemma argues from a
`KeyStep`. `IInv` is `TypeOK` with:
`TidyTable` (a row holds nothing of another state, which a replay and a purge rely on);
`Bounded` (the active conversations are a finite set within the capacity: conversations
may be infinitely many, and counting needs the finite set, hence also the conjunct of
`Init` that the initial table is finite);
`KeysAreRecorded` (the tombstone, the verdict journaled for a conversation and the reply
it was bound to agree, and outlive the row);
`ActorsAreRecorded` (whoever had an effect has shut the row for everybody else, as in the
receipts); `ClaimantsAreClean` (a `claim()` that has not returned had no effects, which is
why a cancelled one may be let go). The refinement reads each `KeyStep` as a step of
`OneShotRequest` or as a stutter.

`AgentLoopProofs`, for any grades, any number of rounds, batches of any length and any
room for reservations, from `RoundsAssumption` and `NoneAssumption`:

* `LoopTypeCorrect`; `LoopInvariance`: `Spec => []LoopInv`;
* `GradesOnce` (`EachGradeIsWrittenOnce`), `WholeTranscript` (`TranscriptIsWhole`);
* `AllowedHandlers`: the action property `OnlyAllowedHandlersStart`.

A step leaves the run, answers the call at hand, ends a round, or takes a call nearer to
its handler (`Leaves`, `Answers`, `EndsRound`). `GradesAreReserved` carries the first theorem: a written grade is
reserved in the memory of the run, and in the stored snapshot for as long as a failed
continuation may fall back to it, that is until the claim is marked. `PausesAreWhole`
is what a resumed run finds; `CallsAreCounted` ties unanswered calls to the calls
left of the batch; `CallsAreAllowed` says which calls can stand at the barrier, and
needs `ToolsAreKnown`: which tools a round may have been bound to when a server reconnects.

`AutonomousStartProofs`, for any number of requests of one key, from the positive lease and
`None` being neither a request nor a response:

* `StartTypeCorrect`; `StartInvariance`: `Spec => []StartInv`;
* `StartsAgree` (`AnswersAgree`), `StartEffectsMatch` (`EffectsMatchTheAnswer`);
* `QuietAfterTheAnswer`: the action property `NoEffectAfterAnAnswer`.

`AnswersAgree` is not inductive: the answer may come from a run, a replay, or a repair
that found the stored pause. `ResponseIsDurable` and `SaidIsDurable` say that the receipt, and
whoever is about to write to it, names only pauses that were stored; `PausesAreStored` that a
row found by a repair is such a one; `TokenIsKnown` that late saves store under the
conversation they were started for; `EffectsAreOwned` that the receipt remembers whose
effects there were until it says that they are in doubt. The relation `Allowed` is what any
transaction may make of the receipt.

`AutonomousContinueProofs`, for any requests, keys and replies to one paused
conversation, from positive leases and TTL and `None` being none of the values:

* `ContinueTypeCorrect`; `ContinueInvariance`: `Spec => []ContinueInv`;
* `OutcomeIsOne` (`OneOutcome`), `NeverOffered` (`NeverOfferedAgain`);
* `QuietAfterTheOutcome`: the action property `NothingRunsAfterTheOutcome`.

Receipts do not exclude each other: two keys may answer the same pause. The row of
the pause does (`PauseIsJournal`): it is the journal of one outcome until it is purged, and is
never filled again after that. `Recorded` says that a completed receipt repeats the journal
for the reply it is bound to. `ActsAlone` says what a request that dispatched a tool leaves
behind (`Burnt`): its own claim, marked, or a row that nobody can claim. `AttemptInv` says
that what a request has in hand when it answers is the outcome, and that a transaction left
behind by `finish` is only ever followed by the undoing. `Moves` is what a
transaction other than `finish` and the hand-off may make of the row, and
`PauseMoved` shows once that it preserves all this.

`StoreProofs`, for the documents of `VectorStore` (its specification is `VectorSpec`), any
sets of requests and documents, any positive size of the queue and any number of
lifecycles, from `PoolAssumption`, `NothingAssumption` and `NamesAssumption` (neither Nothing
nor a text is one of the words a request is told, and Nothing is none of the steps):

* `VectorTypeCorrect`;
* `ChannelSound`: the slots and the lock;
* `ServedRight`: `ServedTextIsPublished`;
* `EndsByDeletion`: `DocumentsEndOnlyByDeletion`.

`VectorIInv` is `VectorTypeOK /\ Channel /\ Work`. `Channel` adds to the accounts of slots that
those who hold one are a finite set (requests may be infinitely many) and that one
job at most is in hand (`OneAtATime`); the lemmas `SlotIsTaken`, `SlotReturns` and
`NoSlotMoves` are the only places that count. `Work` says what a job knows of its
document at each step (`InStep`: a job that is past its rename finds its own text, one
that purges finds its own mark), what a request was told (`Told`), that
nothing deleted has a text (`Empty`) and that the cache holds the text of the
collection unless a rename is about to fence it (`Cached`). One job at a time is
what makes `InStep` stable: nobody else writes to Chroma between two steps.
`DocumentsStep` gives `EndsByDeletion`, and with it the stability of what others were
told: an "indexed" document keeps its text until a deletion marks it.

`KnowledgeJobsProofs`, for any documents, uploads, jobs, corrections and index
configurations and any number of faults, from `Bounds` (numbers), `GoneAssumption` (`Gone` is
neither a number nor a document) and two hypotheses that each theorem states:
`Acknowledged` (commits are acknowledged, and clients retry only the last job, as the UI
offers; see the runs and divergence 4) and `RefusesNothing` (the SDK refuses no removal):

* under the first, `TypesHold`; `RowsInOrder`: `Spec => []RowsInv`; `FilesOfTheRows`
  (`FilesMatchRows`);
* under both, `IndexInOrder`: `Spec => []IndexInv`; `ReadyIndexIsWhole` (`ReadyIsWhole`);
  `ServiceKeepsThePromise`: `Spec => PromiseSpec`, the refinement of `SourceLibrary`.

`RefusesNothing` cannot be dropped: divergence 1 is the counterexample with two faults, and
run `jobs` checks that one refusal alone does no harm. The rest of the faults (crashes,
provider, database and file errors) are in, without a bound.
The argument has two layers. `RowsInv` speaks of rows only: one job at a time, the last,
for which the base is 'updating' (`OneJobAtATime`); documents, versions and their current
version refer to each other (`RowsRefer`); as long as the last job may still be run or
retried the rows are those it was accepted for (`JobsFit`), whence a publication moves the
current version forward (`JobsPublish`, operation by operation); an upload that may still be accepted
is the latest and has its file (`UploadsFit`); and the purge deletes rows before the
directory and that before the mark (`PurgeInOrder`). `IndexInv` ties the index to the rows:
a ready base's index is whole; whatever cuts a job off, the index holds what is published
but for the job's own versions or correction (`PartOf`), so that its retry can still
complete it; and once written it holds what the job will have published (`Outcome`).
`OutcomeIsPublished` equates that with what the transaction then does publish.
`Steps` sorts all actions into a few kinds, and every invariance lemma goes through them.

`LearnerMemoryProofs`, for any sessions, reports, processes, requests, any archiving
threshold and any number of faults, in both stores, from `ThresholdAssumption`,
`TutoredAssumption`, `ReportAssumption`, `OldSessionsAssumption` (a legacy summary names no
session of today), `NoneAssumption` and `InitialStoresAssumption` (in the memory found at
the start each session counts once, as in the empty one and as every operation leaves it):

* `MemoryInvariance`: `Spec => []MemoryInv`; `TypesHold`;
* `GateOfTheThread` (`OneThreadPerProcess`), `CountedOnce` (`EachSessionCountsOnce`),
  `MarkedSurvives` (`MarkedIsDurable`);
* `NothingForgotten`: the action property `NothingDurableIsForgotten`.

A commit is five operations of several writes each, and an operation computes its writes
from rows it read before. `MemoryInv` says why they still fit when they are done.
`LocksInv`: one request writes, one dumps, one thread runs per process. `RequestsInv`: a
commit has written what the operations before its own write (`SoFar`), what it has in hand
is what is left of its operation's writes and is right for the rows as they are now
(`Hand`; a brief is deleted only when an archive speaks for it), and a snapshot in hand is
newer than the file and no newer than the memory (`CopyInv`). `StoresInv`: rows are whole
and the file is never ahead of them. `MarkedInv`: a marked session is reported where a
restart looks. The relation `Keeps`, which forgets nothing, is a preorder; `WriteFits` and
`WritesFit` show that a write that fits keeps everything, and `ReportIsKept` carries a
marked session's report along it. `NothingForgotten` is `Keeps` for memory and for file.

`QuizSessionsProofs`, for any requests and keys, any finite set of sessions, any number of
questions and stages, any lease and TTL, and any tables that earlier requests may have left,
from `QuizRows`' assumptions (positive numbers; `None` is none of the values and none of the
words that stand beside it in a type) and those of `QuizSessions`: the sessions are a finite
set, because the limit of the table counts them; `RequestsAssumption`, `None` is no request;
`TablesAssumption`, the rows found at the start are aggregates that can be read back, under
keys of one session each, and nothing of them has reached memory or path yet:

* `TypeCorrect`; `Invariance`: `Spec => []IInv`;
* `AnswersStayOne` (`AnswersAgree`), `MemoryStaysCanonical` (`MemoryIsCanonical`),
  `StagesFollowGrades` (`StageByItsGrade`);
* `LeasesEndByTheirOwners` and `WorkStays`: the action properties `LeaseEndsByItsOwner` and
  `WorkIsKept`.

A grade is written to three stores one after the other, by requests that may be cut off
anywhere and threads that commit after them. Agreement is therefore said of no two stores
but of each store and one verdict: `OneVerdict`, there is a stage and a report for each
session such that its row, its entries in memory and path, and whatever any request or late
thread has in hand and confirmed, say nothing else. A write either repeats the verdict or
is the first to speak of its session, and then the row is still ungraded under the
writer's own token (`RowsAreSound`: an ungraded session has left nothing anywhere).
`RequestsAreFine` says, place by place, what a request carries (`Shaped`), how far the
aggregate has come (`Graded`), and how it relates to the row (`InHand`): what was once read
from the row is extended by it ever after, and as long as the row still bears the request's
token the aggregate in hand extends the row, which is why a write under a held claim loses
nothing. `TokensAreOfClaims` ties every stored token to a request at work, or gone: so the
thread of a cancelled request cannot write under a claim of its successor.
`StagesAreRemembered` orders the outboxes, `KeysAreOfOne` makes starts agree.
Every action is a quiet move of one request, a write of a row (`Written`), a lease taken or
returned (`LateLeaseStep`, `ClaimStep`, `ReleaseStep`), a commit to memory or path (`Remembered`,
`Staged`) or a creation with its evictions (`Created`); each kind is shown once to keep the
stores sound and other requests fine (`OthersStayProper`), whoever performs it. A step also
moves every store `Onward`, from which `WorkStays` follows; `RowsOnlyChange` lists what
any step may make of a row, and both action properties are read off it.

Only model-checked: liveness (`KnowledgeJobs`' two properties and `RunsEnd`), because
fairness and ENABLED are beyond the prover; what `KnowledgeJobs` does when the SDK refuses
a removal; and `AdaptiveSessions` (`RepliesAgree`, `MemoryIsCanonical`, `OnePath` and its
refinement of `TurnProtocol`), which is not beyond the prover: its rows are fenced as those
of the quiz are, and section 6 puts it next.

## 5. What is not modelled

Within the modelled components: schema migration and legacy rows' creation (the
legacy states are initial states where the code meets them); requests without a
key to the autonomous endpoints; a renewal of `continue` whose thread commits after its
request was cancelled (the pause store has it). Of a knowledge base: the epoch (it
repeats what status and revision tell the guards modelled), entity and edge rows, web
snapshots, extraction caches, other bases in the same queue. Of the quiz: the JSON codec,
the immutable hash as a hash, the in-memory `/quiz/legacy` helpers. Of the adaptive loop:
scores, texts, receipts beyond their bound. Of memory: the loss of the connection that
holds an advisory lock, preferences, the decision log, the wrong-question views, and the
arithmetic of mastery and SM-2 (sequences of who contributed stand for it). Of the vector
store: owners, embeddings, ranking and searches, which change nothing. Of the agent:
plan parsing, redaction, citations, audit records, the knowledge base's own registry.

Other components, listed in `PROJECT.json` with their sources: the LangGraph tutor and
supervisor graphs; the client's recovery state; the knowledge client and agent; model
providers; the HTTP frame; generation, reports and evaluation; document parsing; scripts.
They are I/O, wording or sequential transformation, except the first two, which are next.

## 6. Plan

1. Proofs: `AdaptiveSessions`, whose rows are fenced as those of `QuizSessions` are.
2. The revise and supervisor loops' bounds, and the client's recovery state composed with
   `AutonomousStart`.
3. Two knowledge bases sharing one worker.
