# Sanad and ModelWatch in TLA+

This directory holds the specifications of this repository: TLA+ modules
translated from its source, TLC configurations that model-check them on small
instances, and TLAPS proofs of what matters most for all instances. `PROJECT.json`
is the index: which definition stands for which lines, which run checks which
property, and which hazard each property is there for.

    tlc -config MCMonitor.cfg MCMonitor      # one run
    tlapm MonitorProofs.tla                  # one module of proofs

## The system

**Sanad** answers questions about contracts that users upload. **ModelWatch** watches
models - Sanad is one - for drift and raises alerts. They meet in one place: a
reporter that polls Sanad's telemetry and posts it to ModelWatch as batches to check.

    browser --> Sanad API --> documents (database, files, vectors), LLM
                   |  \-----> jobs (shared/jobs.py) <-- polled by the browser
                   v
              telemetry buffer <-- drained by -- telemetry_reporter
                                                      | batches
                                                      v
                 ModelWatch API --> MonitoringEngine --> Storage (SQLite), webhook

### Components

What each part keeps, does, and finds hard; and what being correct means for it.
"Modelled by" names its modules, or where in the plan it stands.

**Alert hysteresis** (`modelwatch/core/health.py`). A pure function from health
(state, two streaks), verdict and thresholds to health and two flags. Hard: sequences
of verdicts under thresholds nobody tried. Correct: one alert per incident, closed only
by recovery, and closed in the end. *Modelled by Health, Monitor, Incident.*

**Monitoring engine and storage** (`modelwatch/core/engine.py`, `storage.py`,
`api/app.py`). Tables of models, baselines, runs, alerts, versions, health; the live
adapters are a dictionary of the process. `register_model`, `run_check` and
`trigger_retrain` are sequences of four to eight transactions; the API runs each
request in a thread of its own. Hard: everything read in one transaction and used in
a later one, and a process killed between two. Correct: alerts name the runs that
raised them, streaks count runs that exist, versions have baselines, a run is labelled
with the version it was judged by, and one request at a time looks atomic.
*Modelled by Engine; its append-only tables traces and experiments and the read-only
routes are left out.*

**Background jobs** (`shared/jobs.py`; used by both APIs). A bounded table of jobs, a
lock, a pool of four threads. Hard: reads without the lock, eviction of jobs that are
still polled, restarts. Correct: every client gets a whole answer or the news that
there is none, and the bound costs nobody anything below it. *Modelled by Jobs.*

**Telemetry** (`sanad/api/telemetry.py`, `modelwatch/examples/telemetry_reporter.py`).
A bounded deque; a loop with `pending` events in a local variable. Hard: each request
of the loop may fail, before or after it had its effect. Correct: no question is judged
twice or out of order, a fault costs what it catches and no more, traces do not wait for batches, the backlog drains. *Modelled
by Telemetry.*

**Documents and access** (`sanad/db.py`, `storage.py`, `rag/vector_store.py`,
`rag/pipeline.py`, `api/auth.py`, routes in `api/app.py`). A document is a row, an object and
vectors, written in the order object, vectors, row and deleted in the order vectors,
object, row; versions form chains; comments hang on documents; each route looks the
document up for its caller first. Hard: failures and crashes in between, a deletion that
overlaps an upload of a new version, a comment or a job. Correct: a listed document is
whole unless its deletion has been asked for; nothing is left that no request can
remove; versions are numbered in order. *Modelled by
Documents, which implements Library.*

**Contract features** (`sanad/ingestion`, `sanad/features`, `rag/hybrid_retrieval.py`). Pages
become clauses, clauses are scanned by rules, and a language model is asked for overviews,
obligations and answers that the code then checks against the text. Hard: the model may
reply anything, quotes straddle clauses, and a document may be deleted between two reads
of a question. Correct: no line is lost; what is presented as grounded is supported by
the clause it points to; answers cite what was retrieved from the documents asked about.
*Modelled by Chunking, Grounding, Contract, Answers, and Reading, which composes them.*

**Detection** (`modelwatch/drift`, `adapters`, `diagnosis/engine.py`, `core/calibration.py`,
`experiments/benchmark.py`, `modelwatch-client`). Statistics over two batches of events, four
adapters that turn them into verdicts, a diagnosis, a benchmark of the verdicts and a
calibration from it; the LangChain handler with its table of runs in flight. Hard: batches too
small to judge, callbacks that overlap, fail or never come, rates that meet their target
exactly. Correct: drift is reported only of batches that differ; an event carries what belongs
to its own call; the recommended threshold is the smallest that meets the target. *Modelled by
Detectors, Adapters, Diagnosis, and Detection, which composes them.*

## Modules

| module | models | composed of |
|---|---|---|
| Health | `next_health_state`, thresholds, the health row, `get_health` without a row | - |
| Incident | the promise of the hysteresis, without its states | - |
| Monitor | `run_check` and `trigger_retrain` as single steps on health and open alerts | Health; implements Incident |
| Engine | the same and `register_model`, one action per storage call, in overlapping threads, with crashes | Health; implements Monitor when requests do not overlap |
| Jobs | `JobManager` and the browser's `runJob` | - |
| Telemetry | telemetry buffer, reporter, the part of ModelWatch's API it needs | - |
| Library | the promise of the document API: absent, whole, incomplete once its deletion is asked for, deleted | - |
| Documents | upload, deletion, comments and jobs over database, object store and vector store | implements Library |
| Lists | list comprehensions with a condition | - |
| Chunking | pages to text to clauses, quality of a scan | Lists |
| Grounding | does the text support a quote, and in which clause | Chunking |
| Contract | rule-based scans, extraction, contradictions, review, comparison | Grounding |
| Answers | retrieval, rank fusion, replies to questions, trace | - |
| Reading | a user's reports and questions while documents are deleted | Contract, Answers |
| Detectors | statistical tests on samples as bags of small numbers | - |
| Adapters | the four adapters on batches as bags of events | Detectors |
| Diagnosis | the diagnosis, the methods of the benchmark, the calibration | Adapters |
| Detection | the reporter's batches, the LangChain handler, benchmark and calibration | Diagnosis |
| MonitorProofs, EngineProofs, JobsProofs, TelemetryProofs, DocumentsProofs, ReadingProofs, DetectionProofs | theorems | the module they are about |
| FoldTheorems | lemmas about sums over finite sets, folds of sequences, flattening and orders | the library modules |
| MCMonitor, MCEngine, MCJobs, MCTelemetry, MCDocuments, MCReading, MCDetection | the instances for TLC | the module they run |

### Health, Incident, Monitor

`Health` is `health.py` as operators: `StateAfterDrift` is lines 58-64, `StateAfterClean`
77-86, `NextHealthState` the function. Thresholds are any integers, since
`config.py` reads them from the environment without a check.

`Monitor` is one model in a server whose requests do not overlap. `row` is its
`model_health` row (or `NoRow`: `get_health` then derives the health from the alerts, for
databases older than that table), `openAlerts` the number of its unresolved alerts. A
verdict is either way, as an adapter decides it.

`Incident` knows only whether an incident is open and how long the streaks are. Its one
liberty: where more than one drifted run is needed to open an incident, a shorter relapse
may go unnoticed, and it allows a clean run to close early; `Patience` is the number of clean
runs that an incident survives - the code needs one clean run more than
`recovery_after_consecutive` because RECOVERING lasts at least one check.

### Engine

One action per call of `Storage`, because `Storage._cursor` holds its lock for one
transaction. `pc[t]` is the call thread `t` makes next, `loc[t]` what it still needs of
what it read: the index of the baseline it compared with, the version and the run id, the
verdict, the health row. `StartCheck` is `_get_adapter` and `get_latest_baseline`; `Judge`
the adapter and `get_model`; then `SaveRun`, `ReadHealth` and `ReadAlerts` (`get_health` is
two transactions), `SetHealth` with `next_health_state`, and `CreateAlert` or
`ResolveAlerts`. A request that
is refused (404, 409) changes nothing: there is no action for it. `check_drift`, `build_baseline` and `retrain_fn` may raise. The MLflow export
and the webhook are best effort and change nothing here.

`Restart` kills the process while each thread is at a point of `CrashPoints`, and starts
it again: tables stay, threads are gone, and `_reattach_adapters` attaches an adapter
to every stored model. Models do not meet in the tables, so there is one.

### Jobs

`tracked` is `_jobs`, `queue` the executor's, `stage[j]` where the server is with job `j`,
`client[j]` where the browser is. Actions are split where the lock is released and, inside
`_run`'s update, between result and status, because `to_dict` reads without the lock:
`Get` (under the lock), `ReadStatus`, `ReadPayload`. The client is `runJob` of
`sanad/frontend/index.html`: it polls until an answer is final or fails.

### Telemetry

Events are numbered by question. An action is one HTTP request of the reporter together
with its handling on the other side; in between anything else may happen. Each request
has its failures beside its success, by kind of fault: before its effect (`sanadDown`), after
it (`replyLost`), or either (`modelwatchDown`: the post may or may not have been processed).
`NextPoll` is the end of the loop's body, reached also from its `except` clauses. Requests
that raise something the loop does not catch, and Ctrl-C, are `Kill`; the operator starts the
reporter again whenever and in whichever mode. One reporter runs at a time.

Whether an event carries a full trace is a setting of the Sanad process (`fullTrace`,
`SANAD_TELEMETRY_FULL_TRACE`), which may change when it restarts; `withTrace` are the events that do, and
`Posts` sends only theirs. `caught` and `unposted` are history: a step that goes wrong says which events were in
its hands (`Goes`), the buffer which one it has pushed out, and a refused batch what it took with it.

### Documents, Library

One action per call of a store. `pc[r]` is the next call of request `r`, `loc[r]` what it has
read: `StartUpload`, `NumberVersion`, `SaveObject`, `Ingest`, `SaveRow` are `upload_document`;
`StartDelete` to `DeleteRow` are `delete_document`; then comments and jobs, which are queued
(`StartJob`) and run (`RunJob`) by another thread. `Fails` is any call that raises, `Restart` the
process killed. `upload_document` is a coroutine that does not await once the file is read,
so no other request begins inside it (`LoopFree`), though threads that began before go on: the
three stores change under an upload all the same. The columns of a row never change, and `rows`
keeps them for requests that have read them. `saved` and `asked` are history: what was ever
listed, and whose deletion was accepted.

`Library` gives a document one state; Documents implements it with the state computed from the
three stores (`StateOf`). A document appears in one step although it is written in three, since
nobody can see it before its row.

### Chunking, Grounding, Contract, Answers, Reading

Text is a sequence of lines, each with its length, its words, whether it looks like a heading and
which rules and topics match it: the regular expressions themselves are left out, what follows from
a match is not. Chunking is `chunk_document` as folds over lines; `Grounding!FindEvidence` is
`find_evidence_chunk`; `Contract` and `Answers` are one operator per feature. A reply of the model is
any of a set of shapes: an object, prose, JSON of another shape, or none (503). `NoQuote` is a quote that is missing
or empty, the empty sequence one of white space only. `old` are the documents from before `page_quality` was stored:
their quality report says that it has no details.

`Reading` is the user: a report is one step, because it is computed from the text of one row. A
question is several: `AskChat`, `AskScenario` or `AskAcross` looks the documents up, `DenseQuery` or
`ReadCorpus` and `RankClauses` query the vector store (hybrid retrieval reads it twice), and
`AnswerChat` and its siblings check the reply. `DeleteVectors` and `DeleteRow` of another request may
come anywhere between.

### Detectors, Adapters, Diagnosis, Detection

A sample is a bag of small numbers (`[Values -> Nat]`), a batch a bag of events. The
Kolmogorov-Smirnov distance, the Wasserstein distance against its threshold and the
two-proportion test are exact, over integers; p-values are compared by their asymptotic critical values
(`KsCritical`, `ZCritical`), and whether the permutation test of the embeddings finds something is a
choice (`found`), for it is random. Adapters are operators from two batches to a verdict: the signals
that drifted, and the batch's own.

`Detection` is the three sources of verdicts, one per behaviour. The reporter collects events and has
them checked (`CheckBatch`) or made the baseline (`Retrain`). The handler's callbacks fill and empty
`table`, which is its `_runs`, while `chain` is what really happens in the chain: how many retrievals and calls are
in flight, what the latest retrieval gave (`context`), if only that it gave no scores, and what they all gave (`found`);
callbacks come in any order LangChain allows, retrievals overlap and may fail like calls, and a chain may end without a sign. The
benchmark runs trials, of which the adapters' operators decide the outcome, and `CalibrateHysteresis`
turns their rate of false alarms into a threshold; `Capped` has a free choice where rounding decides.

## Runs

Twelve runs. Each property of a passing run has a mutant in `PROJECT.json`: a plausible bug in one
mapped definition, kept in the module right before it and marked as such, under which TLC
finds the property violated in that run.

| run | asks | answer |
|---|---|---|
| monitor | does the hysteresis keep its promises, one request at a time? | yes, for sound thresholds |
| monitor_two_to_page | one alert per incident, with thresholds 1, 2, 1? | no |
| monitor_two_to_recover | closing only after the recovery streak, with 2, 2, 2? | no |
| engine_sequential | do the storage calls add up to Monitor's steps? | yes, with crashes outside two windows |
| engine_concurrent | what survives overlapping requests and any crash? | four invariants |
| engine_alerts | one open alert per model, with two overlapping checks? | no |
| jobs | are clients answered, completely, and is the limit the only loss? | yes |
| telemetry | are events judged at most once, in order, lost only to what caught them, their traces sent first? | yes |
| telemetry_outage | does every question become a datapoint? | no: one failed request loses a batch |
| documents | do three stores behave like one library, whatever fails or overlaps? | yes |
| reading | is what is presented as grounded in the text, where it says? | yes |
| detection | does drift need a difference, a diagnosis a signal, an event its own call? | yes |

**Sound thresholds** (`SoundThreshold` in Health): `degraded <= 1`, or `degraded <= warning`.
Outside of these a drifted run can take a DEGRADED model to WARNING, and the bookkeeping of
alerts, which trusts the state alone, breaks. The default thresholds 1, 1, 1 are sound.

### What the properties say

- `AlertAgreesWithHealth`, `OneAlertPerIncident`: `run_check` raises and resolves by the state
  alone, so state and alerts must agree after every sequence of verdicts and retrains.
- `ImplementsIncident`: Monitor refines Incident, with `open` mapped to "has an open alert" and
  the streaks to those of `get_health`.
- `CleanTrafficClosesAlerts`: clean runs get every incident through DEGRADED and RECOVERING.
- `ClosesOnlyAfterRecovery`, `OneOpenAlert`, `EveryQuestionIsADatapoint`: what comments of the
  code promise and the code does not keep; see below.
- `AlertsNameDriftedRuns`, `StreaksAreBacked`, `VersionsHaveBaselines`: relations between tables
  that no transaction spans.
- `RunsJudgedByTheirVersion`: holds one request at a time; the version before is allowed,
  for a retrain that was killed after its first write. A retrain that overlaps a check breaks it.
- `ImplementsMonitor`: a check counts as happened when its health row is written, a retrain when
  its alerts are resolved; the alerts still to be written are counted in or out by `MonitorAlerts`.
- `AnswersAreComplete`, `LostOnlyBeyondLimit`, `EveryClientIsAnswered`, `EveryJobEnds`: what the
  browser sees, and what happens to jobs it cannot see any more.
- `JudgedOnceInOrder`, `LossesHaveCauses`, `BacklogDrains`: the half of exactly-once that the
  reporter keeps, and that it never falls behind for good. `LossesHaveCauses` goes on after a fault: what the fault did
  not have in its hands is still somewhere.
- `TracesGoFirst`: an event that waits for its batch, or has been judged, has had its trace sent, if it has one.
- `RowsAreBacked`, `DeletionLeavesNothing`: the order of the calls in upload and deletion, which is all
  that keeps three stores without a common transaction together.
- `VersionsFollowUploads`: the next number is computed from what is left of a chain while others delete
  from it; holds because no two uploads run at once in one process.
- `CommentsGoWithTheirDocument`: the row and its comments go in one transaction, so only a comment that
  comes later than that can be left over. It can: `add_comment` does not look again.
- `ImplementsLibrary`: Documents refines Library.
- `ClausesCoverTheText`: the clauses, end to end, are the text, and how far one may outgrow the maximum; and a
  page without text shows in the quality report, if the document has one.
- `EvidenceIsWhereItPoints` (of quotes that have a word in them), `ReviewIsBacked`, `ComparisonMatchesTheScans`: reports against the text itself,
  without the clauses that the code goes through.
- `HitsAreTheBest`: what retrieval leaves out is not ahead, in both rankings, of anything it takes; and a
  distance is made up only for a document that is being deleted.
- `AnswersRestOnClauses`: no reply of the model makes the code call an answer grounded without a clause
  that was retrieved.
- `DriftIsReal`: no verdict and no signal of a batch too small to judge or with the same frequencies as its
  baseline. The sizes may differ, except for live_telemetry, whose percentile depends on the size.
- `DiagnosisNamesADriftedSignal`: retrieval is blamed before generation for what both explain.
- `EventsMatchTheirChain`: the handler's table against the chains themselves. The scores of an event are those of a retrieval
  of its own chain since the last call ended: of the latest, if that gave any, and none only if no retrieval gave any.
- `AblationOnlyLoses`, `CalibrationMeetsItsTarget`: the accounting of the benchmark and the search that rests on it. The
  retrieval test counts as an ablation only where it is one (`KsIsAnAblation`).

### What the code does not keep

1. *Relapse to WARNING* (monitor_two_to_page). With `MODELWATCH_DEGRADED_AFTER_CONSECUTIVE=2`,
   which `config.py:78` recommends trying, drift, drift, clean, drift, drift raises a second alert in the
   first one's incident: `health.py:61` looks at the streak only.
2. *Early close* (monitor_two_to_recover). A relapse shorter than both thresholds resets the clean
   streak but leaves RECOVERING, and `health.py:81` closes on the next clean run.
3. *Two alerts* (engine_alerts). Two checks that overlap both read HEALTHY at `engine.py:111`.
4. *Lost batch* (telemetry_outage). `telemetry_reporter.py:165` empties `pending` first.

Observed while modelling, without a run of their own. The first three contradict what is written elsewhere, and TLC
finds each as the counterexample of the invariant or action property that is given with it:

- *Alerts close by themselves.* `modelwatch/README.md:332` says "Alerts only resolve via `trigger_retrain`". The code closes
  them when the model recovers (`health.py:82`, `engine.py:149-155`), with the default thresholds on the second clean run.
  `CleanTrafficClosesAlerts` states what the code does, so it contradicts that sentence, which has fallen behind the hysteresis.
  `[][openAlerts' < openAlerts => Retrain]_vars` fails in MCMonitor after a drifted and two clean runs.
- *Blank evidence.* `find_evidence_chunk` rejects an empty quote (`grounding.py:72`), but one of white space normalises to the
  empty string, which is a part of every text: a field of the overview stays found, and an obligation is grounded, on no
  evidence, against `overview.py:16-17` ("every FOUND field must quote real contract text") and `obligations.py:10-16`.
  It points to the first clause, or to none if the document has none.
  `\A o \in Quoted : Supports(o, WordsOf(Text(shown.doc)))` fails in MCReading on the first overview with such a quote, which is why
  `EvidenceIsWhereItPoints` and `ReviewIsBacked` except blank quotes, by name.
- *Stale scores.* `langchain.py:81-82` keeps the scores of an earlier retrieval of the chain when the next one's documents have none,
  so the event bears scores of documents that its call was not given. `test_langchain_integration.py:77-84` wants no
  `retrieval_scores` without score metadata, and tries it on a chain that retrieves once.
  `latest.kind = "event" => latest.event.scores = latest.before.context` fails in MCDetection; `EventsMatchTheirChain` says what is
  kept.

- `config.py:77` says "clear on the very first clean one", but the default thresholds need two clean runs
  (`health.py:77-82`).
- `benchmark.py:26-28` calls `ks_retrieval_only` an ablation of the full adapter. It tests at the fixed level .05
  (`detectors.py:88`) whatever the size of the batch, the adapter at `MODELWATCH_RAG_ALPHA` and from 8 events on: with a smaller
  level, or smaller trials, the retrieval test can have alarms that the adapter has not.
- A job that is computing when its document is deleted goes on, and its result is kept and served (`app.py:367`, `jobs.py:97`).
- The code does not recover from a crash between `set_health` and the alert it calls for
  (`engine.py:121-150`) nor between `resolve_alerts_for_model` and `set_health` in a retrain (253-258):
  these are the two windows that engine_sequential keeps out of `CrashPoints`.
- `calibration.py:98` compares without the epsilon of line 94: where the power equals the target and rounds up
  (`0.1**2 > 0.01`), a threshold below the maximum that meets its target is reported as capped, against the comment
  on the field (lines 36-39).
- `vector_store.py:119-124` says of the made-up distance that it "shouldn't happen": it does when a deletion comes
  between the two reads of a hybrid query, as `HitsAreTheBest` allows.
- A short tail is merged into the clause before it without a test of the size (`chunking.py:84`), so a clause can
  exceed `chunk_max_chars` by up to the minimum and the two characters that join them.
- A comment can be stored for a document that has just been deleted (`app.py:305-322`), and nothing removes it.
- A crash or a failure in the middle of an upload leaves a file, or a file and vectors, without a row
  (`app.py:205-219`). No request finds them; Library has no state for them.
- The 95th percentile of `live_telemetry_adapter.py:49`, called nearest rank, is one rank too high when
  `0.95 n + 0.5` rounds up (`n = 20` gives the largest), so the same traffic in batches of different sizes can differ.
- Each event of the LangChain handler is checked as a batch of one, below every minimum: it never drifts and each
  check counts as a clean run. A retried call, or the second call of a chain, is reported without the scores of the
  retrievals; a retrieval that fails leaves its entry in the table. Handler events are never grounded and cite nothing.
- Every variant of the ablation drops the embedding signal too (`benchmark.py:208-211`), and a drift of embeddings alone
  has no subsystem in the diagnosis.

### Bounds, and why they are enough

- **monitor**: thresholds 0 to 3 each, up to two old alerts, streaks to 6. Streaks beyond
  the largest threshold plus one change nothing; 6 is twice the largest.
- **engine_sequential**: 7 rows of runs and baselines together, one crash: enough to degrade with
  three drifted runs, recover with two clean ones, and retrain. One caller is what makes it sequential.
- **engine_concurrent, engine_alerts**: two callers - every conflict in the code is between two
  requests - with 5 rows and one crash, and 3 rows without. Callers are symmetric.
- **jobs**: three jobs, two workers, a table of two: one job waits for a worker, one is evicted. One restart.
- **telemetry**: buffer of three, batches of two, five questions: overflow, a batch larger than the
  minimum, several batches, and events left pending; two faults, so that one may hit the recovery from another; traces on or off,
  from the start and after each restart. 305,335 states.
- **documents**: two requests (symmetric), three documents of which the first is from before owners and
  versions and the second has no text, one comment, an ordinary user and an administrator: a chain of up to three
  versions, a deletion against an upload, a comment, a job or another deletion, failures and restarts without bound.
- **reading**: contracts of up to four lines from four kinds, with lengths scaled to at most six characters a clause and at
  least three, so that lines merge, split and overflow; a scanned contract of two pages, and one without a page. One line is
  one sentence. Quotes are verbatim, near, straddling two clauses, blank, missing or invented; a contract with a blank
  page has a quality report or is older than those; `OverlapPercent` is 60
  instead of 85 because quotes have four words. Two clauses are retrieved of up to four, one per document across two;
  one of two documents is deleted. Only one question runs at a time: questions share no state. 183,572 states; this and detection
  take about three minutes each, the others less than one or two.
- **detection**: values 0 to 5, batches of up to four events of three or four kinds, minimum samples of 3 instead of 8 and
  2 instead of 5, so that a batch may be below, at or above them; critical values of the
  significance level .05; two chains with two retrievals and two calls in flight each; three trials and a maximum of four consecutive
  checks, so that a target is met exactly, met with room, or missed at the maximum, and one that is refused. 370,101 states.

`CHECK_DEADLOCK FALSE` stands where the bounds stop the model (Engine: no more rows; Jobs: all jobs
answered; Telemetry: all questions asked and a reporter that finished with `--once`; Documents: no more
documents). In
`PROJECT.json`'s passing runs every action fires.

### Fairness

- Monitor: `WF(RunCheck(FALSE))` - the reporter goes on sending batches. `CleanTrafficClosesAlerts`
  supposes that from some time on they are clean.
- Jobs: weak fairness of each job's worker steps and of each client's polls. A thread of the pool gets to
  run; `fn` ends because calls to the LLM have a timeout (`llm_client.py:36`); `runJob` polls
  until it is answered. None for `Submit` or `Restart`.
- Telemetry: weak fairness of `Poll` - a request ends, `time.sleep` ends. The requests carry no timeout
  (`telemetry_reporter.py:57`), so this supposes that the other side answers or drops the connection. None for `Start` (the operator),
  `Ask` or faults. `BacklogDrains` supposes that from some time on the reporter polls with a valid session.
- Engine, Documents, Reading and Detection state none: they have only safety properties.

## Proofs

All theorems hold for every value of the constants under the modules' named assumptions. They need
no bound: `MaxRows`, `MaxStreak`, `NumJobs` and the rest are arbitrary numbers.

**MonitorProofs** - `TypeCorrect` for any thresholds; `AlertAgreement`, `NoSecondAlert`, `RefinesIncident`
assuming `SoundConfigs`. The invariant is `IInv`: types, `AlertAgreesWithHealth`, and
`StreaksFitState`, which ties the clean streak to the state: a DEGRADED model has not yet seen the clean
runs that lead out of it, and a RECOVERING one, if a single drifted run counts, has seen all of them.
Agreement alone gives the two alert theorems; the refinement needs the streaks, because whether
a clean run may close the incident depends on how many came before it. Two lemmas on
`next_health_state` carry it: a drifted run does not leave an incident, a clean run leaves it only by resolving.

**EngineProofs** - four theorems for any number of threads and two for a single one, each with its own invariant:

- `TypeCorrect`: types, and that a thread at `setHealth` has read a health row.
- `BaselinesAreThere` (`VersionsHaveBaselines`): with `BaselinesAreSavedFirst`, what each thread
  between storing a baseline and mentioning it has already stored.
- `AlertsAreBacked` (`AlertsNameDriftedRuns`): with `RunsAreHeld` - the run a thread remembers is stored, has
  the verdict the thread remembers, is named by no alert yet, and no two threads remember the same run.
- `StreaksAreCovered` (`StreaksAreBacked`): a thread that has read a row adds one to what it
  read, while others add rows to `runs`. So `StreakInv`
  keeps a reserve: the streak in the row, and the one read by each thread at `setHealth`, plus the runs
  stored by threads that have yet to count theirs, do not exceed the runs of that verdict.
  It uses `AlertInv`, since a model without a health row starts with a streak of one if an alert is open.
- `RunsAreLabelled` (`RunsJudgedByTheirVersion`), assuming `SingleCaller`: with `LabelInv` - no baseline is more than one
  version ahead of the model, some baseline is as new as it, and what the one request under way has read still holds.
  The assumption is needed: a retrain that overlaps a check breaks the property.
- `EngineImplementsMonitor` (`ImplementsMonitor`), assuming `SequentialRequests`: one caller, no crash
  in the two windows, room for a row. The invariant adds `CallerInv` to the types, alerts and streaks above:
  the health a request has read still stands when it is used. The streaks are needed because Monitor
  bounds them by `MaxStreak`, which is `MaxRows` here: a counted run is in the table, so the bound is never what stops
  a check. `setHealth` maps to `RunCheck`, `resolveForRetrain` to `Retrain`, and all else stutters. What
  MonitorProofs shows of any thresholds and, for sound ones, of alerts and incidents, thus holds of Engine seen in this way.

**JobsProofs** - `TypeCorrect`, including that the table keeps to its limit; `AnswersComplete`, from
`AnswerInv` (a job is in the queue at most once and only while queued; status and result fit its stage; a
final status that a poll has read is still the job's status, so the result that follows is there);
`LossesNeedLoad`, from `LimitInv` (without a restart, the table is no larger than what has been submitted,
and up to the limit nothing has been evicted).

**TelemetryProofs** - `TypeCorrect`, including that the buffer keeps to its limit; `NoneJudgedTwice`, from `InLine`: the
lists that an event passes through (judged, batch, pending, fetched, buffer) are increasing, and everything in one is
older than everything in the next; the batch of a baseline, which is not judged, is left out;
`LossesAreExplained`, from `NothingLost`: every question that nothing caught is in one of these lists or in the baseline, and the
batch for a baseline is a copy of what is also in the buffer or has been caught; it needs `Stations`, which lists are empty at which
request. `TracesAreSentFirst`, from `TracesSent`: what has been collected, into `pending`, a batch or a check, has had its trace sent.

**DocumentsProofs** - six theorems, so every property of the documents run is proved for any number of requests,
users, documents and comments. `Clean` is types with what requests remember: documents that exist, and
an upload's document that is fresh and whole as far as it has come (`UploadIsFresh`; at most one upload is under way).
From there:

- `ListedDocumentsAreWhole` and `NothingOutlivesItsRow` with `DeletionIsFinal`: a request that is past `deleteVectors` or
  `deleteObject` has left nothing there, and no upload brings it back, because doc_ids are fresh.
- `NumbersFollowUploads` with `NumbersGrow`: the number an upload holds exceeds those of its chain. The maximum
  of a bounded set of naturals exists by well-foundedness (`MaxOfBounded`), since induction is not available.
- `CommentsFollowTheirDocument` from `Clean` alone.
- `StoresImplementLibrary`: an upload's last call maps to `Appear`, the deletion's first to `AskToDelete`, the first call that takes
  something away to `LosePart`, the last to `Vanish`; all other steps stutter.

**FoldTheorems** - the models of Reading and Detection compute with the folds of the community modules, whose definition
picks elements with CHOOSE and takes an operator as parameter. No theorem can be stated for every such operator, and the
library's induction theorems cannot be used, so the module works with values: a fold is a function on the subsets
of a finite set, it exists (`FoldExists`, by the least counterexample) and, for sums and for `FlattenSeq`, is unique. What is
proved from that: a sum grows by each element, is monotone, and proportional summands have proportional sums; `FlattenSeq`
of a concatenation is the concatenation of the two; a fold over a sequence goes through its elements one by one
(`FoldLeftAccumulates`); and the elements of a finite set are put in places by a strict total order (`PlacesInOrder`).

**ReadingProofs** - all seven invariants of the run reading, for every library of documents, every reply of the
language model, every ranking and all limits. Each fold of the model has a lemma `FoldOf...` that says what it computes
step by step. The theorems, in the order of the module:

- `ChunkDocumentKeepsTheText` and `ClausesCovered` (`ClausesCoverTheText`), from `StoredInv`: the row of a document has the
  number of its clauses, and the vector store has exactly these clauses or none. Splitting keeps the text because each line is
  placed; merging because what is merged and what is in the buffer are, in each step, what has been read.
- `EvidencePointsRight` (`EvidenceIsWhereItPoints`): `EvidenceIsBacked` for one quote that is not blank, then for obligations, fields and items.
- `ComparisonsMatch` (`ComparisonMatchesTheScans`) and `ReviewsAreBacked` (`ReviewIsBacked`): the clauses' findings are those
  of the text, because every line of one is a line of the other; the severities do not matter since no rule has two that count.
- `FusedIsRight` and `HitsAreBest` (`HitsAreTheBest`): `Above` compares scores as fractions without division; winning by score,
  and by place in a tie, is a strict total order (`ByScoreOrders`), so each clause has a place of its own, and
  a clause that is ahead in both rankings has the higher score (`SumOfInverses`). The invariant `ReadInv` adds what a question has
  read so far (`QuestionInv`): what was read as a document's corpus is still its clauses or the document is being deleted (`DeletionInv`).
- `TypeCorrect` (`TypeOK`), from `ShownInv`, and `AnswersRest` (`AnswersRestOnClauses`), whatever the reply's citations and claims.

The assumptions (`ReadingAssumption`, with `Line`, `Page`, `Item` and `Citation`) say what pages and replies are made of; TLC
evaluates them on the instance.

**DetectionProofs** - `EventsAreTheirChains` (`EventsMatchTheirChain`), from `HandlerInv`: what the handler knows of a chain
follows the chain (`Follows`) - the scores of its entry are those of a retrieval of the chain as `ScoresAreOf` has them, and the entry is marked as
started while calls that do not overlap are in flight. It needs that no call takes a latency of 0, which the code also
gives to a call whose start it has forgotten. `DiagnosisHasASignal` (`DiagnosisNamesADriftedSignal`): each of the three scores
is positive exactly if one of its signals has drifted, for any confidences in `Confidences`, so the highest, if
it is positive, has one. The other four properties of the run are proved from sums, `SumFunction` of FoldTheorems:

- `AblationsOnlyLose` (`AblationOnlyLoses`), from `ResultsInv`: every method has been counted on the trials of the full adapter
  (`Behind`), and in each of them an ablation says nothing that the full adapter does not (`Covers`). Of the retrieval test this is shown
  under `KsIsAnAblation`: a distance that exceeds one critical value exceeds every smaller one (`StricterTest`), and the trials have as
  many events as the adapter asks for. Without these conditions it is false. Synthetic batches are any finite bags (`SyntheticAssumption`).
- `CalibrationIsRight` (`CalibrationMeetsItsTarget`), from `ThresholdInv`: the loop ends at a minimum (`CalibrationIsMet`) for
  any rate and target that are fractions; `Power` is a recursive function, of which it is only needed that it is a number.
- `TypeCorrect` (`TypeOK`), from `BatchInv`: a batch's counts and their sum keep to the bound, since the sum of a batch grows
  by one with each event (`SizeOfMore`).
- `DriftIsNeverFalse` (`DriftIsReal`). If two batches have every kind of event in the same proportion (`Alike`, compared
  crosswise), then so does every sample that is extracted from them, and their sizes (`SumProportional`); so there is no gap
  between the distribution functions, no skew between the rates and no difference of embeddings. No test is passed by that,
  whatever the critical values: the other side of each inequality is no negative number. For the Wasserstein test this is
  the spread of the baseline, and that the third quartile is not below the first takes the interpolation apart
  (`QuartilesAreOrdered`). Refusals and citations need that there are no more hits than trials (`TotalsAreOrdered`). The handler's
  event is a batch of one, below `RagMinEvents`.

The assumptions of Detection are those of the code: `RagMinEvents` is at least 2 (8 by default; with 1 an event by itself could be
drift), an event's valid citations are among those it has (`EventsAssumption`), there is a critical value for each size of
test family that is used, and a target is a fraction.

Only model-checked: liveness (`CleanTrafficClosesAlerts`, `EveryClientIsAnswered`, `EveryJobEnds`,
`BacklogDrains`), which with fairness and ENABLED is out of the prover's reach. Every invariant and every action property
of a passing run, and both refinements, are stated by a theorem. RECURSIVE operators and induction theorems that take an operator
are out of reach too; the modules do without them, and where a proof goes through a set or a sequence element by element, it
is by the least counterexample (`LeastNumber`, `CountingUp`, `GrowingSets`).

## Plan

What is left, in order of worth:

1. ModelWatch's tables of traces and experiments and the routes that read them; the Drift Lab's job and the
   dashboard's polling loop, which unlike the Sanad frontend's goes on after a 404.
2. `trace_diagnosis`, the decision rules of a single trace, beside `Diagnosis`.
3. Sessions: expiry between the request that queues a job and the job's second look.

## Not modelled

- PSI, chi-square and Jensen-Shannon in `drift/detectors.py`: no adapter uses them. p-values and the random permutation
  test are external, see Detectors.
- Calls of the language model and of embeddings, BM25 scores, OCR and parsing of files: any result within its type.
- The patterns and prompts of `sanad/features`: which pattern a line matches is given with the line; and wording.
- Signing and expiry of session cookies (`auth.py`): no state on the server.
- Trace storage and its projection, the Drift Lab (`experiments/drift_lab.py`, `counterfactual.py`), `trace_diagnosis`:
  read-only, or numeric simulations over live services.
- The frontends, but for the polling loop in Jobs; offline scripts (`ml/`, `sanad/evaluation`, `datasets/`, `examples/`,
  `scripts/`), but for the calibration; logging and configuration.
