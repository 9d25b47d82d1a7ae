# A TLA+ verification project for the LLM model benchmark harness

The repository runs local language models through benchmark suites and decides
whether a deployment qualifies. Its hard part is not the arithmetic of the scores
but the *evidence*: a verdict may only be given when the model that was asked is
the model that was named, when every request to it was observed, and when the
artifacts that say so survived signals, timeouts, failed writes and crashes. These
modules model the parts of `src/harness/` that protect that evidence.

Contents: [inventory](#1-inventory), [plan](#2-plan), [modules](#3-modules),
[runs](#4-runs), [proofs](#5-proofs), [disagreements found](#6-disagreements-between-code-and-documents),
[limits](#7-limits). `PROJECT.json` has the same in machine-readable form, with
the source lines each definition models.

## 1. Inventory

### Components

| Component | State it keeps | Operations | Correct when |
|---|---|---|---|
| Model gateway (`model_gateway.py`) | request counter, pending ids, an append-only log, one handler thread per connection | `_proxy`, `record_request`, `record_response`, `record_observer_error`, `close`, `read_model_transport_observations` | the log is complete whenever a reader trusts it; closing is bounded |
| Process groups (`processes.py`) | a child, its session, the pipe, two deadlines | `run_process_group`, `terminate_process_group` | no call leaves its child running; a monitored call is bounded |
| Benchmark suite (`benchmark_model.py`) | endpoint lock, aggregate, three files | `execute_suite`, `_transition`, `_write_outputs`, the control-plane and identity checks | a verdict is earned; files, exit and record agree |
| Qualification (`qualification.py`) | manifest, partial results, results, report | `main`, `execute`, `preserve_infrastructure_failure` | only whole, observed runs are ranked; a failure costs at most the stage it strikes |
| Hermes task runner (`hermes_runner.py`) | candidate workspace, phases, result | `run_once`, `classify_outcome`, cleanup | an infrastructure fault is never a model failure |
| Evaluator (`evaluator.py`, `evaluator_worker.py`) | worker process, result pipe, budget | `evaluate_task`, `_check` | the worker's claims are validated; one budget for all checks |
| Evidence, workspace (`evidence.py`, `workspace.py`) | baseline commit, final capture | `capture_baseline`, `capture_final`, `protected_input_integrity`, `prepare` | protected inputs that changed are noticed |
| Artifact writer (`artifacts.py`) | temporary file, target | `atomic_write_bytes`, `read_regular_bytes` | readers see one whole version; nothing older comes back once a version is durable |
| Comparison (`comparison.py`) | rows of all runs, five outputs | `collect_runs`, `build_summary`, `build_public_leaderboard`, `build_metadata_candidates`, `compare_runs` | only comparable, earned results are ranked; the order is total; the outputs agree |
| Response observer (`_ResponseObserver` in `model_gateway.py`) | decoder, line buffer, event, flags | `feed`, `finish`, `snapshot_downstream_disconnect` | what it reports does not depend on where the bytes were cut |
| Reasoning policy (`reasoning_policy.py`) | none | `normalize_model_request`, `runtime_reasoning_control` | the log's reader accepts exactly what the gateway writes |
| Model identity (`model_identity.py`) | none | `resolve_public_identity` | incomplete or contradictory identities are not ranked |
| Upstream adapters (`upstreams.py`) | checkout directories, Spark's packages, shared by all commands | `ensure_checkouts`, `validate_checkout`, `ensure_spark_runtime_dependencies`, parsers and command lines | a stage runs what the manifest names; what an earlier setup left is repaired or refused |
| Sandbox, endpoint policy, diagnostics, metrics, scripts, task data | see `PROJECT.json` | | |

### How they interact

The qualification runner and the Hermes runner each open one **gateway** per
stage, run a **process group** behind it, close the gateway and read its log. The
**suite** calls the Hermes runner once per task, with the control plane and the
model's identity checked before and after, and rewrites its aggregate at every
phase the runner reports through a callback. The Hermes runner captures
**evidence** from the workspace and hands it to the **evaluator**. Qualification
ends by calling the **comparison** over all run directories, and begins by setting up or
checking the **upstreams** in directories that any other command may set up meanwhile. Every file goes
through the **artifact writer**.

Interaction is by calls, by one callback (`state_callback`), by files, by threads
inside the gateway, the process runner and the evaluator, and by exceptions,
`KeyboardInterrupt` above all. There is no network protocol between harness
components.

### What is hard

* *Threads*: gateway handlers, each taking three locks one after the other, race
  with one another, with their client and with `close()`.
* *Signals*: SIGINT and SIGTERM become exceptions between any two steps, except
  while the suite writes, where they are held back and turn one write into two.
* *Deadlines*: a child may end while it is being terminated, or ignore SIGTERM,
  or leave a descendant that holds the pipe.
* *Several files, no transaction*: three per suite transition, four per
  qualification, five per comparison.
* *Evidence read early*: `run_once` reads the gateway's log while the gateway is
  still open.
* *Exceptions that replace exceptions* in nested handlers and `finally` blocks.

`PROJECT.json` lists each hazard at its line, with the properties that cover it or
the reason why none does yet.

## 2. Plan

In the order of what a wrong verdict would cost:

1. `ModelGateway`: done, with proofs of its safety properties.
2. `ProcessGroup`: done, with proofs of its safety properties.
3. `RunRecord` (abstract) and `Suite` (detailed, implements it): done, with proofs of
   its safety properties and of the refinement.
4. `Qualification`: done, with proofs of its safety properties.
5. `HermesRun`: done, with proofs of its safety properties.
6. `Evaluator`: done, with proofs of its safety properties.
7. `AtomicFile` (abstract) and `ArtifactWriter` (detailed, implements it): done; the
   refinement is proved in the composition.
8. `ReasoningPolicy`, `ResponseObserver`, and `Exchange`, which composes them into one
   stage: done, with proofs of its safety properties: the agreement of writer and reader,
   and of the observer's reports with the events of the answers.
9. `Comparison`, and `Publication`, which composes it with `Exchange` and
   `ArtifactWriter`: done, with proofs of its safety properties.
10. `UpstreamSetup`, and `QualificationSetup`, which composes it with `Qualification`: done,
   with proofs of its safety properties. Left: the parsers of the upstreams' output.

Modules to be proved about use no recursive operators; what must be folded over a
sequence (the observer's bytes) uses the folds of the community modules.

## 3. Modules

### `ModelGateway`, `MCModelGateway`

One gateway for one stage. `pc[c]` is where connection `c`'s handler thread stands in
`_proxy`; each critical section is an action, because what the code gets wrong or
right lies between them: `CountRequest` (counter and pending id) and `LogRequest`
(the row), `AppendResponse` and `Unpend`. `DoneMarker` sends a streamed answer through
the log before the client (`then = "write"`). An append may raise (`LoseResponse`,
`LogRequest`): inside the try block it is handled like an upstream failure and
recorded again; elsewhere it ends the thread with its id still pending. What it leaves of
its row is arbitrary (`Short`): nothing, a part, all but the newline, the whole row. The
log is therefore a sequence of pieces, and `Readable` says which of them the reader gets: a
row that follows a torn one stands on the torn one's line and is lost with it, whoever wrote
it. A handler may wait for a model that has fallen silent (`Silent`). The client may leave, exit, or be killed with its group. The owner closes (`Shutdown`, `Drained` or
`DrainExpires`) and reads (`ReadClosed`); the Hermes runner reads first (`JudgeOpen`).
`Report` is the reader's verdict on a log, with its count of malformed rows.

Requests are abstracted to kinds: an answer that is streamed or plain, a probe that is
never recorded, a body that cannot be normalised, a path that is refused. What is in the
requests, the answers and the rows is `Exchange`'s.

### `ProcessGroup`

One call of `run_process_group`, both paths. `proc` is the operating system's view of
the group, `stubborn` the processes that ignore SIGTERM, `holders` those that keep the
pipe open; all three are arbitrary. `poll`, `term`, `grace`, `kill`, `reap`, `join` are the
steps of `terminate_process_group`; `cleanup` says whether it runs inside the heartbeat
loop (`"first"`) or in the exception handler around it (`"handler"`), which cleans up a
second time. A turn of the heartbeat loop is three steps, with the processes and the
clock running between them: the clock is read (`Sample`), the heartbeat paths are looked
at (`Look`), the deadlines are decided by what was read (`Decide`). The reader thread ends
on its own (`ReaderEnds`), well or of an exception. `Interrupt` is a `KeyboardInterrupt`
at any step. Time is two booleans.

One exit is without cleanup, and the model has it: when the reader thread of the monitored
path dies (output that is not UTF-8 is found out once the pipe is at its end, before the
child is waited for), `processes.py:210` raises its exception and nobody looks at the
child. `LeaderStopped` excludes that outcome by name; a child that has closed its output
may then live on.

### `RunRecord`, `Suite`

`Suite` is `_execute_suite_unlocked`. `job` is the `_write_outputs` in progress: three
files, signals blocked; `region` is the innermost try block, which decides what an
exception or an interruption does. A signal held back during a write is delivered at
its end (`WriteInterrupted`) and rewrites the aggregate as INTERRUPTED before it
propagates, as `_transition` does. `TaskEnds` returns any outcome, stamped with the
digest and cleanness *at that moment*, which is what `VerdictEarned` then compares with
the preflight's `baseline`. The model and the repository may change at any time.

`RunRecord` is what a reader of `result.json` may rely on. The refinement maps its two
variables to the status and to the number of results in that file. A crash is a
behaviour that stops, so every invariant on `disk` holds of what a crash leaves.

### `Qualification`

One `benchmark-model` invocation. `Plan` is the profile's sequence of stages by kind;
each runs (`StageRuns` or `StageRaises`), has its gateway log judged (`Collect`), is parsed
(`Parse`) and recorded in `partial-results.json` (`Record`); the contexts of Infermark, stages
of their own, are recorded together after the last of them (`Together`). Four kinds of exception
are told apart by who catches them. `Conclude` to `Finish` write the four verdict
artifacts one after the other; `Preserve` and `Keep...` are
`preserve_infrastructure_failure`. A component is abstracted to pass, fail or
unavailable, and to whether its observation log was accepted; `Outcome` keeps from
`calculate_decision` that a required component that fails is fatal.

### `UpstreamSetup`, `QualificationSetup`, `MCQualification`

`UpstreamSetup` is `ensure_checkouts` as several commands run it, in one `.state` directory
and without a lock. `Look` is the `exists()` check, `Clone` the git that starts after it and
fails if the directory appeared in between; a directory is `Broken` from there until
`Select` has put the commit in place. `Validate` accepts the commit of the caller's own
lock. Spark's packages are read (`ReadDependencies`), replaced item by item (`PipRemoves`,
`PipMoves`) and read again (`Reread`). A package and its metadata are items of their own
(`Items`, `Infos`), since pip moves `pkg/` and `pkg-1.0.dist-info/` one after the other and the
command looks only at the second (`Accepted`); in which order is a constant. A command may fail, be killed at its timeout or be
interrupted; a git that fails removes its clone, one that is killed does not. Whether a caller
may install (`--no-setup`) and which lock it reads are chosen when it begins.

`QualificationSetup` puts a qualification among them: `Prepare` waits for the end of its own
`ensure_checkouts` and goes on as that ended (`Heeds`: an `UpstreamError` is caught in
`main`, a `TimeoutExpired` is not), an interrupt there ends both, and the others go on while
the stages run. Every step is a step of `Qualification` or leaves its variables alone
(`SetupsAreInvisible`, proved), so its properties and proofs hold here.

### `HermesRun`

One call of `run_once`, from `TASK_PREPARING` to the record. What the run observes is the
set `amiss` of things that were not as they should be; each step adds what it can find
(`RunModel`, `ReadEvidence`, `Capture`, `Evaluate`), and `Classify`, `InfraReasons`,
`HardFailures` are the code's functions of that set. `mode` tells apart the control run
(`dry`), the suite's call (`plain`, judged by the trajectory) and qualification's call
(`observed`, judged by the gateway's log, whose verdict is `ModelGateway`'s `Report`).
`Implied` keeps to the reports that the log's reader can give: a log without requests has
no responses either. Time is a counter that is looked at only under a profile's wall;
`StartEvaluation` gives the evaluator what is left of it. Neither the model nor the evaluation
ends at its timeout sharp: `Overrun` bounds the grace and the joins after it and, for the
evaluation, the hashing before its deadline begins. `Interrupt` is what the three
`except KeyboardInterrupt` blocks do, `Raise` any exception outside of them.

`PassIsEarned` states what a passing run may lack. Without a gateway this is a lot: the
suite's plain call asks neither for a checkpoint nor for a finish state, the trajectory is
its evidence. A profile wall that the model has used up makes the run a HARNESS_ERROR, not
a TIMEOUT, because "wall exhausted" is also an infrastructure error of the evaluation.

### `Evaluator`

One call of `evaluate_task` with four actors: the evaluator (`pc`), the thread that
drains the result pipe (`reader`), the worker (`wpc`) and the candidate that answers it
(`cand`). Each check starts a worker; a worker runs its cases one after the other, each
with a candidate process of its own (`OpenSession` to `CloseSession`). A case asks for one
name and makes one call; `tree` says what the candidate's files are: they load, have no
module, lack a name, or do not load. A candidate may exit or hang at any moment, a worker
may be killed at any moment, the deadline may pass at any moment, also between a worker's
answer and its end. `pending` is a request that stays in the buffer of the candidate's
stdin. `EnvelopeError` is `_validate_worker_payload`, `DrainedVerdict` the order in which
`_check` decides: a late check is late even if its result is whole.

The handler for a deadline that "expired before command launch" is unreachable: the
remaining time is computed after the worker was started, inside `_check`'s own `try`. So
every check starts its worker, and a late one kills it at once; `Communicate` does this.

### `ReasoningPolicy`, `ResponseObserver`, `Exchange`

What `ModelGateway` leaves out: the contents. `ReasoningPolicy` has the policy a
deployment resolves to, the control each runtime understands, what a request's own
controls ask for (`Effective`), the body that is forwarded and the row that is logged
(`Body`, `Row`), and the other side, the checks the log's reader makes of a row and of
all rows together (`RowValid`, `PolicyConsistent`). A request is the set of controls it
carries, at the top and in its two containers.

`ResponseObserver` is the incremental parser: bytes become text, text lines, lines
server-sent events, events the flags of an answer. An answer is a sequence of symbols,
each the size of what the code tells apart: two of them are the two bytes of one
character, two the halves of a reasoning tag. `Feed`, `Snapshot` and `Finish` are its
three entry points; `MaxBody` and `TailSize` are its limits, counted in symbols.

`Exchange` runs one stage: any requests one after another, each rewritten, logged,
answered in chunks of any size (`Chunk`), ended by the end of the stream, a marker, a
client that leaves or a connection that breaks, and logged again; then the log is judged.
`Wire` is the model server, which is outside the repository: how events look as bytes,
folded over two data lines or not, with either line end, ended or cut. `Meant` and
`WellFormed` read the same answer off its events; `CutsDontMatter` compares the two.
`Fits` names what the observer is not built for:

* an event after the one that ends the answer. If it is in the same chunk, it is parsed,
  and if it is in the next, it is not;
* a reasoning tag split over two events of which the second has more visible text than the
  64 characters the observer remembers. Such a tag is missed;
* text over its limits: a line of more than `MaxBody` symbols, its line end included, since
  a carriage return waits in the buffer for the newline that belongs to it.

Two more things the model shows of the code: a byte that cannot be decoded makes it drop
the rest of its chunk, good events included (it is reported as a fault, so the log is not
trusted), and every member of `Listens` is needed: a policy asked for on the command line
is authoritative only because `honor` is false for it.

### `AtomicFile`, `ArtifactWriter`

`ArtifactWriter` is `atomic_write_bytes` call by call, for several processes and files:
check, open, write, sync, rename, sync of the directory, any of which may fail. The file
system is outside the repository; `disk` is the set of versions a power failure may leave,
which a rename adds to and only the sync of the directory reduces, and a version that was
not synced survives torn. `AtomicFile` is the promise: a register with one visible version
and a set of versions that may come back. A failed sync of the directory is an error that
comes after the new version is in place; the register has the write, and the caller an
exception.

### `Comparison`

The operators of `comparison.py`, from a result to its row (`RowOf`: identity, validity,
decision, compatibility, eligibility) and from the rows to the leaderboard (`RankKey`,
`Before`, `Diagnosis`, `Leaderboard`), the summary and the metadata candidates. A result
is a record of the fields these read. A generation before the current one, a run whose
directory was copied, a file that is no JSON and a directory without results are kinds of
entry; `CollectedRows` says which of them become rows.

### `Publication`, `MCPublication`

The composition: one qualification with one stage (`Exchange`), whose verdict is written
to `results.json` by the artifact writer, and two processes that may compare, the
qualification itself at its end and the compare command, before, during or after. A
comparison reads every run directory once (`Collect`) and writes its outputs one after the
other (`SaveOutput`). The version of a file is told by what it says of the live run, since
the archive does not change. Writes may fail, processes may be killed, the power may be
lost between any two system calls.

`BoardIsEarned` is said at the moment a comparison has read and not yet written, of
every state of the live run. That a verdict counts only if the log behind it was trusted
is a property of the whole composition: `trusted` is set by `Judge` in `Exchange`, and the
row it supports appears after the writer has put it in place.

What `AloneIsConsistent` does not say is as telling: the outputs of one comparison are no
transaction. Two comparisons at once, or one that failed, may leave outputs of different
reads, and the later write need not be of the later read. A failure after `results.json`
said VALID (the report cannot be written) replaces it by an INFRA_ERROR; a comparison in
between leaves a leaderboard that ranks the run until somebody compares again.

## 4. Runs

| Run | Question | Bounds, and why they are enough |
|---|---|---|
| `gateway` | Is the log what its readers take it for? | two connections of any kind and one failed append, which leaves its row whole, in part or not at all (a row without just its newline is covered by the proof): every pair of handler steps interleaves, and so does each with the client and the owner; one torn row is enough to swallow the next one, its own retry or the other handler's. Plain answers are those of streamed requests with an error status. The connections are interchangeable model values (symmetry) |
| `gateway_live` | Does `close()` end, and does a silent model keep no handler? | one request that is answered, streamed or not, beside one that is never counted, and one failed append of either; handlers wait for nothing of each other |
| `process_group` | Does a call that raises leave its child behind? | one descendant, two interrupts: the second interrupt is the one that may hit the handler; descendants do not interact |
| `process_group_descendants` | as documented: are all descendants stopped? | violated, see section 6 |
| `suite` | Are verdicts earned, and do files, exit and record agree? | two tasks (a first and a last), two signals (the second may hit the handling of the first), one failed write, one change of the model |
| `suite_signals` | as documented: is every signal recorded? | violated, see section 6 |
| `qualification` | Is what may be ranked earned, what was measured before a failure preserved, and a stage run with what was validated? | one stage of each kind, with the last context standing for any upstream, and Hermes and the contexts for the direct probes, two failed writes and one interrupt (a second one only ends the command); beside it one other command, with a lock that shares one of two directories and pins the same commit there or an older one, and two commands that go wrong: one to leave a directory or a package behind, one to disturb who finds it. Two items, one of them metadata, have a moment at which the metadata is there and the package is not |
| `qualification_exit` | as documented: does status 1 mean a valid run? | violated, see section 6 |
| `hermes_run` | Do outcome, evidence, phases, files and budget agree? | every fault alone and every pair of faults in the evidence that is read together; all faults of the capture, and one of each other step, combine with them freely. Walls below and above the task's own, one unit of time per unbounded step and one of overrun for the model and for the evaluation, so the wall can pass at every step |
| `evaluator` | Does only whole and timely work count, and does an evaluation end? | two checks (the second inherits the deadline) of two cases (the second is a security case), the first importing its names |
| `publication` | Do rows, rules and registers hold from the request to the leaderboard? | eight configurations (every runtime, policies configured and asked for, Qwen or not, the SparkBench profile); six bodies with no, consistent and conflicting controls at every level; two requests (a mixture of policies needs two) and one that is refused; nine answers, cut at every symbol; one failed system call, one kill or power failure, two compare commands beside the one at the end; an archive with one run of each kind the leaderboard treats differently. Two outputs stand for the five: order and failure are told apart by a first and a last |
| `evaluator_case_errors` | as documented: is a candidate's exit an error of the case? | violated, see section 6 |

All runs set `CHECK_DEADLOCK FALSE`: each models one run of a program that ends.

Properties worth a word:

* That an empty pending set means a complete log (`DrainSound`) is what the order "pending
  id first, row second" and "row first, discard second" buys. It, `NothingForwardedUnlogged`,
  `StreamRecordedFirst`, `GroupKilledTogether`, `DeadlineKind` and `ResultIsNewest` are steps
  on the way to the checked properties; they are proved and not run.
* `RowsAccepted` quantifies over mixtures: the log of a gateway that lets requests choose
  may hold both policies, and the reader must accept exactly such logs.
* `LogWellFormed` does not say that a log is never damaged: one append that raises in the
  middle of its row takes the next row with it, so a request that was forwarded may have no
  row, and its response row be an orphan. It says that only a failed append does this, and
  that such a log has a malformed row, for which its reader rejects all of it. `CleanClose`
  and the proved steps towards it have the same exception.
* `RequestsResolve` speaks of models that fall silent. A model that keeps dripping bytes
  never runs into the timeout, which is one of the socket operation
  (`model_gateway.py:364-368`), and a client that stops reading blocks `wfile.write`, which has
  none: their handlers may stay for ever, and nothing is claimed of them. `ClosingTerminates`
  holds all the same.
* `CleanClose` and `QuietAfterClose` hold only for a client that left in good order and a
  close that did not time out: a client that abandons a request leaves a handler that
  may still append. The code accepts this, since the reader then finds a missing
  response and refuses the log.
* `JudgedIsFinal` excludes plain answers. Such an answer reaches the client before its row
  is appended, so `run_once`, which reads at once, may miss it. This errs on the safe
  side (the task becomes an infrastructure failure).
* `LeaderStopped` excludes one interrupt of the handler itself. After a deadline the
  monitored path cleans up twice, and even that interrupt is harmless.
* `CoveredSignals` is what does hold of signals: those that strike inside a try block or
  during a write.
* `OneFaultIsConsistent` is for one disturbance. With two, `preserve_infrastructure_failure`
  may be cut short and leave a VALID result beside a failed manifest.
* `FailureKeepsEarlierStages` compares the results that preserve a failure with what the
  command had measured, not with the file they are read from. It excludes what the code
  loses: the component of the stage in progress, when its record could not be written, and
  the earlier contexts while Infermark is still at it.
* `StageDepsInPlace` excludes setups that overlapped, since with an overlap it is false of the
  code: two commands find packages missing, the first installs and starts its stage, and the
  pip of the second removes a package to replace it. It also excludes that an earlier pip was
  cut short with all the metadata in place and a package missing (`hollow`): setups ask for
  the metadata only (`upstreams.py:137-142`), accept what is there, and every stage after that
  runs without the package, until somebody removes the directory. `RefusalHasACause` excludes them because a
  caller may find the other one's clone half done. `StageCheckoutsPinned` needs no such
  exclusion: no setup ever touches a checkout that exists.
* `RefusalHasACause` says what "idempotent" (`README.md:99-104`) amounts to: metadata that a pip
  cut short did not install is installed by the next setup, a package without which its
  metadata was installed goes unnoticed, and clones are not repaired at all. A killed clone leaves a directory that
  every later setup skips and then refuses, until somebody removes it.
* The type invariants of `Suite`, `HermesRun`, `Evaluator` and `UpstreamSetup` are proved and
  not run.
* `InterruptFreezesArtifacts` excludes interruptions that a second exception replaced
  (`masked`): in the optional throughput workload that exception is swallowed, and the
  run goes on as if nobody had pressed Ctrl-C.

Fairness. `gateway_live` assumes weak fairness of a handler's recording steps, which wait
for a lock and a file only, of the owner, whose waits are all bounded, and of the timeout of
one operation on the upstream's socket, when nothing at all is received. Nothing is assumed
of a model that does send, nor of a client: whether it sends its body, reads its answer or
goes away. `process_group`
assumes that the caller runs, that its clock advances, and that the kernel ends
processes that were killed or that do not ignore SIGTERM. `evaluator` assumes that time
passes, and that the evaluator and its reader thread run; nothing of the worker and the
candidate. No other run is about liveness.

## 5. Proofs

`ModelGateway_proofs` holds for every set of connections, any kinds of request and any
number of failed appends, each leaving any part of its row. The safety invariants are not inductive: that a response row
is never a second one depends on where its handler is. `IInv` adds that ids are handed
out once (`Distinct`, `Fresh`) and, for each location of a handler, whether its id is
pending, logged and answered (`AtLocation`). Ids are handed out once also in rows nobody can
read, so these facts are about all rows (`AllIds`), and what the reader gets is related to
them: as long as no row is torn it gets them all. `IdsAppend` says what one more row does to
the ids of a log, `DuplicatedAppend` what it does to its duplicates. Each critical section is then one step of `InvStep`. Proved: `TypeOK`,
`LogWellFormed`, `DrainSound`, `NothingForwardedUnlogged`, `StreamRecordedFirst`.

That a log which was read stays what it was is a matter of the client too: a handler that no
client waits for may still write. `CloseInv` relates the two: what a client's state says of
its handler (`Whence`), that nothing is judged while the client runs, that an orderly close
leaves no id pending, and that what was read is the log's report. `WhenceStep` and
`QuietWhenDrained` are its lemmas. Proved from it: `CleanClose`, `QuietAfterClose`,
`JudgedIsFinal`.

`ProcessGroup_proofs` holds for every set of descendants and any number of interrupts.
`LeaderStopped` alone is not inductive; `Progress` adds what the cleanup has achieved at
each of its steps, and that the handler's cleanup after a deadline of the monitored path
finds a leader already handled by the first one. `HandledStays` is the lemma that the
processes cannot undo it. `TurnKnows` says what a turn of the loop carries from the
reading of the clock to its decision. Proved: `TypeOK`, `LeaderStopped`,
`GroupKilledTogether`, `InactivityIsReal`.

`Qualification_proofs` holds for every plan (any number of stages of any kind) and any
number of failed writes and interrupts. The artifacts are written one after the other,
so what each may hold depends on how far the run, or the handler that preserves its
failure, has come; `IInv` says so per location, in four parts: `StageInv` for the stage in
progress, `FilesInv` for the four files, `KeepInv` for the failure handler and
`InterruptInv` for interruptions. `Written` is the lemma on what a write that may fail
leaves. What is preserved of a failure is a matter of how far `partial-results.json` may lag
behind what was measured: `Recorded` says where it does not, `HeldInv` that elsewhere it has all
but the stage in progress and the contexts before it. Proved: `TypeOK`, `RankedIsEarned`, `ExitMatchesArtifacts`,
`FailureKeepsEarlierStages`, `OneFaultIsConsistent`, `InterruptFreezesArtifacts`.

Its second half holds for any callers, locks, items, metadata and failures. A directory has one owner
while it is cloned and selected (`OwnInv`), so nobody else moves a commit (`CommitsStay`), and
what a caller validated stays (`PinInv`); `ReadyInv` says that a stage runs only after its
command's setup came to its end. Without an overlap one caller is inside at a time
(`AloneInv`): nobody relies on packages that pip is replacing, and metadata without its package
is left only by a pip that came to an early end (`DepsInv`, with `EarlyEnds`), and what was found
stays until it is validated (`PresentInv`). `Arriving` says once from where a caller gets to
each of its places; the parts of `SetupInv` are then preserved without looking at the actions
again. Proved: `SetupSpec => Spec`, `SetupTypeOK`, `StageCheckoutsPinned`, `StageDepsInPlace`,
`RefusalHasACause`.

`Suite_proofs` holds for any number of tasks, signals, failed writes and changes of the
model. `VerdictEarned` speaks of files, but a file holds what the aggregate once was: `IInv`
has `Honest` of the aggregate and of every file, and for each place of the run (`Loc`:
where `pc` is, or where the transition being written leads to) how many results there
are (`CountInv`), which status (`StatusInv`) and what the files hold (`FilesInv`). The
lemma `Kinds` reduces the 28 actions to the 13 things a step can do; each part of the
invariant is then preserved kind by kind. `Behind` says how far the canonical file may lag
behind the aggregate; from it `RecordStep` maps every step to one of `RunRecord` or to a
stutter. Proved: `TypeOK`, `VerdictEarned`, `ResultIsNewest`, `ExitMatchesFiles`,
`CoveredSignals` and the refinement `ImplementsRecord`.

`HermesRun_proofs` holds for every set of profile walls, every timeout, any overrun and any cost of the
other steps. What makes a PASS is a function of `amiss`, so the core is three lemmas about
that function: `PassTolerates`, `PassHasNoHardFailure`, `BrokenIsInfrastructure`. `IInv` says
for each place what was told (`HeardAt`), which files exist (`WrittenAt`), what was recorded
(`RecordedAt`) and how much of the wall is spent (`BudgetAt`); `SaidGrows` and `SaidIsPrefix`
turn the first into the order of the phases. Proved: `TypeOK`, `PassIsEarned`,
`BrokenEvidenceIsNoVerdict`, `BudgetFitsProfile`, `PhasesAgreeWithFiles`.

`Evaluator_proofs` holds for any number of checks and cases, any security cases and any
test files. That a late check is followed by no counted one depends on where the evaluator
notices the deadline: `Lateness` says that once a check was late none waits for its worker
without being late itself. `WorkerEnds` relates how a worker ended to the exit status it
left, from which `Drainage` concludes what a drained pipe is judged to be; `Judged` is the
one lemma on judging a check. Proved: `TypeOK`, `NoWorkerLeft`, `DeadlineIsShared`,
`PassIsEarned`, `CountedOnlyIfWhole`.

`Exchange_proofs` holds for every set of configurations, payloads, paths and answers, and any
number of requests. `RowsAreAccepted` follows each policy from `Resolve` through
`Effective` and `Row` to what `RowValid` recomputes, runtime by runtime; that any two rows
of one gateway are consistent needs that every row of a log was made under the same
deployment (`EInv`). `ForwardedAsLogged` relates the body to the row.

Its second part is about the observer, for any limits, any answers of any number of events
and any chunks. The argument, from below:

* `FlattenSeq` and the fold in `Feed` are read one element at a time (`FlattenAppend`,
  `AfterAppend`), and so for concatenations (`AfterConcat`). `SetInduction` and
  `SeqInduction` are induction over a set of numbers or sequences, which needs no operator
  as a parameter and is proved from the well-foundedness of the natural numbers.
* `FeedKeeps`: with a decoder that holds back the byte in flight, feeding a chunk is the
  fold over what has come but for that byte.
* `EventIsRead`: the bytes of one event, in any of the four forms, take an observer between
  two events (`Quiet`) to what `Reads` says of the event, and never over the limit before
  its end (`Calm`). `StreamIsRead` puts events together; `MergeKnows` says that the flags are
  then those of all members together, which is where the remembered tail must be long enough
  (`AdjacentConcat`).
* `CutIsValid`, `FinishedStream`: a last line without its end is finished by `Finish` as if the
  end had come, and cutting off line ends makes no text invalid.
* `Reading` relates the observer in the middle of an answer to what has come of it and what is
  to come. It is what `CutsDontMatter` and `DisconnectIsNoFault` need to be inductive:
  `ReadingBegins`, `ReadingChunk`, `ReadingDone` and `ReadingLeft` are one lemma for each thing
  a handler does, and `AnswerInv` with one lemma per action is the invariant.

A first attempt at `EventIsRead` failed for a good reason: `Fits` did not count the carriage
return of the line end, and an answer with a line of just `MaxBody` symbols is then reported
as faulty. TLC shows it with one more answer, which the run has kept.

`Publication_proofs` holds for every finite archive, any list of outputs, and any number of
failures, kills and power failures. Proved, beside the four properties of `Exchange`:

* `FilesAreRegisters`, the refinement of `AtomicFile`: each step of a write, a crash and
  everything else is a step of the register or a stutter.
* `VerdictSurvives` and `AloneIsConsistent` need an invariant (`PInv`) on which version a file
  may have while a process is at each step of its write, and on who else writes it: only
  the qualification writes `results.json`, and a comparison that is alone finds its earlier
  outputs durable.
* `BoardIsEarned` is an argument about `Leaderboard`, in steps: `Before` is a lexicographic
  order on keys of equal length and total on rows of distinct directories (`Total`,
  `Transitive`, `RankOrder`), so the number of rows before each is a bijection to the
  ranks (`RanksAreAll`), every entry is listed once, and what is current was earned
  (`CurrentIsEarned`). The last part is an invariant of the system (`Trusting`): a version of
  `results.json` with a verdict exists nowhere unless the log was trusted.

The proofs assume only what the modules' assumptions say of the constants
(`GatewayAssumption`, `GroupAssumption`, `PlanAssumption`, `SetupAssumption`,
`CommandAssumption`, `SuiteAssumption`,
`HermesAssumption`, `EvaluatorAssumption`, `ExchangeAssumption`, `AnswerAssumption`: answers
consist of events, at least one; `WriterAssumption`, `ObserverAssumption`, `PublicationAssumption`, `ArchiveAssumption`: scores and stamps are
integers, results have as many components as the live run's, directories are numbers).
Each `IInv`, and `CloseInv`, `PInv`, `Trusting` and `SetupInv`, was model-checked as an invariant
before it was proved. `Reading`, in `AnswerInv`, quantifies over all sequences and is out of
TLC's reach, which checks the two properties it is for.

Every safety property that a run checks is proved. Only model-checked: the liveness properties
(`ClosingTerminates`, `RequestsResolve`, `BoundedWhenMonitored`, `EvaluationEnds`). Liveness
under fairness and ENABLED are beyond the prover, and so are recursive operators, which no
module has. The library's induction theorems cannot be used either, since they take an
operator as a parameter; the inductions above are over sets, and each states its set.

## 6. Disagreements between code and documents

* `processes.py:43` promises cleanup of "a process and all descendants". A leader that has
  exited by the first poll of the cleanup makes it return at once: nothing is signalled,
  and a descendant that does not hold the pipe outlives the timed-out call
  (`process_group_descendants`).
* `BENCHMARK_SPEC.md:511` says that SIGINT and SIGTERM produce an INTERRUPTED aggregate.
  Between the try blocks of `_execute_suite_unlocked` they leave INCOMPLETE
  (`suite_signals`).
* `README.md:292` gives exit status 1 to completed runs that did not qualify, and tells
  batch scripts to go on after it. An exception `main` does not list also exits with 1
  and leaves the manifest RUNNING (`qualification_exit`).
* `BENCHMARK_SPEC.md:403` says that a candidate's exit becomes a case error, and
  `tests/test_benchmark_model.py:787` asserts that it leaves no infrastructure error. If
  the candidate is gone when a request is written, the text stays in the buffer of its
  stdin, and closing the session raises a second time, out of the case: the worker reports
  a failure of its own (`evaluator_case_errors`). So do a tree without modules and a test
  file that imports a name the candidate lacks, two "import failures" of the same sentence.

## 7. Limits

* Gateway: descendants that survive a killed client are assumed to send nothing more.
  Threads and failing appends are `ModelGateway`'s, contents are `Exchange`'s, whose handler
  runs alone: what a row says does not depend on the other handlers. Header names, the
  reader's size limits and the counts it makes for the report are left out, and so is
  the encoding of bodies (one that cannot be encoded again is taken as one that is no JSON).
  A client that leaves before the headers were written counts as a broken connection, in the
  code and here; `DisconnectIsNoFault` is about leaving between chunks.
* Process groups: several heartbeat paths are one, an interrupt between `Popen` and the try block, and the `ValueError`
  for a non-positive inactivity timeout, are left out. SIGKILL always works.
* Suite: plans enforce a clean control plane. A change that is undone before the next
  check is invisible to the code, and is excluded here. The signal mask is per thread; a
  reader thread left over from an earlier call could take a signal the mask holds back.
  One phase report stands for all those of a task. Loading of models and plans, the
  preflight adapters and the text of the report are not modelled.
* Qualification: `partial-results.json` that exists can be read back. Scores and
  thresholds are abstracted. The run directory is not shared with another invocation.
* Upstreams: nothing but setups writes to the checkouts (a stage or a user that patches one
  after it was validated goes unnoticed; `README.md:450` excludes it). Between the `mkdir` of
  one git and its first file another git would still clone into the directory; here the
  directory is taken at once. Each caller runs one setup. A package is
  one item and its metadata another; within one of them pip is not interleaved with anything,
  an item that is partly there counts as missing, and metadata that can be read as whole.
* Hermes run: the formulas of the scores, the files written for Hermes and the wording
  that counts as a claim are abstracted. The model's own wall is counted from its start, so
  a run may outlast a profile's wall by the preparation. `BudgetFitsProfile` bounds the
  timeout an evaluation is given, not the moment at which it ends: that is later by its own
  overrun, some seconds for each check that is stopped, and the model counts them as one
  `Overrun`.
* Evaluator: one name and one call stand for all those of a case. The errors by which a
  closing session or a malformed answer ends the worker are one. The size limits of the
  pipe are not reached by the repository's tasks. An interrupt between the start of a
  worker and `communicate`, or during its termination, leaves the worker behind; the
  model has these steps, and no property forbids them.
* Responses: long answers are cut at symbols, not at bytes; two symbols are the bytes of one
  character. The classification of one answer by the direct probes is left out.
* Artifact writer: a temporary file that a kill leaves behind is not kept, since nobody
  looks it up; the directories themselves are taken as durable, although the code syncs no
  parent after making one (`artifacts.py:61`, `119`); the refusal of symbolic links along a path is left out. The file system is
  assumed to do what POSIX says of `fsync` and `rename`.
* Comparison: the rendering of the outputs, the sanitising of public names, the order of
  rows that are not ranked. Scores are integers, stamps and identifiers are ordered numbers.
* Publication: one live run; the archive does not change; a compare command looks at the
  live run once its stage is over, before that it sees what it sees then.
  `Qualification` has the other artifacts and the order in which they are written.
* Not modelled: the upstreams' command lines and parsers, the sandbox's command lines, endpoint validation,
  diagnostics, metrics, scripts and task data, which are I/O, formatting, or data, as
  `PROJECT.json` says for each.
