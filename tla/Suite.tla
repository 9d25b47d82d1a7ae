------------------------------- MODULE Suite -------------------------------
(***************************************************************************)
(* execute_suite of harness/benchmark_model.py: the endpoint lock, the     *)
(* control-plane and identity checks around every task, and the aggregate  *)
(* that is rewritten to three files at every phase transition, while       *)
(* SIGINT or SIGTERM may arrive, a write may fail, and the model or the    *)
(* repository may change underneath.  The process may also die anywhere:   *)
(* it then simply stops, so what holds of the files in every state here    *)
(* holds of what a crash leaves.                                           *)
(*                                                                         *)
(* The plan enforces a clean control plane (enforce_control_plane_clean).  *)
(* A model or a repository that changes does not change back: checks made  *)
(* before and after a task cannot see a change that was undone in between. *)
(***************************************************************************)
EXTENDS Naturals, Sequences

CONSTANTS
  N,            \* the number of planned tasks
  MaxSignals,   \* bound: signals delivered to the process
  MaxFaults,    \* bound: writes that fail
  MaxChanges    \* bound: changes of the model's digest

ASSUME SuiteAssumption ==
  N \in Nat \ {0} /\ MaxSignals \in Nat /\ MaxFaults \in Nat /\ MaxChanges \in Nat

VARIABLES
  free,      \* no other benchmark holds the endpoint's lock
  digest,    \* the identity the endpoint reports now
  clean,     \* the repository and the Hermes installation are unchanged
  pc,        \* where _execute_suite_unlocked is
  region,    \* the innermost try block it is in
  job,       \* the _write_outputs in progress
  agg,       \* the aggregate in memory
  disk,      \* the aggregate each file holds
  baseline,  \* the digest the preflight resolved
  task,      \* the index of the current task
  current,   \* what its run returned
  signals,   \* signals so far
  pending,   \* one of them waits for _blocked_write_signals to end
  hit,       \* where the first of them arrived: "covered" or "bare"
  faults,    \* failed writes so far
  exit       \* how execute_suite ended

env == <<free, digest, clean>>
run == <<baseline, task, current>>
noise == <<signals, hit>>
vars == <<env, pc, region, job, agg, disk, run, noise, pending, faults, exit>>

Outcomes == {"PASS", "FAIL", "TIMEOUT", "HARNESS_ERROR"}
Files == <<"result", "state", "report">>
Absent == [status |-> "none", phase |-> "none", results |-> <<>>, n |-> 0]
NoJob == [step |-> 0, kind |-> "normal", after |-> "none"]
NoResult == [outcome |-> "none", digest |-> 0, clean |-> TRUE]

Guarded == {"preflight", "loop", "task", "control", "identity"}
Writing == job.step # 0
Running == exit = "running"
At(l) == Running /\ ~Writing /\ pc = l

Init ==
  /\ free \in BOOLEAN /\ digest = 0 /\ clean = TRUE
  /\ pc = "lock" /\ region = "bare" /\ job = NoJob
  /\ agg = [status |-> "INCOMPLETE", phase |-> "INITIALIZED", results |-> <<>>, n |-> 0]
  /\ disk = [f \in {"result", "state", "report"} |-> Absent]
  /\ baseline = 0 /\ task = 0 /\ current = NoResult
  /\ signals = 0 /\ pending = FALSE /\ hit = "none" /\ faults = 0 /\ exit = "running"

----------------------------------------------------------------------------
(* The world around the run.                                               *)

ModelChanges ==
  /\ Running /\ digest < MaxChanges /\ digest' = digest + 1
  /\ UNCHANGED <<free, clean, pc, region, job, agg, disk, run, noise, pending, faults, exit>>

RepositoryChanges ==
  /\ Running /\ clean /\ clean' = FALSE
  /\ UNCHANGED <<free, digest, pc, region, job, agg, disk, run, noise, pending, faults, exit>>

----------------------------------------------------------------------------
(* Transitions, the writes they make, and what interrupts them.            *)

\* The phase is set and _write_outputs entered, with the signals blocked.
Write(a, phase, kind, after) ==
  /\ agg' = [a EXCEPT !.phase = phase, !.n = @ + 1]
  /\ job' = [step |-> 1, kind |-> kind, after |-> after]

\* A KeyboardInterrupt (or the SuiteInterrupted of a transition) leaves the
\* handler that catches it, or the process.
\* The runner of a task may report TASK_INTERRUPTED before it passes one on.
Caught(how) ==
  \/ /\ region \in Guarded
     /\ region' = "handler" /\ pc' = "interrupted" /\ UNCHANGED exit
  \/ /\ region = "task" /\ pc = "task"
     /\ pc' = "task_interrupted" /\ UNCHANGED <<region, exit>>
  \/ /\ region \notin Guarded
     /\ exit' = how /\ UNCHANGED <<region, pc>>

WriteFile ==
  /\ Running /\ job.step \in 1 .. 3
  /\ disk' = [disk EXCEPT ![Files[job.step]] = agg]
  /\ job' = [job EXCEPT !.step = @ + 1]
  /\ UNCHANGED <<env, pc, region, agg, run, noise, pending, faults, exit>>

WriteDone ==
  /\ Running /\ job.step = 4 /\ ~pending
  /\ job' = NoJob
  /\ CASE job.kind = "normal" -> pc' = job.after /\ UNCHANGED <<region, exit>>
       [] job.kind = "rewrite" -> Caught("suite_interrupted")
       [] OTHER -> exit' = "suite_interrupted" /\ UNCHANGED <<pc, region>>
  /\ UNCHANGED <<env, agg, disk, run, noise, pending, faults>>

\* Variant: a transition lets the interruption through as it is.
DeliverPendingBare ==
  /\ pending /\ pending' = FALSE
  /\ job' = NoJob /\ Caught("interrupt") /\ UNCHANGED agg

\* A signal that arrived meanwhile is delivered as the mask is lifted: the
\* transition turns into an interruption and writes once more.
DeliverPending ==
  /\ pending /\ pending' = FALSE
  /\ IF job.kind = "normal"
     THEN /\ Write([agg EXCEPT !.status = "INTERRUPTED"], "INTERRUPTED", "rewrite", "none")
          /\ UNCHANGED <<pc, region, exit>>
     ELSE /\ job' = NoJob /\ Caught("interrupt") /\ UNCHANGED agg

WriteInterrupted ==
  /\ Running /\ job.step = 4 /\ DeliverPending
  /\ UNCHANGED <<env, disk, run, noise, faults>>

\* An exception reaches the innermost try block that catches Exception, or main.
Error(a) ==
  CASE region = "preflight" ->
         /\ agg' = [a EXCEPT !.status = "INFRASTRUCTURE_FAILURE"]
         /\ pc' = "preflight_failed" /\ region' = "bare" /\ UNCHANGED exit
    [] region \in {"task", "control", "identity"} ->
         /\ agg' = [a EXCEPT !.status = "INFRASTRUCTURE_FAILURE"]
         /\ pc' = "task_failed" /\ region' = "loop" /\ UNCHANGED exit
    [] OTHER -> exit' = "raised" /\ agg' = a /\ UNCHANGED <<pc, region>>

\* A file cannot be written, or the aggregate is not valid.  The failure may come
\* after the replacement: its directory is synced last.
WriteFails ==
  /\ Running /\ job.step \in 1 .. 3 /\ faults < MaxFaults
  /\ faults' = faults + 1
  /\ disk' \in {disk, [disk EXCEPT ![Files[job.step]] = agg]}
  /\ \/ DeliverPending
     \/ ~pending /\ Error(agg) /\ job' = NoJob /\ UNCHANGED pending
  /\ UNCHANGED <<env, run, noise>>

Covered == region \in Guarded \/ (Writing /\ job.kind # "interrupted")

Signal ==
  /\ Running /\ signals < MaxSignals /\ signals' = signals + 1
  /\ hit' = IF signals = 0 THEN (IF Covered THEN "covered" ELSE "bare") ELSE hit
  /\ IF Writing
     THEN pending' = TRUE /\ UNCHANGED <<pc, region, exit>>
     ELSE Caught("interrupt") /\ UNCHANGED pending
  /\ UNCHANGED <<env, job, agg, disk, run, faults>>

----------------------------------------------------------------------------
(* The steps of a run.                                                     *)

Step(from, to) == At(from) /\ pc' = to
Quiet == UNCHANGED <<env, disk, noise, pending, faults>>

AcquireLock ==
  /\ At("lock")
  /\ IF free THEN pc' = "create" /\ UNCHANGED exit ELSE exit' = "raised" /\ UNCHANGED pc
  /\ UNCHANGED <<region, job, agg, run>> /\ Quiet

\* The record exists before the endpoint is probed.
Create ==
  /\ At("create") /\ Write(agg, "INITIALIZED", "normal", "announce")
  /\ UNCHANGED <<pc, region, run, exit>> /\ Quiet

Announce ==
  /\ Step("announce", "begin") /\ region' = "preflight"
  /\ UNCHANGED <<job, agg, run, exit>> /\ Quiet

\* A transition that only writes.
Phase(from, phase, to) ==
  /\ At(from) /\ Write(agg, phase, "normal", to)
  /\ UNCHANGED <<pc, region, run, exit>> /\ Quiet

BeginPreflight ==
  \/ Phase("begin", "CONTROL_PLANE_VERIFYING", "control")
  \/ Phase("verified", "CONTROL_PLANE_VERIFIED", "running")
  \/ Phase("running", "PREFLIGHT_RUNNING", "preflight")

VerifyControlPlane ==
  /\ At("control")
  /\ \/ clean /\ pc' = "verified" /\ UNCHANGED <<region, agg, exit>>
     \/ ~clean /\ Error(agg)
  /\ UNCHANGED <<job, run>> /\ Quiet

\* The endpoint identifies the model, or it cannot.
Preflight ==
  /\ At("preflight")
  /\ \/ /\ baseline' = digest
        /\ Write(agg, "PREFLIGHT_COMPLETE", "normal", "enter")
        /\ UNCHANGED <<pc, region, exit>>
     \/ Error(agg) /\ UNCHANGED <<baseline, job>>
  /\ UNCHANGED <<task, current>> /\ Quiet

PreflightFailed ==
  /\ At("preflight_failed") /\ Write(agg, "PREFLIGHT_FAILED", "normal", "return")
  /\ UNCHANGED <<pc, region, run, exit>> /\ Quiet

EnterLoop ==
  /\ Step("enter", "next") /\ region' = "loop"
  /\ UNCHANGED <<job, agg, run, exit>> /\ Quiet

NextTask ==
  /\ At("next") /\ task < N
  /\ task' = task + 1
  /\ Write(agg, "TASK_STARTING", "normal", "start")
  /\ UNCHANGED <<pc, region, baseline, current, exit>> /\ Quiet

LastTask ==
  /\ At("next") /\ task = N /\ pc' = "finish" /\ region' = "bare"
  /\ UNCHANGED <<job, agg, run, exit>> /\ Quiet

StartTask ==
  /\ Step("start", "task") /\ region' = "task"
  /\ UNCHANGED <<job, agg, run, exit>> /\ Quiet

\* task_state: the runner reports the phases of the task (one stands for all).
TaskState ==
  /\ agg.phase = "TASK_STARTING"
  /\ Phase("task", "TASK_RUNNING", "task")

TaskInterrupted ==
  \/ Phase("task_interrupted", "TASK_INTERRUPTED", "reraise")
  \/ /\ Step("reraise", "interrupted") /\ region' = "handler"
     /\ UNCHANGED <<job, agg, run, exit>> /\ Quiet

TaskEnds ==
  /\ Step("task", "check")
  /\ \E o \in Outcomes :
       current' = [outcome |-> o, digest |-> digest, clean |-> clean]
  /\ region' = "control"
  /\ UNCHANGED <<job, agg, baseline, task, exit>> /\ Quiet

TaskRaises ==
  /\ At("task") /\ Error(agg)
  /\ UNCHANGED <<job, run>> /\ Quiet

TaskChecks ==
  \/ Phase("check", "TASK_CONTROL_PLANE_VERIFYING", "recheck")
  \/ Phase("identify", "TASK_IDENTITY_VERIFYING", "reidentify")

RecheckControlPlane ==
  /\ At("recheck")
  /\ \/ clean /\ pc' = "identify" /\ region' = "identity" /\ UNCHANGED <<agg, exit>>
     \/ ~clean /\ Error(agg)
  /\ UNCHANGED <<job, run>> /\ Quiet

\* Variant: the second preflight is not told which digest to expect.
VerifyIdentityUnpinned ==
  /\ At("reidentify")
  /\ \/ /\ agg' = [agg EXCEPT !.results = Append(@, current)]
        /\ pc' = "between" /\ region' = "loop" /\ UNCHANGED exit
     \/ Error(agg)
  /\ UNCHANGED <<job, run>> /\ Quiet

\* The endpoint must still report the preflight's digest; it may be unreachable.
VerifyIdentity ==
  /\ At("reidentify")
  /\ \/ /\ digest = baseline
        /\ agg' = [agg EXCEPT !.results = Append(@, current)]
        /\ pc' = "between" /\ region' = "loop" /\ UNCHANGED exit
     \/ Error(agg)
  /\ UNCHANGED <<job, run>> /\ Quiet

TaskFailed ==
  /\ At("task_failed") /\ Write(agg, "TASK_FAILED", "normal", "leave")
  /\ UNCHANGED <<pc, region, run, exit>> /\ Quiet

BetweenTasks ==
  /\ At("between") /\ Write(agg, "BETWEEN_TASKS", "normal", "judge")
  /\ UNCHANGED <<pc, region, run, exit>> /\ Quiet

\* A HARNESS_ERROR result ends the run.
JudgeTask ==
  /\ At("judge")
  /\ \/ current.outcome # "HARNESS_ERROR" /\ pc' = "next" /\ UNCHANGED agg
     \/ /\ current.outcome = "HARNESS_ERROR" /\ pc' = "leave"
        /\ agg' = [agg EXCEPT !.status = "INFRASTRUCTURE_FAILURE"]
  /\ UNCHANGED <<region, job, run, exit>> /\ Quiet

LeaveLoop ==
  /\ Step("leave", "finish") /\ region' = "bare"
  /\ UNCHANGED <<job, agg, run, exit>> /\ Quiet

\* Variant: the interruption is raised without a last write.
HandleInterruptUnsaved ==
  /\ At("interrupted") /\ exit' = "suite_interrupted"
  /\ agg' = [agg EXCEPT !.status = "INTERRUPTED", !.phase = "INTERRUPTED"]
  /\ UNCHANGED <<pc, region, job, run>> /\ Quiet

\* except KeyboardInterrupt, of the preflight and of the task loop.
HandleInterrupt ==
  /\ At("interrupted")
  /\ Write([agg EXCEPT !.status = "INTERRUPTED"], "INTERRUPTED", "interrupted", "none")
  /\ UNCHANGED <<pc, region, run, exit>> /\ Quiet

\* Variant: the verdict forgets an infrastructure failure.
VerdictAnew(a) ==
  IF Len(a.results) # N THEN "INCOMPLETE"
  ELSE IF \A i \in DOMAIN a.results : a.results[i].outcome = "PASS" THEN "PASS"
  ELSE "FAIL"

Verdict(a) ==
  IF a.status = "INFRASTRUCTURE_FAILURE" THEN a.status
  ELSE IF Len(a.results) # N THEN "INCOMPLETE"
  ELSE IF \A i \in DOMAIN a.results : a.results[i].outcome = "PASS" THEN "PASS"
  ELSE "FAIL"

Finish ==
  /\ At("finish")
  /\ Write([agg EXCEPT !.status = Verdict(agg)], "FINISHED", "normal", "return")
  /\ UNCHANGED <<pc, region, run, exit>> /\ Quiet

Return ==
  /\ At("return") /\ exit' = "returned"
  /\ UNCHANGED <<pc, region, job, agg, run>> /\ Quiet

----------------------------------------------------------------------------
Next ==
  \/ ModelChanges \/ RepositoryChanges \/ Signal
  \/ WriteFile \/ WriteDone \/ WriteInterrupted \/ WriteFails
  \/ AcquireLock \/ Create \/ Announce
  \/ BeginPreflight \/ VerifyControlPlane \/ Preflight \/ PreflightFailed
  \/ EnterLoop \/ NextTask \/ LastTask \/ StartTask \/ TaskState \/ TaskEnds \/ TaskRaises
  \/ TaskInterrupted
  \/ TaskChecks \/ RecheckControlPlane \/ VerifyIdentity \/ TaskFailed
  \/ BetweenTasks \/ JudgeTask \/ LeaveLoop \/ HandleInterrupt \/ Finish \/ Return

Spec == Init /\ [][Next]_vars

----------------------------------------------------------------------------
(* What must hold.                                                         *)

Statuses == {"INCOMPLETE", "INTERRUPTED", "INFRASTRUCTURE_FAILURE", "PASS", "FAIL"}
Results == [outcome : Outcomes \cup {"none"}, digest : Nat, clean : BOOLEAN]
Phases ==
  {"INITIALIZED", "CONTROL_PLANE_VERIFYING", "CONTROL_PLANE_VERIFIED", "PREFLIGHT_RUNNING",
   "PREFLIGHT_COMPLETE", "PREFLIGHT_FAILED", "TASK_STARTING", "TASK_RUNNING",
   "TASK_INTERRUPTED", "TASK_CONTROL_PLANE_VERIFYING", "TASK_IDENTITY_VERIFYING",
   "TASK_FAILED", "BETWEEN_TASKS", "INTERRUPTED", "FINISHED"}
Places ==
  {"announce", "control", "running", "preflight", "enter", "start", "task", "reraise",
   "recheck", "reidentify", "leave", "judge", "return"}
Jobs == [step : 0 .. 4, kind : {"normal", "rewrite", "interrupted"},
         after : Places \cup {"none"}]
Aggregates == [status : Statuses \cup {"none"}, phase : Phases \cup {"none"},
               results : Seq(Results), n : Nat]

\* The aggregate, its files and the job that writes them keep their shapes, and
\* never more tasks are recorded than were started.
TypeOK ==
  /\ free \in BOOLEAN /\ clean \in BOOLEAN /\ pending \in BOOLEAN
  /\ digest \in 0 .. MaxChanges /\ baseline \in 0 .. digest
  /\ region \in Guarded \cup {"bare", "handler"}
  /\ job \in Jobs
  /\ agg \in Aggregates /\ agg.status # "none"
  /\ disk \in [{"result", "state", "report"} -> Aggregates]
  /\ task \in 0 .. N /\ Len(agg.results) <= task /\ current \in Results
  /\ signals \in 0 .. MaxSignals /\ faults \in 0 .. MaxFaults
  /\ hit \in {"none", "covered", "bare"}
  /\ exit \in {"running", "returned", "raised", "interrupt", "suite_interrupted"}

\* A PASS or FAIL that any file holds, at any moment or after any crash, was
\* earned: every planned task has its result, and the model and the repository
\* were still what the preflight saw when that task ended.
VerdictEarned ==
  \A f \in DOMAIN disk :
    disk[f].status \in {"PASS", "FAIL"} =>
      LET r == disk[f].results
      IN  /\ Len(r) = N
          /\ \A i \in 1 .. N : r[i].digest = baseline /\ r[i].clean
          /\ disk[f].status = "PASS" <=> \A i \in 1 .. N : r[i].outcome = "PASS"

\* The canonical result is the newest file and the report the oldest, whatever
\* write failed and whatever was written twice.
ResultIsNewest == disk["report"].n <= disk["state"].n /\ disk["state"].n <= disk["result"].n

\* The caller and the files agree on how the run ended: what execute_suite
\* returns, or attaches to SuiteInterrupted, is what all three files hold.
ExitMatchesFiles ==
  /\ exit = "returned" =>
       /\ agg.phase \in {"FINISHED", "PREFLIGHT_FAILED"} /\ agg.status # "INCOMPLETE"
       /\ \A f \in DOMAIN disk : disk[f] = agg
  /\ exit = "suite_interrupted" =>
       \A f \in DOMAIN disk : disk[f] = agg /\ agg.status = "INTERRUPTED"

\* One signal, wherever it strikes inside the guarded part of the run or while a
\* file is written, ends the run as a canonical interruption.
CoveredSignals ==
  exit # "running" /\ signals = 1 /\ faults = 0 /\ hit = "covered"
    => exit = "suite_interrupted"

\* Readers of the canonical result see a run record (RunRecord): results are only
\* added, and only an interruption replaces a verdict.
Record == INSTANCE RunRecord WITH
            status <- disk["result"].status, completed <- Len(disk["result"].results)
ImplementsRecord == Record!Spec

\* "SIGINT and SIGTERM produce a canonical INTERRUPTED aggregate": once the record
\* exists, a signal does not leave it INCOMPLETE.
SignalsAreCanonical ==
  exit # "running" /\ signals = 1 /\ faults = 0 => disk["result"].status # "INCOMPLETE"
=============================================================================
