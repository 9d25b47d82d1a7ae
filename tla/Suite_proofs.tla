---------------------------- MODULE Suite_proofs ----------------------------
(***************************************************************************)
(* Proofs about Suite, for any number of tasks, signals, failed writes and *)
(* changes of the model, and the proof that it implements RunRecord.       *)
(*                                                                         *)
(* While a transition is written, pc is still where it began: Loc is the   *)
(* place it leads to, and IInv says for each place what the aggregate, the *)
(* files and the signals are.                                              *)
(***************************************************************************)
EXTENDS Suite, TLAPS

Loc == IF ~Writing THEN pc ELSE IF job.kind = "normal" THEN job.after ELSE "ending"

Early == {"lock", "create", "announce", "begin", "control", "verified", "running", "preflight"}
Tasking == {"start", "task", "check", "recheck", "identify", "reidentify"}
Between == {"next", "between", "judge"}

\* Every place is in one region, and so is every transition.
RegionInv ==
  /\ region = "bare" =>
       pc \in {"lock", "create", "announce", "preflight_failed", "finish", "return"}
  /\ region = "preflight" =>
       pc \in {"begin", "control", "verified", "running", "preflight", "enter"}
  /\ region = "loop" => pc \in Between \cup {"start", "task_failed", "leave"}
  /\ region = "task" => pc \in {"task", "task_interrupted", "reraise"}
  /\ region = "control" => pc \in {"check", "recheck"}
  /\ region = "identity" => pc \in {"identify", "reidentify"}
  /\ region = "handler" => pc = "interrupted"

\* A write in progress, and where its transition leads.
Leads(from, to) ==
  \/ from = "create" /\ to = "announce"
  \/ from = "begin" /\ to = "control"
  \/ from = "verified" /\ to = "running"
  \/ from = "running" /\ to = "preflight"
  \/ from = "preflight" /\ to = "enter"
  \/ from = "preflight_failed" /\ to = "return"
  \/ from = "next" /\ to = "start"
  \/ from = "task" /\ to = "task"
  \/ from = "task_interrupted" /\ to = "reraise"
  \/ from = "check" /\ to = "recheck"
  \/ from = "identify" /\ to = "reidentify"
  \/ from = "task_failed" /\ to = "leave"
  \/ from = "between" /\ to = "judge"
  \/ from = "finish" /\ to = "return"

JobInv ==
  /\ ~Writing => job = NoJob /\ ~pending
  /\ Writing /\ job.kind = "normal" => Leads(pc, job.after)
  /\ Writing /\ job.kind = "rewrite" => region # "handler"
  /\ job.kind = "interrupted" => region = "handler"

\* How many results there are, at each place.
CountInv ==
  /\ Loc \in Early \cup {"enter"} => task = 0 /\ agg.results = <<>>
  /\ Loc \in Early => \A f \in DOMAIN disk : disk[f].results = <<>>
  /\ Loc \in Tasking => Len(agg.results) + 1 = task
  /\ Loc \in Between => Len(agg.results) = task

\* The status, at each place.
StatusInv ==
  /\ Loc \in Early \cup Tasking \cup Between \cup {"enter"} => agg.status = "INCOMPLETE"
  /\ Loc \in {"preflight_failed", "task_failed", "leave"} =>
       agg.status = "INFRASTRUCTURE_FAILURE"
  /\ Loc \in {"task_interrupted", "reraise"} => agg.status \in {"INCOMPLETE", "INTERRUPTED"}
  /\ Loc = "finish" =>
       agg.status = "INFRASTRUCTURE_FAILURE" \/ (agg.status = "INCOMPLETE" /\ Len(agg.results) = N)
  /\ Loc = "return" =>
       /\ agg.phase \in {"FINISHED", "PREFLIGHT_FAILED"}
       /\ agg.status \in {"PASS", "FAIL", "INFRASTRUCTURE_FAILURE"}
  /\ Writing /\ job.kind # "normal" => agg.status = "INTERRUPTED"
  /\ agg.status \in {"PASS", "FAIL"} => Loc = "return"

\* What the files hold of the aggregate.
FilesInv ==
  /\ job.step > 1 => disk["result"] = agg
  /\ job.step > 2 => disk["state"] = agg
  /\ job.step > 3 => disk["report"] = agg
  /\ Loc = "return" /\ ~Writing => \A f \in DOMAIN disk : disk[f] = agg

\* What the current task ended with.
CurrentInv ==
  /\ Loc \in {"check", "recheck", "identify", "reidentify"} =>
       baseline <= current.digest /\ current.digest <= digest
  /\ Loc \in {"identify", "reidentify"} => current.clean

\* A verdict and results that were earned.
HonestTo(a, d) ==
  /\ \A i \in DOMAIN a.results : a.results[i].digest = d /\ a.results[i].clean
  /\ a.status \in {"PASS", "FAIL"} =>
       /\ Len(a.results) = N
       /\ a.status = "PASS" <=> \A i \in 1 .. N : a.results[i].outcome = "PASS"
Honest(a) == HonestTo(a, baseline)

\* Where the first signal is.
SignalInv ==
  /\ signals = 0 =>
       /\ ~pending /\ job.kind = "normal" /\ region # "handler"
       /\ pc \notin {"task_interrupted", "reraise"}
       /\ exit \notin {"interrupt", "suite_interrupted"}
  /\ signals = 1 /\ faults = 0 /\ hit = "covered" /\ Running =>
       \/ pending /\ Writing /\ job.kind = "normal"
       \/ ~pending /\ Writing /\ job.kind # "normal"
       \/ ~pending /\ Loc \in {"interrupted", "task_interrupted", "reraise"}

\* How far the canonical file may be behind the aggregate.
Behind(d, a) ==
  \/ /\ d = Absent /\ a.results = <<>> /\ a.status \in {"INCOMPLETE", "INTERRUPTED"}
     /\ pc \in {"lock", "create"}
  \/ /\ d.status = "INCOMPLETE" /\ a.status \in {"INCOMPLETE", "INTERRUPTED"}
     /\ Len(a.results) = Len(d.results)
  \/ /\ d.status = "INCOMPLETE" /\ a.status \in {"INCOMPLETE", "INTERRUPTED"}
     /\ Len(a.results) = Len(d.results) + 1 /\ pc \in {"between", "interrupted"}
  \/ /\ d.status \in {"INCOMPLETE", "INTERRUPTED"} /\ a.status = "INFRASTRUCTURE_FAILURE"
     /\ Len(a.results) = Len(d.results)
  \/ /\ d.status = "INCOMPLETE" /\ a.status \in {"PASS", "FAIL"}
     /\ Len(a.results) = N /\ Len(d.results) = N
  \/ /\ d.status # "none" /\ a.status \in {d.status, "INTERRUPTED"}
     /\ region \in Guarded \ {"loop"} => d.status \in {"INCOMPLETE", "INTERRUPTED"}
     /\ Len(a.results) = Len(d.results)

IInv ==
  /\ TypeOK /\ (clean => current.clean)
  /\ Honest(agg) /\ \A f \in DOMAIN disk : Honest(disk[f]) /\ disk[f].n <= agg.n
  /\ SignalInv
  /\ Running => /\ RegionInv /\ JobInv /\ CountInv /\ StatusInv /\ FilesInv /\ CurrentInv
                /\ Behind(disk["result"], agg)
  /\ ResultIsNewest /\ ExitMatchesFiles /\ CoveredSignals

----------------------------------------------------------------------------
(* The aggregate and its fields.                                           *)

\* The fields of an aggregate.
LEMMA Fields ==
  ASSUME NEW a \in Aggregates
  PROVE  /\ a.status \in Statuses \cup {"none"} /\ a.phase \in Phases \cup {"none"}
         /\ a.results \in Seq(Results) /\ a.n \in Nat /\ Len(a.results) \in Nat
  BY DEF Aggregates

\* A new status, or one more result, changes nothing else.
LEMMA StatusChange ==
  ASSUME NEW a \in Aggregates, NEW t \in Statuses
  PROVE  LET b == [a EXCEPT !.status = t]
         IN  b \in Aggregates /\ b.status = t /\ b.results = a.results
             /\ b.phase = a.phase /\ b.n = a.n
  BY DEF Aggregates

\* Adding a result to the aggregate changes its results and nothing else.
LEMMA ResultAdded ==
  ASSUME NEW a \in Aggregates, NEW r \in Results
  PROVE  LET b == [a EXCEPT !.results = Append(@, r)]
         IN  b \in Aggregates /\ b.results = Append(a.results, r)
             /\ b.status = a.status /\ b.phase = a.phase /\ b.n = a.n
<1>1. Append(a.results, r) \in Seq(Results)
  BY DEF Aggregates
<1>2. QED
  BY <1>1 DEF Aggregates

\* A transition sets the phase and counts; the rest is what it was given.
LEMMA WriteEffect ==
  ASSUME NEW a \in Aggregates, NEW p \in Phases, NEW k, NEW l, Write(a, p, k, l)
  PROVE  /\ agg' \in Aggregates /\ agg'.status = a.status /\ agg'.results = a.results
         /\ agg'.phase = p /\ agg'.n = a.n + 1
         /\ job' = [step |-> 1, kind |-> k, after |-> l]
<1> DEFINE b == [a EXCEPT !.phase = p]
<1>1. b \in Aggregates /\ b.status = a.status /\ b.results = a.results /\ b.phase = p
      /\ b.n = a.n
  BY DEF Aggregates
<1>2. agg' = [b EXCEPT !.n = @ + 1]
  BY DEF Write, Aggregates
<1> HIDE DEF b
<1>3. b.n + 1 \in Nat
  BY <1>1, Fields
<1>4. [b EXCEPT !.n = @ + 1] = [b EXCEPT !.n = b.n + 1]
  BY <1>1 DEF Aggregates
<1>5. QED
  BY <1>1, <1>2, <1>3, <1>4 DEF Aggregates, Write

\* An exception leaves the results alone.
LEMMA ErrorEffect ==
  ASSUME agg \in Aggregates, Error(agg)
  PROVE  /\ agg' \in Aggregates /\ agg'.results = agg.results /\ agg'.n = agg.n
         /\ agg'.phase = agg.phase
         /\ agg'.status = IF region \in Guarded \ {"loop"} THEN "INFRASTRUCTURE_FAILURE"
                          ELSE agg.status
         /\ IF region = "preflight"
            THEN pc' = "preflight_failed" /\ region' = "bare" /\ UNCHANGED exit
            ELSE IF region \in {"task", "control", "identity"}
            THEN pc' = "task_failed" /\ region' = "loop" /\ UNCHANGED exit
            ELSE exit' = "raised" /\ UNCHANGED <<pc, region, agg>>
<1> DEFINE f == [agg EXCEPT !.status = "INFRASTRUCTURE_FAILURE"]
<1>1. /\ f \in Aggregates /\ f.status = "INFRASTRUCTURE_FAILURE" /\ f.results = agg.results
      /\ f.phase = agg.phase /\ f.n = agg.n
  BY StatusChange DEF Statuses
<1> HIDE DEF f
<1>2. CASE region \in Guarded \ {"loop"}
  <2>1. agg' = f
    BY <1>2 DEF Error, Guarded, f
  <2>2. QED
    BY <1>1, <1>2, <2>1 DEF Error, Guarded
<1>3. CASE region \notin Guarded \ {"loop"}
  BY <1>3 DEF Error, Guarded
<1>4. QED
  BY <1>2, <1>3

----------------------------------------------------------------------------
(* What a step may do.                                                     *)

World ==
  /\ UNCHANGED <<free, pc, region, job, agg, disk, run, noise, pending, faults, exit>>
  /\ digest' \in 0 .. MaxChanges /\ digest <= digest'
  /\ clean' \in BOOLEAN /\ (clean' => clean)

\* A transition begins; the verdict and the interruption are apart.
Transits ==
  /\ Running /\ ~Writing /\ agg' \in Aggregates
  /\ agg'.status = agg.status /\ agg'.results = agg.results /\ agg'.n = agg.n + 1
  /\ pc = "preflight_failed" => agg'.phase = "PREFLIGHT_FAILED"
  /\ job' \in Jobs /\ job'.step = 1 /\ job'.kind = "normal"
  /\ Leads(pc, job'.after) /\ pc # "finish"
  /\ task' = (IF pc = "next" THEN task + 1 ELSE task) /\ task' \in 0 .. N
  /\ baseline' = IF pc = "preflight" THEN digest ELSE baseline
  /\ UNCHANGED <<env, pc, region, disk, current, noise, pending, faults, exit>>

Finishes ==
  /\ Running /\ ~Writing /\ pc = "finish" /\ agg' \in Aggregates
  /\ agg'.status = Verdict(agg) /\ agg'.results = agg.results /\ agg'.n = agg.n + 1
  /\ agg'.phase = "FINISHED"
  /\ job' = [step |-> 1, kind |-> "normal", after |-> "return"]
  /\ UNCHANGED <<env, pc, region, disk, run, noise, pending, faults, exit>>

Interrupts ==
  /\ Running /\ ~Writing /\ pc = "interrupted" /\ agg' \in Aggregates
  /\ agg'.status = "INTERRUPTED" /\ agg'.results = agg.results /\ agg'.n = agg.n + 1
  /\ job' = [step |-> 1, kind |-> "interrupted", after |-> "none"]
  /\ UNCHANGED <<env, pc, region, disk, run, noise, pending, faults, exit>>

\* The run fails.
Fails ==
  /\ Running /\ ~Writing /\ agg' \in Aggregates
  /\ pc \in {"control", "preflight", "task", "recheck", "reidentify", "judge"}
  /\ agg'.status = "INFRASTRUCTURE_FAILURE" /\ agg'.results = agg.results /\ agg'.n = agg.n
  /\ \/ region = "preflight" /\ pc' = "preflight_failed" /\ region' = "bare"
     \/ region \in {"task", "control", "identity"} /\ pc' = "task_failed" /\ region' = "loop"
     \/ pc = "judge" /\ pc' = "leave" /\ UNCHANGED region
  /\ UNCHANGED <<env, job, disk, run, noise, pending, faults, exit>>

\* The current task's result is added.
Accepts ==
  /\ Running /\ ~Writing /\ pc = "reidentify" /\ digest = baseline /\ agg' \in Aggregates
  /\ agg'.results = Append(agg.results, current) /\ agg'.status = agg.status /\ agg'.n = agg.n
  /\ pc' = "between" /\ region' = "loop"
  /\ UNCHANGED <<env, job, disk, run, noise, pending, faults, exit>>

\* The run goes on, and the aggregate stays.
Moves ==
  /\ Running /\ ~Writing
  /\ \/ /\ pc = "task" /\ pc' = "check" /\ region' = "control"
        /\ current' \in Results /\ current'.digest = digest /\ current'.clean = clean
     \/ /\ UNCHANGED current
        /\ \/ pc = "lock" /\ pc' = "create" /\ UNCHANGED region
           \/ pc = "announce" /\ pc' = "begin" /\ region' = "preflight"
           \/ pc = "control" /\ pc' = "verified" /\ UNCHANGED region
           \/ pc = "enter" /\ pc' = "next" /\ region' = "loop"
           \/ pc = "next" /\ task = N /\ pc' = "finish" /\ region' = "bare"
           \/ pc = "start" /\ pc' = "task" /\ region' = "task"
           \/ pc = "reraise" /\ pc' = "interrupted" /\ region' = "handler"
           \/ pc = "recheck" /\ clean /\ pc' = "identify" /\ region' = "identity"
           \/ pc = "judge" /\ pc' = "next" /\ UNCHANGED region
           \/ pc = "leave" /\ pc' = "finish" /\ region' = "bare"
  /\ UNCHANGED <<env, job, agg, disk, baseline, task, noise, pending, faults, exit>>

Stops ==
  /\ Running /\ ~Writing
  /\ \/ pc = "lock" /\ exit' = "raised"
     \/ pc = "return" /\ exit' = "returned"
  /\ UNCHANGED <<env, pc, region, job, agg, disk, run, noise, pending, faults>>

\* A file holds what it held or the aggregate, whatever was written.
Docs == {"result", "state", "report"}
Kept ==
  /\ disk \in [Docs -> Aggregates] /\ disk' \in [Docs -> Aggregates]
  /\ \A f \in Docs : disk'[f] \in {disk[f], agg}

\* A file is written.
Writes ==
  /\ Running /\ job.step \in 1 .. 3
  /\ disk' = [disk EXCEPT ![Files[job.step]] = agg]
  /\ \A f \in Docs : disk'[f] = IF f = Files[job.step] THEN agg ELSE disk[f]
  /\ Files[1] = "result" /\ Files[2] = "state" /\ Files[3] = "report"
  /\ Kept /\ job' = [job EXCEPT !.step = @ + 1]
  /\ UNCHANGED <<env, pc, region, agg, run, noise, pending, faults, exit>>

\* A signal that was held back is delivered.
Delivers ==
  /\ pending /\ pending' = FALSE
  /\ \/ /\ job.kind = "normal"
        /\ agg' \in Aggregates /\ agg'.status = "INTERRUPTED"
        /\ agg'.results = agg.results /\ agg'.n = agg.n + 1
        /\ job' = [step |-> 1, kind |-> "rewrite", after |-> "none"]
        /\ UNCHANGED <<pc, region, exit>>
     \/ job.kind # "normal" /\ job' = NoJob /\ Caught("interrupt") /\ UNCHANGED agg

\* It is delivered, after the last file or after a file that could not be written.
Delivered ==
  /\ Running /\ Writing /\ Delivers /\ Kept
  /\ \/ job.step = 4 /\ UNCHANGED <<disk, faults>>
     \/ /\ job.step \in 1 .. 3 /\ faults < MaxFaults /\ faults' = faults + 1
        /\ disk' \in {disk, [disk EXCEPT ![Files[job.step]] = agg]}
  /\ UNCHANGED <<env, run, noise>>

\* A file cannot be written, and the run fails or dies.
Breaks ==
  /\ Running /\ job.step \in 1 .. 3 /\ ~pending /\ job' = NoJob /\ Kept
  /\ faults < MaxFaults /\ faults' = faults + 1
  /\ disk' \in {disk, [disk EXCEPT ![Files[job.step]] = agg]}
  /\ agg' \in Aggregates /\ agg'.results = agg.results /\ agg'.n = agg.n
  /\ \/ /\ agg'.status = "INFRASTRUCTURE_FAILURE" /\ UNCHANGED exit
        /\ \/ region = "preflight" /\ pc' = "preflight_failed" /\ region' = "bare"
           \/ /\ region \in {"task", "control", "identity"}
              /\ pc' = "task_failed" /\ region' = "loop"
     \/ /\ region \notin Guarded \ {"loop"}
        /\ exit' = "raised" /\ UNCHANGED <<pc, region, agg>>
  /\ UNCHANGED <<env, run, noise, pending>>

\* A transition that only sets a phase.
LEMMA TransitionKinds ==
  ASSUME TypeOK, NEW from, NEW p \in Phases, NEW to \in Places,
         Phase(from, p, to), Leads(from, to), from \notin {"finish", "next", "preflight"},
         from = "preflight_failed" => p = "PREFLIGHT_FAILED"
  PROVE  Transits
<1>1. Write(agg, p, "normal", to) /\ agg \in Aggregates
  BY DEF Phase, TypeOK
<1>2. /\ agg' \in Aggregates /\ agg'.status = agg.status /\ agg'.results = agg.results
      /\ agg'.phase = p /\ agg'.n = agg.n + 1
      /\ job' = [step |-> 1, kind |-> "normal", after |-> to]
  BY <1>1, WriteEffect
<1>3. QED
  BY <1>2 DEF Transits, Phase, At, Quiet, Jobs, Places, TypeOK, run, env, noise

\* An exception where it is caught.
LEMMA FailureKinds ==
  ASSUME TypeOK, Running, ~Writing, region \in Guarded \ {"loop"}, Error(agg),
         pc \in {"control", "preflight", "task", "recheck", "reidentify"},
         UNCHANGED <<env, job, disk, run, noise, pending, faults>>
  PROVE  Fails
<1>1. agg \in Aggregates
  BY DEF TypeOK
<1>2. QED
  BY <1>1, ErrorEffect DEF Fails, Guarded

\* A write that is interrupted, and one that fails, may end with a signal.
LEMMA DeliveryKinds ==
  ASSUME TypeOK, DeliverPending
  PROVE  Delivers
<1>1. CASE job.kind = "normal"
  <2> DEFINE b == [agg EXCEPT !.status = "INTERRUPTED"]
  <2>1. b \in Aggregates /\ b.status = "INTERRUPTED" /\ b.results = agg.results /\ b.n = agg.n
    BY StatusChange DEF Statuses, TypeOK
  <2>2. Write(b, "INTERRUPTED", "rewrite", "none")
    BY <1>1 DEF DeliverPending
  <2> HIDE DEF b
  <2>3. QED
    BY <1>1, <2>1, <2>2, WriteEffect DEF DeliverPending, Delivers, Phases
<1>2. CASE job.kind # "normal"
  BY <1>2 DEF DeliverPending, Delivers
<1>3. QED
  BY <1>1, <1>2

\* What a write does to the files.
LEMMA Written ==
  ASSUME TypeOK,
         \/ disk' = disk
         \/ job.step \in 1 .. 3 /\ disk' = [disk EXCEPT ![Files[job.step]] = agg]
  PROVE  Kept
  BY DEF TypeOK, Kept, Docs, Files

\* Every step of the run is of one of these kinds.
LEMMA Kinds ==
  ASSUME TypeOK, Running => RegionInv, Next
  PROVE  \/ World \/ Transits \/ Finishes \/ Interrupts \/ Fails \/ Accepts \/ Moves \/ Stops
         \/ Signal \/ Writes \/ WriteDone \/ Delivered \/ Breaks
<1>a. agg \in Aggregates
  BY DEF TypeOK
<1>1. CASE ModelChanges \/ RepositoryChanges
  <2>1. digest \in 0 .. MaxChanges /\ clean \in BOOLEAN
    BY DEF TypeOK
  <2>2. CASE ModelChanges
    BY <2>1, <2>2, SuiteAssumption DEF World, ModelChanges
  <2>3. CASE RepositoryChanges
    <3>1. digest' = digest /\ digest \in Nat
      BY <2>1, <2>3, SuiteAssumption DEF RepositoryChanges
    <3>2. digest <= digest'
      BY <3>1
    <3>3. QED
      BY <2>1, <2>3, <3>1, <3>2, Zenon DEF World, RepositoryChanges
  <2>4. QED
    BY <1>1, <2>2, <2>3
<1>2. CASE AcquireLock \/ Return
  BY <1>2 DEF AcquireLock, Return, At, Quiet, Moves, Stops, run, env, noise
<1>3. CASE Create
  <2>1. Phase("create", "INITIALIZED", "announce")
    BY <1>3 DEF Create, Phase
  <2>2. QED
    BY <2>1, TransitionKinds DEF Leads, Phases, Places, Phase
<1>4. CASE Announce \/ EnterLoop \/ StartTask \/ LeaveLoop
  BY <1>4 DEF Announce, EnterLoop, StartTask, LeaveLoop, Step, At, Quiet, Moves, run, env, noise
<1>5. CASE BeginPreflight
  <2>1. CASE Phase("begin", "CONTROL_PLANE_VERIFYING", "control")
    BY <2>1, TransitionKinds DEF Leads, Phases, Places, Phase
  <2>2. CASE Phase("verified", "CONTROL_PLANE_VERIFIED", "running")
    BY <2>2, TransitionKinds DEF Leads, Phases, Places, Phase
  <2>3. CASE Phase("running", "PREFLIGHT_RUNNING", "preflight")
    BY <2>3, TransitionKinds DEF Leads, Phases, Places, Phase
  <2>4. QED
    BY <1>5, <2>1, <2>2, <2>3 DEF BeginPreflight
<1>6. CASE VerifyControlPlane
  <2>1. CASE clean /\ pc' = "verified" /\ UNCHANGED <<region, agg, exit>>
    BY <1>6, <2>1 DEF VerifyControlPlane, At, Quiet, Moves, run, env, noise
  <2>2. CASE Error(agg)
    <3>1. region \in Guarded \ {"loop"}
      BY <1>6 DEF VerifyControlPlane, At, RegionInv, TypeOK, Guarded, Between
    <3>2. QED
      BY <1>6, <2>2, <3>1, FailureKinds DEF VerifyControlPlane, At, Quiet
  <2>3. QED
    BY <1>6, <2>1, <2>2 DEF VerifyControlPlane
<1>7. CASE Preflight
  <2>1. CASE /\ baseline' = digest
             /\ Write(agg, "PREFLIGHT_COMPLETE", "normal", "enter")
             /\ UNCHANGED <<pc, region, exit>>
    BY <1>7, <1>a, <2>1, WriteEffect
      DEF Preflight, At, Quiet, Transits, Jobs, Leads, Phases, Places, TypeOK, env, noise
  <2>2. CASE Error(agg) /\ UNCHANGED <<baseline, job>>
    <3>1. region \in Guarded \ {"loop"}
      BY <1>7 DEF Preflight, At, RegionInv, TypeOK, Guarded, Between
    <3>2. QED
      BY <1>7, <2>2, <3>1, FailureKinds DEF Preflight, At, Quiet, run
  <2>3. QED
    BY <1>7, <2>1, <2>2 DEF Preflight
<1>8. CASE PreflightFailed
  <2>1. Phase("preflight_failed", "PREFLIGHT_FAILED", "return")
    BY <1>8 DEF PreflightFailed, Phase
  <2>2. QED
    BY <2>1, TransitionKinds DEF Leads, Phases, Places, Phase
<1>9. CASE NextTask
  <2>1. Write(agg, "TASK_STARTING", "normal", "start")
    BY <1>9 DEF NextTask
  <2>2. QED
    BY <1>9, <1>a, <2>1, WriteEffect, SuiteAssumption
      DEF NextTask, At, Quiet, Transits, Jobs, Leads, Phases, Places, TypeOK, env, noise
<1>10. CASE LastTask
  BY <1>10 DEF LastTask, At, Quiet, Moves, run, env, noise
<1>11. CASE TaskState
  <2>1. Phase("task", "TASK_RUNNING", "task")
    BY <1>11 DEF TaskState, Phase
  <2>2. QED
    BY <2>1, TransitionKinds DEF Leads, Phases, Places, Phase
<1>12. CASE TaskEnds
  <2>1. current' \in Results /\ current'.digest = digest /\ current'.clean = clean
    BY <1>12 DEF TaskEnds, Results, TypeOK
  <2>2. QED
    BY <1>12, <2>1 DEF TaskEnds, Step, At, Quiet, Moves, env, noise
<1>13. CASE TaskRaises
  <2>1. region \in Guarded \ {"loop"}
    BY <1>13 DEF TaskRaises, At, RegionInv, TypeOK, Guarded, Between
  <2>2. QED
    BY <1>13, <2>1, FailureKinds DEF TaskRaises, At, Quiet
<1>14. CASE TaskInterrupted
  <2>1. CASE Phase("task_interrupted", "TASK_INTERRUPTED", "reraise")
    BY <2>1, TransitionKinds DEF Leads, Phases, Places, Phase
  <2>2. CASE Step("reraise", "interrupted")
    BY <1>14, <2>2 DEF TaskInterrupted, Phase, Step, At, Quiet, Moves, run, env, noise
  <2>3. QED
    BY <1>14, <2>1, <2>2 DEF TaskInterrupted
<1>15. CASE TaskChecks
  <2>1. CASE Phase("check", "TASK_CONTROL_PLANE_VERIFYING", "recheck")
    BY <2>1, TransitionKinds DEF Leads, Phases, Places, Phase
  <2>2. CASE Phase("identify", "TASK_IDENTITY_VERIFYING", "reidentify")
    BY <2>2, TransitionKinds DEF Leads, Phases, Places, Phase
  <2>3. QED
    BY <1>15, <2>1, <2>2 DEF TaskChecks
<1>16. CASE RecheckControlPlane
  <2>1. CASE clean /\ pc' = "identify" /\ region' = "identity" /\ UNCHANGED <<agg, exit>>
    BY <1>16, <2>1 DEF RecheckControlPlane, At, Quiet, Moves, run, env, noise
  <2>2. CASE Error(agg)
    <3>1. region \in Guarded \ {"loop"}
      BY <1>16 DEF RecheckControlPlane, At, RegionInv, TypeOK, Guarded, Between
    <3>2. QED
      BY <1>16, <2>2, <3>1, FailureKinds DEF RecheckControlPlane, At, Quiet
  <2>3. QED
    BY <1>16, <2>1, <2>2 DEF RecheckControlPlane
<1>17. CASE VerifyIdentity
  <2>1. CASE /\ digest = baseline
             /\ agg' = [agg EXCEPT !.results = Append(@, current)]
             /\ pc' = "between" /\ region' = "loop" /\ UNCHANGED exit
    <3>1. /\ agg' \in Aggregates /\ agg'.results = Append(agg.results, current)
          /\ agg'.status = agg.status /\ agg'.n = agg.n
      BY <1>a, <2>1, ResultAdded DEF TypeOK
    <3>2. QED
      BY <1>17, <2>1, <3>1 DEF VerifyIdentity, At, Quiet, Accepts, run, env, noise
  <2>2. CASE Error(agg)
    <3>1. region \in Guarded \ {"loop"}
      BY <1>17 DEF VerifyIdentity, At, RegionInv, TypeOK, Guarded, Between
    <3>2. QED
      BY <1>17, <2>2, <3>1, FailureKinds DEF VerifyIdentity, At, Quiet
  <2>3. QED
    BY <1>17, <2>1, <2>2 DEF VerifyIdentity
<1>18. CASE TaskFailed
  <2>1. Phase("task_failed", "TASK_FAILED", "leave")
    BY <1>18 DEF TaskFailed, Phase
  <2>2. QED
    BY <2>1, TransitionKinds DEF Leads, Phases, Places, Phase
<1>19. CASE BetweenTasks
  <2>1. Phase("between", "BETWEEN_TASKS", "judge")
    BY <1>19 DEF BetweenTasks, Phase
  <2>2. QED
    BY <2>1, TransitionKinds DEF Leads, Phases, Places, Phase
<1>20. CASE JudgeTask
  <2>1. CASE pc' = "next" /\ UNCHANGED agg
    BY <1>20, <2>1 DEF JudgeTask, At, Quiet, Moves, run, env, noise
  <2>2. CASE pc' = "leave" /\ agg' = [agg EXCEPT !.status = "INFRASTRUCTURE_FAILURE"]
    BY <1>20, <1>a, <2>2, StatusChange
      DEF JudgeTask, At, Quiet, Fails, Statuses, run, env, noise
  <2>3. QED
    BY <1>20, <2>1, <2>2 DEF JudgeTask
<1>21. CASE HandleInterrupt
  <2> DEFINE b == [agg EXCEPT !.status = "INTERRUPTED"]
  <2>1. b \in Aggregates /\ b.status = "INTERRUPTED" /\ b.results = agg.results /\ b.n = agg.n
    BY <1>a, StatusChange DEF Statuses
  <2>2. Write(b, "INTERRUPTED", "interrupted", "none")
    BY <1>21 DEF HandleInterrupt
  <2> HIDE DEF b
  <2>3. QED
    BY <1>21, <2>1, <2>2, WriteEffect
      DEF HandleInterrupt, At, Quiet, Interrupts, Phases, run, env, noise
<1>22. CASE Finish
  <2> DEFINE b == [agg EXCEPT !.status = Verdict(agg)]
  <2>1. Verdict(agg) \in Statuses
    BY <1>a DEF Verdict, Statuses
  <2>2. b \in Aggregates /\ b.status = Verdict(agg) /\ b.results = agg.results /\ b.n = agg.n
    BY <1>a, <2>1, StatusChange
  <2>3. Write(b, "FINISHED", "normal", "return")
    BY <1>22 DEF Finish
  <2> HIDE DEF b
  <2>4. QED
    BY <1>22, <2>2, <2>3, WriteEffect
      DEF Finish, At, Quiet, Finishes, Phases, run, env, noise
<1>23. CASE WriteFile
  BY <1>23, Written DEF WriteFile, Writes, TypeOK, Docs, Files
<1>24. CASE WriteInterrupted
  BY <1>24, DeliveryKinds, Written DEF WriteInterrupted, Delivered, Writing
<1>25. CASE WriteFails
  <2>1. Kept
    BY <1>25, Written DEF WriteFails
  <2>2. CASE DeliverPending
    BY <1>25, <2>1, <2>2, DeliveryKinds DEF WriteFails, Delivered, Writing
  <2>3. CASE ~pending /\ Error(agg) /\ job' = NoJob /\ UNCHANGED pending
    BY <1>25, <1>a, <2>1, <2>3, ErrorEffect DEF WriteFails, Breaks, Guarded
  <2>4. QED
    BY <1>25, <2>2, <2>3 DEF WriteFails
<1>26. QED
  BY <1>1, <1>2, <1>3, <1>4, <1>5, <1>6, <1>7, <1>8, <1>9, <1>10, <1>11, <1>12, <1>13, <1>14,
     <1>15, <1>16, <1>17, <1>18, <1>19, <1>20, <1>21, <1>22, <1>23, <1>24, <1>25 DEF Next

----------------------------------------------------------------------------
(* Where the run is, and what it writes.                                   *)

\* Places, regions and transitions fit together.
LEMMA RegionStep ==
  ASSUME IInv, Next, Running'
  PROVE  RegionInv' /\ JobInv'
<1> USE DEF IInv, TypeOK, RegionInv, JobInv, Leads, Guarded, Between, Jobs, Running,
    Writing, env, run, noise
<1>1. CASE World \/ Moves \/ Stops
  BY <1>1 DEF World, Moves, Stops
<1>2. CASE Transits \/ Finishes \/ Interrupts
  BY <1>2 DEF Transits, Finishes, Interrupts
<1>3. CASE Fails \/ Accepts
  BY <1>3 DEF Fails, Accepts
<1>4. CASE Signal
  BY <1>4 DEF Signal, Caught, Covered
<1>5. CASE Writes
  BY <1>5 DEF Writes
<1>6. CASE WriteDone
  BY <1>6 DEF WriteDone, Caught, NoJob
<1>7. CASE Delivered
  BY <1>7 DEF Delivered, Delivers, Caught, NoJob
<1>8. CASE Breaks
  BY <1>8 DEF Breaks, NoJob
<1>9. QED
  BY <1>1, <1>2, <1>3, <1>4, <1>5, <1>6, <1>7, <1>8, Kinds DEF IInv

\* As many results as tasks that ended.
LEMMA CountStep ==
  ASSUME IInv, Next, Running'
  PROVE  CountInv'
<1> USE DEF IInv, TypeOK, RegionInv, JobInv, Leads, Guarded, Between, Jobs, Loc,
    CountInv, Early, Tasking, Docs, Kept, Running, Writing, env, run, noise
<1>1. CASE World
  BY <1>1, Fields DEF World
<1>2. CASE Moves
  BY <1>2, Fields DEF Moves
<1>3. CASE Stops
  BY <1>3, Fields DEF Stops
<1>4. CASE Finishes \/ Interrupts
  BY <1>4, Fields DEF Finishes, Interrupts
<1>5. CASE Transits
  <2>1. Loc = pc /\ Loc' = job'.after /\ Leads(Loc, Loc')
    BY <1>5 DEF Transits
  <2>2. CASE pc = "next"
    BY <1>5, <2>1, <2>2 DEF Transits
  <2>3. CASE pc # "next"
    <3>1. UNCHANGED <<task, disk>> /\ agg'.results = agg.results
      BY <1>5, <2>3 DEF Transits
    <3>2. Loc' \in Early => Loc \in Early
      BY <2>1
    <3>3. Loc' \in Early \cup {"enter"} => Loc \in Early
      BY <2>1
    <3>4. Loc' \in Tasking => Loc \in Tasking
      BY <2>1, <2>3
    <3>5. Loc' \in Between => Loc \in Between
      BY <2>1
    <3>6. CountInv
      BY <1>5 DEF Transits
    <3> HIDE DEF Loc, Early, Tasking, Between, IInv
    <3>7. QED
      BY <3>1, <3>2, <3>3, <3>4, <3>5, <3>6
  <2>4. QED
    BY <2>2, <2>3
<1>6. CASE Fails
  BY <1>6, Fields DEF Fails
<1>7. CASE Accepts
  BY <1>7, Fields DEF Accepts
<1>8. CASE Signal
  BY <1>8, Fields DEF Signal, Caught, Covered
<1>9. CASE Writes
  BY <1>9, Fields DEF Writes
<1>10. CASE WriteDone
  BY <1>10, Fields DEF WriteDone, Caught, NoJob
<1>11. CASE Delivered
  BY <1>11, Fields DEF Delivered, Delivers, Caught, NoJob
<1>12. CASE Breaks
  BY <1>12, Fields DEF Breaks, NoJob
<1>13. QED
  BY <1>1, <1>2, <1>3, <1>4, <1>5, <1>6, <1>7, <1>8, <1>9, <1>10, <1>11,
     <1>12, Kinds DEF IInv

\* The status that belongs to the place.
LEMMA StatusStep ==
  ASSUME IInv, Next, Running'
  PROVE  StatusInv'
<1> USE DEF IInv, TypeOK, RegionInv, JobInv, Leads, Guarded, Between, Jobs, Loc,
    StatusInv, CountInv, Early, Tasking, Running, Writing, env, run, noise
<1>1. CASE World \/ Moves \/ Stops
  BY <1>1, Fields DEF World, Moves, Stops
<1>2. CASE Transits
  BY <1>2, Fields DEF Transits
<1>3. CASE Finishes
  BY <1>3, Fields DEF Finishes, Verdict
<1>4. CASE Interrupts
  BY <1>4, Fields DEF Interrupts
<1>5. CASE Fails \/ Accepts
  BY <1>5, Fields DEF Fails, Accepts
<1>6. CASE Signal
  BY <1>6, Fields DEF Signal, Caught, Covered
<1>7. CASE Writes
  BY <1>7, Fields DEF Writes
<1>8. CASE WriteDone
  BY <1>8, Fields DEF WriteDone, Caught, NoJob
<1>9. CASE Delivered
  BY <1>9, Fields DEF Delivered, Delivers, Caught, NoJob
<1>10. CASE Breaks
  BY <1>10, Fields DEF Breaks, NoJob
<1>11. QED
  BY <1>1, <1>2, <1>3, <1>4, <1>5, <1>6, <1>7, <1>8, <1>9, <1>10, Kinds DEF IInv

\* What was written is what the aggregate is.
LEMMA FilesStep ==
  ASSUME IInv, Next, Running'
  PROVE  FilesInv'
<1> USE DEF IInv, TypeOK, RegionInv, JobInv, Leads, Guarded, Between, Jobs, Loc,
    FilesInv, Docs, Kept, Running, Writing, env, run, noise
<1>1. CASE World \/ Moves \/ Stops
  BY <1>1, Fields DEF World, Moves, Stops
<1>2. CASE Transits \/ Finishes \/ Interrupts
  BY <1>2, Fields DEF Transits, Finishes, Interrupts
<1>3. CASE Fails \/ Accepts
  BY <1>3, Fields DEF Fails, Accepts
<1>4. CASE Signal
  BY <1>4, Fields DEF Signal, Caught, Covered
<1>5. CASE Writes
  BY <1>5, Fields DEF Writes
<1>6. CASE WriteDone
  BY <1>6, Fields DEF WriteDone, Caught, NoJob
<1>7. CASE Delivered
  BY <1>7, Fields DEF Delivered, Delivers, Caught, NoJob
<1>8. CASE Breaks
  BY <1>8, Fields DEF Breaks, NoJob
<1>9. QED
  BY <1>1, <1>2, <1>3, <1>4, <1>5, <1>6, <1>7, <1>8, Kinds DEF IInv

\* The current task's result was seen after the preflight.
LEMMA CurrentStep ==
  ASSUME IInv, Next, Running'
  PROVE  CurrentInv'
<1> USE DEF IInv, TypeOK, RegionInv, JobInv, Leads, Guarded, Between, Jobs, Loc,
    CurrentInv, Results, Running, Writing, env, run, noise
<1>1. CASE World \/ Moves \/ Stops
  BY <1>1 DEF World, Moves, Stops
<1>2. CASE Transits \/ Finishes \/ Interrupts
  BY <1>2 DEF Transits, Finishes, Interrupts
<1>3. CASE Fails \/ Accepts
  BY <1>3 DEF Fails, Accepts
<1>4. CASE Signal
  BY <1>4 DEF Signal, Caught, Covered
<1>5. CASE Writes
  BY <1>5 DEF Writes
<1>6. CASE WriteDone
  BY <1>6 DEF WriteDone, Caught, NoJob
<1>7. CASE Delivered
  BY <1>7 DEF Delivered, Delivers, Caught, NoJob
<1>8. CASE Breaks
  BY <1>8 DEF Breaks, NoJob
<1>9. QED
  BY <1>1, <1>2, <1>3, <1>4, <1>5, <1>6, <1>7, <1>8, Kinds DEF IInv

\* Only a signal leads to the handler.
LEMMA SignalStep ==
  ASSUME IInv, Next
  PROVE  SignalInv'
<1> USE DEF IInv, TypeOK, RegionInv, JobInv, Leads, Guarded, Between, Jobs, Loc,
    SignalInv, Running, Writing, env, run, noise
<1>1. CASE World \/ Moves \/ Stops
  BY <1>1 DEF World, Moves, Stops
<1>2. CASE Transits \/ Finishes \/ Interrupts
  BY <1>2 DEF Transits, Finishes, Interrupts
<1>3. CASE Fails \/ Accepts
  BY <1>3 DEF Fails, Accepts
<1>4. CASE Signal
  BY <1>4 DEF Signal, Caught, Covered
<1>5. CASE Writes
  BY <1>5 DEF Writes
<1>6. CASE WriteDone
  BY <1>6 DEF WriteDone, Caught, NoJob
<1>7. CASE Delivered
  BY <1>7 DEF Delivered, Delivers, Caught, NoJob
<1>8. CASE Breaks
  BY <1>8 DEF Breaks, NoJob
<1>9. QED
  BY <1>1, <1>2, <1>3, <1>4, <1>5, <1>6, <1>7, <1>8, Kinds DEF IInv

\* A covered signal is not lost.
LEMMA CoveredStep ==
  ASSUME IInv, Next
  PROVE  CoveredSignals'
<1> USE DEF IInv, TypeOK, RegionInv, JobInv, Leads, Guarded, Between, Jobs, Loc,
    SignalInv, CoveredSignals, Running, Writing, env, run, noise
<1>1. CASE World \/ Moves \/ Stops
  BY <1>1 DEF World, Moves, Stops
<1>2. CASE Transits \/ Finishes \/ Interrupts
  BY <1>2 DEF Transits, Finishes, Interrupts
<1>3. CASE Fails \/ Accepts
  BY <1>3 DEF Fails, Accepts
<1>4. CASE Signal
  BY <1>4 DEF Signal, Caught, Covered
<1>5. CASE Writes
  BY <1>5 DEF Writes
<1>6. CASE WriteDone
  BY <1>6 DEF WriteDone, Caught, NoJob
<1>7. CASE Delivered
  BY <1>7 DEF Delivered, Delivers, Caught, NoJob
<1>8. CASE Breaks
  BY <1>8 DEF Breaks, NoJob
<1>9. QED
  BY <1>1, <1>2, <1>3, <1>4, <1>5, <1>6, <1>7, <1>8, Kinds DEF IInv

\* The files and the caller agree at the end.
LEMMA ExitStep ==
  ASSUME IInv, Next
  PROVE  ExitMatchesFiles'
<1> USE DEF IInv, TypeOK, RegionInv, JobInv, Leads, Guarded, Between, Jobs, Loc,
    StatusInv, FilesInv, ExitMatchesFiles, Running, Writing, env, run, noise
<1>1. CASE World \/ Moves \/ Stops
  BY <1>1 DEF World, Moves, Stops
<1>2. CASE Transits \/ Finishes \/ Interrupts
  BY <1>2 DEF Transits, Finishes, Interrupts
<1>3. CASE Fails \/ Accepts
  BY <1>3 DEF Fails, Accepts
<1>4. CASE Signal
  BY <1>4 DEF Signal, Caught, Covered
<1>5. CASE Writes
  BY <1>5 DEF Writes
<1>6. CASE WriteDone
  <2>1. job.step = 4 => \A f \in DOMAIN disk : disk[f] = agg
    BY <1>6 DEF WriteDone
  <2>2. QED
    BY <1>6, <2>1 DEF WriteDone, Caught, NoJob
<1>7. CASE Delivered
  BY <1>7 DEF Delivered, Delivers, Caught, NoJob
<1>8. CASE Breaks
  BY <1>8 DEF Breaks, NoJob
<1>9. QED
  BY <1>1, <1>2, <1>3, <1>4, <1>5, <1>6, <1>7, <1>8, Kinds DEF IInv

\* The aggregate counts on, and a file holds what it held or the aggregate.
LEMMA Progress ==
  ASSUME IInv, Next
  PROVE  /\ agg' \in Aggregates /\ agg.n <= agg'.n /\ Kept
         /\ \/ baseline' = baseline
            \/ /\ baseline' = digest /\ Running /\ ~Writing /\ pc = "preflight" /\ disk' = disk
               /\ agg'.results = agg.results /\ agg'.status = agg.status
<1> USE DEF IInv, TypeOK, Docs, Kept, Running, Writing, env, run, noise
<1>1. CASE World \/ Moves \/ Stops
  BY <1>1, Fields DEF World, Moves, Stops
<1>2. CASE Transits \/ Finishes \/ Interrupts
  BY <1>2, Fields DEF Transits, Finishes, Interrupts
<1>3. CASE Fails \/ Accepts
  BY <1>3, Fields DEF Fails, Accepts
<1>4. CASE Signal
  BY <1>4, Fields DEF Signal, Caught, Covered
<1>5. CASE Writes
  BY <1>5, Fields DEF Writes
<1>6. CASE WriteDone
  BY <1>6, Fields DEF WriteDone, Caught, NoJob
<1>7. CASE Delivered
  BY <1>7, Fields DEF Delivered, Delivers, Caught, NoJob
<1>8. CASE Breaks
  BY <1>8, Fields DEF Breaks, NoJob
<1>9. QED
  BY <1>1, <1>2, <1>3, <1>4, <1>5, <1>6, <1>7, <1>8, Kinds DEF IInv

\* Honesty depends on the results and on a verdict.
LEMMA SameResults ==
  ASSUME NEW a, NEW b, NEW d, HonestTo(a, d), b.results = a.results,
         b.status = a.status \/ b.status \notin {"PASS", "FAIL"}
  PROVE  HonestTo(b, d)
  BY DEF HonestTo

\* Before the first result, any baseline will do.
LEMMA NoResultsYet ==
  ASSUME NEW a, NEW d, NEW e, HonestTo(a, d), a.results = <<>>
  PROVE  HonestTo(a, e)
  BY DEF HonestTo

\* A result that was checked may be added.
LEMMA OneMoreResult ==
  ASSUME NEW a \in Aggregates, NEW b, NEW r \in Results, NEW d, HonestTo(a, d),
         b.results = Append(a.results, r), r.digest = d, r.clean,
         b.status \notin {"PASS", "FAIL"}
  PROVE  HonestTo(b, d)
  BY Fields DEF HonestTo

\* Only what is accepted is added, and only what was earned is a verdict.
LEMMA HonestStep ==
  ASSUME IInv, Next
  PROVE  Honest(agg)'
<1>1. HonestTo(agg, baseline) /\ agg \in Aggregates
  BY DEF IInv, TypeOK, Honest
<1>2. CASE World \/ Interrupts \/ Fails \/ Moves \/ Stops \/ Signal \/ Writes \/ WriteDone
          \/ Delivered \/ Breaks
  <2>1. /\ agg'.results = agg.results /\ baseline' = baseline
        /\ agg'.status = agg.status \/ agg'.status \notin {"PASS", "FAIL"}
    BY <1>2 DEF World, Interrupts, Fails, Moves, Stops, Signal, Writes, WriteDone,
         Delivered, Delivers, Breaks, run
  <2>2. QED
    BY <1>1, <2>1, SameResults DEF Honest
<1>3. CASE Transits
  <2>1. agg'.results = agg.results /\ agg'.status = agg.status
    BY <1>3 DEF Transits
  <2>2. HonestTo(agg', baseline)
    BY <1>1, <2>1, SameResults
  <2>3. CASE pc = "preflight"
    <3>1. agg.results = <<>>
      BY <1>3, <2>3 DEF Transits, IInv, CountInv, Loc, Early
    <3>2. QED
      BY <2>1, <2>2, <3>1, NoResultsYet DEF Honest
  <2>4. CASE pc # "preflight"
    BY <1>3, <2>2, <2>4 DEF Transits, Honest
  <2>5. QED
    BY <2>3, <2>4
<1>4. CASE Accepts
  <2>1. /\ agg'.results = Append(agg.results, current) /\ agg'.status = agg.status
        /\ Running /\ Loc = "reidentify" /\ digest = baseline /\ baseline' = baseline
    BY <1>4 DEF Accepts, Loc, run
  <2>2. current.clean /\ baseline <= current.digest /\ current.digest <= digest
    BY <2>1 DEF IInv, CurrentInv
  <2>3. current \in Results /\ digest \in Nat
    BY SuiteAssumption DEF IInv, TypeOK
  <2>4. current.digest = baseline
    BY <2>1, <2>2, <2>3 DEF Results
  <2>5. agg.status \notin {"PASS", "FAIL"}
    BY <2>1 DEF IInv, StatusInv
  <2>6. QED
    BY <1>1, <2>1, <2>2, <2>3, <2>4, <2>5, OneMoreResult DEF Honest
<1>5. CASE Finishes
  <2>1. agg'.results = agg.results /\ agg'.status = Verdict(agg) /\ baseline' = baseline
    BY <1>5 DEF Finishes, run
  <2>2. CASE Len(agg.results) # N
    <3>1. agg'.status \notin {"PASS", "FAIL"}
      BY <2>1, <2>2 DEF Verdict
    <3>2. QED
      BY <1>1, <2>1, <3>1, SameResults DEF Honest
  <2>3. CASE Len(agg.results) = N
    <3>1. DOMAIN agg.results = 1 .. N
      BY <1>1, <2>3, Fields
    <3>2. QED
      BY <1>1, <2>1, <2>3, <3>1 DEF Verdict, Honest, HonestTo
  <2>4. QED
    BY <2>2, <2>3
<1>6. QED
  BY <1>2, <1>3, <1>4, <1>5, Kinds DEF IInv

\* Every file holds an honest aggregate, and never a newer one than memory.
LEMMA FileStep ==
  ASSUME IInv, Next
  PROVE  \A f \in DOMAIN disk' : Honest(disk[f])' /\ disk'[f].n <= agg'.n
<1> SUFFICES ASSUME NEW f \in DOMAIN disk'
             PROVE  HonestTo(disk'[f], baseline') /\ disk'[f].n <= agg'.n
  BY DEF Honest
<1>1. f \in Docs /\ DOMAIN disk = Docs /\ agg \in Aggregates /\ disk[f] \in Aggregates
  BY Progress DEF IInv, TypeOK, Docs, Kept
<1>2. /\ HonestTo(agg, baseline) /\ HonestTo(disk[f], baseline) /\ disk[f].n <= agg.n
  BY <1>1 DEF IInv, Honest
<1>3. disk'[f] \in {disk[f], agg} /\ agg' \in Aggregates /\ agg.n <= agg'.n
  BY <1>1, Progress DEF Kept
<1>4. disk'[f].n <= agg'.n
  BY <1>1, <1>2, <1>3, Fields
<1>5. CASE baseline' = baseline
  BY <1>2, <1>3, <1>4, <1>5
<1>6. CASE Running /\ ~Writing /\ pc = "preflight" /\ disk' = disk
  <2>1. disk[f].results = <<>>
    BY <1>1, <1>6 DEF IInv, CountInv, Loc, Early
  <2>2. QED
    BY <1>2, <1>4, <1>6, <2>1, NoResultsYet
<1>7. QED
  BY <1>5, <1>6, Progress

\* The files are written in order, whole or not at all.
LEMMA NewestStep ==
  ASSUME IInv, Next
  PROVE  ResultIsNewest'
<1>1. \A f \in Docs : disk[f].n \in Nat /\ disk[f].n <= agg.n /\ agg.n \in Nat
  BY Fields DEF IInv, TypeOK, Docs
<1>2. CASE disk' = disk
  BY <1>2 DEF IInv, ResultIsNewest
<1>3. CASE /\ Running /\ job.step \in 1 .. 3
           /\ disk' = [disk EXCEPT ![Files[job.step]] = agg]
  <2>1. /\ job.step > 1 => disk["result"] = agg
        /\ job.step > 2 => disk["state"] = agg
    BY <1>3 DEF IInv, FilesInv
  <2>2. \A f \in Docs : disk'[f] = IF f = Files[job.step] THEN agg ELSE disk[f]
    BY <1>3 DEF IInv, TypeOK, Docs, Files
  <2>3. Files[1] = "result" /\ Files[2] = "state" /\ Files[3] = "report"
    BY DEF Files
  <2>4. disk["report"].n <= disk["state"].n /\ disk["state"].n <= disk["result"].n
    BY DEF IInv, ResultIsNewest
  <2>5. CASE job.step = 1
    BY <1>1, <2>2, <2>3, <2>4, <2>5 DEF Docs, ResultIsNewest
  <2>6. CASE job.step = 2
    BY <1>1, <2>1, <2>2, <2>3, <2>4, <2>6 DEF Docs, ResultIsNewest
  <2>7. CASE job.step = 3
    BY <1>1, <2>1, <2>2, <2>3, <2>4, <2>7 DEF Docs, ResultIsNewest
  <2>8. QED
    BY <1>3, <2>5, <2>6, <2>7
<1>4. disk' = disk \/ (/\ Running /\ job.step \in 1 .. 3
                       /\ disk' = [disk EXCEPT ![Files[job.step]] = agg])
  BY Kinds DEF IInv, World, Transits, Finishes, Interrupts, Fails, Accepts, Moves, Stops,
               Signal, Writes, WriteDone, Delivered, Breaks
<1>5. QED
  BY <1>2, <1>3, <1>4

\* The aggregate has a status and no more results than tasks were started.
LEMMA CountsStep ==
  ASSUME IInv, Next
  PROVE  agg'.status # "none" /\ Len(agg'.results) <= task' /\ task' \in 0 .. N
<1> USE DEF IInv, TypeOK, CountInv, Loc, Tasking, Running, Writing, env, run, noise
<1>1. CASE World \/ Moves \/ Stops
  BY <1>1, Fields, SuiteAssumption DEF World, Moves, Stops
<1>2. CASE Transits
  BY <1>2, Fields, SuiteAssumption DEF Transits
<1>3. CASE Finishes
  BY <1>3, Fields, SuiteAssumption DEF Finishes, Verdict
<1>4. CASE Interrupts
  BY <1>4, Fields, SuiteAssumption DEF Interrupts
<1>5. CASE Fails \/ Accepts
  BY <1>5, Fields, SuiteAssumption DEF Fails, Accepts
<1>6. CASE Signal
  BY <1>6, Fields, SuiteAssumption DEF Signal, Caught, Covered
<1>7. CASE Writes
  BY <1>7, Fields, SuiteAssumption DEF Writes
<1>8. CASE WriteDone
  BY <1>8, Fields, SuiteAssumption DEF WriteDone, Caught, NoJob
<1>9. CASE Delivered
  BY <1>9, Fields, SuiteAssumption DEF Delivered, Delivers, Caught, NoJob
<1>10. CASE Breaks
  BY <1>10, Fields, SuiteAssumption DEF Breaks, NoJob
<1>11. QED
  BY <1>1, <1>2, <1>3, <1>4, <1>5, <1>6, <1>7, <1>8, <1>9, <1>10, Kinds DEF IInv

\* The other variables keep their types.
LEMMA TypesStep ==
  ASSUME IInv, Next
  PROVE  /\ free' \in BOOLEAN /\ clean' \in BOOLEAN /\ pending' \in BOOLEAN
         /\ region' \in Guarded \cup {"bare", "handler"}
         /\ job' \in Jobs /\ current' \in Results
         /\ hit' \in {"none", "covered", "bare"}
         /\ exit' \in {"running", "returned", "raised", "interrupt", "suite_interrupted"}
<1> USE DEF IInv, TypeOK, Guarded, Jobs, Places, Running, Writing, env, run, noise
<1>1. CASE World \/ Moves \/ Stops
  BY <1>1 DEF World, Moves, Stops
<1>2. CASE Transits \/ Finishes \/ Interrupts
  BY <1>2 DEF Transits, Finishes, Interrupts
<1>3. CASE Fails \/ Accepts
  BY <1>3 DEF Fails, Accepts
<1>4. CASE Signal
  <2>1. /\ region' \in {region, "handler"} /\ exit' \in {exit, "interrupt"}
        /\ hit' \in {hit, "covered", "bare"}
    BY <1>4 DEF Signal, Caught
  <2>2. pending' \in BOOLEAN
    <3>1. pending' = TRUE \/ pending' = pending
      BY <1>4 DEF Signal
    <3>2. pending \in BOOLEAN
      OBVIOUS
    <3> HIDE DEF IInv, TypeOK
    <3>3. QED
      BY <3>1, <3>2
  <2>3. UNCHANGED <<free, clean, job, current>>
    BY <1>4 DEF Signal
  <2>4. /\ free' \in BOOLEAN /\ clean' \in BOOLEAN /\ job' \in Jobs /\ current' \in Results
    <3>1. free \in BOOLEAN /\ clean \in BOOLEAN /\ job \in Jobs /\ current \in Results
      OBVIOUS
    <3> HIDE DEF IInv, TypeOK, Jobs
    <3>2. QED
      BY <2>3, <3>1
  <2>5. /\ region \in Guarded \cup {"bare", "handler"} /\ hit \in {"none", "covered", "bare"}
        /\ exit \in {"running", "returned", "raised", "interrupt", "suite_interrupted"}
    OBVIOUS
  <2> HIDE DEF IInv, TypeOK, Jobs
  <2>6. QED
    BY <2>1, <2>2, <2>4, <2>5
<1>5. CASE Writes
  BY <1>5 DEF Writes
<1>6. CASE WriteDone
  BY <1>6 DEF WriteDone, Caught, NoJob
<1>7. CASE Delivered
  <2>1. job' \in Jobs
    BY <1>7 DEF Delivered, Delivers, NoJob
  <2>2. pending' = FALSE /\ region' \in {region, "handler"} /\ exit' \in {exit, "interrupt"}
    BY <1>7 DEF Delivered, Delivers, Caught
  <2>3. QED
    BY <1>7, <2>1, <2>2 DEF Delivered
<1>8. CASE Breaks
  BY <1>8 DEF Breaks, NoJob
<1>9. QED
  BY <1>1, <1>2, <1>3, <1>4, <1>5, <1>6, <1>7, <1>8, Kinds DEF IInv

\* And so do the counters.
LEMMA CountersStep ==
  ASSUME IInv, Next
  PROVE  /\ digest' \in 0 .. MaxChanges /\ baseline' \in 0 .. digest'
         /\ signals' \in 0 .. MaxSignals /\ faults' \in 0 .. MaxFaults
<1> USE DEF IInv, TypeOK, Running, Writing, env, run, noise
<1>1. CASE World \/ Moves \/ Stops
  BY <1>1, SuiteAssumption DEF World, Moves, Stops
<1>2. CASE Transits \/ Finishes \/ Interrupts
  BY <1>2, SuiteAssumption DEF Transits, Finishes, Interrupts
<1>3. CASE Fails \/ Accepts
  BY <1>3, SuiteAssumption DEF Fails, Accepts
<1>4. CASE Signal
  BY <1>4, SuiteAssumption DEF Signal, Caught, Covered
<1>5. CASE Writes
  BY <1>5, SuiteAssumption DEF Writes
<1>6. CASE WriteDone
  BY <1>6, SuiteAssumption DEF WriteDone, Caught, NoJob
<1>7. CASE Delivered
  BY <1>7, SuiteAssumption DEF Delivered, Delivers, Caught, NoJob
<1>8. CASE Breaks
  BY <1>8, SuiteAssumption DEF Breaks, NoJob
<1>9. QED
  BY <1>1, <1>2, <1>3, <1>4, <1>5, <1>6, <1>7, <1>8, Kinds DEF IInv

\* While the repository is unchanged, so was it when the task ended.
LEMMA CleanStep ==
  ASSUME IInv, Next
  PROVE  clean' => current'.clean
<1> USE DEF IInv, Running, Writing, env, run, noise
<1>1. CASE World \/ Moves \/ Stops
  BY <1>1 DEF World, Moves, Stops
<1>2. CASE Transits \/ Finishes \/ Interrupts
  BY <1>2 DEF Transits, Finishes, Interrupts
<1>3. CASE Fails \/ Accepts
  BY <1>3 DEF Fails, Accepts
<1>4. CASE Signal
  BY <1>4 DEF Signal, Caught, Covered
<1>5. CASE Writes
  BY <1>5 DEF Writes
<1>6. CASE WriteDone
  BY <1>6 DEF WriteDone, Caught, NoJob
<1>7. CASE Delivered
  BY <1>7 DEF Delivered, Delivers, Caught, NoJob
<1>8. CASE Breaks
  BY <1>8 DEF Breaks, NoJob
<1>9. QED
  BY <1>1, <1>2, <1>3, <1>4, <1>5, <1>6, <1>7, <1>8, Kinds DEF IInv

\* Where an exception is caught, there is no verdict yet.
LEMMA GuardedStatus ==
  ASSUME IInv, Running, Writing, region \in Guarded \ {"loop"}
  PROVE  agg.status \in {"INCOMPLETE", "INTERRUPTED"}
  BY DEF IInv, TypeOK, RegionInv, JobInv, Leads, StatusInv, Loc, Guarded, Jobs, Early, Tasking,
         Between, Writing

\* The canonical file follows the aggregate.
LEMMA BehindStep ==
  ASSUME IInv, Next, Running'
  PROVE  Behind(disk["result"], agg)'
<1> USE DEF IInv, TypeOK, RegionInv, JobInv, Leads, Guarded, Between, Jobs, Loc,
    StatusInv, CountInv, FilesInv, Behind, Early, Tasking, Running, Writing, env, run,
    noise
<1>1. CASE World
  BY <1>1, Fields DEF World
<1>2. CASE Moves
  BY <1>2, Fields DEF Moves
<1>3. CASE Stops
  BY <1>3, Fields DEF Stops
<1>4. CASE Transits
  BY <1>4, Fields DEF Transits
<1>5. CASE Finishes
  BY <1>5, Fields DEF Finishes, Verdict
<1>6. CASE Interrupts
  BY <1>6, Fields DEF Interrupts
<1>7. CASE Fails
  BY <1>7, Fields DEF Fails
<1>8. CASE Accepts
  BY <1>8, Fields DEF Accepts
<1>9. CASE Signal
  BY <1>9, Fields DEF Signal, Caught, Covered
<1>10. CASE Writes
  <2>1. /\ region \in Guarded \ {"loop"} => agg.status \in {"INCOMPLETE", "INTERRUPTED"}
        /\ agg.status # "none" /\ Behind(disk["result"], agg) /\ RegionInv
        /\ disk'["result"] \in {disk["result"], agg}
    BY <1>10, GuardedStatus DEF Writes, Kept, Docs
  <2> HIDE DEF IInv, TypeOK, JobInv, Leads, Jobs, Loc, StatusInv, CountInv, FilesInv
  <2>2. QED
    BY <1>10, <2>1 DEF Writes
<1>11. CASE WriteDone
  BY <1>11, Fields DEF WriteDone, Caught, NoJob
<1>12. CASE Delivered
  <2>1. /\ region \in Guarded \ {"loop"} => agg.status \in {"INCOMPLETE", "INTERRUPTED"}
        /\ agg.status # "none" /\ Behind(disk["result"], agg) /\ RegionInv
        /\ disk'["result"] \in {disk["result"], agg}
    BY <1>12, GuardedStatus DEF Delivered, Kept, Docs
  <2> HIDE DEF IInv, TypeOK, JobInv, Leads, Jobs, Loc, StatusInv, CountInv, FilesInv
  <2>2. QED
    BY <1>12, <2>1 DEF Delivered, Delivers, Caught
<1>13. CASE Breaks
  <2>1. /\ region \in Guarded \ {"loop"} => agg.status \in {"INCOMPLETE", "INTERRUPTED"}
        /\ agg.status # "none" /\ Behind(disk["result"], agg) /\ RegionInv
        /\ disk'["result"] \in {disk["result"], agg}
    BY <1>13, GuardedStatus DEF Breaks, Kept, Docs
  <2> HIDE DEF IInv, TypeOK, JobInv, Leads, Jobs, Loc, StatusInv, CountInv, FilesInv
  <2>2. QED
    BY <1>13, <2>1 DEF Breaks
<1>14. QED
  BY <1>1, <1>2, <1>3, <1>4, <1>5, <1>6, <1>7, <1>8, <1>9, <1>10, <1>11,
     <1>12, <1>13, Kinds DEF IInv

----------------------------------------------------------------------------
(* The invariant, and what follows from it.                                *)

\* The invariant holds before the run starts.
LEMMA Initially ==
  ASSUME Init
  PROVE  IInv
<1>1. TypeOK
  <2>1. agg \in Aggregates /\ Absent \in Aggregates /\ NoJob \in Jobs /\ NoResult \in Results
    BY DEF Init, Aggregates, Statuses, Phases, Absent, Jobs, NoJob, Results, NoResult
  <2>2. /\ disk \in [{"result", "state", "report"} -> Aggregates]
        /\ agg.status # "none" /\ Len(agg.results) <= task
    BY <2>1 DEF Init
  <2>3. free \in BOOLEAN /\ clean \in BOOLEAN /\ pending \in BOOLEAN
    BY DEF Init
  <2>4. /\ digest \in 0 .. MaxChanges /\ baseline \in 0 .. digest /\ task \in 0 .. N
        /\ signals \in 0 .. MaxSignals /\ faults \in 0 .. MaxFaults
    BY SuiteAssumption DEF Init
  <2>5. QED
    BY <2>1, <2>2, <2>3, <2>4 DEF Init, TypeOK, Guarded
<1>2. RegionInv /\ JobInv /\ SignalInv
  BY DEF Init, RegionInv, JobInv, SignalInv, Writing, NoJob, Running
<1>3. CountInv /\ StatusInv /\ FilesInv /\ CurrentInv
  BY DEF Init, CountInv, StatusInv, FilesInv, CurrentInv, Loc, Early, Tasking, Between,
         Writing, NoJob, Absent
<1>4. Honest(agg) /\ (\A f \in DOMAIN disk : Honest(disk[f]) /\ disk[f].n <= agg.n)
  BY DEF Init, Honest, HonestTo, Absent
<1>5. Behind(disk["result"], agg) /\ ResultIsNewest /\ ExitMatchesFiles /\ CoveredSignals
  BY DEF Init, Behind, ResultIsNewest, ExitMatchesFiles, CoveredSignals, Absent
<1>6. QED
  BY <1>1, <1>2, <1>3, <1>4, <1>5 DEF IInv, Init, NoResult

\* And of a step that changes nothing.
LEMMA Stuttering ==
  ASSUME IInv, UNCHANGED vars
  PROVE  IInv'
<1> USE DEF vars, env, run, noise
<1>1. TypeOK' /\ (clean' => current'.clean)
  BY DEF IInv, TypeOK
<1>2. RegionInv' = RegionInv /\ JobInv' = JobInv /\ SignalInv' = SignalInv
  BY DEF RegionInv, JobInv, SignalInv, Writing, Running, Loc
<1>3. /\ CountInv' = CountInv /\ StatusInv' = StatusInv /\ FilesInv' = FilesInv
      /\ CurrentInv' = CurrentInv /\ Running' = Running
  BY DEF CountInv, StatusInv, FilesInv, CurrentInv, Loc, Writing, Running
<1>4. /\ Honest(agg)'
      /\ (\A f \in DOMAIN disk' : Honest(disk[f])' /\ disk'[f].n <= agg'.n)
  BY DEF IInv, Honest
<1>5. /\ Behind(disk["result"], agg)' = Behind(disk["result"], agg)
      /\ ResultIsNewest' /\ ExitMatchesFiles' /\ CoveredSignals'
  BY DEF IInv, Behind, ResultIsNewest, ExitMatchesFiles, CoveredSignals
<1>6. QED
  BY <1>1, <1>2, <1>3, <1>4, <1>5 DEF IInv

\* The invariant holds of every reachable state.
THEOREM Invariance == Spec => []IInv
<1>1. Init => IInv
  BY Initially
<1>2. ASSUME IInv, [Next]_vars
      PROVE  IInv'
  <2>1. CASE UNCHANGED vars
    BY <1>2, <2>1, Stuttering
  <2>2. CASE Next
    <3>1. TypeOK'
      BY <1>2, <2>2, Progress, CountsStep, TypesStep, CountersStep DEF TypeOK, Docs, Kept
    <3>2. QED
      BY <1>2, <2>2, <3>1, CleanStep, HonestStep, FileStep, SignalStep, RegionStep, CountStep,
         StatusStep, FilesStep, CurrentStep, BehindStep, NewestStep, ExitStep, CoveredStep
         DEF IInv
  <2>3. QED
    BY <1>2, <2>1, <2>2
<1>3. QED
  BY <1>1, <1>2, PTL DEF Spec

\* Whatever is written, interrupted or fails, the aggregate, its files and the
\* job that writes them keep their shapes (_write_outputs, transition).
THEOREM TypeCorrect == Spec => []TypeOK
<1>1. IInv => TypeOK
  BY DEF IInv
<1>2. QED
  BY <1>1, Invariance, PTL

\* No file ever holds a PASS or a FAIL that the tasks, the model's identity and the
\* control plane did not earn, in any run of any length.
THEOREM VerdictsAreEarned == Spec => []VerdictEarned
<1>1. ASSUME IInv
      PROVE  VerdictEarned
  <2> SUFFICES ASSUME NEW f \in DOMAIN disk, disk[f].status \in {"PASS", "FAIL"}
               PROVE  LET r == disk[f].results
                      IN  /\ Len(r) = N
                          /\ \A i \in 1 .. N : r[i].digest = baseline /\ r[i].clean
                          /\ disk[f].status = "PASS" <=> \A i \in 1 .. N : r[i].outcome = "PASS"
    BY DEF VerdictEarned
  <2>1. HonestTo(disk[f], baseline) /\ disk[f].results \in Seq(Results)
    BY <1>1, Fields DEF IInv, TypeOK, Honest
  <2>2. DOMAIN disk[f].results = 1 .. Len(disk[f].results)
    BY <2>1
  <2>3. QED
    BY <2>1, <2>2 DEF HonestTo
<1>2. QED
  BY <1>1, Invariance, PTL

\* A crash, a failed write or an interruption never leaves a report that is newer
\* than the state, or a state newer than the canonical result (_write_outputs).
THEOREM FilesAreOrdered == Spec => []ResultIsNewest
<1>1. IInv => ResultIsNewest
  BY DEF IInv
<1>2. QED
  BY <1>1, Invariance, PTL

\* execute_suite returns, or raises SuiteInterrupted with, what the files hold.
THEOREM ExitAgrees == Spec => []ExitMatchesFiles
<1>1. IInv => ExitMatchesFiles
  BY DEF IInv
<1>2. QED
  BY <1>1, Invariance, PTL

\* One signal inside the guarded part ends in a canonical interruption.
THEOREM SignalsAreCovered == Spec => []CoveredSignals
<1>1. IInv => CoveredSignals
  BY DEF IInv
<1>2. QED
  BY <1>1, Invariance, PTL

----------------------------------------------------------------------------
(* The canonical file is a run record.                                     *)

\* Every step is one of the record's, or leaves the canonical file alone.
LEMMA RecordStep ==
  ASSUME IInv, [Next]_vars
  PROVE  [Record!Next]_<<disk["result"].status, Len(disk["result"].results)>>
<1>1. CASE disk'["result"] = disk["result"]
  BY <1>1
<1>2. CASE disk'["result"] # disk["result"]
  <2>1. Next
    BY <1>2 DEF vars
  <2>2. Running /\ disk'["result"] = agg
    <3>1. disk' # disk /\ disk'["result"] \in {disk["result"], agg}
      BY <1>2, <2>1, Progress DEF Docs, Kept
    <3>2. Running
      BY <2>1, <3>1, Kinds DEF IInv, World, Transits, Finishes, Interrupts, Fails, Accepts, Moves,
         Stops, Signal, Writes, WriteDone, Delivered, Breaks
    <3>3. QED
      BY <1>2, <3>1, <3>2
  <2>3. /\ agg \in Aggregates /\ disk["result"] \in Aggregates
        /\ Len(agg.results) <= N /\ Behind(disk["result"], agg) /\ agg.status # "none"
    BY <2>2, Fields, SuiteAssumption DEF IInv, TypeOK
  <2>4. Len(agg.results) \in Nat /\ Len(disk["result"].results) \in Nat
    BY <2>3, Fields
  <2> DEFINE d == disk["result"]
             a == agg
  <2>5. CASE d = Absent /\ a.results = <<>> /\ a.status \in {"INCOMPLETE", "INTERRUPTED"}
    BY <2>2, <2>5 DEF Record!Next, Record!Create, Absent
  <2>6. CASE /\ d.status = "INCOMPLETE" /\ a.status = "INTERRUPTED"
             /\ Len(a.results) \in {Len(d.results), Len(d.results) + 1}
    BY <2>2, <2>3, <2>6 DEF Record!Next, Record!Interrupt
  <2>7. CASE d.status = a.status /\ Len(a.results) = Len(d.results)
    BY <2>2, <2>7
  <2>8. CASE /\ d.status = "INCOMPLETE" /\ a.status = "INCOMPLETE"
             /\ Len(a.results) = Len(d.results) + 1
    BY <2>2, <2>3, <2>8 DEF Record!Next, Record!Advance
  <2>9. CASE /\ d.status \in {"INCOMPLETE", "INTERRUPTED"}
             /\ a.status = "INFRASTRUCTURE_FAILURE" /\ Len(a.results) = Len(d.results)
    BY <2>2, <2>9 DEF Record!Next, Record!Fail
  <2>10. CASE /\ d.status = "INCOMPLETE" /\ a.status \in {"PASS", "FAIL"}
              /\ Len(a.results) = N /\ Len(d.results) = N
    BY <2>2, <2>10 DEF Record!Next, Record!Conclude
  <2>11. CASE /\ d.status # "none" /\ a.status = "INTERRUPTED"
              /\ Len(a.results) = Len(d.results)
    BY <2>2, <2>3, <2>11 DEF Record!Next, Record!Interrupt
  <2>12. QED
    BY <2>3, <2>5, <2>6, <2>7, <2>8, <2>9, <2>10, <2>11 DEF Behind
<1>3. QED
  BY <1>1, <1>2

\* Readers of the canonical result see a run record: it appears once, results are only
\* added, a verdict comes with all of them, and only an interruption replaces it.
THEOREM RefinesRecord == Spec => ImplementsRecord
<1>1. Init => Record!Init
  BY DEF Init, Record!Init, Absent
<1>2. IInv /\ [Next]_vars
        => [Record!Next]_<<disk["result"].status, Len(disk["result"].results)>>
  BY RecordStep
<1>3. QED
  BY <1>1, <1>2, Invariance, PTL DEF Spec, ImplementsRecord, Record!Spec
=============================================================================
