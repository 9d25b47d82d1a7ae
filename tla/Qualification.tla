---------------------------- MODULE Qualification ----------------------------
(***************************************************************************)
(* One invocation of the qualification command (harness/qualification.py): *)
(* main, execute and preserve_infrastructure_failure.  The stages of a     *)
(* profile run in order, each behind a gateway of its own; what they       *)
(* measured is written to partial-results.json after every stage; the      *)
(* verdict goes to manifest, results, report and partial, one after the    *)
(* other.  Any step may raise, any write may fail, and KeyboardInterrupt   *)
(* may arrive anywhere.                                                    *)
(*                                                                         *)
(* Exceptions are told apart by who catches them: "caught" (the errors     *)
(* main lists, every failed atomic write among them), "quarantine" (also   *)
(* caught, with a result of its own), "other" (whatever main does not      *)
(* list: Python then exits with status 1) and "interrupt".                 *)
(***************************************************************************)
EXTENDS Naturals, Sequences

CONSTANTS
  Plan,           \* the stages of the profile, a sequence of Kinds
  MaxFaults,      \* bound: atomic writes that fail
  MaxInterrupts   \* bound: KeyboardInterrupts

\* "spark" may be quarantined by its parser; "optional" is the throughput
\* workload of a profile that does not require it; "context" is one of the
\* contexts of Infermark, which follow each other.
Kinds == {"direct", "spark", "optional", "upstream", "context", "hermes"}

ASSUME PlanAssumption ==
  Plan \in Seq(Kinds) /\ MaxFaults \in Nat /\ MaxInterrupts \in Nat

VARIABLES
  pc,          \* where the command is
  at,          \* the current stage
  current,     \* what the current stage came to
  error,       \* the exception run_upstream_component holds, or the one main caught
  comps,       \* the components measured so far, in memory
  context,     \* _ACTIVE_RUN_CONTEXT is set
  files,       \* the four artifacts of the run directory
  faults,      \* failed writes so far
  interrupts,  \* interrupts so far
  masked,      \* another exception took the place of an interrupt
  exit         \* the status of the process; 256 while it runs

stage == <<at, current, comps>>
noise == <<interrupts, masked>>
vars == <<pc, stage, error, context, files, faults, noise, exit>>

Verdicts == {"pass", "fail", "unavailable"}
Unmeasured == [verdict |-> "unavailable", observed |-> FALSE]
NoResults == [validity |-> "absent", outcome |-> "none", comps |-> <<>>]
NoPartial == [status |-> "absent", comps |-> <<>>]

Running == exit = 256
At(l) == Running /\ pc = l
Kind == Plan[at]
Upstream == at > 0 /\ Kind \in {"spark", "optional", "upstream", "context"}
\* Infermark's contexts are recorded together, after the last of them.
Together(i) == i < Len(Plan) /\ Plan[i] = "context" /\ Plan[i + 1] = "context"

Init ==
  /\ pc = "start" /\ at = 0 /\ current = Unmeasured /\ error = "none"
  /\ comps = <<>> /\ context = FALSE
  /\ files = [manifest |-> "absent", partial |-> NoPartial,
              results |-> NoResults, report |-> "absent"]
  /\ faults = 0 /\ interrupts = 0 /\ masked = FALSE /\ exit = 256

----------------------------------------------------------------------------
(* Exceptions.                                                             *)

Goto(l) == pc' = l /\ UNCHANGED <<error, exit>>
Quit(status) == exit' = status /\ UNCHANGED <<pc, error>>

\* Out of execute, into main.
Raise(k) ==
  \/ k = "interrupt" /\ Quit(130)
  \/ k = "other" /\ Quit(1)
  \/ k \in {"caught", "quarantine"} /\ pc' = "preserve" /\ error' = k /\ UNCHANGED exit

\* Variant: the optional workload swallows an interruption as well.
StageErrorSwallowed(k) ==
  IF Kind = "optional" THEN Goto("salvage") ELSE Raise(k)

\* Out of run_upstream_component or its parser: the optional workload swallows
\* every Exception, and KeyboardInterrupt is not one.
StageError(k) ==
  IF Kind = "optional" /\ k # "interrupt" THEN Goto("salvage") ELSE Raise(k)

\* An atomic write: done, or failed before or after the replacement.
Save(new, then) ==
  \/ files' = new /\ then /\ UNCHANGED faults
  \/ /\ faults < MaxFaults /\ faults' = faults + 1
     /\ files' \in {files, new} /\ Raise("caught")

\* main has no try around its handler: a write that fails in there ends the
\* process with a traceback.
SaveOrDie(new, then) ==
  \/ files' = new /\ then /\ UNCHANGED faults
  \/ /\ faults < MaxFaults /\ faults' = faults + 1
     /\ files' \in {files, new} /\ Quit(1)

\* An upstream's interruption is held until its evidence is read.  The write of
\* the upstream's log may fail meanwhile and take its place.
Interrupt ==
  /\ Running /\ interrupts < MaxInterrupts /\ interrupts' = interrupts + 1
  /\ \/ /\ pc = "running" /\ Upstream /\ pc' = "collect" /\ UNCHANGED exit
        /\ \/ error' = "interrupt" /\ UNCHANGED <<faults, masked>>
           \/ /\ error' = "caught" /\ masked' = TRUE
              /\ faults < MaxFaults /\ faults' = faults + 1
     \/ /\ ~(pc = "running" /\ Upstream)
        /\ Quit(130) /\ UNCHANGED <<faults, masked>>
  /\ UNCHANGED <<stage, context, files>>

----------------------------------------------------------------------------
(* execute, up to the stages.                                              *)

\* Configuration, endpoint, provenance and model are resolved and the run
\* directory made; nothing is preserved of a failure before that.
Start ==
  /\ At("start")
  /\ \/ Goto("manifest") /\ context' = TRUE
     \/ \E k \in {"caught", "other"} : Raise(k) /\ UNCHANGED context
  /\ UNCHANGED <<stage, files, faults, noise>>

SaveManifest ==
  /\ At("manifest") /\ Save([files EXCEPT !.manifest = "RUNNING"], Goto("partial"))
  /\ UNCHANGED <<stage, context, noise>>

SavePartial ==
  /\ At("partial")
  /\ Save([files EXCEPT !.partial = [status |-> "RUNNING", comps |-> <<>>]], Goto("prepare"))
  /\ UNCHANGED <<stage, context, noise>>

\* Checkouts and preflight.
Prepare ==
  /\ At("prepare")
  /\ \/ Goto("ready")
     \/ \E k \in {"caught", "other"} : Raise(k)
  /\ UNCHANGED <<stage, context, files, faults, noise>>

----------------------------------------------------------------------------
(* The stages.                                                             *)

BeginStage ==
  /\ At("ready") /\ at < Len(Plan)
  /\ at' = at + 1 /\ current' = Unmeasured /\ Goto("running")
  /\ UNCHANGED <<comps, context, files, faults, noise>>

\* The stage ran behind its gateway, and the observation log was or was not
\* what _transport_observer_matches_deployment asks for.
StageRuns ==
  /\ At("running")
  /\ \E v \in {"pass", "fail"}, o \in BOOLEAN : current' = [verdict |-> v, observed |-> o]
  /\ pc' = "collect" /\ error' = "none" /\ UNCHANGED exit
  /\ UNCHANGED <<at, comps, context, files, faults, noise>>

\* The total wall is exhausted, the gateway fails, the upstream exits non-zero...
StageRaises ==
  /\ At("running")
  /\ \E k \in {"caught", "other"} :
       IF Upstream THEN pc' = "collect" /\ error' = k /\ UNCHANGED exit ELSE Raise(k)
  /\ UNCHANGED <<stage, context, files, faults, noise>>

\* The network attempts are read, then the observation log; the exception the
\* component ended with is raised again, and an observer that is missing or
\* broken raises one of its own.  (For Hermes, run_once judges the observer.)
Collect ==
  /\ At("collect")
  /\ \/ /\ Upstream /\ StageError("other")
        /\ masked' = (masked \/ error = "interrupt")
     \/ /\ error # "none" /\ StageError(error) /\ UNCHANGED masked
     \/ /\ error = "none" /\ (current.observed \/ Kind = "hermes")
        /\ Goto("parse") /\ UNCHANGED masked
     \/ /\ error = "none" /\ ~current.observed /\ Kind # "hermes"
        /\ StageError("caught") /\ UNCHANGED masked
  /\ UNCHANGED <<stage, context, files, faults, interrupts>>

\* Variant: what could not be copied or parsed is tried once more.
ParseAgain ==
  /\ At("parse")
  /\ \/ comps' = Append(comps, current) /\ pc' \in {"parse", "record"} /\ UNCHANGED <<error, exit>>
     \/ \E k \in {"caught", "other"} : StageError(k) /\ UNCHANGED comps
  /\ UNCHANGED <<at, current, context, files, faults, noise>>

\* The output is parsed, or the Hermes evidence copied and its workspace removed.
Parse ==
  /\ At("parse")
  /\ \/ comps' = Append(comps, current) /\ Goto(IF Together(at) THEN "ready" ELSE "record")
     \/ \E k \in {"caught", "other"} : StageError(k) /\ UNCHANGED comps
  /\ UNCHANGED <<at, current, context, files, faults, noise>>

\* The optional workload is recorded as unavailable or partial, unless parsing
\* what it left fails with anything but UpstreamError.
Salvage ==
  /\ At("salvage")
  /\ \/ /\ current' = Unmeasured /\ comps' = Append(comps, Unmeasured)
        /\ Goto("record")
     \/ Raise("other") /\ UNCHANGED <<current, comps>>
  /\ UNCHANGED <<at, context, files, faults, noise>>

\* Variant: partial-results.json is written before the component is put into it.
RecordBehind ==
  /\ At("record")
  /\ Save([files EXCEPT !.partial.comps = SubSeq(comps, 1, at - 1)], Goto("recorded"))
  /\ UNCHANGED <<stage, context, noise>>

\* partial-results.json holds every component measured so far.
Record ==
  /\ At("record")
  /\ Save([files EXCEPT !.partial.comps = comps], Goto("recorded"))
  /\ UNCHANGED <<stage, context, noise>>

\* A quarantined Spark result, or a Hermes task whose infrastructure failed,
\* ends the run after it was recorded.  (For Hermes, "observed" is run_once's own
\* judgement, infrastructure_ok, which includes its gateway's log.)
Accept ==
  /\ At("recorded")
  /\ \/ (Kind = "hermes" => current.observed) /\ Goto("ready")
     \/ Kind = "spark" /\ Raise("quarantine")
     \/ Kind = "hermes" /\ Raise("caught")
  /\ UNCHANGED <<stage, context, files, faults, noise>>

----------------------------------------------------------------------------
(* The verdict.                                                            *)

Outcome(c) ==
  IF \A i \in DOMAIN c : Plan[i] # "optional" => c[i].verdict = "pass"
  THEN "QUALIFIED" ELSE "NOT_QUALIFIED"

\* The manifest is marked COMPLETE before the identity is resolved.
Conclude ==
  /\ At("ready") /\ at = Len(Plan)
  /\ Save([files EXCEPT !.manifest = "COMPLETE"], Goto("identity"))
  /\ UNCHANGED <<stage, context, noise>>

\* resolve_public_identity, and the schema of the result document.
Identify ==
  /\ At("identity")
  /\ \/ Goto("results")
     \/ \E k \in {"caught", "other"} : Raise(k)
  /\ UNCHANGED <<stage, context, files, faults, noise>>

SaveResults ==
  /\ At("results")
  /\ Save([files EXCEPT !.results = [validity |-> "VALID", outcome |-> Outcome(comps),
                                     comps |-> comps]], Goto("report"))
  /\ UNCHANGED <<stage, context, noise>>

SaveReport ==
  /\ At("report") /\ Save([files EXCEPT !.report = "VALID"], Goto("finish"))
  /\ UNCHANGED <<stage, context, noise>>

Finish ==
  /\ At("finish")
  /\ Save([files EXCEPT !.partial.status = "COMPLETE"], Goto("compare"))
  /\ UNCHANGED <<stage, context, noise>>

\* Variant: the exit status is 0 for every run that came to an end.
CodeZero == 0

Code == IF Outcome(comps) = "QUALIFIED" THEN 0 ELSE 1

\* compare_runs: its own errors leave the exit status alone, any other does not.
Compare ==
  /\ At("compare") /\ context' = FALSE
  /\ \/ Quit(Code)
     \/ Quit(1)
  /\ UNCHANGED <<stage, files, faults, noise>>

----------------------------------------------------------------------------
(* preserve_infrastructure_failure.                                        *)

Validity == IF error = "quarantine" THEN "QUARANTINED" ELSE "INFRA_FAILURE"

Preserve ==
  /\ At("preserve")
  /\ IF context THEN Goto("keep_manifest") ELSE Quit(2)
  /\ UNCHANGED <<stage, context, files, faults, noise>>

KeepManifest ==
  /\ At("keep_manifest")
  /\ SaveOrDie([files EXCEPT !.manifest = Validity], Goto("keep_results"))
  /\ UNCHANGED <<stage, context, noise>>

\* Variant: a result that was already written is left alone.
KeepResultsOnce ==
  /\ At("keep_results")
  /\ IF files.results.validity = "absent"
     THEN SaveOrDie([files EXCEPT !.results = [validity |-> Validity, outcome |-> "INFRA_ERROR",
                                               comps |-> files.partial.comps]], Goto("keep_report"))
     ELSE Goto("keep_report") /\ UNCHANGED <<files, faults>>
  /\ UNCHANGED <<stage, context, noise>>

\* Variant: what was measured before the failure is judged as if it were all.
KeepResultsRanked ==
  /\ At("keep_results")
  /\ SaveOrDie([files EXCEPT !.results = [validity |-> "VALID", outcome |-> Outcome(files.partial.comps),
                                          comps |-> files.partial.comps]], Goto("keep_report"))
  /\ UNCHANGED <<stage, context, noise>>

\* The components are those partial-results.json holds.
KeepResults ==
  /\ At("keep_results")
  /\ SaveOrDie([files EXCEPT !.results = [validity |-> Validity, outcome |-> "INFRA_ERROR",
                                          comps |-> files.partial.comps]], Goto("keep_report"))
  /\ UNCHANGED <<stage, context, noise>>

KeepReport ==
  /\ At("keep_report")
  /\ SaveOrDie([files EXCEPT !.report = Validity], Goto("keep_partial"))
  /\ UNCHANGED <<stage, context, noise>>

KeepPartial ==
  /\ At("keep_partial")
  /\ SaveOrDie([files EXCEPT !.partial.status = "INFRA_ERROR"], Quit(2))
  /\ UNCHANGED <<stage, context, noise>>

----------------------------------------------------------------------------
Next ==
  \/ Interrupt \/ Start \/ SaveManifest \/ SavePartial \/ Prepare
  \/ BeginStage \/ StageRuns \/ StageRaises \/ Collect \/ Parse \/ Salvage
  \/ Record \/ Accept
  \/ Conclude \/ Identify \/ SaveResults \/ SaveReport \/ Finish \/ Compare
  \/ Preserve \/ KeepManifest \/ KeepResults \/ KeepReport \/ KeepPartial

Spec == Init /\ [][Next]_vars

----------------------------------------------------------------------------
(* What must hold.                                                         *)

Locations == {"start", "manifest", "partial", "prepare", "ready", "running", "collect",
              "parse", "salvage", "record", "recorded", "identity", "results", "report",
              "finish", "compare", "preserve", "keep_manifest", "keep_results",
              "keep_report", "keep_partial"}
Components == [verdict : Verdicts, observed : BOOLEAN]
Failures == {"INFRA_FAILURE", "QUARANTINED"}
Partials == [status : {"absent", "RUNNING", "COMPLETE", "INFRA_ERROR"}, comps : Seq(Components)]
ResultFiles == [validity : Failures \cup {"absent", "VALID"},
                outcome : {"none", "QUALIFIED", "NOT_QUALIFIED", "INFRA_ERROR"},
                comps : Seq(Components)]
Artifacts == [manifest : Failures \cup {"absent", "RUNNING", "COMPLETE"},
              partial : Partials, results : ResultFiles,
              report : Failures \cup {"absent", "VALID"}]

\* The command and its artifacts keep their shapes; no more components exist
\* than stages were begun.
TypeOK ==
  /\ pc \in Locations /\ at \in 0 .. Len(Plan) /\ current \in Components
  /\ error \in {"none", "caught", "quarantine", "other", "interrupt"}
  /\ comps \in Seq(Components) /\ Len(comps) <= at
  /\ context \in BOOLEAN /\ masked \in BOOLEAN
  /\ faults \in 0 .. MaxFaults /\ interrupts \in 0 .. MaxInterrupts
  /\ exit \in {0, 1, 2, 130, 256}
  /\ files \in Artifacts

\* A result that a comparison may rank, at any moment, is a verdict on the whole
\* profile: every stage was measured, through a gateway whose observations were
\* complete, and QUALIFIED means that each of them passed.
RankedIsEarned ==
  files.results.validity = "VALID" =>
    LET c == files.results.comps
        Required == {i \in 1 .. Len(Plan) : Plan[i] # "optional"}
    IN  /\ Len(c) = Len(Plan)
        /\ \A i \in Required : c[i].observed
        /\ files.results.outcome = "QUALIFIED" <=> \A i \in Required : c[i].verdict = "pass"

\* Exit status 0 and exit status 2 are what the artifacts say too: all four of
\* them agree, and no run that ended with 2 can be ranked.
ExitMatchesArtifacts ==
  /\ exit = 0 =>
       /\ files.results.outcome = "QUALIFIED" /\ files.manifest = "COMPLETE"
       /\ files.report = "VALID" /\ files.partial.status = "COMPLETE"
  /\ exit = 2 =>
       \/ files.results = NoResults /\ files.partial = NoPartial /\ files.manifest = "absent"
       \/ /\ files.results.validity \in Failures
          /\ files.manifest = files.results.validity /\ files.report = files.results.validity
          /\ files.partial.status = "INFRA_ERROR"

\* A failure costs at most the stage it strikes.  In the results that preserve it, every
\* component measured before is as it was measured, except the current stage's own, whose
\* record may be what failed, and, in the middle of Infermark, its earlier contexts.
FailureKeepsEarlierStages ==
  files.results.validity \in Failures =>
    LET kept == files.results.comps
    IN  \A i \in 1 .. Len(comps) :
          \/ i <= Len(kept) /\ kept[i] = comps[i]
          \/ \A j \in i .. at - 1 : Together(j)

\* One failed write or one interrupt, wherever it strikes, does not leave a ranked
\* result beside a manifest that says the run failed.
OneFaultIsConsistent ==
  ~Running /\ faults + interrupts <= 1 /\ files.results.validity = "VALID" => files.manifest = "COMPLETE"

\* An interruption that no second failure hides ends the run: nothing is written
\* to its artifacts after it, also where an optional workload swallows errors.
InterruptFreezesArtifacts == [][interrupts > 0 /\ ~masked => UNCHANGED files]_vars

\* README, "Outcomes and exit statuses": exit status 1 is NOT_QUALIFIED, "The run
\* completed validly".  (Of runs that came to have a manifest.)
ExitOneIsVerdict ==
  exit = 1 /\ files.manifest # "absent" => files.results.outcome = "NOT_QUALIFIED"
=============================================================================
