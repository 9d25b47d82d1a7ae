----------------------------- MODULE HermesRun -----------------------------
(***************************************************************************)
(* run_once (harness/hermes_runner.py): one repository task from the       *)
(* preparation of the candidate tree to the record of its outcome, the     *)
(* phases it reports, the files it leaves in the runtime directory and the *)
(* budget of the profile it runs within.                                   *)
(*                                                                         *)
(* What the run observes is kept as the set of things that were not as     *)
(* they should be ("amiss"); the outcome is a function of that set.        *)
(***************************************************************************)
EXTENDS Integers, Sequences

CONSTANTS
  Limits,        \* profile walls a caller may pass, in units of time
  DeclaredWall,  \* the task's own wall
  DryTimeout,    \* the wall of the control run
  EvalTimeout,   \* the evaluator timeout the caller passes
  Slack,         \* bound: time one step beside model and evaluator takes
  Overrun,       \* bound: time by which model or evaluator outlasts its timeout
  Pair           \* bound: TRUE if two faults of the read evidence may meet

ASSUME HermesAssumption ==
  /\ Limits \subseteq Nat \ {0}
  /\ DeclaredWall \in Nat \ {0} /\ DryTimeout \in Nat \ {0} /\ EvalTimeout \in Nat \ {0}
  /\ Slack \in Nat /\ Overrun \in Nat /\ Pair \in BOOLEAN

NoLimit == 0

\* "dry": the control run; "plain": without a gateway; "observed": with its log.
Modes == {"dry", "plain", "observed"}

Stops == {"inactivity", "total_wall"}
Endings == {"completed", "runner_failed"} \cup Stops
ReadFaults ==
  {"no_checkpoint", "no_batch_log", "trajectory_invalid", "request_observer_broken",
   "response_missing", "no_requests", "no_responses", "other_policy", "no_finish_state",
   "no_visible_content", "no_tool_call", "no_tool_result", "network_attempt",
   "fallback_attempt"}
TreeFaults == {"input_changed", "out_of_scope", "diff_check"}
EvaluatorFaults == {"evaluator_infra", "evaluator_late", "case_failed", "security_failed"}
Faults ==
  {"runner_failed"} \cup Stops \cup ReadFaults \cup TreeFaults \cup EvaluatorFaults
  \cup {"capture_error", "evaluator_raised", "wall_exhausted"}

Outcomes == {"PASS", "FAIL", "TIMEOUT", "HARNESS_ERROR"}
HardFlags == {"SECURITY_FAILURE", "TIMEOUT", "FALSE_COMPLETION", "REQUIREMENT_LOSS",
              "SCOPE_VIOLATION"}
Phases == {"TASK_PREPARING", "TASK_PREPARED", "MODEL_RUNNING", "EVIDENCE_CAPTURE",
           "EVALUATING", "FINALIZING", "TASK_FINISHED", "TASK_INTERRUPTED"}
Files == {"launch", "agent_log", "interruption", "diagnostics", "result"}
NoRecord == [outcome |-> "none", hard |-> {}, scored |-> FALSE]

VARIABLES
  mode,      \* how run_once was called
  limit,     \* wall_timeout_seconds, NoLimit if there is none
  clock,     \* time since the call, looked at only under a wall of the profile
  pc,        \* where run_once is
  amiss,     \* what was observed and is not as it should be
  claim,     \* the final response claims completion
  budget,    \* the timeout evaluate_task was given
  heard,     \* the phases the callback was told
  files,     \* the files of the runtime directory
  record     \* the result that was classified

call == <<mode, limit>>
seen == <<amiss, claim>>
told == <<heard, files, record>>
vars == <<call, clock, pc, seen, budget, told>>

Over == pc \in {"returned", "raised", "interrupted"}

Init ==
  /\ mode \in Modes /\ limit \in Limits \cup {NoLimit}
  /\ limit # NoLimit => mode = "observed"   \* only qualification.py passes a wall, with its gateway
  /\ clock = 0 /\ pc = "prepare"
  /\ amiss = {} /\ claim = FALSE /\ budget = 0
  /\ heard = <<>> /\ files = {} /\ record = NoRecord

----------------------------------------------------------------------------
(* What the evidence amounts to.                                           *)

ModelTimedOut(f) == f \cap Stops # {}
When(condition, reason) == IF condition THEN {reason} ELSE {}

\* Variant: nothing is asked of the log of a model that was stopped.
ObserverInvalidUnlessStopped(f) ==
  /\ ~ModelTimedOut(f)
  /\ f \cap {"request_observer_broken", "no_requests", "other_policy", "response_missing",
             "no_responses"} # {}

\* hermes_transport_infrastructure_reasons: after a timeout the requests must be
\* trustworthy, the responses need not be.
ObserverInvalid(f) ==
  f \cap ({"request_observer_broken", "no_requests", "other_policy"}
          \cup IF ModelTimedOut(f) THEN {} ELSE {"response_missing", "no_responses"}) # {}

TransportReasons(m, f) ==
  When("runner_failed" \in f, "runner_exit_code")
  \cup When(m = "observed" /\ ObserverInvalid(f), "model_transport_observer")
  \cup When(m = "plain" /\ ~ModelTimedOut(f) /\ "trajectory_invalid" \in f,
            "trajectory_evidence")

EvaluatorReported(f) == f \cap {"evaluator_raised", "evaluator_infra", "wall_exhausted"} # {}

TransportTrustworthy(f) ==
  f \cap {"request_observer_broken", "response_missing", "no_requests", "no_responses",
          "other_policy"} = {}

\* Variant: a tool call counts although no tool ever ran.
AgentExecutionValidByCall(m, f) ==
  IF m # "observed" THEN "trajectory_invalid" \notin f
  ELSE /\ f \cap ({"runner_failed", "no_checkpoint", "no_batch_log", "no_finish_state",
                   "capture_error"} \cup Stops) = {}
       /\ TransportTrustworthy(f)
       /\ "no_visible_content" \notin f \/ "no_tool_call" \notin f
       /\ ~EvaluatorReported(f)

\* agent_execution_validity.
AgentExecutionValid(m, f) ==
  IF m # "observed" THEN "trajectory_invalid" \notin f
  ELSE /\ f \cap ({"runner_failed", "no_checkpoint", "no_batch_log", "no_finish_state",
                   "capture_error"} \cup Stops) = {}
       /\ TransportTrustworthy(f)
       /\ "no_visible_content" \notin f \/ f \cap {"no_tool_call", "no_tool_result"} = {}
       /\ ~EvaluatorReported(f)

InfraReasons(m, f) ==
  When("network_attempt" \in f, "prohibited_network_attempt")
  \cup When("fallback_attempt" \in f, "prohibited_auxiliary_fallback_attempt")
  \cup (IF m = "dry" THEN {} ELSE TransportReasons(m, f))
  \cup When("capture_error" \in f, "evidence_capture_error")
  \cup When(f \cap {"evaluator_raised", "wall_exhausted"} # {}, "evaluator_error")
  \cup When(EvaluatorReported(f), "evaluator_infrastructure_error")
  \cup When(m # "dry" /\ ~ModelTimedOut(f) /\ ~AgentExecutionValid(m, f),
            "agent_execution_unproven")

InfrastructureOk(m, f) == InfraReasons(m, f) = {}

\* What evaluate_task's result says, Evaluator's Verdict.
EvaluationTimedOut(f) == f \cap {"evaluator_late", "wall_exhausted"} # {}
EvaluationPassed(f) ==
  f \cap (EvaluatorFaults \cup {"evaluator_raised", "wall_exhausted"}) = {}

\* classify_outcome: infrastructure, timeout, score, in this order.
Classify(m, f) ==
  IF ~InfrastructureOk(m, f) THEN "HARNESS_ERROR"
  ELSE IF ModelTimedOut(f) \/ EvaluationTimedOut(f) THEN "TIMEOUT"
  ELSE IF EvaluationPassed(f) /\ f \cap (TreeFaults \cup {"capture_error"}) = {}
  THEN "PASS" ELSE "FAIL"

FalseCompletion(m, f, c) ==
  InfrastructureOk(m, f) /\ m # "dry" /\ c /\ ~EvaluationPassed(f)

HardFailures(m, f, c) ==
  When(InfrastructureOk(m, f) /\ "security_failed" \in f, "SECURITY_FAILURE")
  \cup When(ModelTimedOut(f) \/ EvaluationTimedOut(f), "TIMEOUT")
  \cup When(FalseCompletion(m, f, c), "FALSE_COMPLETION")
  \cup When("input_changed" \in f, "REQUIREMENT_LOSS")
  \cup When("out_of_scope" \in f, "SCOPE_VIOLATION")

Judged(m, f, c) ==
  [outcome |-> Classify(m, f), hard |-> HardFailures(m, f, c),
   scored |-> InfrastructureOk(m, f)]

----------------------------------------------------------------------------
(* The steps of run_once.                                                  *)

Goto(l) == pc' = l
Tell(phase) == heard' = Append(heard, phase)
Write(names) == files' = files \cup names
Observe(f) == amiss' = amiss \cup f
Pass(d) == clock' = IF limit = NoLimit THEN clock ELSE clock + d

SmallerOf(a, b) == IF a < b THEN a ELSE b
LargerOf(a, b) == IF a < b THEN b ELSE a

One(S) == {{}} \cup {{a} : a \in S}
Few(S) == One(S) \cup (IF Pair THEN {{a, b} : a \in S, b \in S} ELSE {})

\* What a fault of the log implies: no request has no response, and no response shows nothing.
Implied(f) ==
  f \cup When("no_requests" \in f, "no_responses")
    \cup When("no_responses" \in f /\ "no_requests" \notin f, "response_missing")
    \cup (IF f \cap {"no_requests", "no_responses"} # {}
          THEN {"no_finish_state", "no_visible_content", "no_tool_call"} ELSE {})

\* The candidate's workspace.
Prepare ==
  /\ pc = "prepare" /\ Goto("prepared") /\ Tell("TASK_PREPARING")
  /\ \E d \in 0..Slack : Pass(d)
  /\ UNCHANGED <<call, seen, budget, files, record>>

Prepared ==
  /\ pc = "prepared" /\ Goto("configure") /\ Tell("TASK_PREPARED")
  /\ UNCHANGED <<call, clock, seen, budget, files, record>>

\* The fixture's baseline, the configuration of the agent and launch.json.
Launch ==
  /\ pc = "configure" /\ Goto("launch") /\ Write({"launch"})
  /\ \E d \in 0..Slack : Pass(d)
  /\ UNCHANGED <<call, seen, budget, heard, record>>

StartModel ==
  /\ pc = "launch" /\ Goto("model") /\ Tell("MODEL_RUNNING")
  /\ UNCHANGED <<call, clock, seen, budget, files, record>>

ModelTimeout ==
  IF mode = "dry" THEN DryTimeout
  ELSE IF limit = NoLimit THEN DeclaredWall ELSE SmallerOf(DeclaredWall, limit)

\* run_process_group returns, or raises for one of its two deadlines.  It looks at them
\* between polls, and stopping the group takes a grace of its own.
RunModel ==
  /\ pc = "model" /\ Goto("read") /\ Write({"agent_log"})
  /\ \E ending \in Endings, d \in 0..(ModelTimeout + Overrun) :
       /\ ending = "total_wall" => d >= ModelTimeout
       /\ mode = "dry" => ending # "inactivity"
       /\ Observe({ending} \ {"completed"}) /\ Pass(d)
  /\ UNCHANGED <<call, claim, budget, heard, record>>

\* Checkpoint, trajectory, attempts and the gateway's log; EVIDENCE_CAPTURE is reported after them.
ReadEvidence ==
  /\ pc = "read" /\ Goto("capture") /\ Tell("EVIDENCE_CAPTURE")
  /\ \E f \in Few(ReadFaults) : Observe(Implied(f))
  /\ claim' \in BOOLEAN
  /\ UNCHANGED <<call, clock, budget, files, record>>

\* What the captured tree shows, with protected_input_integrity and assess_change_scope.
\* A capture that raised has no changed files, so nothing is out of scope.
CaptureFindings ==
  (SUBSET TreeFaults) \cup {{"capture_error"}, {"capture_error", "input_changed"}}

Capture ==
  /\ pc = "capture" /\ Goto("evaluate") /\ Tell("EVALUATING")
  /\ \E f \in CaptureFindings : Observe(f)
  /\ \E d \in 0..Slack : Pass(d)
  /\ UNCHANGED <<call, claim, budget, files, record>>

Remaining == limit - clock

\* The budget of evaluate_task: the caller's timeout, cut to what is left of the profile's wall.
WallExhausted ==
  /\ pc = "evaluate" /\ limit # NoLimit /\ Remaining < 1
  /\ Goto("finalize") /\ Tell("FINALIZING") /\ Observe({"wall_exhausted"})
  /\ UNCHANGED <<call, clock, claim, budget, files, record>>

\* Variant: the evaluator has the caller's timeout whatever is left.
WholeBudget == EvalTimeout

Budget == IF limit = NoLimit THEN EvalTimeout ELSE SmallerOf(EvalTimeout, LargerOf(1, Remaining))

StartEvaluation ==
  /\ pc = "evaluate" /\ (limit = NoLimit \/ Remaining >= 1)
  /\ Goto("evaluating") /\ budget' = Budget
  /\ UNCHANGED <<call, clock, seen, told>>

\* evaluate_task returns what Evaluator's Verdict says, or raises.  It hashes worker and
\* candidate before its deadline begins, and stops and joins a check's processes after it.
Evaluate ==
  /\ pc = "evaluating" /\ Goto("finalize") /\ Tell("FINALIZING")
  /\ \/ \E f \in One(EvaluatorFaults) :
          Observe(f \cup When("security_failed" \in f, "case_failed"))
     \/ Observe({"evaluator_raised"})
  /\ \E d \in 0..(budget + Overrun) : Pass(d)
  /\ UNCHANGED <<call, claim, budget, files, record>>

\* The outcome, the scores and the diagnostics.
Classification ==
  /\ pc = "finalize" /\ Goto("save") /\ Write({"diagnostics"})
  /\ record' = Judged(mode, amiss, claim)
  /\ UNCHANGED <<call, clock, seen, budget, heard>>

\* validate_result, then result.json.
Save ==
  /\ pc = "save" /\ Goto("announce") /\ Write({"result"})
  /\ UNCHANGED <<call, clock, seen, budget, heard, record>>

\* Variant: the end is told before the record is written.
AnnounceUnsaved ==
  /\ pc = "save" /\ Goto("announce") /\ Tell("TASK_FINISHED")
  /\ UNCHANGED <<call, clock, seen, budget, files, record>>

Announce ==
  /\ pc = "announce" /\ Goto("returned") /\ Tell("TASK_FINISHED")
  /\ UNCHANGED <<call, clock, seen, budget, files, record>>

\* KeyboardInterrupt inside one of the three try blocks: a file, the phase, then it goes on.
Guarded == {"model", "capture", "evaluate", "evaluating"}

Interrupt ==
  /\ pc \in Guarded /\ Goto("interrupting")
  /\ Write({"interruption"} \cup When(pc = "model", "agent_log"))
  /\ UNCHANGED <<call, clock, seen, budget, heard, record>>

TellInterrupted ==
  /\ pc = "interrupting" /\ Goto("interrupted") /\ Tell("TASK_INTERRUPTED")
  /\ UNCHANGED <<call, clock, seen, budget, files, record>>

\* A failing write or callback, an unsafe artifact, an interrupt outside the try blocks.
Raise ==
  /\ ~Over /\ Goto("raised")
  /\ UNCHANGED <<call, clock, seen, budget, told>>

Next ==
  \/ Prepare \/ Prepared \/ Launch \/ StartModel \/ RunModel \/ ReadEvidence \/ Capture
  \/ WallExhausted \/ StartEvaluation \/ Evaluate \/ Classification \/ Save \/ Announce
  \/ Interrupt \/ TellInterrupted \/ Raise

Spec == Init /\ [][Next]_vars
----------------------------------------------------------------------------
(* What is claimed of it.                                                  *)

Places == {"prepare", "prepared", "configure", "launch", "model", "read", "capture", "evaluate",
           "evaluating", "finalize", "save", "announce", "interrupting", "returned",
           "interrupted", "raised"}

\* Every variable has its type; the outcomes are the four the scoring rules name.
TypeOK ==
  /\ mode \in Modes /\ limit \in Limits \cup {NoLimit}
  /\ clock \in Nat /\ budget \in Nat /\ pc \in Places
  /\ amiss \subseteq Faults /\ claim \in BOOLEAN
  /\ heard \in Seq(Phases) /\ files \subseteq Files
  /\ record = NoRecord \/ record \in [outcome : Outcomes, hard : SUBSET HardFlags, scored : BOOLEAN]

\* What may be amiss in a run that passes.  With the gateway's log the trajectory is
\* supplemental, and one of text and executed tool call is enough; without the log the
\* trajectory is all the evidence there is.
Tolerated(m) ==
  CASE m = "observed" -> {"trajectory_invalid", "no_visible_content", "no_tool_call", "no_tool_result"}
    [] m = "plain" -> ReadFaults \ {"trajectory_invalid", "network_attempt", "fallback_attempt"}
    [] m = "dry" -> {"runner_failed"} \cup (ReadFaults \ {"network_attempt", "fallback_attempt"})

\* A PASS was earned: no step of the run observed anything beside what its mode tolerates,
\* a model without visible text has executed a tool, and no hard failure stands beside it.
PassIsEarned ==
  record.outcome = "PASS" =>
    /\ amiss \subseteq Tolerated(mode) /\ record.hard = {} /\ record.scored
    /\ mode = "observed" /\ "no_visible_content" \in amiss =>
         amiss \cap {"no_tool_call", "no_tool_result"} = {}

\* SCORING.md:148: a broken observer, a failed runner, another policy, fallback activity or
\* a contaminated evaluator is an infrastructure failure even if the tests are satisfied, and
\* (SCORING.md:17) is not scored: also after a timeout, whose own flag stays visible.
BrokenEvidenceIsNoVerdict ==
  /\ record # NoRecord /\ mode = "observed"
  /\ amiss \cap {"request_observer_broken", "no_requests", "other_policy", "runner_failed",
                 "network_attempt", "fallback_attempt", "capture_error", "evaluator_infra",
                 "evaluator_raised", "wall_exhausted"} # {}
  => /\ record.outcome = "HARNESS_ERROR" /\ ~record.scored
     /\ record.hard \cap {"SECURITY_FAILURE", "FALSE_COMPLETION"} = {}

\* The timeout the evaluation is given fits in what the preparation, the model and the capture,
\* overruns included, left of the profile's wall.  Beyond the wall the evaluation gets by its
\* own overrun only: those of the model do not add to it.
BudgetFitsProfile ==
  /\ limit # NoLimit /\ "wall_exhausted" \notin amiss
  /\ pc \in {"evaluating", "finalize", "save", "announce", "returned"}
  => /\ budget >= 1 /\ clock <= limit + Overrun
     /\ pc = "evaluating" => clock + budget <= limit

PhaseOrder == <<"TASK_PREPARING", "TASK_PREPARED", "MODEL_RUNNING", "EVIDENCE_CAPTURE",
                "EVALUATING", "FINALIZING", "TASK_FINISHED">>
PrefixOfOrder(s) == \E n \in 0..Len(PhaseOrder) : s = SubSeq(PhaseOrder, 1, n)
HeardOf(phase) == \E i \in DOMAIN heard : heard[i] = phase

\* The phases a caller hears agree with the files it finds: the phases come in their order,
\* the end is told only when the record and the logs it names are there, and an interruption
\* is told last, has its file, and leaves no record.
PhasesAgreeWithFiles ==
  /\ \/ PrefixOfOrder(heard)
     \/ \E s \in {SubSeq(PhaseOrder, 1, n) : n \in 3..5} : heard = Append(s, "TASK_INTERRUPTED")
  /\ HeardOf("TASK_FINISHED") => "result" \in files
  /\ HeardOf("TASK_INTERRUPTED") => "interruption" \in files
  /\ "result" \in files => {"launch", "agent_log", "diagnostics"} \subseteq files
                           /\ "interruption" \notin files /\ record # NoRecord
=============================================================================
