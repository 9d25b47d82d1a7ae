--------------------------- MODULE HermesRun_proofs ---------------------------
(***************************************************************************)
(* The safety properties of HermesRun, for every set of walls and every    *)
(* timeout.  The argument has three parts: what the classification makes   *)
(* of a set of faults (no state in it), that the record is the             *)
(* classification of what was observed and stays so, and what was told and *)
(* written at each place of run_once.                                      *)
(***************************************************************************)
EXTENDS HermesRun, TLAPS

----------------------------------------------------------------------------
(* The classification.                                                     *)

\* A set of faults is classified PASS only if it is tolerated in the mode of the run.
LEMMA PassTolerates ==
  ASSUME NEW m \in Modes, NEW f \in SUBSET Faults, Classify(m, f) = "PASS"
  PROVE  /\ f \subseteq Tolerated(m)
         /\ InfrastructureOk(m, f) /\ EvaluationPassed(f)
         /\ ~ModelTimedOut(f) /\ ~EvaluationTimedOut(f)
         /\ f \cap TreeFaults = {}
         /\ m = "observed" /\ "no_visible_content" \in f =>
              f \cap {"no_tool_call", "no_tool_result"} = {}
<1>1. /\ InfraReasons(m, f) = {} /\ ~ModelTimedOut(f) /\ ~EvaluationTimedOut(f)
      /\ EvaluationPassed(f) /\ f \cap (TreeFaults \cup {"capture_error"}) = {}
  BY DEF Classify, InfrastructureOk
<1>2. /\ "network_attempt" \notin f /\ "fallback_attempt" \notin f
      /\ m # "dry" => TransportReasons(m, f) = {} /\ AgentExecutionValid(m, f)
  BY <1>1 DEF InfraReasons, When
<1>3. m # "dry" => "runner_failed" \notin f
  BY <1>2 DEF TransportReasons, When
<1>4. m = "plain" => "trajectory_invalid" \notin f
  BY <1>2 DEF AgentExecutionValid
<1>5. CASE m = "observed"
  <2>1. /\ f \cap {"no_checkpoint", "no_batch_log", "no_finish_state", "capture_error"} = {}
        /\ f \cap {"request_observer_broken", "response_missing", "no_requests", "no_responses",
                   "other_policy"} = {}
        /\ "no_visible_content" \in f => f \cap {"no_tool_call", "no_tool_result"} = {}
    BY <1>2, <1>5 DEF AgentExecutionValid, TransportTrustworthy
  <2>2. \A x \in f : x \in Tolerated(m)
    BY <1>1, <1>2, <1>3, <1>5, <2>1
    DEF Faults, Stops, ReadFaults, TreeFaults, EvaluatorFaults, Tolerated, ModelTimedOut,
        EvaluationPassed
  <2> QED BY <1>1, <2>1, <2>2 DEF InfrastructureOk
<1>6. CASE m = "plain"
  <2>1. \A x \in f : x \in Tolerated(m)
    BY <1>1, <1>2, <1>3, <1>4, <1>6
    DEF Faults, Stops, ReadFaults, TreeFaults, EvaluatorFaults, Tolerated, ModelTimedOut,
        EvaluationPassed
  <2> QED BY <1>1, <1>6, <2>1 DEF InfrastructureOk
<1>7. CASE m = "dry"
  <2>1. \A x \in f : x \in Tolerated(m)
    BY <1>1, <1>2, <1>7
    DEF Faults, Stops, ReadFaults, TreeFaults, EvaluatorFaults, Tolerated, ModelTimedOut,
        EvaluationPassed
  <2> QED BY <1>1, <1>7, <2>1 DEF InfrastructureOk
<1> QED BY <1>5, <1>6, <1>7 DEF Modes

\* A PASS has no hard failure beside it.
LEMMA PassHasNoHardFailure ==
  ASSUME NEW m \in Modes, NEW f \in SUBSET Faults, NEW c \in BOOLEAN, Classify(m, f) = "PASS"
  PROVE  HardFailures(m, f, c) = {}
<1>1. /\ InfrastructureOk(m, f) /\ EvaluationPassed(f) /\ ~ModelTimedOut(f)
      /\ ~EvaluationTimedOut(f) /\ f \cap TreeFaults = {}
  BY PassTolerates
<1>2. "security_failed" \notin f
  BY <1>1 DEF EvaluationPassed, EvaluatorFaults
<1>3. "input_changed" \notin f /\ "out_of_scope" \notin f
  BY <1>1 DEF TreeFaults
<1>4. ~FalseCompletion(m, f, c)
  BY <1>1 DEF FalseCompletion
<1> QED BY <1>1, <1>2, <1>3, <1>4 DEF HardFailures, When

Broken == {"request_observer_broken", "no_requests", "other_policy", "runner_failed",
           "network_attempt", "fallback_attempt", "capture_error", "evaluator_infra",
           "evaluator_raised", "wall_exhausted"}

\* With the gateway's log every broken piece of evidence is an infrastructure reason.
LEMMA BrokenIsInfrastructure ==
  ASSUME NEW f \in SUBSET Faults, f \cap Broken # {}
  PROVE  ~InfrastructureOk("observed", f)
<1>1. PICK x \in f : x \in Broken
  OBVIOUS
<1>2. CASE x \in {"request_observer_broken", "no_requests", "other_policy"}
  <2>1. ObserverInvalid(f)
    BY <1>1, <1>2 DEF ObserverInvalid
  <2>2. "model_transport_observer" \in TransportReasons("observed", f)
    BY <2>1 DEF TransportReasons, When
  <2> QED BY <2>2 DEF InfrastructureOk, InfraReasons
<1>3. CASE x = "runner_failed"
  <2>1. "runner_exit_code" \in TransportReasons("observed", f)
    BY <1>1, <1>3 DEF TransportReasons, When
  <2> QED BY <2>1 DEF InfrastructureOk, InfraReasons
<1>4. CASE x \in {"network_attempt", "fallback_attempt", "capture_error"}
  <2>1. \/ "prohibited_network_attempt" \in InfraReasons("observed", f)
        \/ "prohibited_auxiliary_fallback_attempt" \in InfraReasons("observed", f)
        \/ "evidence_capture_error" \in InfraReasons("observed", f)
    BY <1>1, <1>4 DEF InfraReasons, When
  <2> QED BY <2>1 DEF InfrastructureOk
<1>5. CASE x \in {"evaluator_infra", "evaluator_raised", "wall_exhausted"}
  <2>1. EvaluatorReported(f)
    BY <1>1, <1>5 DEF EvaluatorReported
  <2>2. "evaluator_infrastructure_error" \in InfraReasons("observed", f)
    BY <2>1 DEF InfraReasons, When
  <2> QED BY <2>2 DEF InfrastructureOk
<1> QED BY <1>1, <1>2, <1>3, <1>4, <1>5 DEF Broken

\* The record is of its type whatever was observed.
LEMMA JudgedType ==
  ASSUME NEW m \in Modes, NEW f \in SUBSET Faults, NEW c \in BOOLEAN
  PROVE  Judged(m, f, c) \in [outcome : Outcomes, hard : SUBSET HardFlags, scored : BOOLEAN]
<1>1. Classify(m, f) \in Outcomes
  BY DEF Classify, Outcomes
<1>2. HardFailures(m, f, c) \subseteq HardFlags
  BY DEF HardFailures, HardFlags, When
<1>3. InfrastructureOk(m, f) \in BOOLEAN
  BY DEF InfrastructureOk
<1> QED BY <1>1, <1>2, <1>3 DEF Judged

----------------------------------------------------------------------------
(* The inductive invariant.                                                *)

\* What the callback was told when run_once is at a place.
Said ==
  [prepare |-> <<>>, prepared |-> <<"TASK_PREPARING">>,
   configure |-> <<"TASK_PREPARING", "TASK_PREPARED">>,
   launch |-> <<"TASK_PREPARING", "TASK_PREPARED">>,
   model |-> <<"TASK_PREPARING", "TASK_PREPARED", "MODEL_RUNNING">>,
   read |-> <<"TASK_PREPARING", "TASK_PREPARED", "MODEL_RUNNING">>,
   capture |-> <<"TASK_PREPARING", "TASK_PREPARED", "MODEL_RUNNING", "EVIDENCE_CAPTURE">>,
   evaluate |-> <<"TASK_PREPARING", "TASK_PREPARED", "MODEL_RUNNING", "EVIDENCE_CAPTURE",
                  "EVALUATING">>,
   evaluating |-> <<"TASK_PREPARING", "TASK_PREPARED", "MODEL_RUNNING", "EVIDENCE_CAPTURE",
                    "EVALUATING">>,
   finalize |-> <<"TASK_PREPARING", "TASK_PREPARED", "MODEL_RUNNING", "EVIDENCE_CAPTURE",
                  "EVALUATING", "FINALIZING">>,
   save |-> <<"TASK_PREPARING", "TASK_PREPARED", "MODEL_RUNNING", "EVIDENCE_CAPTURE",
              "EVALUATING", "FINALIZING">>,
   announce |-> <<"TASK_PREPARING", "TASK_PREPARED", "MODEL_RUNNING", "EVIDENCE_CAPTURE",
                  "EVALUATING", "FINALIZING">>,
   returned |-> <<"TASK_PREPARING", "TASK_PREPARED", "MODEL_RUNNING", "EVIDENCE_CAPTURE",
                  "EVALUATING", "FINALIZING", "TASK_FINISHED">>]

BeforeEnd == {"prepare", "prepared", "configure", "launch", "model", "read", "capture",
              "evaluate", "evaluating", "finalize", "save", "announce"}
Straight == BeforeEnd \cup {"returned"}

HeardAt ==
  /\ pc \in Straight => heard = Said[pc]
  /\ pc = "interrupting" => \E p \in Guarded : heard = Said[p]
  /\ pc = "interrupted" => \E p \in Guarded : heard = Append(Said[p], "TASK_INTERRUPTED")
  /\ pc = "raised" => \E p \in BeforeEnd : heard = Said[p]

WrittenAt ==
  /\ pc \in Straight \ {"prepare", "prepared", "configure"} => "launch" \in files
  /\ pc \in Straight \ {"prepare", "prepared", "configure", "launch", "model"} =>
       "agent_log" \in files
  /\ pc \in {"save", "announce", "returned"} => "diagnostics" \in files
  /\ pc \in {"announce", "returned"} => "result" \in files
  /\ pc \in {"interrupting", "interrupted"} => "interruption" \in files
  /\ "interruption" \in files => pc \in {"interrupting", "interrupted", "raised"} /\ "result" \notin files
  /\ "result" \in files => /\ pc \in {"announce", "returned", "raised"}
                           /\ {"launch", "agent_log", "diagnostics"} \subseteq files
                           /\ record # NoRecord

RecordedAt ==
  /\ pc \in {"save", "announce", "returned"} => record # NoRecord
  /\ record # NoRecord => /\ pc \in {"save", "announce", "returned", "raised"}
                          /\ record = Judged(mode, amiss, claim)

BudgetAt ==
  limit # NoLimit =>
    /\ pc = "evaluating" => budget >= 1 /\ clock + budget <= limit
    /\ pc \in {"finalize", "save", "announce", "returned"} /\ "wall_exhausted" \notin amiss =>
         budget >= 1 /\ clock <= limit + Overrun

IInv == TypeOK /\ HeardAt /\ WrittenAt /\ RecordedAt /\ BudgetAt

\* Each place adds at most one phase to what was said before it.
LEMMA SaidGrows ==
  /\ Said["prepare"] = <<>>
  /\ Said["prepared"] = Append(Said["prepare"], "TASK_PREPARING")
  /\ Said["configure"] = Append(Said["prepared"], "TASK_PREPARED")
  /\ Said["launch"] = Said["configure"]
  /\ Said["model"] = Append(Said["launch"], "MODEL_RUNNING")
  /\ Said["read"] = Said["model"]
  /\ Said["capture"] = Append(Said["read"], "EVIDENCE_CAPTURE")
  /\ Said["evaluate"] = Append(Said["capture"], "EVALUATING")
  /\ Said["evaluating"] = Said["evaluate"]
  /\ Said["finalize"] = Append(Said["evaluate"], "FINALIZING")
  /\ Said["save"] = Said["finalize"] /\ Said["announce"] = Said["finalize"]
  /\ Said["returned"] = Append(Said["announce"], "TASK_FINISHED")
BY DEF Said

\* The faults that a fault of the log implies are faults.
LEMMA ImpliedType ==
  \A f \in SUBSET Faults : Implied(f) \in SUBSET Faults
BY DEF Implied, When, Faults, ReadFaults

\* The faults a read, a capture or the evaluator may report are faults of the run.
LEMMA FewFaults ==
  /\ \A f \in Few(ReadFaults) : f \in SUBSET Faults
  /\ \A f \in CaptureFindings : f \in SUBSET Faults
  /\ \A f \in One(EvaluatorFaults) : f \in SUBSET Faults
<1>1. ReadFaults \subseteq Faults /\ TreeFaults \subseteq Faults /\ EvaluatorFaults \subseteq Faults
      /\ "input_changed" \in Faults /\ "capture_error" \in Faults
  BY DEF Faults, TreeFaults
<1>2. \A f \in CaptureFindings : f \in SUBSET Faults
  BY <1>1 DEF CaptureFindings
<1>3. ASSUME NEW S \in SUBSET Faults
      PROVE  (\A f \in One(S) : f \in SUBSET Faults) /\ (\A f \in Few(S) : f \in SUBSET Faults)
  BY DEF One, Few
<1>4. /\ \A f \in Few(ReadFaults) : f \in SUBSET Faults
      /\ \A f \in One(EvaluatorFaults) : f \in SUBSET Faults
  BY <1>1, <1>3
<1> QED BY ONLY <1>2, <1>4

\* The inductive invariant holds when the run starts.
LEMMA InitIInv == Init => IInv
<1> SUFFICES ASSUME Init PROVE IInv
  OBVIOUS
<1>1. TypeOK
  <2>1. heard \in Seq(Phases)
    BY DEF Init
  <2>2. amiss \subseteq Faults /\ files \subseteq Files
    BY DEF Init
  <2> QED BY <2>1, <2>2 DEF Init, TypeOK, Places
<1>2. HeardAt
  <2>1. pc = "prepare" /\ heard = <<>>
    BY DEF Init
  <2>2. Said["prepare"] = <<>>
    BY SaidGrows
  <2> QED BY <2>1, <2>2 DEF HeardAt
<1>3. WrittenAt /\ RecordedAt /\ BudgetAt
  BY DEF Init, WrittenAt, RecordedAt, BudgetAt, Straight, BeforeEnd
<1> QED BY <1>1, <1>2, <1>3 DEF IInv

\* The type invariant is kept by every step.
LEMMA TypeStep == TypeOK /\ [Next]_vars => TypeOK'
<1> SUFFICES ASSUME TypeOK, [Next]_vars PROVE TypeOK'
  OBVIOUS
<1> USE HermesAssumption DEF TypeOK, Places, call, seen, told, Goto
<1>1. CASE Prepare
  BY <1>1 DEF Prepare, Tell, Pass, Phases
<1>2. CASE Prepared \/ Launch
  <2>1. CASE Prepared
    BY <2>1 DEF Prepared, Tell, Phases
  <2>2. CASE Launch
    BY <2>2 DEF Launch, Write, Files, Pass
  <2> QED BY <1>2, <2>1, <2>2
<1>3. CASE StartModel
  BY <1>3 DEF StartModel, Tell, Phases
<1>4. CASE RunModel
  <2>1. ModelTimeout \in Nat
    BY DEF ModelTimeout, SmallerOf, NoLimit
  <2>2. PICK ending \in Endings, d \in 0..(ModelTimeout + Overrun) :
          Observe({ending} \ {"completed"}) /\ Pass(d)
    BY <1>4 DEF RunModel
  <2>3. clock' \in Nat
    BY <2>1, <2>2 DEF Pass
  <2>4. amiss' \subseteq Faults
    BY <2>2 DEF Observe, Endings, Faults
  <2> QED BY <1>4, <2>3, <2>4 DEF RunModel, Write, Files
<1>5. CASE ReadEvidence
  <2>1. amiss' \subseteq Faults
    BY <1>5, FewFaults, ImpliedType DEF ReadEvidence, Observe
  <2> QED BY <1>5, <2>1 DEF ReadEvidence, Tell, Phases
<1>6. CASE Capture
  <2>1. amiss' \subseteq Faults
    BY <1>6, FewFaults DEF Capture, Observe
  <2> QED BY <1>6, <2>1 DEF Capture, Tell, Phases, Pass
<1>7. CASE WallExhausted
  <2>1. amiss' \subseteq Faults
    BY <1>7 DEF WallExhausted, Observe, Faults
  <2> QED BY <1>7, <2>1 DEF WallExhausted, Tell, Phases
<1>8. CASE StartEvaluation
  BY <1>8 DEF StartEvaluation, Budget, SmallerOf, LargerOf, Remaining, NoLimit
<1>9. CASE Evaluate
  <2>1. amiss' \subseteq Faults
    <3>1. "evaluator_raised" \in Faults /\ "case_failed" \in Faults
      BY DEF Faults, EvaluatorFaults
    <3> QED BY <1>9, <3>1, FewFaults DEF Evaluate, Observe, When
  <2> QED BY <1>9, <2>1 DEF Evaluate, Tell, Phases, Pass
<1>10. CASE Classification
  BY <1>10, JudgedType DEF Classification, Write, Files
<1>11. CASE Save
  BY <1>11 DEF Save, Write, Files
<1>12. CASE Announce
  BY <1>12 DEF Announce, Tell, Phases
<1>13. CASE Interrupt
  BY <1>13 DEF Interrupt, Write, When, Files
<1>14. CASE TellInterrupted
  BY <1>14 DEF TellInterrupted, Tell, Phases
<1>15. CASE Raise
  BY <1>15 DEF Raise
<1>16. CASE UNCHANGED vars
  BY <1>16 DEF vars
<1> QED
  BY <1>1, <1>2, <1>3, <1>4, <1>5, <1>6, <1>7, <1>8, <1>9, <1>10, <1>11, <1>12, <1>13, <1>14,
     <1>15, <1>16 DEF Next

\* Every step that tells a phase is at the place where it comes next.
LEMMA HeardStep == TypeOK /\ HeardAt /\ [Next]_vars => HeardAt'
<1> SUFFICES ASSUME TypeOK, HeardAt, [Next]_vars PROVE HeardAt'
  OBVIOUS
<1> USE DEF HeardAt, Straight, BeforeEnd, Goto, Tell, told
<1>1. CASE Prepare \/ Prepared \/ Launch \/ StartModel
  BY <1>1, SaidGrows DEF Prepare, Prepared, Launch, StartModel
<1>2. CASE RunModel \/ ReadEvidence \/ Capture
  BY <1>2, SaidGrows DEF RunModel, ReadEvidence, Capture
<1>3. CASE WallExhausted \/ StartEvaluation \/ Evaluate
  BY <1>3, SaidGrows DEF WallExhausted, StartEvaluation, Evaluate
<1>4. CASE Classification \/ Save \/ Announce
  BY <1>4, SaidGrows DEF Classification, Save, Announce
<1>5. CASE Interrupt
  BY <1>5 DEF Interrupt, Guarded
<1>6. CASE TellInterrupted
  BY <1>6 DEF TellInterrupted
<1>7. CASE Raise
  <2>1. pc \in BeforeEnd \/ pc = "interrupting"
    BY <1>7 DEF Raise, Over, TypeOK, Places
  <2> QED BY <1>7, <2>1 DEF Raise, Guarded
<1>8. CASE UNCHANGED vars
  BY <1>8 DEF vars
<1> QED BY <1>1, <1>2, <1>3, <1>4, <1>5, <1>6, <1>7, <1>8 DEF Next

\* Every file is written at its place, and the record only beside the files it names.
LEMMA WrittenStep == TypeOK /\ WrittenAt /\ RecordedAt /\ [Next]_vars => WrittenAt'
<1> SUFFICES ASSUME TypeOK, WrittenAt, RecordedAt, [Next]_vars PROVE WrittenAt'
  OBVIOUS
<1> USE DEF WrittenAt, Straight, BeforeEnd, Goto, Write, told
<1>1. CASE Prepare \/ Prepared \/ Launch \/ StartModel
  BY <1>1 DEF Prepare, Prepared, Launch, StartModel
<1>2. CASE RunModel \/ ReadEvidence \/ Capture
  BY <1>2 DEF RunModel, ReadEvidence, Capture
<1>3. CASE WallExhausted \/ StartEvaluation \/ Evaluate
  BY <1>3 DEF WallExhausted, StartEvaluation, Evaluate
<1>4. CASE Classification
  BY <1>4 DEF Classification
<1>5. CASE Save
  BY <1>5 DEF Save, RecordedAt
<1>6. CASE Announce
  BY <1>6 DEF Announce
<1>7. CASE Interrupt
  BY <1>7 DEF Interrupt, Guarded, When
<1>8. CASE TellInterrupted
  BY <1>8 DEF TellInterrupted
<1>9. CASE Raise
  BY <1>9 DEF Raise, Over
<1>10. CASE UNCHANGED vars
  BY <1>10 DEF vars
<1> QED BY <1>1, <1>2, <1>3, <1>4, <1>5, <1>6, <1>7, <1>8, <1>9, <1>10 DEF Next

\* The record is the classification of what was observed, and nothing is observed after it.
LEMMA RecordedStep == TypeOK /\ RecordedAt /\ [Next]_vars => RecordedAt'
<1> SUFFICES ASSUME TypeOK, RecordedAt, [Next]_vars PROVE RecordedAt'
  OBVIOUS
<1> USE DEF RecordedAt, Goto, told, seen, call
<1>1. CASE Prepare \/ Prepared \/ Launch \/ StartModel
  BY <1>1 DEF Prepare, Prepared, Launch, StartModel
<1>2. CASE RunModel \/ ReadEvidence \/ Capture
  BY <1>2 DEF RunModel, ReadEvidence, Capture
<1>3. CASE WallExhausted \/ StartEvaluation \/ Evaluate
  BY <1>3 DEF WallExhausted, StartEvaluation, Evaluate
<1>4. CASE Classification
  <2>1. Judged(mode, amiss, claim) # NoRecord
    <3>1. Classify(mode, amiss) # "none"
      BY DEF Classify
    <3> QED BY <3>1 DEF Judged, NoRecord
  <2> QED BY <1>4, <2>1 DEF Classification
<1>5. CASE Save \/ Announce
  BY <1>5 DEF Save, Announce
<1>6. CASE Interrupt \/ TellInterrupted
  BY <1>6 DEF Interrupt, Guarded, TellInterrupted
<1>7. CASE Raise
  BY <1>7 DEF Raise, Over
<1>8. CASE UNCHANGED vars
  BY <1>8 DEF vars
<1> QED BY <1>1, <1>2, <1>3, <1>4, <1>5, <1>6, <1>7, <1>8 DEF Next

\* The budget is cut to what is left of the wall, and the evaluation keeps to its budget
\* but for its overrun.
LEMMA BudgetStep == TypeOK /\ BudgetAt /\ [Next]_vars => BudgetAt'
<1> SUFFICES ASSUME TypeOK, BudgetAt, [Next]_vars PROVE BudgetAt'
  OBVIOUS
<1> USE DEF BudgetAt, Goto, told, seen, call
<1>1. CASE Prepare \/ Prepared \/ Launch \/ StartModel
  BY <1>1 DEF Prepare, Prepared, Launch, StartModel
<1>2. CASE RunModel \/ ReadEvidence \/ Capture
  BY <1>2 DEF RunModel, ReadEvidence, Capture
<1>3. CASE WallExhausted
  BY <1>3 DEF WallExhausted, Observe
<1>4. CASE StartEvaluation
  <2> SUFFICES ASSUME limit # NoLimit PROVE budget' >= 1 /\ clock + budget' <= limit
    BY <1>4 DEF StartEvaluation
  <2>1. limit \in Nat /\ clock \in Nat /\ EvalTimeout \in Nat \ {0} /\ Remaining >= 1
    BY <1>4, HermesAssumption DEF StartEvaluation, TypeOK, NoLimit
  <2> QED BY <1>4, <2>1 DEF StartEvaluation, Budget, SmallerOf, LargerOf, Remaining
<1>5. CASE Evaluate
  <2>1. pc = "evaluating" /\ pc' = "finalize" /\ limit' = limit /\ budget' = budget
    BY <1>5 DEF Evaluate
  <2> SUFFICES ASSUME limit # NoLimit, "wall_exhausted" \notin amiss'
      PROVE budget >= 1 /\ clock' <= limit + Overrun
    BY <2>1
  <2>2. PICK d \in 0..(budget + Overrun) : clock' = clock + d
    BY <1>5 DEF Evaluate, Pass
  <2>3. budget \in Nat /\ clock \in Nat /\ limit \in Nat /\ Overrun \in Nat
    BY HermesAssumption DEF TypeOK, NoLimit
  <2> QED BY <2>1, <2>2, <2>3
<1>6. CASE Classification \/ Save \/ Announce
  BY <1>6 DEF Classification, Save, Announce
<1>7. CASE Interrupt \/ TellInterrupted \/ Raise
  BY <1>7 DEF Interrupt, TellInterrupted, Raise
<1>8. CASE UNCHANGED vars
  BY <1>8 DEF vars
<1> QED BY <1>1, <1>2, <1>3, <1>4, <1>5, <1>6, <1>7, <1>8 DEF Next

\* The inductive invariant holds in every reachable state.
THEOREM Invariance == Spec => []IInv
<1>1. IInv /\ [Next]_vars => IInv'
  BY TypeStep, HeardStep, WrittenStep, RecordedStep, BudgetStep DEF IInv
<1> QED BY <1>1, InitIInv, PTL DEF Spec

----------------------------------------------------------------------------
(* The properties.                                                         *)

\* Every variable has its type.
THEOREM TypeCorrect == Spec => []TypeOK
<1>1. IInv => TypeOK
  BY DEF IInv
<1> QED BY <1>1, Invariance, PTL

\* A record that says PASS was earned.
THEOREM PassesAreEarned == Spec => []PassIsEarned
<1>1. IInv => PassIsEarned
  <2> SUFFICES ASSUME IInv, record.outcome = "PASS"
      PROVE /\ amiss \subseteq Tolerated(mode) /\ record.hard = {} /\ record.scored
            /\ mode = "observed" /\ "no_visible_content" \in amiss =>
                 amiss \cap {"no_tool_call", "no_tool_result"} = {}
    BY DEF PassIsEarned
  <2>1. record # NoRecord
    BY DEF NoRecord
  <2>2. /\ mode \in Modes /\ amiss \in SUBSET Faults /\ claim \in BOOLEAN
        /\ record = Judged(mode, amiss, claim)
    BY <2>1 DEF IInv, TypeOK, RecordedAt
  <2>3. /\ Classify(mode, amiss) = "PASS" /\ record.hard = HardFailures(mode, amiss, claim)
        /\ record.scored = InfrastructureOk(mode, amiss)
    BY <2>2 DEF Judged
  <2> QED BY <2>2, <2>3, PassTolerates, PassHasNoHardFailure
<1> QED BY <1>1, Invariance, PTL

\* Broken evidence is never a verdict on the model.
THEOREM BrokenEvidenceIsReported == Spec => []BrokenEvidenceIsNoVerdict
<1>1. IInv => BrokenEvidenceIsNoVerdict
  <2> SUFFICES ASSUME IInv, record # NoRecord, mode = "observed", amiss \cap Broken # {}
      PROVE /\ record.outcome = "HARNESS_ERROR" /\ ~record.scored
            /\ record.hard \cap {"SECURITY_FAILURE", "FALSE_COMPLETION"} = {}
    BY DEF BrokenEvidenceIsNoVerdict, Broken
  <2>1. amiss \in SUBSET Faults /\ record = Judged(mode, amiss, claim)
    BY DEF IInv, TypeOK, RecordedAt
  <2>2. ~InfrastructureOk(mode, amiss)
    BY <2>1, BrokenIsInfrastructure
  <2>3. Classify(mode, amiss) = "HARNESS_ERROR"
    BY <2>2 DEF Classify
  <2>4. HardFailures(mode, amiss, claim) \cap {"SECURITY_FAILURE", "FALSE_COMPLETION"} = {}
    BY <2>2 DEF HardFailures, FalseCompletion, When
  <2> QED BY <2>1, <2>2, <2>3, <2>4 DEF Judged
<1> QED BY <1>1, Invariance, PTL

\* The timeout of an evaluation that is started fits within the wall of the profile, whatever
\* the model outlasted.
THEOREM BudgetsFit == Spec => []BudgetFitsProfile
<1>1. IInv => BudgetFitsProfile
  <2>1. TypeOK /\ BudgetAt => BudgetFitsProfile
    BY HermesAssumption DEF TypeOK, BudgetAt, BudgetFitsProfile, NoLimit
  <2> QED BY <2>1 DEF IInv
<1> QED BY <1>1, Invariance, PTL

\* What was said at a place is the order of the phases up to that place.
LEMMA SaidIsPrefix ==
  /\ Said["prepare"] = SubSeq(PhaseOrder, 1, 0)
  /\ Said["prepared"] = SubSeq(PhaseOrder, 1, 1)
  /\ Said["configure"] = SubSeq(PhaseOrder, 1, 2) /\ Said["launch"] = SubSeq(PhaseOrder, 1, 2)
  /\ Said["model"] = SubSeq(PhaseOrder, 1, 3) /\ Said["read"] = SubSeq(PhaseOrder, 1, 3)
  /\ Said["capture"] = SubSeq(PhaseOrder, 1, 4)
  /\ Said["evaluate"] = SubSeq(PhaseOrder, 1, 5) /\ Said["evaluating"] = SubSeq(PhaseOrder, 1, 5)
  /\ Said["finalize"] = SubSeq(PhaseOrder, 1, 6) /\ Said["save"] = SubSeq(PhaseOrder, 1, 6)
  /\ Said["announce"] = SubSeq(PhaseOrder, 1, 6)
  /\ Said["returned"] = SubSeq(PhaseOrder, 1, 7)
BY DEF Said, PhaseOrder

\* Before the end nothing that is said is an end.
LEMMA SaidNoEnd ==
  \A p \in BeforeEnd : \A i \in DOMAIN Said[p] :
    Said[p][i] # "TASK_FINISHED" /\ Said[p][i] # "TASK_INTERRUPTED"
<1> DEFINE NoEnd(p) == \A i \in DOMAIN Said[p] :
                         Said[p][i] # "TASK_FINISHED" /\ Said[p][i] # "TASK_INTERRUPTED"
<1>1. \A p \in {"prepare", "prepared", "configure", "launch"} : NoEnd(p)
  BY DEF Said
<1>2. \A p \in {"model", "read"} : NoEnd(p)
  BY DEF Said
<1>3. \A p \in {"capture", "evaluate", "evaluating", "finalize", "save", "announce"} : NoEnd(p)
  BY DEF Said
<1> QED BY <1>1, <1>2, <1>3 DEF BeforeEnd

\* What a caller is told agrees with what it finds in the runtime directory.
THEOREM PhasesAndFilesAgree == Spec => []PhasesAgreeWithFiles
<1>1. IInv => PhasesAgreeWithFiles
  <2> SUFFICES ASSUME IInv PROVE PhasesAgreeWithFiles
    OBVIOUS
  <2> USE DEF IInv
  <2>1. \A p \in Straight : PrefixOfOrder(Said[p])
    <3>1. Len(PhaseOrder) = 7
      BY DEF PhaseOrder
    <3>2. /\ PrefixOfOrder(SubSeq(PhaseOrder, 1, 0)) /\ PrefixOfOrder(SubSeq(PhaseOrder, 1, 1))
          /\ PrefixOfOrder(SubSeq(PhaseOrder, 1, 2)) /\ PrefixOfOrder(SubSeq(PhaseOrder, 1, 3))
          /\ PrefixOfOrder(SubSeq(PhaseOrder, 1, 4)) /\ PrefixOfOrder(SubSeq(PhaseOrder, 1, 5))
          /\ PrefixOfOrder(SubSeq(PhaseOrder, 1, 6)) /\ PrefixOfOrder(SubSeq(PhaseOrder, 1, 7))
      BY <3>1 DEF PrefixOfOrder
    <3>3. /\ PrefixOfOrder(Said["prepare"]) /\ PrefixOfOrder(Said["prepared"])
          /\ PrefixOfOrder(Said["configure"])
          /\ PrefixOfOrder(Said["launch"]) /\ PrefixOfOrder(Said["model"])
          /\ PrefixOfOrder(Said["read"]) /\ PrefixOfOrder(Said["capture"])
      BY ONLY <3>2, SaidIsPrefix, Zenon
    <3>4. /\ PrefixOfOrder(Said["evaluate"]) /\ PrefixOfOrder(Said["evaluating"])
          /\ PrefixOfOrder(Said["finalize"]) /\ PrefixOfOrder(Said["save"])
          /\ PrefixOfOrder(Said["announce"]) /\ PrefixOfOrder(Said["returned"])
      BY ONLY <3>2, SaidIsPrefix, Zenon
    <3> QED BY ONLY <3>3, <3>4 DEF Straight, BeforeEnd
  <2>2. \A p \in Guarded : Said[p] \in {SubSeq(PhaseOrder, 1, n) : n \in 3..5}
    <3> DEFINE Cut == {SubSeq(PhaseOrder, 1, n) : n \in 3..5}
    <3>1. /\ SubSeq(PhaseOrder, 1, 3) \in Cut /\ SubSeq(PhaseOrder, 1, 4) \in Cut
          /\ SubSeq(PhaseOrder, 1, 5) \in Cut
      OBVIOUS
    <3> HIDE DEF Cut
    <3>2. /\ Said["model"] \in Cut /\ Said["capture"] \in Cut
          /\ Said["evaluate"] \in Cut /\ Said["evaluating"] \in Cut
      BY ONLY <3>1, SaidIsPrefix, Zenon
    <3>3. \A p \in Guarded : Said[p] \in Cut
      BY ONLY <3>2 DEF Guarded
    <3> QED BY <3>3 DEF Cut
  <2>3. Guarded \subseteq BeforeEnd /\ BeforeEnd \subseteq Straight
    BY DEF Guarded, BeforeEnd, Straight
  <2>4. pc \in Straight \cup {"interrupting", "interrupted", "raised"}
    BY DEF TypeOK, Places, Straight, BeforeEnd
  <2>5. \/ PrefixOfOrder(heard)
        \/ \E s \in {SubSeq(PhaseOrder, 1, n) : n \in 3..5} : heard = Append(s, "TASK_INTERRUPTED")
    BY <2>1, <2>2, <2>3, <2>4 DEF HeardAt
  <2>6. HeardOf("TASK_FINISHED") => pc \in {"returned", "interrupted"}
    BY <2>3, <2>4, SaidNoEnd DEF HeardAt, HeardOf, Straight
  <2>7. pc = "interrupted" => ~HeardOf("TASK_FINISHED")
    <3> SUFFICES ASSUME pc = "interrupted", NEW i \in DOMAIN heard PROVE heard[i] # "TASK_FINISHED"
      BY DEF HeardOf
    <3>1. PICK p \in Guarded : heard = Append(Said[p], "TASK_INTERRUPTED")
      BY DEF HeardAt
    <3>2. Said[p] \in Seq(Phases)
      <4>1. /\ Said["model"] \in Seq(Phases) /\ Said["capture"] \in Seq(Phases)
            /\ Said["evaluate"] \in Seq(Phases) /\ Said["evaluating"] \in Seq(Phases)
        BY DEF Said, Phases
      <4> QED BY <4>1 DEF Guarded
    <3>3. CASE i \in DOMAIN Said[p]
      <4>1. heard[i] = Said[p][i]
        BY <3>1, <3>2, <3>3
      <4> QED BY <4>1, <3>3, <2>3, SaidNoEnd
    <3>4. CASE i \notin DOMAIN Said[p]
      <4>1. heard[i] = "TASK_INTERRUPTED"
        BY <3>1, <3>2, <3>4
      <4> QED BY <4>1
    <3> QED BY <3>3, <3>4
  <2>8. HeardOf("TASK_INTERRUPTED") => pc = "interrupted"
    <3>1. pc \in BeforeEnd \cup {"interrupting", "raised"} => ~HeardOf("TASK_INTERRUPTED")
      BY <2>3, SaidNoEnd DEF HeardAt, HeardOf
    <3>2. pc = "returned" => ~HeardOf("TASK_INTERRUPTED")
      <4>1. \A i \in DOMAIN Said["returned"] : Said["returned"][i] # "TASK_INTERRUPTED"
        BY DEF Said
      <4> QED BY <4>1 DEF HeardAt, HeardOf, Straight
    <3> QED BY <3>1, <3>2, <2>4 DEF Straight
  <2>9. /\ HeardOf("TASK_FINISHED") => "result" \in files
        /\ HeardOf("TASK_INTERRUPTED") => "interruption" \in files
    BY <2>6, <2>7, <2>8 DEF WrittenAt
  <2>10. "result" \in files => /\ {"launch", "agent_log", "diagnostics"} \subseteq files
                               /\ "interruption" \notin files /\ record # NoRecord
    BY DEF WrittenAt
  <2> QED BY <2>5, <2>9, <2>10 DEF PhasesAgreeWithFiles
<1> QED BY <1>1, Invariance, PTL
=============================================================================
