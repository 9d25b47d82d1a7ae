--------------------------- MODULE Evaluator_proofs ---------------------------
(***************************************************************************)
(* Facts about Evaluator, for any number of checks and cases, any security *)
(* cases and any test files: its types, that no worker is left, that one   *)
(* deadline is shared, what counts, and what a pass stands for.            *)
(***************************************************************************)
EXTENDS Evaluator, TLAPS

----------------------------------------------------------------------------
(* The invariant.                                                          *)

Places == {"begin", "next", "launched", "waiting", "terminate", "join", "returned", "raised"}

\* The worker, and what it holds and wrote.
WorkerTypes ==
  /\ wpc \in WorkerPlaces /\ case \in Cases /\ found \in CaseResults
  /\ pending \in BOOLEAN /\ broken \in BOOLEAN
  /\ cand \in {"none", "up", "stuck", "gone"}
  /\ pipe \in {"nothing", "part", "whole"} /\ rc \in {"none", "zero", "one", "seventy", "signal"}

\* The evaluator, and the checks it has judged.
EvaluatorTypes ==
  /\ tree \in Trees /\ expired \in BOOLEAN /\ late \in BOOLEAN
  /\ pc \in Places /\ at \in 1..(N + 1)
  /\ pc \in {"launched", "waiting", "terminate", "join"} => at <= N
  /\ checks \in [1..(at - 1) -> Verdicts]
  /\ reader \in {"none", "reading", "done"}

\* A worker that did not end by itself has no exit status of its own, and none runs
\* unless a check waits for it.
WorkerEnds ==
  /\ wpc = "killed" => rc = "signal"
  /\ wpc = "none" => rc = "none"
  /\ pc = "begin" => wpc = "none"
  /\ pc \in {"next", "join", "returned"} => Ended

\* Once a check was late the deadline has passed, and is noticed before a later check
\* can wait for its worker.
Lateness ==
  /\ late => expired
  /\ Kind("timed_out") # {} =>
       expired /\ pc # "waiting" /\ (pc \in {"terminate", "join"} => late)

\* The result is the verdict on the checks, and nothing before.
Results ==
  result = IF pc = "returned" THEN Verdict ELSE NoResult

IInv == WorkerTypes /\ EvaluatorTypes /\ WorkerEnds /\ Lateness /\ DeadlineIsShared /\ Results

----------------------------------------------------------------------------
(* Verdicts and case results.                                              *)

\* A verdict, part by part.
LEMMA VerdictParts ==
  ASSUME NEW v \in Verdicts
  PROVE  /\ v.kind \in {"infra", "timed_out", "cases"}
         /\ v.kind = "infra" => v.why \in Reasons
         /\ v.kind = "cases" => v.cases \in [Cases -> Statuses]
BY DEF Verdicts, Infra, LateCheck, Counted

\* What can be judged is a verdict.
LEMMA VerdictKinds ==
  /\ \A w \in Reasons : Infra(w) \in Verdicts /\ Infra(w).kind = "infra"
  /\ LateCheck \in Verdicts /\ LateCheck.kind = "timed_out"
  /\ \A f \in [Cases -> Statuses] :
       Counted(f) \in Verdicts /\ Counted(f).kind = "cases" /\ Counted(f).cases = f
BY DEF Verdicts, Infra, LateCheck, Counted

\* Case results are of some of the cases.
LEMMA CaseParts ==
  ASSUME NEW f
  PROVE  f \in CaseResults <=> DOMAIN f \subseteq Cases /\ f \in [DOMAIN f -> Statuses]
BY DEF CaseResults

\* One more case has a result.
LEMMA Concluded ==
  ASSUME found \in CaseResults, case \in Cases, NEW status \in Statuses, Conclude(status)
  PROVE  found' \in CaseResults
<1>1. DOMAIN found \subseteq Cases /\ found \in [DOMAIN found -> Statuses]
  BY CaseParts
<1> DEFINE S == DOMAIN found \cup {case}
<1>2. found' = [c \in S |-> IF c = case THEN status ELSE found[c]]
  BY DEF Conclude
<1>3. found' \in [S -> Statuses]
  BY <1>1, <1>2
<1>4. S \in SUBSET Cases
  BY <1>1
<1> QED
  BY <1>3, <1>4 DEF CaseResults

\* What a drained pipe is judged to be.
LEMMA Drainage ==
  ASSUME WorkerTypes
  PROVE  /\ DrainedVerdict \in Verdicts
         /\ late <=> DrainedVerdict.kind = "timed_out"
         /\ DrainedVerdict.kind = "cases" =>
              /\ ~late /\ pipe = "whole" /\ ~broken /\ rc \in {"zero", "one"}
              /\ DrainedVerdict.cases = found /\ DOMAIN found = Cases
<1>1. CASE late
  BY <1>1, VerdictKinds DEF DrainedVerdict
<1>2. CASE ~late /\ EnvelopeError = "none"
  <2>1. pipe = "whole" /\ ~broken /\ DOMAIN found = Cases /\ rc \in {"zero", "one"}
    BY <1>2 DEF EnvelopeError, WorkerTypes
  <2>2. found \in [Cases -> Statuses]
    BY <2>1, CaseParts DEF WorkerTypes
  <2>3. DrainedVerdict = Counted(found)
    BY <1>2 DEF DrainedVerdict, PayloadVerdict
  <2> QED
    BY <1>2, <2>1, <2>2, <2>3, VerdictKinds
<1>3. CASE ~late /\ EnvelopeError # "none"
  <2>1. EnvelopeError \in Reasons
    BY <1>3 DEF EnvelopeError, Reasons, WorkerTypes
  <2>2. DrainedVerdict = Infra(EnvelopeError)
    BY <1>3 DEF DrainedVerdict, PayloadVerdict
  <2> QED
    BY <1>3, <2>1, <2>2, VerdictKinds
<1> QED
  BY <1>1, <1>2, <1>3

----------------------------------------------------------------------------
(* The invariant holds from the start, and every step keeps it.            *)

\* The inductive invariant holds in every initial state.
LEMMA InitOk == Init => IInv
<1> SUFFICES ASSUME Init PROVE IInv
  OBVIOUS
<1> USE EvaluatorAssumption
<1>1. WorkerTypes
  <2>1. DOMAIN found = {} /\ found \in [DOMAIN found -> Statuses]
    BY DEF Init, NoCases
  <2>2. found \in CaseResults
    BY <2>1, CaseParts
  <2>3. case \in Cases
    BY ONLY EvaluatorAssumption, Init DEF Init, Cases
  <2> QED
    BY <2>2, <2>3 DEF Init, WorkerTypes, WorkerPlaces
<1>2. EvaluatorTypes
  <2>1. at = 1 /\ 1 \in 1..(N + 1) /\ 1..(at - 1) = {}
    BY ONLY EvaluatorAssumption, Init DEF Init
  <2>2. checks \in [{} -> Verdicts]
    BY DEF Init
  <2> QED
    BY <2>1, <2>2 DEF Init, EvaluatorTypes, Places
<1>3. WorkerEnds /\ Lateness /\ DeadlineIsShared /\ Results
  BY DEF Init, WorkerEnds, Ended, Lateness, Kind, DeadlineIsShared, Results
<1> QED
  BY <1>1, <1>2, <1>3 DEF IInv

\* A step of the worker, the candidate or the reader leaves the evaluator as it is.
LEMMA Elsewhere ==
  ASSUME IInv, UNCHANGED <<tree, evaluator, expired>>, WorkerTypes', WorkerEnds',
         reader' \in {"none", "reading", "done"}
  PROVE  IInv'
<1>1. EvaluatorTypes'
  BY DEF IInv, EvaluatorTypes, evaluator
<1>2. Lateness' /\ DeadlineIsShared' /\ Results'
  BY DEF IInv, Lateness, DeadlineIsShared, Results, Kind, Verdict, VerdictWhen,
         SecurityFailed, evaluator
<1> QED
  BY <1>1, <1>2 DEF IInv

\* A step of the worker that leaves it running, or lets it exit.
LEMMA WorkerMoves ==
  ASSUME IInv, UNCHANGED <<tree, evaluator, expired, reader>>, WorkerTypes', ~Ended,
         wpc' \notin {"none", "killed"}
  PROVE  IInv'
<1>1. WorkerEnds'
  BY DEF IInv, WorkerEnds, Ended, evaluator
<1> QED
  BY <1>1, Elsewhere DEF IInv, EvaluatorTypes

\* Nothing the candidate does breaks the invariant.
LEMMA CandidateStepOk == IInv /\ CandidateStep => IInv'
<1> SUFFICES ASSUME IInv, CandidateStep PROVE IInv'
  OBVIOUS
<1>1. /\ cand' \in {"gone", "stuck"}
      /\ UNCHANGED <<tree, evaluator, expired, reader, wpc, case, found, pending, broken, pipe, rc>>
  BY DEF CandidateStep, CandidateExits, CandidateStuck
<1>2. WorkerTypes'
  BY <1>1 DEF IInv, WorkerTypes
<1>3. WorkerEnds'
  BY <1>1 DEF IInv, WorkerEnds, Ended, evaluator
<1> QED
  BY <1>1, <1>2, <1>3, Elsewhere DEF IInv, EvaluatorTypes

\* The worker's own steps.
LEMMA WorkerStepOk == IInv /\ WorkerStep => IInv'
<1> SUFFICES ASSUME IInv, WorkerStep PROVE IInv'
  OBVIOUS
<1> USE DEF IInv
<1>1. CASE OpenSession
  <2>1. WorkerTypes'
    BY <1>1 DEF OpenSession, WorkerTypes, WorkerGoto, WorkerPlaces
  <2> QED
    BY <1>1, <2>1, WorkerMoves DEF OpenSession, Ended, WorkerGoto
<1>2. ASSUME NEW from \in {"ask", "call"}, NEW to \in {"named", "answer"}, Send(from, to)
      PROVE  IInv'
  <2>1. found' \in CaseResults
    BY <1>2, Concluded DEF Send, WorkerTypes, Statuses
  <2>2. WorkerTypes'
    BY <1>2, <2>1 DEF Send, WorkerTypes, WorkerGoto, WorkerPlaces
  <2> QED
    BY <1>2, <2>2, WorkerMoves DEF Send, Ended, WorkerGoto
<1>3. CASE NoAnswer
  <2>1. found' \in CaseResults
    BY <1>3, Concluded DEF NoAnswer, WorkerTypes, Statuses
  <2>2. WorkerTypes'
    BY <1>3, <2>1 DEF NoAnswer, WorkerTypes, WorkerGoto, WorkerPlaces
  <2> QED
    BY <1>3, <2>2, WorkerMoves DEF NoAnswer, Ended, WorkerGoto
<1>4. CASE NameFound
  <2>1. WorkerTypes'
    BY <1>4 DEF NameFound, WorkerTypes, WorkerGoto, WorkerPlaces, session
  <2> QED
    BY <1>4, <2>1, WorkerMoves DEF NameFound, Ended, WorkerGoto
<1>5. CASE NameMissing
  <2>1. found' \in CaseResults
    BY <1>5, Concluded DEF NameMissing, WorkerTypes, Statuses
  <2>2. WorkerTypes'
    BY <1>5, <2>1 DEF NameMissing, WorkerTypes, WorkerGoto, WorkerPlaces
  <2> QED
    BY <1>5, <2>2, WorkerMoves DEF NameMissing, Ended, WorkerGoto
<1>6. CASE Answered
  <2>1. found' \in CaseResults
    BY <1>6, Concluded DEF Answered, WorkerTypes
  <2>2. WorkerTypes'
    BY <1>6, <2>1 DEF Answered, WorkerTypes, WorkerGoto, WorkerPlaces
  <2> QED
    BY <1>6, <2>2, WorkerMoves DEF Answered, Ended, WorkerGoto
<1>7. CASE CloseSession
  <2>1. case' \in Cases
    BY <1>7, EvaluatorAssumption DEF CloseSession, WorkerTypes, Cases
  <2>2. WorkerTypes'
    BY <1>7, <2>1 DEF CloseSession, WorkerTypes, WorkerGoto, WorkerPlaces
  <2> QED
    BY <1>7, <2>2, WorkerMoves DEF CloseSession, Ended, WorkerGoto
<1>8. CASE Report
  <2>1. WorkerTypes'
    BY <1>8 DEF Report, WorkerTypes, WorkerGoto, WorkerPlaces, session
  <2> QED
    BY <1>8, <2>1, WorkerMoves DEF Report, Ended, WorkerGoto
<1>9. CASE Leave
  <2>1. WorkerTypes'
    BY <1>9 DEF Leave, WorkerTypes, WorkerGoto, WorkerPlaces, session
  <2> QED
    BY <1>9, <2>1, WorkerMoves DEF Leave, Ended, WorkerGoto
<1> QED
  BY <1>1, <1>2, <1>3, <1>4, <1>5, <1>6, <1>7, <1>8, <1>9
  DEF WorkerStep, AskForName, CallCandidate

\* Whoever kills the worker leaves it ended, and the evaluator's types alone.
LEMMA KilledWorker ==
  ASSUME WorkerTypes, WorkerEnds, KillWorker
  PROVE  /\ WorkerTypes'
         /\ Ended'
         /\ wpc' = "killed" => rc' = "signal"
         /\ wpc' = "none" => wpc = "none" /\ rc' = "none"
<1>1. CASE Ended
  BY <1>1 DEF KillWorker, WorkerTypes, WorkerEnds, Ended, worker, session
<1>2. CASE ~Ended
  BY <1>2 DEF KillWorker, WorkerTypes, WorkerEnds, Ended, WorkerPlaces
<1> QED
  BY <1>1, <1>2

\* The death of a worker does not break the invariant.
LEMMA WorkerDiesOk == IInv /\ WorkerDies => IInv'
<1> SUFFICES ASSUME IInv, WorkerDies PROVE IInv'
  OBVIOUS
<1>1. WorkerTypes'
  BY DEF IInv, WorkerDies, WorkerTypes, WorkerGoto, WorkerPlaces
<1>2. WorkerEnds'
  BY DEF IInv, WorkerDies, WorkerEnds, WorkerGoto, Ended, evaluator
<1> QED
  BY <1>1, <1>2, Elsewhere DEF WorkerDies, IInv, EvaluatorTypes

----------------------------------------------------------------------------
(* The evaluator's steps.                                                  *)

\* A step that judges nothing and does not return.
LEMMA Unjudged ==
  ASSUME IInv, ~Over, UNCHANGED <<tree, at, checks, result>>, WorkerTypes', WorkerEnds',
         pc' \in Places \ {"returned"}, expired' \in BOOLEAN, late' \in BOOLEAN,
         reader' \in {"none", "reading", "done"},
         expired => expired', late' => expired',
         pc' \in {"launched", "waiting", "terminate", "join"} => at <= N,
         Kind("timed_out") # {} =>
           pc' # "waiting" /\ (pc' \in {"terminate", "join"} => late')
  PROVE  IInv'
<1>1. EvaluatorTypes'
  BY DEF IInv, EvaluatorTypes
<1>2. Lateness'
  BY DEF IInv, Lateness, Kind
<1>3. DeadlineIsShared' /\ Results'
  BY DEF IInv, DeadlineIsShared, Results, Over
<1> QED
  BY <1>1, <1>2, <1>3 DEF IInv

\* A check is judged: what has no cases may be so at any time, a late check and
\* cases only as the deadline allows.
LEMMA Judged ==
  ASSUME IInv, NEW v \in Verdicts, NextCheck(v), ~Over, Ended, at <= N,
         UNCHANGED <<tree, expired, reader, worker>>,
         v.kind = "timed_out" => expired,
         v.kind = "cases" => Kind("timed_out") = {}
  PROVE  IInv'
<1> USE EvaluatorAssumption
<1>1. at \in Nat /\ at' = at + 1 /\ at' \in 1..(N + 1) /\ DOMAIN checks = 1..(at - 1)
  BY DEF IInv, EvaluatorTypes, NextCheck
<1>2. DOMAIN checks \cup {at} = 1..at
  <2>1. at \in Nat /\ at # 0
    BY EvaluatorAssumption DEF IInv, EvaluatorTypes
  <2>2. (1..(at - 1)) \cup {at} = 1..at
    BY ONLY <2>1
  <2> QED
    BY <1>1, <2>2
<1>3. checks' = [i \in 1..at |-> IF i = at THEN v ELSE checks[i]]
  BY <1>2 DEF NextCheck, Judge
<1>4. checks' \in [1..(at' - 1) -> Verdicts]
  <2>1. at' - 1 = at
    BY <1>1
  <2>2. \A i \in 1..at : i # at => checks[i] \in Verdicts
    BY <1>1 DEF IInv, EvaluatorTypes
  <2> QED
    BY <1>3, <2>1, <2>2
<1>5. EvaluatorTypes'
  BY <1>1, <1>4 DEF IInv, EvaluatorTypes, NextCheck, Goto, Places
<1>6. WorkerTypes' /\ WorkerEnds'
  BY DEF IInv, WorkerTypes, WorkerEnds, Ended, worker, session, NextCheck, Goto
<1>7. /\ DOMAIN checks' = 1..at
      /\ \A i \in 1..at : i # at => i \in DOMAIN checks /\ i < at /\ checks'[i] = checks[i]
      /\ at \in 1..at => checks'[at] = v
  <2>1. \A i \in 1..at : i # at => i \in 1..(at - 1) /\ i < at
    BY ONLY <1>1
  <2> QED
    BY ONLY <1>1, <1>3, <2>1
<1>8. Lateness'
  BY <1>7 DEF IInv, Lateness, Kind, NextCheck, Goto
<1>9. DeadlineIsShared'
  BY <1>1, <1>7 DEF IInv, DeadlineIsShared, Kind
<1>10. Results'
  BY DEF IInv, Results, NextCheck, Goto, Over
<1> QED
  BY <1>5, <1>6, <1>8, <1>9, <1>10 DEF IInv

\* The evaluator's own steps keep the invariant.
LEMMA EvaluatorStepOk == IInv /\ EvaluatorStep => IInv'
<1> SUFFICES ASSUME IInv, EvaluatorStep PROVE IInv'
  OBVIOUS
<1> USE DEF IInv
<1>1. CASE Begin
  <2>1. WorkerTypes' /\ WorkerEnds'
    BY <1>1 DEF Begin, Goto, WorkerTypes, WorkerEnds, Ended, worker, session
  <2> QED
    BY <1>1, <2>1, Unjudged DEF Begin, Goto, Over, Places, EvaluatorTypes, Lateness
<1>2. CASE Launch
  <2>1. DOMAIN NoCases = {} /\ NoCases \in [DOMAIN NoCases -> Statuses]
    BY DEF NoCases
  <2>2. found' \in CaseResults
    BY <1>2, <2>1, CaseParts DEF Launch
  <2>3. 1 \in Cases
    BY ONLY EvaluatorAssumption DEF Cases
  <2>4. WorkerTypes'
    BY <1>2, <2>2, <2>3 DEF Launch, WorkerTypes, WorkerPlaces
  <2>5. WorkerEnds'
    BY <1>2 DEF Launch, Goto, WorkerEnds
  <2> QED
    BY <1>2, <2>4, <2>5, Unjudged DEF Launch, Goto, Over, Places, EvaluatorTypes, Lateness
<1>3. CASE Communicate
  <2>1. WorkerTypes' /\ WorkerEnds'
    BY <1>3 DEF Communicate, Goto, WorkerTypes, WorkerEnds, Ended, worker, session
  <2> QED
    BY <1>3, <2>1, Unjudged DEF Communicate, Goto, Over, Places, EvaluatorTypes, Lateness
<1>4. CASE Collect
  <2>1. WorkerTypes' /\ WorkerEnds'
    BY <1>4 DEF Collect, Goto, WorkerTypes, WorkerEnds, Ended, worker, session
  <2> QED
    BY <1>4, <2>1, Unjudged DEF Collect, Goto, Over, Places, EvaluatorTypes, Lateness
<1>5. CASE DeadlineExpires
  <2>1. WorkerTypes' /\ WorkerEnds'
    BY <1>5 DEF DeadlineExpires, Goto, WorkerTypes, WorkerEnds, Ended, worker, session
  <2> QED
    BY <1>5, <2>1, Unjudged DEF DeadlineExpires, Goto, Over, Places, EvaluatorTypes, Lateness
<1>6. CASE Terminate
  <2>1. WorkerTypes' /\ WorkerEnds'
    BY <1>6, KilledWorker DEF Terminate, Goto, WorkerEnds
  <2> QED
    BY <1>6, <2>1, Unjudged DEF Terminate, Goto, Over, Places, EvaluatorTypes, Lateness
<1>7. CASE JoinReader
  <2>1. Ended /\ at <= N /\ ~Over
    BY <1>7 DEF JoinReader, WorkerEnds, EvaluatorTypes, Over
  <2>2. /\ DrainedVerdict \in Verdicts
        /\ DrainedVerdict.kind = "timed_out" => expired
        /\ DrainedVerdict.kind = "cases" => Kind("timed_out") = {}
    BY <1>7, Drainage DEF JoinReader, Lateness
  <2> QED
    BY ONLY <1>7, <2>1, <2>2, IInv, Judged DEF JoinReader
<1>8. CASE Return
  <2>1. WorkerTypes' /\ WorkerEnds'
    BY <1>8 DEF Return, Goto, WorkerTypes, WorkerEnds, Ended, worker, session
  <2>2. EvaluatorTypes' /\ Lateness'
    BY <1>8 DEF Return, Goto, EvaluatorTypes, Places, Lateness, Kind
  <2>3. DeadlineIsShared'
    BY <1>8 DEF Return, DeadlineIsShared
  <2>4. Results'
    BY <1>8 DEF Return, Goto, Results, Verdict, VerdictWhen, Kind, SecurityFailed
  <2> QED
    BY <2>1, <2>2, <2>3, <2>4
<1> QED
  BY <1>1, <1>2, <1>3, <1>4, <1>5, <1>6, <1>7, <1>8 DEF EvaluatorStep

\* A fault, of the worker or of the evaluator, keeps the invariant.
LEMMA FaultOk == IInv /\ Fault => IInv'
<1> SUFFICES ASSUME IInv, Fault PROVE IInv'
  OBVIOUS
<1> USE DEF IInv
<1>1. CASE Refuse \/ LaunchFails
  <2>1. WorkerTypes' /\ WorkerEnds'
    BY <1>1 DEF Refuse, LaunchFails, Goto, WorkerTypes, WorkerEnds, Ended, worker, session
  <2> QED
    BY <1>1, <2>1, Unjudged DEF Refuse, LaunchFails, Goto, Over, Places, EvaluatorTypes, Lateness
<1>2. CASE BadInput
  <2>1. Ended /\ ~Over
    BY <1>2 DEF BadInput, WorkerEnds, Over
  <2>2. Infra("input") \in Verdicts /\ Infra("input").kind = "infra"
    BY VerdictKinds DEF Reasons
  <2> QED
    BY ONLY <1>2, <2>1, <2>2, IInv, Judged DEF BadInput
<1>3. CASE JoinGivesUp
  <2>1. Ended /\ ~Over /\ at <= N
    BY <1>3 DEF JoinGivesUp, WorkerEnds, EvaluatorTypes, Over
  <2>2. Infra("pipe_open") \in Verdicts /\ Infra("pipe_open").kind = "infra"
    BY VerdictKinds DEF Reasons
  <2> QED
    BY ONLY <1>3, <2>1, <2>2, IInv, Judged DEF JoinGivesUp
<1>4. CASE Interrupt
  <2>1. WorkerTypes' /\ WorkerEnds'
    <3>1. CASE pc = "waiting"
      BY <1>4, <3>1, KilledWorker DEF Interrupt, Goto, WorkerEnds
    <3>2. CASE pc # "waiting"
      BY <1>4, <3>2 DEF Interrupt, Goto, WorkerTypes, WorkerEnds, Ended, worker, session
    <3> QED
      BY <3>1, <3>2
  <2> QED
    BY <1>4, <2>1, Unjudged DEF Interrupt, Goto, Over, Places, EvaluatorTypes, Lateness
<1>5. CASE WorkerDies
  BY <1>5, WorkerDiesOk
<1> QED
  BY <1>1, <1>2, <1>3, <1>4, <1>5 DEF Fault

\* Every step keeps the invariant.
LEMMA StepOk == IInv /\ [Next]_vars => IInv'
<1> SUFFICES ASSUME IInv, [Next]_vars PROVE IInv'
  OBVIOUS
<1>1. CASE CandidateStep \/ WorkerStep \/ EvaluatorStep \/ Fault
  BY <1>1, CandidateStepOk, WorkerStepOk, EvaluatorStepOk, FaultOk
<1>2. CASE DeadlinePasses
  <2>1. WorkerTypes' /\ WorkerEnds'
    BY <1>2 DEF DeadlinePasses, IInv, WorkerTypes, WorkerEnds, Ended, worker, session, evaluator
  <2> QED
    BY <1>2, <2>1, Unjudged
    DEF DeadlinePasses, IInv, evaluator, Over, Places, EvaluatorTypes, Lateness
<1>3. CASE Drained
  <2>1. WorkerTypes' /\ WorkerEnds'
    BY <1>3 DEF Drained, IInv, WorkerTypes, WorkerEnds, Ended, worker, session, evaluator
  <2> QED
    BY <1>3, <2>1, Elsewhere DEF Drained
<1>4. CASE UNCHANGED vars
  <2>1. WorkerTypes' /\ WorkerEnds'
    BY <1>4 DEF vars, IInv, WorkerTypes, WorkerEnds, Ended, worker, session, evaluator
  <2> QED
    BY <1>4, <2>1, Elsewhere DEF vars, IInv, EvaluatorTypes
<1> QED
  BY <1>1, <1>2, <1>3, <1>4 DEF Next

\* The evaluation, with everything that may go wrong in it, keeps the inductive
\* invariant.
LEMMA Invariance == Spec => []IInv
<1> QED
  BY InitOk, StepOk, PTL DEF Spec

----------------------------------------------------------------------------
(* The theorems.                                                           *)

\* The variables have their types, for any number of checks and cases.
THEOREM EvaluatorTypesHold == Spec => []TypeOK
<1>1. IInv => TypeOK
  <2> SUFFICES ASSUME IInv PROVE TypeOK
    OBVIOUS
  <2>1. DOMAIN checks = 1..(at - 1) /\ \A i \in DOMAIN checks : checks[i] \in Verdicts
    BY DEF IInv, EvaluatorTypes
  <2>2. \A i \in Kind("infra") : checks[i].why \in Reasons
    BY <2>1, VerdictParts DEF Kind
  <2>3. /\ result.pass \in BOOLEAN /\ result.timed_out \in BOOLEAN
        /\ result.infra \subseteq Reasons /\ result.hard \subseteq {"SECURITY_FAILURE"}
    BY <2>2 DEF IInv, Results, Verdict, VerdictWhen, NoResult
  <2> QED
    BY <2>1, <2>3 DEF IInv, WorkerTypes, EvaluatorTypes, Places, TypeOK
<1> QED
  BY <1>1, Invariance, PTL

\* Once a check is judged, or the evaluation has returned, no worker runs.
THEOREM WorkersEnd == Spec => []NoWorkerLeft
<1>1. IInv => NoWorkerLeft
  BY DEF IInv, WorkerEnds, NoWorkerLeft
<1> QED
  BY <1>1, Invariance, PTL

\* After a check that timed out no later one has cases.
THEOREM OneDeadline == Spec => []DeadlineIsShared
<1>1. IInv => DeadlineIsShared
  BY DEF IInv
<1> QED
  BY <1>1, Invariance, PTL

\* A pass stands for every case of every check.
THEOREM PassesAreEarned == Spec => []PassIsEarned
<1>1. IInv => PassIsEarned
  <2> SUFFICES ASSUME IInv, result.pass PROVE PassIsEarned
    BY DEF PassIsEarned
  <2>1. result = Verdict
    BY DEF IInv, Results, NoResult
  <2>2. Kind("cases") = Checks /\ \A i \in Checks : AllPass(checks[i].cases)
    BY <2>1 DEF Verdict, VerdictWhen
  <2>3. \A i \in Checks : i \in DOMAIN checks /\ checks[i].kind = "cases"
    BY <2>2 DEF Kind
  <2>4. \A i \in Checks : checks[i].cases \in [Cases -> Statuses]
    BY <2>3, VerdictParts DEF IInv, EvaluatorTypes
  <2>5. \A i \in Checks, c \in Cases : checks[i].cases[c] = "PASS"
    BY <2>2, <2>4 DEF AllPass
  <2>6. DOMAIN checks = 1..(at - 1) /\ at \in 1..(N + 1)
    BY DEF IInv, EvaluatorTypes
  <2>7. \A i \in DOMAIN checks : i \in Checks
    BY <2>6, EvaluatorAssumption DEF Checks
  <2>8. Kind("timed_out") = {} /\ Kind("infra") = {}
    BY <2>3, <2>7 DEF Kind
  <2>9. ~SecurityFailed
    BY <2>3, <2>5, <2>7, EvaluatorAssumption DEF SecurityFailed, Kind, Cases
  <2>10. ~result.timed_out /\ result.infra = {} /\ result.hard = {}
    BY <2>1, <2>8, <2>9 DEF Verdict, VerdictWhen
  <2> QED
    BY <2>3, <2>5, <2>10 DEF PassIsEarned
<1> QED
  BY <1>1, Invariance, PTL

\* The cases of a check come from a worker that ended by itself, in time and whole.
THEOREM OnlyWholeChecksCount == Spec => CountedOnlyIfWhole
<1> DEFINE Whole ==
      \A i \in DOMAIN checks' \ DOMAIN checks :
        checks'[i].kind = "cases" =>
          /\ wpc = "exited" /\ ~late /\ reader = "done"
          /\ pipe = "whole" /\ ~broken /\ DOMAIN checks'[i].cases = Cases
<1>1. IInv /\ [Next]_vars => [Whole]_vars
  <2> SUFFICES ASSUME IInv, Next PROVE Whole
    OBVIOUS
  <2>1. ASSUME NEW v, Judge(v) PROVE \A i \in DOMAIN checks' \ DOMAIN checks : checks'[i] = v
    BY <2>1 DEF Judge
  <2>2. CASE JoinReader
    <3>1. Judge(DrainedVerdict) /\ pc = "join" /\ reader = "done"
      BY <2>2 DEF JoinReader, NextCheck
    <3>2. DrainedVerdict.kind = "cases" =>
            /\ ~late /\ pipe = "whole" /\ ~broken /\ rc \in {"zero", "one"}
            /\ DOMAIN DrainedVerdict.cases = Cases
      BY Drainage DEF IInv
    <3>3. rc \in {"zero", "one"} => wpc = "exited"
      BY <3>1 DEF IInv, WorkerEnds, Ended
    <3> QED
      BY <2>1, <3>1, <3>2, <3>3
  <2>3. CASE BadInput
    <3>1. Judge(Infra("input")) /\ Infra("input").kind # "cases"
      BY <2>3, VerdictKinds DEF BadInput, NextCheck, Reasons
    <3> QED
      BY <2>1, <3>1
  <2>4. CASE JoinGivesUp
    <3>1. Judge(Infra("pipe_open")) /\ Infra("pipe_open").kind # "cases"
      BY <2>4, VerdictKinds DEF JoinGivesUp, NextCheck, Reasons
    <3> QED
      BY <2>1, <3>1
  <2>5. CASE UNCHANGED checks
    BY <2>5
  <2>6. CandidateStep \/ WorkerStep \/ DeadlinePasses \/ Drained => UNCHANGED checks
    BY DEF CandidateStep, CandidateExits, CandidateStuck, WorkerStep, OpenSession, AskForName,
           CallCandidate, Send, NoAnswer, NameFound, NameMissing, Answered, CloseSession,
           Report, Leave, DeadlinePasses, Drained, evaluator
  <2>7. EvaluatorStep => UNCHANGED checks \/ JoinReader
    BY DEF EvaluatorStep, Begin, Launch, Communicate, Collect, DeadlineExpires, Terminate, Return
  <2>8. Fault => UNCHANGED checks \/ BadInput \/ JoinGivesUp
    BY DEF Fault, Refuse, LaunchFails, Interrupt, WorkerDies, evaluator
  <2> QED
    BY <2>2, <2>3, <2>4, <2>5, <2>6, <2>7, <2>8 DEF Next
<1> QED
  BY <1>1, Invariance, PTL DEF Spec, CountedOnlyIfWhole
=============================================================================
