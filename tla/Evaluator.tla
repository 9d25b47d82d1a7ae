----------------------------- MODULE Evaluator -----------------------------
(***************************************************************************)
(* evaluate_task (harness/evaluator.py), the worker it starts for each     *)
(* check (harness/evaluator_worker.py) and the candidate process that      *)
(* answers the worker's calls (harness/candidate_rpc.py).                  *)
(*                                                                         *)
(* Four things run side by side: the evaluator, the thread that drains the *)
(* result pipe, the worker, and the candidate.  One deadline is shared by  *)
(* all checks.  Time is abstract: the deadline has passed or it has not.   *)
(***************************************************************************)
EXTENDS Naturals

CONSTANTS
  N,              \* the number of configured checks, 1..N in their order
  CaseCount,      \* the frozen cases of a check, 1..CaseCount in their order
  SecurityCases,  \* the cases mapped to the "security" category
  NamesAtImport   \* the checks whose test file imports the candidate's names

ASSUME EvaluatorAssumption ==
  /\ N \in Nat \ {0} /\ CaseCount \in Nat \ {0}
  /\ SecurityCases \subseteq 1..CaseCount /\ NamesAtImport \subseteq 1..N

Checks == 1..N
Cases == 1..CaseCount
Statuses == {"PASS", "FAIL", "ERROR"}
Trees == {"loads", "no_modules", "misses_a_name", "fails_to_load"}

NoCases == [c \in {} |-> "PASS"]
Infra(why) == [kind |-> "infra", why |-> why, cases |-> NoCases]
LateCheck == [kind |-> "timed_out", why |-> "deadline", cases |-> NoCases]
Counted(cases) == [kind |-> "cases", why |-> "none", cases |-> cases]
NoResult == [pass |-> FALSE, timed_out |-> FALSE, infra |-> {}, hard |-> {}]

VARIABLES
  tree,       \* what the candidate tree is; nothing writes it while it is evaluated
  pc,         \* where evaluate_task is
  at,         \* the check it is at
  late,       \* timed_out of the check it is at
  checks,     \* the checks judged so far
  result,     \* what evaluate_task returned
  expired,    \* the shared deadline has passed
  reader,     \* the draining thread of the check it is at
  wpc,        \* where the worker is
  case,       \* the case the worker is at
  found,      \* the case results the worker holds
  pending,    \* a request the worker could not flush is still in its buffer
  broken,     \* an exception left _run_one_case
  cand,       \* the candidate process of the case
  pipe,       \* what was written to the result pipe
  rc          \* the worker's exit status

evaluator == <<pc, at, late, checks, result>>
session == <<case, found, pending, broken, cand>>
worker == <<wpc, session, pipe, rc>>
vars == <<tree, evaluator, expired, reader, worker>>

Ended == wpc \in {"none", "exited", "killed"}
Over == pc \in {"returned", "raised"}

Init ==
  /\ tree \in Trees
  /\ pc = "begin" /\ at = 1 /\ late = FALSE
  /\ checks = [i \in {} |-> LateCheck] /\ result = NoResult
  /\ expired = FALSE /\ reader = "none"
  /\ wpc = "none" /\ case = 1 /\ found = NoCases /\ pending = FALSE /\ broken = FALSE
  /\ cand = "none" /\ pipe = "nothing" /\ rc = "none"

DeadlinePasses ==
  /\ pc \notin {"begin", "returned", "raised"} /\ ~expired
  /\ expired' = TRUE
  /\ UNCHANGED <<tree, evaluator, reader, worker>>

----------------------------------------------------------------------------
(* The candidate process.                                                  *)

\* It exits while it imports its modules, during a call or between two.
CandidateExits ==
  /\ cand \in {"up", "stuck"}
  /\ cand' = "gone"
  /\ UNCHANGED <<tree, evaluator, expired, reader, wpc, case, found, pending, broken, pipe, rc>>

----------------------------------------------------------------------------
(* The worker: main, _run_one_case and CandidateSession.                   *)

WorkerGoto(l) == wpc' = l
Conclude(status) ==
  found' = [c \in DOMAIN found \cup {case} |-> IF c = case THEN status ELSE found[c]]

\* CandidateSession: a tree without importable modules is a RuntimeError.
OpenSession ==
  /\ wpc = "open"
  /\ IF tree = "no_modules"
     THEN WorkerGoto("report") /\ broken' = TRUE /\ UNCHANGED cand
     ELSE WorkerGoto("ask") /\ cand' = "up" /\ UNCHANGED broken
  /\ UNCHANGED <<tree, evaluator, expired, reader, case, found, pending, pipe, rc>>

\* request: the write to a process that is gone is a BrokenPipeError, and what
\* was written stays in the buffer of its stdin.
Send(from, to) ==
  /\ wpc = from
  /\ IF cand = "gone"
     THEN WorkerGoto("close") /\ pending' = TRUE /\ Conclude("ERROR")
     ELSE WorkerGoto(to) /\ UNCHANGED <<pending, found>>
  /\ UNCHANGED <<tree, evaluator, expired, reader, case, broken, cand, pipe, rc>>

AskForName == Send("ask", "named")
CallCandidate == Send("call", "answer")

\* request: end of file instead of a response.
NoAnswer ==
  /\ wpc \in {"named", "answer"} /\ cand = "gone"
  /\ WorkerGoto("close") /\ Conclude("ERROR")
  /\ UNCHANGED <<tree, evaluator, expired, reader, case, pending, broken, cand, pipe, rc>>

NameFound ==
  /\ wpc = "named" /\ cand = "up" /\ tree = "loads"
  /\ WorkerGoto("call")
  /\ UNCHANGED <<tree, evaluator, expired, reader, session, pipe, rc>>

\* The candidate answers with an AttributeError: an ImportError of the test file
\* that imports the name, an ERROR of the test that looks it up.
NameMissing ==
  /\ wpc = "named" /\ cand = "up" /\ tree = "misses_a_name"
  /\ WorkerGoto("close")
  /\ IF at \in NamesAtImport
     THEN broken' = TRUE /\ UNCHANGED found
     ELSE Conclude("ERROR") /\ UNCHANGED broken
  /\ UNCHANGED <<tree, evaluator, expired, reader, case, pending, cand, pipe, rc>>

CandidateStuck ==
  /\ wpc = "answer" /\ cand = "up"
  /\ cand' = "stuck"
  /\ UNCHANGED <<tree, evaluator, expired, reader, wpc, case, found, pending, broken, pipe, rc>>

Answered ==
  /\ wpc = "answer" /\ cand = "up"
  /\ WorkerGoto("close") /\ \E status \in Statuses : Conclude(status)
  /\ UNCHANGED <<tree, evaluator, expired, reader, case, pending, broken, cand, pipe, rc>>

\* CandidateSession.close: closing stdin flushes what is pending, which raises again.  (The
\* other errors that leave a case, in wait and rmtree or from an answer of the wrong
\* shape, end the worker in the same way.)
CloseSession ==
  /\ wpc = "close"
  /\ cand' = "none" /\ pending' = FALSE
  /\ broken' = (broken \/ pending)
  /\ IF broken' \/ case = CaseCount
     THEN WorkerGoto("report") /\ UNCHANGED case
     ELSE WorkerGoto("open") /\ case' = case + 1
  /\ UNCHANGED <<tree, evaluator, expired, reader, found, pipe, rc>>

\* _write_result: the envelope leaves in more than one write.
Report ==
  /\ wpc \in {"report", "flush"}
  /\ IF wpc = "report" THEN WorkerGoto("flush") /\ pipe' = "part"
                       ELSE WorkerGoto("leave") /\ pipe' = "whole"
  /\ UNCHANGED <<tree, evaluator, expired, reader, session, rc>>

AllPass(cases) == \A c \in DOMAIN cases : cases[c] = "PASS"

Leave ==
  /\ wpc = "leave"
  /\ WorkerGoto("exited")
  /\ rc' = IF broken THEN "seventy" ELSE IF AllPass(found) THEN "zero" ELSE "one"
  /\ UNCHANGED <<tree, evaluator, expired, reader, session, pipe>>

\* The worker is ended by the system, between any two of its steps.
WorkerDies ==
  /\ ~Ended
  /\ WorkerGoto("killed") /\ rc' = "signal" /\ cand' = "none"
  /\ UNCHANGED <<tree, evaluator, expired, reader, case, found, pending, broken, pipe>>

----------------------------------------------------------------------------
(* _validate_worker_payload and the verdicts of _check.                    *)

EnvelopeError ==
  CASE pipe = "nothing" -> "missing"
    [] pipe = "part" -> "malformed"
    [] pipe = "whole" /\ broken -> "worker_failed"
    [] pipe = "whole" /\ ~broken /\ DOMAIN found # Cases -> "identities"
    [] pipe = "whole" /\ ~broken /\ DOMAIN found = Cases
       /\ rc # (IF AllPass(found) THEN "zero" ELSE "one") -> "conflict"
    [] OTHER -> "none"

PayloadVerdict == IF EnvelopeError = "none" THEN Counted(found) ELSE Infra(EnvelopeError)

\* Variant: a result that is complete is used even when it came too late.
DrainedVerdictAnswerFirst ==
  IF EnvelopeError = "none" THEN Counted(found)
  ELSE IF late THEN LateCheck ELSE Infra(EnvelopeError)

DrainedVerdict == IF late THEN LateCheck ELSE PayloadVerdict

----------------------------------------------------------------------------
(* evaluate_task and _check.                                               *)

Goto(l) == pc' = l
Judge(verdict) ==
  checks' = [i \in DOMAIN checks \cup {at} |-> IF i = at THEN verdict ELSE checks[i]]
NextCheck(verdict) ==
  /\ Judge(verdict) /\ Goto("next") /\ at' = at + 1 /\ late' = FALSE
  /\ UNCHANGED result

\* An unsafe candidate, a worker that is not the frozen one, no checks: ValueError.
Refuse ==
  /\ pc = "begin" /\ Goto("raised")
  /\ UNCHANGED <<tree, at, late, checks, result, expired, reader, worker>>

Begin ==
  /\ pc = "begin" /\ Goto("next")
  /\ UNCHANGED <<tree, at, late, checks, result, expired, reader, worker>>

\* The test file is read before anything is started.
BadInput ==
  /\ pc = "next" /\ at <= N
  /\ NextCheck(Infra("input"))
  /\ UNCHANGED <<tree, expired, reader, worker>>

LaunchFails ==
  /\ pc = "next" /\ at <= N /\ Goto("raised")
  /\ UNCHANGED <<tree, at, late, checks, result, expired, reader, worker>>

Launch ==
  /\ pc = "next" /\ at <= N /\ Goto("launched")
  /\ wpc' = "open" /\ case' = 1 /\ found' = NoCases /\ pending' = FALSE /\ broken' = FALSE
  /\ cand' = "none" /\ pipe' = "nothing" /\ rc' = "none" /\ reader' = "reading"
  /\ UNCHANGED <<tree, at, late, checks, result, expired>>

\* Variant: every check has the whole timeout.
CommunicateAfresh ==
  /\ pc = "launched"
  /\ Goto("waiting")
  /\ UNCHANGED <<tree, at, late, checks, result, expired, reader, worker>>

\* communicate(timeout=_remaining(deadline)): the worker runs when the deadline is looked at.
Communicate ==
  /\ pc = "launched"
  /\ late' = expired
  /\ Goto(IF expired THEN "terminate" ELSE "waiting")
  /\ UNCHANGED <<tree, at, checks, result, expired, reader, worker>>

Collect ==
  /\ pc = "waiting" /\ Ended /\ Goto("join")
  /\ UNCHANGED <<tree, at, late, checks, result, expired, reader, worker>>

DeadlineExpires ==
  /\ pc = "waiting" /\ expired
  /\ late' = TRUE /\ Goto("terminate")
  /\ UNCHANGED <<tree, at, checks, result, expired, reader, worker>>

\* terminate_process_group; the namespaces of worker and candidate die with it.
KillWorker ==
  IF Ended THEN UNCHANGED worker
  ELSE /\ wpc' = "killed" /\ rc' = "signal" /\ cand' = "none"
       /\ UNCHANGED <<case, found, pending, broken, pipe>>

\* Variant: the worker is left to end by itself.
TerminateNothing ==
  /\ pc = "terminate" /\ Goto("join")
  /\ UNCHANGED <<tree, at, late, checks, result, expired, reader, worker>>

\* Variant: communicate() again, without the kill before it.
TerminateByWaiting ==
  /\ pc = "terminate" /\ Ended /\ Goto("join")
  /\ UNCHANGED <<tree, at, late, checks, result, expired, reader, worker>>

Terminate ==
  /\ pc = "terminate" /\ KillWorker /\ Goto("join")
  /\ UNCHANGED <<tree, at, late, checks, result, expired, reader>>

\* _read_pipe reads until no writer is left.
Drained ==
  /\ reader = "reading" /\ Ended
  /\ reader' = "done"
  /\ UNCHANGED <<tree, evaluator, expired, worker>>

JoinReader ==
  /\ pc = "join" /\ reader = "done"
  /\ NextCheck(DrainedVerdict)
  /\ UNCHANGED <<tree, expired, reader, worker>>

\* Five seconds were not enough for the reader.
JoinGivesUp ==
  /\ pc = "join" /\ reader = "reading"
  /\ NextCheck(Infra("pipe_open"))
  /\ UNCHANGED <<tree, expired, reader, worker>>

Kind(k) == {i \in DOMAIN checks : checks[i].kind = k}
SecurityFailed ==
  \E i \in Kind("cases") : \E c \in SecurityCases : checks[i].cases[c] # "PASS"

VerdictWhen(pass) ==
  [pass |-> pass,
   timed_out |-> Kind("timed_out") # {},
   infra |-> {checks[i].why : i \in Kind("infra")},
   hard |-> IF SecurityFailed THEN {"SECURITY_FAILURE"} ELSE {}]

\* Variant: a check whose cases could not be read does not count against the task.
VerdictOfReadable ==
  VerdictWhen(Kind("timed_out") = {} /\ \A i \in Kind("cases") : AllPass(checks[i].cases))

Verdict ==
  VerdictWhen(Kind("cases") = Checks /\ \A i \in Checks : AllPass(checks[i].cases))

Return ==
  /\ pc = "next" /\ at > N
  /\ result' = Verdict /\ Goto("returned")
  /\ UNCHANGED <<tree, at, late, checks, expired, reader, worker>>

\* KeyboardInterrupt: only the one that arrives in communicate ends the worker.
Interrupt ==
  /\ ~Over /\ Goto("raised")
  /\ IF pc = "waiting" THEN KillWorker ELSE UNCHANGED worker
  /\ UNCHANGED <<tree, at, late, checks, result, expired, reader>>

----------------------------------------------------------------------------
CandidateStep == CandidateExits \/ CandidateStuck

WorkerStep ==
  \/ OpenSession \/ AskForName \/ CallCandidate \/ NoAnswer \/ NameFound
  \/ NameMissing \/ Answered \/ CloseSession \/ Report \/ Leave

EvaluatorStep ==
  \/ Begin \/ Launch \/ Communicate \/ Collect \/ DeadlineExpires \/ Terminate
  \/ JoinReader \/ Return

Fault == Refuse \/ BadInput \/ LaunchFails \/ JoinGivesUp \/ Interrupt \/ WorkerDies

Next ==
  \/ CandidateStep \/ WorkerStep \/ EvaluatorStep \/ Fault
  \/ DeadlinePasses \/ Drained

Spec == Init /\ [][Next]_vars

\* Time passes, the reader thread runs and the evaluator takes the steps it can;
\* nothing is assumed of the worker and the candidate.
FairSpec == Spec /\ WF_vars(DeadlinePasses) /\ WF_vars(Drained) /\ WF_vars(EvaluatorStep \/ JoinGivesUp)

----------------------------------------------------------------------------
(* What is claimed of it.                                                  *)

WorkerPlaces == {"none", "open", "ask", "named", "call", "answer", "close", "report",
                 "flush", "leave", "exited", "killed"}
Reasons == {"input", "pipe_open", "missing", "malformed", "worker_failed", "identities",
            "conflict"}
CaseResults == UNION {[S -> Statuses] : S \in SUBSET Cases}
Verdicts == {Infra(w) : w \in Reasons} \cup {LateCheck} \cup {Counted(f) : f \in [Cases -> Statuses]}

\* Every variable has its type: the places of the four actors, the verdicts given so far.
TypeOK ==
  /\ tree \in Trees /\ expired \in BOOLEAN /\ late \in BOOLEAN
  /\ pc \in {"begin", "next", "launched", "waiting", "terminate", "join", "returned", "raised"}
  /\ at \in 1..(N + 1)
  /\ DOMAIN checks = 1..(at - 1) /\ \A i \in DOMAIN checks : checks[i] \in Verdicts
  /\ result.pass \in BOOLEAN /\ result.timed_out \in BOOLEAN
  /\ result.infra \subseteq Reasons /\ result.hard \subseteq {"SECURITY_FAILURE"}
  /\ reader \in {"none", "reading", "done"}
  /\ wpc \in WorkerPlaces /\ case \in Cases /\ found \in CaseResults
  /\ pending \in BOOLEAN /\ broken \in BOOLEAN
  /\ cand \in {"none", "up", "stuck", "gone"}
  /\ pipe \in {"nothing", "part", "whole"} /\ rc \in {"none", "zero", "one", "seventy", "signal"}

\* Cases count only when the worker ended by itself before the deadline was noticed, wrote the
\* whole envelope, had no failure of its own and reported every frozen case: a worker
\* that was killed, or that answered between the deadline and the kill, contributes nothing.
CountedOnlyIfWhole ==
  [][\A i \in DOMAIN checks' \ DOMAIN checks :
       checks'[i].kind = "cases" =>
         /\ wpc = "exited" /\ ~late /\ reader = "done"
         /\ pipe = "whole" /\ ~broken /\ DOMAIN checks'[i].cases = Cases]_vars

\* One deadline for all checks: after a check that timed out no later check has cases, so a
\* slow candidate cannot buy time by spreading its work over checks.
DeadlineIsShared ==
  \A i \in DOMAIN checks, j \in DOMAIN checks :
    i < j /\ checks[i].kind = "timed_out" => checks[j].kind # "cases"

\* A task passes only if every check was counted, every case of it passed, nothing timed
\* out, the infrastructure reported nothing and no security case failed.
PassIsEarned ==
  result.pass =>
    /\ \A i \in Checks : i \in DOMAIN checks /\ checks[i].kind = "cases"
    /\ \A i \in Checks, c \in Cases : checks[i].cases[c] = "PASS"
    /\ ~result.timed_out /\ result.infra = {} /\ result.hard = {}

\* When a check has been judged, or evaluate_task has returned, its worker is gone: no
\* worker runs beside the worker of the next check or after the evaluation.
NoWorkerLeft == pc \in {"next", "returned"} => Ended

\* BENCHMARK_SPEC.md:403: "A candidate process exit, malformed/forged RPC response, or import
\* failure becomes a model case error and cannot produce a pass or a harness-owned result envelope."
\* Here for the process exit: only a tree without modules or without a name fails a worker.
CandidateExitIsACaseError ==
  \A i \in DOMAIN checks :
    checks[i].why = "worker_failed" => tree \in {"no_modules", "misses_a_name"}

\* An evaluation ends, whatever the candidate and the worker do: the deadline, the kill and
\* the bounded join leave nothing to wait for.
EvaluationEnds == <>Over
=============================================================================
