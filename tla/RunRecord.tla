----------------------------- MODULE RunRecord -----------------------------
(***************************************************************************)
(* What the canonical record of a benchmark run promises its readers: it   *)
(* appears once, task results are only ever added to it, PASS and FAIL are *)
(* verdicts on all of the planned tasks, and nothing but an interruption   *)
(* replaces a verdict.                                                     *)
(***************************************************************************)
EXTENDS Naturals

CONSTANT N   \* the number of planned tasks

VARIABLES
  status,     \* "none" before the record exists
  completed   \* how many task results it holds

Init == status = "none" /\ completed = 0

Create ==
  /\ status = "none" /\ status' \in {"INCOMPLETE", "INTERRUPTED"}
  /\ UNCHANGED completed

Advance ==
  /\ status = "INCOMPLETE" /\ UNCHANGED status
  /\ completed' = completed + 1 /\ completed' <= N

Conclude ==
  /\ status = "INCOMPLETE" /\ completed = N
  /\ status' \in {"PASS", "FAIL"} /\ UNCHANGED completed

\* A failure ends the run, also one that strikes while its interruption is recorded.
Fail ==
  /\ status \in {"INCOMPLETE", "INTERRUPTED"} /\ status' = "INFRASTRUCTURE_FAILURE"
  /\ UNCHANGED completed

Interrupt ==
  /\ status # "none" /\ status' = "INTERRUPTED"
  /\ completed' \in {completed, completed + 1} /\ completed' <= N

Next == Create \/ Advance \/ Conclude \/ Fail \/ Interrupt

Spec == Init /\ [][Next]_<<status, completed>>
=============================================================================
