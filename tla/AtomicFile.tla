----------------------------- MODULE AtomicFile -----------------------------
(***************************************************************************)
(* What harness/artifacts.py promises of every file it writes: a reader,   *)
(* and whoever looks after the power has failed, finds one whole version   *)
(* of it, never a part; and once a write has been made durable nothing     *)
(* older can come back.                                                    *)
(***************************************************************************)
CONSTANTS
  Files,
  Data        \* the whole versions a file may have

VARIABLES
  value,      \* what a reader of each file gets
  kept        \* the versions a power failure may leave of it

vars == <<value, kept>>

Init ==
  /\ value \in [Files -> Data]
  /\ kept = [f \in Files |-> {value[f]}]

Write(f, d) ==
  /\ value' = [value EXCEPT ![f] = d]
  /\ kept' = [kept EXCEPT ![f] = @ \cup {d}]

Settle(f) ==
  /\ kept' = [kept EXCEPT ![f] = {value[f]}]
  /\ UNCHANGED value

PowerFails ==
  \E left \in [Files -> Data] :
    /\ \A f \in Files : left[f] \in kept[f]
    /\ value' = left /\ kept' = [f \in Files |-> {left[f]}]

Next ==
  \/ \E f \in Files : (\E d \in Data : Write(f, d)) \/ Settle(f)
  \/ PowerFails

Spec == Init /\ [][Next]_vars
=============================================================================
