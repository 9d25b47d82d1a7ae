--------------------------- MODULE MCQualification ---------------------------
(* The stages of a profile in the order execute runs them, one of each kind    *)
(* but for two: the last of the contexts is what any upstream is, too, and     *)
(* what the direct probes may do, the contexts and Hermes do as well.  And     *)
(* another command, which shares a directory with it and wants the same commit *)
(* there, or that of an older harness.                                         *)
EXTENDS QualificationSetup

FullPlan == <<"spark", "optional", "context", "context", "hermes">>
ShortPlan == <<"direct", "upstream", "hermes">>

Pin(p, c) == [path |-> p, commit |-> c]
MCLocks == [run   |-> {<<Pin("spark", "new"), Pin("cli", "v1")>>},
            other |-> {<<Pin("spark", "new")>>, <<Pin("spark", "old")>>}]
MCAlone == [c \in {"run"} |-> MCLocks[c]]
=============================================================================
