-------------------------- MODULE QualificationSetup --------------------------
(***************************************************************************)
(* A qualification and the setups beside it.  The command validates its    *)
(* checkouts once, before the stages, and runs each stage out of them      *)
(* hours later, while others may set up theirs in the same directories.    *)
(***************************************************************************)
EXTENDS Qualification, UpstreamSetup

CONSTANT Command   \* the caller that is the qualification
ASSUME CommandAssumption == Command \in Callers

Others == Callers \ {Command}

SetupSpecInit == Init /\ SetupInit

\* The command goes on as ensure_checkouts came to its end: provenance, an UpstreamError,
\* which main catches, or a TimeoutExpired, which it does not.
Heeds(came) ==
  \/ came = "ready"
  \/ came \in {"refused", "failed"} /\ pc' = "preserve"
  \/ came = "raised" /\ exit' = 1

\* An interrupt during the checkouts ends them with the command.
Qualify ==
  /\ Next
  /\ At("prepare") /\ interrupts' = interrupts => Heeds(caller[Command].at)
  /\ IF interrupts' # interrupts /\ Inside(Command)
     THEN Cut(Command) /\ UNCHANGED troubles ELSE UNCHANGED setupVars

CommandSets == At("prepare") /\ CommandStep(Command) /\ UNCHANGED vars

OtherSets(c) ==
  /\ \/ CommandStep(c)
     \/ Cut(c) /\ troubles < MaxTroubles /\ troubles' = troubles + 1
  /\ UNCHANGED vars

SetupNext == Qualify \/ CommandSets \/ \E c \in Others : OtherSets(c)

SetupSpec == SetupSpecInit /\ [][SetupNext]_<<vars, setupVars>>

----------------------------------------------------------------------------
\* A stage that runs an upstream runs it at the commits the manifest names: nobody
\* moves a checkout that was validated, whatever lock he reads.
StageCheckoutsPinned ==
  At("running") /\ Upstream =>
    \A i \in 1 .. Len(Lock(Command)) : dir[Lock(Command)[i].path] = Lock(Command)[i].commit

\* The packages Spark runs with are all in place while it runs, though the command only
\* asks for their metadata, with two exceptions.  Two setups were at it at once: pip then
\* replaces packages another one already found.  Or an earlier pip was cut short just
\* when the metadata was complete and a package was not: no later setup notices.
StageDepsInPlace ==
  At("running") /\ Kind \in {"spark", "optional"} => Complete \/ overlap \/ hollow
=============================================================================
