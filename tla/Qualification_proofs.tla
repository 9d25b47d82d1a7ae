------------------------ MODULE Qualification_proofs ------------------------
(***************************************************************************)
(* Proofs about Qualification, for every plan and any number of failed     *)
(* writes and interrupts.  What a result may say depends on what the       *)
(* stages before it left in memory, and what an exit may say on what the   *)
(* writes before it left in the files: IInv says both for each location.   *)
(* What the setups beside it leave alone is SetupInv, and that the command *)
(* gets to its stages only through the end of its own setup, ReadyInv.     *)
(***************************************************************************)
EXTENDS QualificationSetup, TLAPS

InStage == {"running", "collect", "parse", "salvage"}
Closing == {"identity", "results", "report", "finish", "compare"}

\* The first n stages that must be observed were.
Earned(n) == \A i \in 1 .. n : Plan[i] # "optional" => comps[i].observed

\* The components in memory, at each location.
StageInv ==
  /\ pc \in {"start", "manifest", "partial", "prepare"} => at = 0 /\ comps = <<>>
  /\ pc \in InStage => at > 0 /\ Len(comps) = at - 1 /\ Earned(at - 1)
  /\ pc = "parse" => current.observed \/ Kind = "hermes"
  /\ pc = "salvage" => Kind = "optional"
  /\ pc \in {"record", "recorded"} =>
       /\ at > 0 /\ Len(comps) = at /\ Earned(at - 1) /\ comps[at] = current
       /\ Kind \in {"optional", "hermes"} \/ current.observed
  /\ pc \in {"ready"} \cup Closing => Len(comps) = at /\ Earned(at)
  /\ pc \in Closing => at = Len(Plan)

Untouched == files.manifest = "absent" /\ files.partial = NoPartial /\ files.results = NoResults

\* The artifacts, at each location.
FilesInv ==
  /\ pc = "start" \/ (~context /\ Running) => Untouched
  /\ ~context /\ Running => pc \in {"start", "preserve"}
  /\ pc \in Closing => files.manifest = "COMPLETE"
  /\ pc \in {"report", "finish", "compare"} => files.results.outcome = Outcome(comps)
  /\ pc \in {"finish", "compare"} => files.report = "VALID"
  /\ pc = "compare" => files.partial.status = "COMPLETE"
  /\ pc \in {"keep_results", "keep_report", "keep_partial"} => files.manifest = Validity
  /\ pc \in {"keep_report", "keep_partial"} => files.results.validity = Validity
  /\ pc = "keep_partial" => files.report = Validity

\* A VALID result beside a failed manifest takes a failed write, and another to stay.
KeepInv ==
  /\ files.results.validity \in Failures =>
       pc \in {"keep_results", "keep_report", "keep_partial"}
  /\ files.results.validity = "VALID" /\ Running =>
       \/ pc \in {"report", "finish", "compare"}
       \/ pc \in {"preserve", "keep_manifest", "keep_results"} /\ faults > 0

\* What partial-results.json holds of the components in memory: all of them between two
\* stages, except within Infermark; all but the current stage's and what is recorded
\* together with it, once a stage has begun; and a failed result is a copy of it.
Recorded(i) == i <= Len(files.partial.comps) /\ files.partial.comps[i] = comps[i]
HeldInv ==
  /\ pc = "ready" => \A i \in 1 .. Len(comps) : Recorded(i) \/ \A j \in i .. at : Together(j)
  /\ pc = "recorded" => \A i \in 1 .. Len(comps) : Recorded(i)
  /\ \A i \in 1 .. Len(comps) : Recorded(i) \/ \A j \in i .. at - 1 : Together(j)
  /\ files.results.validity \in Failures => files.results.comps = files.partial.comps

\* An interruption that nothing hides is on its way out.
InterruptInv == interrupts > 0 /\ ~masked /\ Running => pc = "collect" /\ error = "interrupt"

IInv ==
  /\ TypeOK /\ StageInv /\ FilesInv /\ KeepInv /\ HeldInv /\ InterruptInv
  /\ RankedIsEarned /\ ExitMatchesArtifacts /\ OneFaultIsConsistent

----------------------------------------------------------------------------
(* The artifacts.                                                          *)

\* Replacing one artifact keeps the shape of them all.
LEMMA Replacing ==
  ASSUME NEW f \in Artifacts
  PROVE  /\ \A m \in Failures \cup {"absent", "RUNNING", "COMPLETE"} :
              [f EXCEPT !.manifest = m] \in Artifacts
         /\ \A p \in Partials : [f EXCEPT !.partial = p] \in Artifacts
         /\ \A r \in ResultFiles : [f EXCEPT !.results = r] \in Artifacts
         /\ \A v \in Failures \cup {"absent", "VALID"} : [f EXCEPT !.report = v] \in Artifacts
  BY DEF Artifacts

\* The two fields of partial-results.json are replaced one at a time.
LEMMA ReplacingPartial ==
  ASSUME NEW f \in Artifacts
  PROVE  /\ \A c \in Seq(Components) :
              LET p == [status |-> f.partial.status, comps |-> c]
              IN  p \in Partials /\ [f EXCEPT !.partial.comps = c] = [f EXCEPT !.partial = p]
         /\ \A t \in {"COMPLETE", "INFRA_ERROR"} :
              LET p == [status |-> t, comps |-> f.partial.comps]
              IN  p \in Partials /\ [f EXCEPT !.partial.status = t] = [f EXCEPT !.partial = p]
  BY DEF Artifacts, Partials

\* Each artifact is written by its own actions and left alone by the others; a
\* write that fails has replaced its file or has not.
LEMMA Written ==
  ASSUME TypeOK, [Next]_vars
  PROVE  /\ files' \in Artifacts
         /\ files'.manifest # files.manifest => SaveManifest \/ Conclude \/ KeepManifest
         /\ files'.partial.comps # files.partial.comps => SavePartial \/ Record
         /\ files'.partial.status # files.partial.status => SavePartial \/ Finish \/ KeepPartial
         /\ files'.results # files.results => SaveResults \/ KeepResults
         /\ files'.report # files.report => SaveReport \/ KeepReport
<1> USE DEF Save, SaveOrDie
<1>1. files \in Artifacts /\ comps \in Seq(Components)
  BY DEF TypeOK
<1>2. Validity \in Failures
  BY DEF Validity, Failures
<1>3. CASE SaveManifest \/ Conclude \/ KeepManifest
  <2>1. PICK m \in Failures \cup {"absent", "RUNNING", "COMPLETE"} :
          files' \in {files, [files EXCEPT !.manifest = m]}
    BY <1>2, <1>3 DEF SaveManifest, Conclude, KeepManifest
  <2>2. [files EXCEPT !.manifest = m] \in Artifacts
    BY <1>1, Replacing
  <2>3. QED
    BY <1>1, <1>3, <2>1, <2>2 DEF Artifacts
<1>4. CASE SaveReport \/ KeepReport
  <2>1. PICK v \in Failures \cup {"absent", "VALID"} :
          files' \in {files, [files EXCEPT !.report = v]}
    BY <1>2, <1>4 DEF SaveReport, KeepReport
  <2>2. [files EXCEPT !.report = v] \in Artifacts
    BY <1>1, Replacing
  <2>3. QED
    BY <1>1, <1>4, <2>1, <2>2 DEF Artifacts
<1>5. CASE SaveResults \/ KeepResults
  <2>1. /\ [validity |-> "VALID", outcome |-> Outcome(comps), comps |-> comps] \in ResultFiles
        /\ [validity |-> Validity, outcome |-> "INFRA_ERROR", comps |-> files.partial.comps]
             \in ResultFiles
    BY <1>1, <1>2 DEF Artifacts, Partials, ResultFiles, Outcome
  <2>2. PICK r \in ResultFiles : files' \in {files, [files EXCEPT !.results = r]}
    BY <1>5, <2>1 DEF SaveResults, KeepResults
  <2>3. [files EXCEPT !.results = r] \in Artifacts
    BY <1>1, Replacing
  <2>4. QED
    BY <1>1, <1>5, <2>2, <2>3 DEF Artifacts
<1>6. CASE SavePartial
  <2> DEFINE p == [status |-> "RUNNING", comps |-> <<>>]
  <2>1. p \in Partials /\ files' \in {files, [files EXCEPT !.partial = p]}
    BY <1>6 DEF SavePartial, Partials
  <2>2. [files EXCEPT !.partial = p] \in Artifacts
    BY <1>1, <2>1, Replacing
  <2> HIDE DEF p
  <2>3. QED
    BY <1>1, <1>6, <2>1, <2>2 DEF Artifacts
<1>7. CASE Record
  <2> DEFINE p == [status |-> files.partial.status, comps |-> comps]
  <2>1. p \in Partials /\ files' \in {files, [files EXCEPT !.partial = p]}
    BY <1>1, <1>7, ReplacingPartial DEF Record
  <2>2. p.status = files.partial.status /\ [files EXCEPT !.partial = p] \in Artifacts
    BY <1>1, <2>1, Replacing
  <2> HIDE DEF p
  <2>3. QED
    BY <1>1, <1>7, <2>1, <2>2 DEF Artifacts
<1>8. CASE Finish \/ KeepPartial
  <2>1. PICK t \in {"COMPLETE", "INFRA_ERROR"} :
          files' \in {files, [files EXCEPT !.partial.status = t]}
    BY <1>8 DEF Finish, KeepPartial
  <2> DEFINE p == [status |-> t, comps |-> files.partial.comps]
  <2>2. p \in Partials /\ files' \in {files, [files EXCEPT !.partial = p]}
    BY <1>1, <2>1, ReplacingPartial
  <2>3. p.comps = files.partial.comps /\ [files EXCEPT !.partial = p] \in Artifacts
    BY <1>1, <2>2, Replacing
  <2> HIDE DEF p
  <2>4. QED
    BY <1>1, <1>8, <2>2, <2>3 DEF Artifacts
<1>9. CASE Start \/ Prepare \/ BeginStage \/ StageRuns \/ StageRaises \/ Collect
            \/ Parse \/ Salvage \/ Accept \/ Identify \/ Compare \/ Preserve
            \/ Interrupt \/ UNCHANGED vars
  BY <1>9, <1>1 DEF Start, Prepare, BeginStage, StageRuns, StageRaises, Collect,
    Parse, Salvage, Accept, Identify, Compare, Preserve, Interrupt, vars
<1>10. QED
  BY <1>3, <1>4, <1>5, <1>6, <1>7, <1>8, <1>9 DEF Next

----------------------------------------------------------------------------
(* Types.                                                                  *)

\* The control variables.
LEMMA ControlType ==
  ASSUME IInv, [Next]_vars
  PROVE  /\ pc' \in Locations /\ exit' \in {0, 1, 2, 130, 256}
         /\ error' \in {"none", "caught", "quarantine", "other", "interrupt"}
<1> USE DEF IInv, TypeOK, Locations, At, Goto, Quit, Raise
<1>1. CASE Start \/ SaveManifest \/ SavePartial \/ Prepare
  BY <1>1 DEF Save, Start, SaveManifest, SavePartial, Prepare
<1>2. CASE BeginStage \/ StageRuns \/ StageRaises \/ Interrupt
  BY <1>2 DEF BeginStage, StageRuns, StageRaises, Interrupt
<1>3. CASE Collect \/ Parse \/ Salvage \/ Record \/ Accept
  BY <1>3 DEF Save, StageError, Collect, Parse, Salvage, Record, Accept
<1>4. CASE Conclude \/ Identify \/ SaveResults \/ SaveReport \/ Finish \/ Compare
  BY <1>4 DEF Save, Code, Conclude, Identify, SaveResults, SaveReport, Finish,
    Compare
<1>5. CASE Preserve \/ KeepManifest \/ KeepResults \/ KeepReport \/ KeepPartial
  BY <1>5 DEF SaveOrDie, Preserve, KeepManifest, KeepResults, KeepReport,
    KeepPartial
<1>6. CASE UNCHANGED vars
  BY <1>6 DEF vars
<1>7. QED
  BY <1>1, <1>2, <1>3, <1>4, <1>5, <1>6 DEF Next

\* The counters and flags.
LEMMA NoiseType ==
  ASSUME IInv, [Next]_vars
  PROVE  /\ context' \in BOOLEAN /\ masked' \in BOOLEAN
         /\ faults' \in 0 .. MaxFaults /\ interrupts' \in 0 .. MaxInterrupts
<1> USE PlanAssumption DEF IInv, TypeOK, noise
<1>1. CASE Start \/ Prepare \/ BeginStage \/ StageRuns \/ StageRaises \/ Parse
            \/ Salvage \/ Accept \/ Identify \/ Compare \/ Preserve
            \/ UNCHANGED vars
  BY <1>1 DEF Start, Prepare, BeginStage, StageRuns, StageRaises, Parse, Salvage,
    Accept, Identify, Compare, Preserve, vars
<1>2. CASE Collect
  BY <1>2 DEF Collect
<1>3. CASE Interrupt
  <2>1. faults' \in 0 .. MaxFaults /\ interrupts' \in 0 .. MaxInterrupts /\ UNCHANGED context
    BY <1>3 DEF Interrupt
  <2>2. masked' \in BOOLEAN
    BY <1>3, Zenon DEF Interrupt
  <2>3. QED
    BY <2>1, <2>2
<1>4. CASE SaveManifest \/ SavePartial \/ Record \/ Conclude \/ SaveResults
            \/ SaveReport \/ Finish
  BY <1>4 DEF Save, SaveManifest, SavePartial, Record, Conclude, SaveResults,
    SaveReport, Finish
<1>5. CASE KeepManifest \/ KeepResults \/ KeepReport \/ KeepPartial
  BY <1>5 DEF SaveOrDie, KeepManifest, KeepResults, KeepReport, KeepPartial
<1>6. QED
  BY <1>1, <1>2, <1>3, <1>4, <1>5 DEF Next

\* The stage and what was measured: there is room for one more component whenever
\* one is added.
LEMMA StageType ==
  ASSUME IInv, [Next]_vars
  PROVE  /\ at' \in 0 .. Len(Plan) /\ current' \in Components
         /\ comps' \in Seq(Components) /\ Len(comps') <= at'
<1> USE PlanAssumption DEF IInv, TypeOK, stage
<1>0. Unmeasured \in Components
  BY Zenon DEF Unmeasured, Components, Verdicts
<1>1. CASE BeginStage
  BY <1>0, <1>1 DEF BeginStage
<1>2. CASE StageRuns
  <2>1. PICK v \in {"pass", "fail"}, o \in BOOLEAN : current' = [verdict |-> v, observed |-> o]
    BY <1>2 DEF StageRuns
  <2>2. current' \in Components
    BY <2>1, Zenon DEF Components, Verdicts
  <2>3. QED
    BY <1>2, <2>2 DEF StageRuns
<1>3. CASE Parse
  BY <1>3 DEF Parse, At, StageInv, InStage
<1>4. CASE Salvage
  BY <1>0, <1>4 DEF Salvage, At, StageInv, InStage
<1>5. CASE Start \/ SaveManifest \/ SavePartial \/ Prepare \/ StageRaises \/ Collect
            \/ Record \/ Accept \/ Conclude \/ Identify \/ SaveResults \/ SaveReport
            \/ Finish \/ Compare \/ Preserve \/ KeepManifest \/ KeepResults
            \/ KeepReport \/ KeepPartial \/ Interrupt \/ UNCHANGED vars
  BY <1>5 DEF Start, SaveManifest, SavePartial, Prepare, StageRaises, Collect,
    Record, Accept, Conclude, Identify, SaveResults, SaveReport, Finish, Compare,
    Preserve, KeepManifest, KeepResults, KeepReport, KeepPartial, Interrupt, vars
<1>6. QED
  BY <1>1, <1>2, <1>3, <1>4, <1>5 DEF Next

\* Every step keeps the types.
LEMMA TypeStep ==
  ASSUME IInv, [Next]_vars
  PROVE  TypeOK'
<1>1. files' \in Artifacts
  BY Written DEF IInv
<1>2. QED
  BY <1>1, ControlType, NoiseType, StageType DEF TypeOK

----------------------------------------------------------------------------
(* What each location says.                                                *)

\* One more component leaves the others as they were.
LEMMA OneMore ==
  ASSUME TypeOK, NEW x, comps' = Append(comps, x), at > 0, Len(comps) = at - 1,
         Earned(at - 1), UNCHANGED at
  PROVE  Len(comps') = at /\ comps'[at] = x /\ Earned(at - 1)'
  BY DEF TypeOK, Earned

\* Every step keeps the components in step with the stages, one for each stage that was
\* recorded.
LEMMA StageStep ==
  ASSUME IInv, [Next]_vars
  PROVE  StageInv'
<1> USE DEF IInv, StageInv, InStage, Closing, At, Goto, Quit, Raise, Kind, stage
<1>1. CASE BeginStage
  BY <1>1 DEF BeginStage, Earned, TypeOK
<1>2. CASE StageRuns \/ StageRaises \/ Interrupt
  BY <1>2 DEF StageRuns, StageRaises, Interrupt, Upstream, Earned
<1>3. CASE Collect
  BY <1>3 DEF Collect, StageError, Upstream, Earned
<1>4. CASE Parse
  <2>1. CASE comps' = Append(comps, current)
    <3>1. Len(comps') = at /\ comps'[at] = current /\ Earned(at - 1)'
      BY <1>4, <2>1, OneMore DEF Parse
    <3>2. pc' \in {"record", "ready"} /\ UNCHANGED <<at, current>>
      BY <1>4, <2>1 DEF Parse, StageError, TypeOK
    <3>3. pc' = "ready" => Kind # "hermes"
      BY <1>4, <2>1 DEF Parse, StageError, TypeOK, Together
    <3>4. pc' = "ready" => Earned(at)'
      BY <1>4, <3>1, <3>2, <3>3 DEF Parse, Earned
    <3>5. QED
      BY <1>4, <3>1, <3>2, <3>4 DEF Parse
  <2>2. CASE UNCHANGED comps
    <3>1. Len(comps) # Len(Append(comps, current))
      BY DEF TypeOK
    <3>2. QED
      BY <1>4, <2>2, <3>1 DEF Parse, StageError, Earned
  <2>3. QED
    BY <1>4, <2>1, <2>2 DEF Parse
<1>5. CASE Salvage
  <2>1. CASE comps' = Append(comps, Unmeasured)
    <3>1. Len(comps') = at /\ comps'[at] = Unmeasured /\ Earned(at - 1)'
      BY <1>5, <2>1, OneMore DEF Salvage
    <3>2. QED
      BY <1>5, <3>1 DEF Salvage
  <2>2. CASE UNCHANGED <<current, comps>>
    BY <1>5, <2>2 DEF Salvage, Earned
  <2>3. QED
    BY <1>5, <2>1, <2>2 DEF Salvage
<1>6. CASE Accept
  BY <1>6 DEF Accept, Earned, TypeOK
<1>7. CASE Start \/ SaveManifest \/ SavePartial \/ Prepare \/ Record
  BY <1>7 DEF Save, Earned, Start, SaveManifest, SavePartial, Prepare, Record
<1>8. CASE Conclude \/ Identify \/ SaveResults \/ SaveReport \/ Finish \/ Compare
  BY <1>8 DEF Save, Earned, Conclude, Identify, SaveResults, SaveReport, Finish,
    Compare
<1>9. CASE Preserve \/ KeepManifest \/ KeepResults \/ KeepReport \/ KeepPartial
  BY <1>9 DEF SaveOrDie, Earned, Preserve, KeepManifest, KeepResults, KeepReport,
    KeepPartial
<1>10. CASE UNCHANGED vars
  BY <1>10 DEF Earned, vars
<1>11. QED
  BY <1>1, <1>2, <1>3, <1>4, <1>5, <1>6, <1>7, <1>8, <1>9, <1>10 DEF Next

\* Every step keeps what the artifacts hold at each location.
LEMMA FilesStep ==
  ASSUME IInv, [Next]_vars
  PROVE  FilesInv'
<1>0. /\ files'.manifest # files.manifest => SaveManifest \/ Conclude \/ KeepManifest
      /\ files'.partial.comps # files.partial.comps => SavePartial \/ Record
      /\ files'.partial.status # files.partial.status => SavePartial \/ Finish \/ KeepPartial
      /\ files'.results # files.results => SaveResults \/ KeepResults
      /\ files'.report # files.report => SaveReport \/ KeepReport
  BY Written DEF IInv
<1> USE DEF IInv, TypeOK, FilesInv, Closing, Untouched, Validity, Outcome, At, Running, Goto,
            Quit, Raise, stage
<1>1. CASE Start \/ Prepare
  BY <1>1 DEF Start, Prepare
<1>2. CASE SaveManifest \/ SavePartial \/ Record
  BY <1>2 DEF Save, SaveManifest, SavePartial, Record
<1>3. CASE BeginStage \/ StageRuns \/ StageRaises \/ Collect \/ Parse
  BY <1>3 DEF StageError, Upstream, Kind, BeginStage, StageRuns, StageRaises,
    Collect, Parse
<1>4. CASE Salvage \/ Accept \/ Identify \/ Preserve \/ Interrupt
  BY <1>4, SMTT(20) DEF Salvage, Accept, Identify, Preserve, Interrupt
<1>5. CASE Conclude
  BY <1>5, <1>0 DEF Save, Artifacts, Partials, ResultFiles, Conclude
<1>6. CASE SaveResults
  BY <1>6, <1>0 DEF Save, Artifacts, Partials, ResultFiles, SaveResults
<1>7. CASE SaveReport
  BY <1>7, <1>0 DEF Save, Artifacts, Partials, ResultFiles, SaveReport
<1>8. CASE Finish
  BY <1>8, <1>0, SMTT(20) DEF Save, Artifacts, Partials, ResultFiles, Finish
<1>9. CASE Compare
  BY <1>9 DEF Code, Compare
<1>10. CASE KeepManifest
  BY <1>10, <1>0 DEF SaveOrDie, Artifacts, Partials, ResultFiles, KeepManifest
<1>11. CASE KeepResults
  BY <1>11, <1>0 DEF SaveOrDie, Artifacts, Partials, ResultFiles, KeepResults
<1>12. CASE KeepReport
  BY <1>12, <1>0, SMTT(20) DEF SaveOrDie, Artifacts, Partials, ResultFiles, KeepReport
<1>13. CASE KeepPartial
  BY <1>13, <1>0, SMTT(20) DEF SaveOrDie, Artifacts, Partials, ResultFiles, KeepPartial
<1>14. CASE UNCHANGED vars
  BY <1>14 DEF vars
<1>15. QED
  BY <1>1, <1>2, <1>3, <1>4, <1>5, <1>6, <1>7, <1>8, <1>9, <1>10, <1>11,
     <1>12, <1>13, <1>14 DEF Next

\* Every step keeps it so that a VALID result beside a failed manifest takes a failed
\* write.
LEMMA KeepStep ==
  ASSUME IInv, [Next]_vars
  PROVE  KeepInv'
<1>0. files'.results # files.results => SaveResults \/ KeepResults
  BY Written DEF IInv
<1> USE DEF IInv, TypeOK, FilesInv, KeepInv, Untouched, NoResults, Failures, Validity, At,
            Running, Goto, Quit, Raise
<1>1. CASE Start \/ SaveManifest \/ SavePartial \/ Prepare
  BY <1>1, <1>0 DEF Save, SaveResults, KeepResults, Start, SaveManifest,
    SavePartial, Prepare
<1>2. CASE BeginStage \/ StageRuns \/ StageRaises \/ Collect \/ Parse \/ Salvage
            \/ Record \/ Accept
  BY <1>2, <1>0 DEF Save, StageError, SaveResults, KeepResults, BeginStage,
    StageRuns, StageRaises, Collect, Parse, Salvage, Record, Accept
<1>3. CASE Conclude \/ Identify
  BY <1>3, <1>0 DEF Save, SaveResults, KeepResults, Conclude, Identify
<1>4. CASE SaveResults
  BY <1>4 DEF Save, Artifacts, Partials, ResultFiles, SaveResults
<1>5. CASE SaveReport \/ Finish \/ Compare
  BY <1>5, <1>0 DEF Save, Code, SaveResults, KeepResults, SaveReport, Finish,
    Compare
<1>6. CASE Preserve \/ KeepManifest
  BY <1>6, <1>0 DEF SaveOrDie, SaveResults, KeepResults, Preserve, KeepManifest
<1>7. CASE KeepResults
  BY <1>7 DEF SaveOrDie, Artifacts, Partials, ResultFiles, KeepResults
<1>8. CASE KeepReport \/ KeepPartial
  BY <1>8, <1>0 DEF SaveOrDie, SaveResults, KeepResults, KeepReport, KeepPartial
<1>9. CASE Interrupt \/ UNCHANGED vars
  BY <1>9 DEF Interrupt, vars
<1>10. QED
  BY <1>1, <1>2, <1>3, <1>4, <1>5, <1>6, <1>7, <1>8, <1>9 DEF Next

\* Every step keeps an interrupt that nothing hides on its way out.
LEMMA InterruptStep ==
  ASSUME IInv, [Next]_vars
  PROVE  InterruptInv'
<1> USE DEF IInv, TypeOK, InterruptInv, At, Running, Goto, Quit, Raise, noise
<1>1. CASE Start \/ SaveManifest \/ SavePartial \/ Prepare
  BY <1>1 DEF Save, Start, SaveManifest, SavePartial, Prepare
<1>2. CASE BeginStage \/ StageRuns \/ StageRaises
  BY <1>2 DEF BeginStage, StageRuns, StageRaises
<1>3. CASE Collect
  BY <1>3 DEF StageError, Collect
<1>4. CASE Parse \/ Salvage \/ Record \/ Accept
  BY <1>4 DEF Save, StageError, Parse, Salvage, Record, Accept
<1>5. CASE Conclude \/ Identify \/ SaveResults \/ SaveReport \/ Finish \/ Compare
  BY <1>5 DEF Save, Code, Conclude, Identify, SaveResults, SaveReport, Finish,
    Compare
<1>6. CASE Preserve \/ KeepManifest \/ KeepResults \/ KeepReport \/ KeepPartial
  BY <1>6 DEF SaveOrDie, Preserve, KeepManifest, KeepResults, KeepReport,
    KeepPartial
<1>7. CASE Interrupt \/ UNCHANGED vars
  BY <1>7 DEF Interrupt, vars
<1>8. QED
  BY <1>1, <1>2, <1>3, <1>4, <1>5, <1>6, <1>7 DEF Next

----------------------------------------------------------------------------
(* The properties.                                                         *)

\* Only SaveResults can write a result that may be ranked, and it writes what the
\* components in memory are worth.
LEMMA RankedStep ==
  ASSUME IInv, [Next]_vars
  PROVE  RankedIsEarned'
<1>1. CASE files'.results = files.results
  BY <1>1 DEF IInv, RankedIsEarned
<1>2. CASE KeepResults /\ files'.results # files.results
  <2>1. files'.results.validity = Validity
    BY <1>2 DEF KeepResults, SaveOrDie, IInv, TypeOK, Artifacts
  <2>2. QED
    BY <2>1 DEF RankedIsEarned, Validity
<1>3. CASE SaveResults /\ files'.results # files.results
  <2>1. files'.results = [validity |-> "VALID", outcome |-> Outcome(comps), comps |-> comps]
    BY <1>3 DEF SaveResults, Save, IInv, TypeOK, Artifacts
  <2>2. Len(comps) = Len(Plan) /\ Earned(Len(Plan)) /\ DOMAIN comps = 1 .. Len(Plan)
    BY <1>3 DEF SaveResults, At, IInv, StageInv, Closing, TypeOK
  <2>3. Outcome(comps) = "QUALIFIED" <=>
          \A i \in 1 .. Len(Plan) : Plan[i] # "optional" => comps[i].verdict = "pass"
    BY <2>2 DEF Outcome
  <2>4. QED
    BY <2>1, <2>2, <2>3 DEF RankedIsEarned, Earned
<1>4. QED
  BY <1>1, <1>2, <1>3, Written DEF IInv

\* Every step keeps the exit status in agreement with the artifacts.
LEMMA ExitStep ==
  ASSUME IInv, [Next]_vars
  PROVE  ExitMatchesArtifacts'
<1> USE DEF IInv, TypeOK, ExitMatchesArtifacts, At, Running, Goto, Quit, Raise
<1>1. CASE Start \/ SaveManifest \/ SavePartial \/ Prepare \/ Conclude \/ Identify
            \/ SaveResults \/ SaveReport \/ Finish
  BY <1>1 DEF Save, Start, SaveManifest, SavePartial, Prepare, Conclude, Identify,
    SaveResults, SaveReport, Finish
<1>2. CASE BeginStage \/ StageRuns \/ StageRaises \/ Collect \/ Parse \/ Salvage
            \/ Record \/ Accept
  BY <1>2 DEF Save, StageError, BeginStage, StageRuns, StageRaises, Collect, Parse,
    Salvage, Record, Accept
<1>3. CASE Compare
  BY <1>3 DEF FilesInv, Code, Closing, Compare
<1>4. CASE Preserve
  BY <1>4 DEF FilesInv, Untouched, Preserve
<1>5. CASE KeepManifest \/ KeepResults \/ KeepReport
  BY <1>5 DEF SaveOrDie, KeepManifest, KeepResults, KeepReport
<1>6. CASE KeepPartial
  <2>1. CASE exit' # 2
    BY <1>6, <2>1 DEF KeepPartial, SaveOrDie
  <2>2. CASE exit' = 2
    <3>1. /\ files'.results = files.results /\ files'.manifest = files.manifest
          /\ files'.report = files.report /\ files'.partial.status = "INFRA_ERROR"
      BY <1>6, <2>2 DEF KeepPartial, SaveOrDie, Artifacts, Partials
    <3>2. QED
      BY <1>6, <2>2, <3>1 DEF KeepPartial, FilesInv, Validity, Failures
  <2>3. QED
    BY <2>1, <2>2
<1>7. CASE Interrupt \/ UNCHANGED vars
  BY <1>7 DEF Interrupt, vars
<1>8. QED
  BY <1>1, <1>2, <1>3, <1>4, <1>5, <1>6, <1>7 DEF Next

\* A failed result stays the copy of partial-results.json that it is.
LEMMA CopyStep ==
  ASSUME IInv, [Next]_vars
  PROVE  files'.results.validity \in Failures => files'.results.comps = files'.partial.comps
<1> USE DEF IInv, HeldInv
<1>1. CASE files'.results = files.results /\ files'.partial.comps = files.partial.comps
  BY <1>1
<1>2. CASE SavePartial \/ Record
  <2>1. files'.results = files.results /\ files.results.validity \notin Failures
    BY <1>2, Written DEF SavePartial, Record, At, KeepInv, SaveResults, KeepResults
  <2>2. QED
    BY <2>1
<1>3. CASE SaveResults
  <2>1. files'.results.validity \in {files.results.validity, "VALID"}
    BY <1>3 DEF SaveResults, Save, TypeOK, Artifacts
  <2>2. files.results.validity \notin Failures
    BY <1>3 DEF SaveResults, At, KeepInv
  <2>3. QED
    BY <2>1, <2>2 DEF Failures
<1>4. CASE KeepResults
  BY <1>4 DEF KeepResults, SaveOrDie, TypeOK, Artifacts
<1>5. QED
  BY <1>1, <1>2, <1>3, <1>4, Written

\* One more component is the current stage's, and the others are recorded as before.
LEMMA HeldWithOneMore ==
  ASSUME TypeOK, HeldInv, NEW x, comps' = Append(comps, x), at > 0, Len(comps) = at - 1,
         UNCHANGED at, files' = files
  PROVE  /\ \A i \in 1 .. Len(comps') : Recorded(i)' \/ \A j \in i .. at - 1 : Together(j)
         /\ Together(at) => \A i \in 1 .. Len(comps') : Recorded(i)' \/ \A j \in i .. at : Together(j)
<1>1. comps \in Seq(Components) /\ at \in Nat
  BY PlanAssumption DEF TypeOK
<1>2. Len(comps') = at /\ \A i \in 1 .. at - 1 : comps'[i] = comps[i]
  BY <1>1
<1>3. \A i \in 1 .. at - 1 : Recorded(i)' \/ \A j \in i .. at - 1 : Together(j)
  BY <1>1, <1>2 DEF HeldInv, Recorded
<1>4. \A j \in at .. at - 1 : Together(j)
  BY <1>1
<1>5. \A i \in 1 .. at : Recorded(i)' \/ \A j \in i .. at - 1 : Together(j)
  BY <1>1, <1>3, <1>4
<1>6. \A i \in 1 .. at : (\A j \in i .. at - 1 : Together(j)) /\ Together(at)
                         => \A j \in i .. at : Together(j)
  BY <1>1
<1>7. QED
  BY <1>2, <1>5, <1>6

\* Every step keeps in partial-results.json what a later failure must not lose.
LEMMA HeldStep ==
  ASSUME IInv, [Next]_vars
  PROVE  HeldInv'
<1>0. /\ files'.partial.comps # files.partial.comps => SavePartial \/ Record
      /\ files'.results.validity \in Failures => files'.results.comps = files'.partial.comps
  BY Written, CopyStep DEF IInv
<1>1. comps \in Seq(Components) /\ at \in Nat
  BY PlanAssumption DEF IInv, TypeOK
<1> USE <1>0, <1>1 DEF IInv, At, Goto, Quit, Raise, stage
<1>2. CASE BeginStage
  <2>1. at' = at + 1 /\ pc' = "running" /\ comps' = comps /\ files' = files
    BY <1>2 DEF BeginStage
  <2>2. \A i \in 1 .. Len(comps) : Recorded(i) \/ \A j \in i .. at' - 1 : Together(j)
    BY <1>2, <2>1 DEF BeginStage, HeldInv
  <2>3. QED
    BY <2>1, <2>2 DEF HeldInv, Recorded
<1>3. CASE Parse
  <2>1. at > 0 /\ Len(comps) = at - 1
    BY <1>3 DEF Parse, StageInv, InStage
  <2>2. CASE comps' = Append(comps, current) /\ Goto(IF Together(at) THEN "ready" ELSE "record")
    <3>1. UNCHANGED at /\ files' = files /\ (pc' = "ready" => Together(at)) /\ pc' # "recorded"
      BY <1>3, <2>2 DEF Parse
    <3>2. QED
      BY <2>1, <2>2, <3>1, HeldWithOneMore DEF HeldInv
  <2>3. CASE UNCHANGED comps /\ \E k \in {"caught", "other"} : StageError(k)
    <3>1. UNCHANGED at /\ files' = files /\ pc' \notin {"ready", "recorded"}
      BY <1>3, <2>3 DEF Parse, StageError
    <3>2. QED
      BY <2>3, <3>1 DEF HeldInv, Recorded
  <2>4. QED
    BY <1>3, <2>2, <2>3 DEF Parse
<1>4. CASE Salvage
  <2>1. at > 0 /\ Len(comps) = at - 1 /\ UNCHANGED at /\ files' = files
        /\ pc' \notin {"ready", "recorded"}
    BY <1>4 DEF Salvage, StageInv, InStage
  <2>2. CASE comps' = Append(comps, Unmeasured)
    BY <2>1, <2>2, HeldWithOneMore DEF HeldInv
  <2>3. CASE comps' = comps
    BY <2>1, <2>3 DEF HeldInv, Recorded
  <2>4. QED
    BY <1>4, <2>2, <2>3 DEF Salvage
<1>5. CASE Record
  <2>1. UNCHANGED stage /\ pc' # "ready" /\ files' \in {files, [files EXCEPT !.partial.comps = comps]}
    BY <1>5 DEF Record, Save
  <2>2. pc' = "recorded" => files' = [files EXCEPT !.partial.comps = comps]
    BY <1>5 DEF Record, Save
  <2>3. files' = [files EXCEPT !.partial.comps = comps] => files'.partial.comps = comps
    BY DEF TypeOK, Artifacts, Partials
  <2>4. files'.partial.comps = comps => \A i \in 1 .. Len(comps) : Recorded(i)'
    BY <2>1 DEF Recorded
  <2>5. files' = files => \A i \in 1 .. Len(comps) : Recorded(i)' <=> Recorded(i)
    BY <2>1 DEF Recorded
  <2>6. QED
    BY <2>1, <2>2, <2>3, <2>4, <2>5 DEF HeldInv
<1>6. CASE Accept
  BY <1>6 DEF Accept, HeldInv, Recorded
<1>7. CASE Start \/ SaveManifest \/ SavePartial \/ Prepare
  <2>1. comps = <<>> /\ UNCHANGED stage
    BY <1>7 DEF Start, SaveManifest, SavePartial, Prepare, StageInv
  <2>2. QED
    BY <2>1 DEF HeldInv
<1>8. CASE StageRuns \/ StageRaises \/ Collect \/ Interrupt \/ Conclude \/ Identify
            \/ SaveResults \/ SaveReport \/ Finish \/ Compare \/ Preserve \/ KeepManifest
            \/ KeepResults \/ KeepReport \/ KeepPartial \/ UNCHANGED vars
  <2>1. UNCHANGED <<at, comps>> /\ (pc' \in {"ready", "recorded"} => pc' = pc)
    BY <1>8 DEF StageRuns, StageRaises, Collect, StageError, Interrupt, Conclude, Identify,
         SaveResults, SaveReport, Finish, Compare, Preserve, KeepManifest, KeepResults,
         KeepReport, KeepPartial, Save, SaveOrDie, vars
  <2>2. files'.partial.comps = files.partial.comps
    BY <1>8, <2>1 DEF SavePartial, Record, StageRuns, StageRaises, Collect, Interrupt, Conclude,
         Identify, SaveResults, SaveReport, Finish, Compare, Preserve, KeepManifest,
         KeepResults, KeepReport, KeepPartial, vars
  <2>3. \A i \in 1 .. Len(comps) : Recorded(i)' <=> Recorded(i)
    BY <2>1, <2>2 DEF Recorded
  <2>4. QED
    BY <2>1, <2>3 DEF HeldInv
<1>9. QED
  BY <1>2, <1>3, <1>4, <1>5, <1>6, <1>7, <1>8 DEF Next

\* Every step keeps the reports of a single fault consistent.
LEMMA FaultStep ==
  ASSUME IInv, [Next]_vars
  PROVE  OneFaultIsConsistent'
<1>0. /\ KeepInv'
      /\ files'.results # files.results => SaveResults \/ KeepResults
  BY KeepStep, Written DEF IInv
<1> USE DEF IInv, TypeOK, OneFaultIsConsistent, At, Running, Goto, Quit, Raise, noise
<1>1. CASE Start \/ SaveManifest \/ SavePartial \/ Prepare \/ Conclude \/ Identify
  BY <1>1, <1>0 DEF Save, KeepInv, FilesInv, Untouched, NoResults, Start,
    SaveManifest, SavePartial, Prepare, Conclude, Identify
<1>2. CASE BeginStage \/ StageRuns \/ StageRaises \/ Collect \/ Parse \/ Salvage
            \/ Record \/ Accept
  BY <1>2, <1>0 DEF Save, StageError, KeepInv, BeginStage, StageRuns, StageRaises,
    Collect, Parse, Salvage, Record, Accept
<1>3. CASE SaveResults \/ SaveReport \/ Finish
  BY <1>3 DEF Save, SaveResults, SaveReport, Finish
<1>4. CASE Compare
  BY <1>4 DEF FilesInv, Closing, Compare
<1>5. CASE Preserve
  BY <1>5 DEF FilesInv, Untouched, NoResults, Preserve
<1>6. CASE KeepManifest
  BY <1>6, <1>0 DEF SaveOrDie, KeepInv, SaveResults, KeepResults, KeepManifest
<1>7. CASE KeepResults
  BY <1>7 DEF SaveOrDie, KeepInv, Validity, Artifacts, ResultFiles, KeepResults
<1>8. CASE KeepReport \/ KeepPartial
  BY <1>8, <1>0 DEF SaveOrDie, FilesInv, Validity, SaveResults, KeepResults,
    KeepReport, KeepPartial
<1>9. CASE Interrupt
  BY <1>9 DEF KeepInv, FilesInv, Closing, Interrupt
<1>10. CASE UNCHANGED vars
  BY <1>10 DEF vars
<1>11. QED
  BY <1>1, <1>2, <1>3, <1>4, <1>5, <1>6, <1>7, <1>8, <1>9, <1>10 DEF Next

\* The inductive invariant holds when the qualification starts.
LEMMA InitInv == Init => IInv
<1> SUFFICES ASSUME Init PROVE IInv
  OBVIOUS
<1>1. files \in Artifacts
  BY DEF Init, Artifacts, Partials, ResultFiles, NoPartial, NoResults
<1>2. current \in Components
  BY Zenon DEF Init, Unmeasured, Components, Verdicts
<1>3. context \in BOOLEAN /\ masked \in BOOLEAN
  BY Zenon DEF Init
<1>4. TypeOK
  BY <1>1, <1>2, <1>3, PlanAssumption DEF Init, TypeOK, Locations
<1>5. StageInv /\ FilesInv /\ KeepInv /\ InterruptInv
  BY DEF Init, StageInv, InStage, FilesInv, Closing, Untouched, NoResults, NoPartial,
         KeepInv, InterruptInv, Failures
<1>6. HeldInv /\ RankedIsEarned /\ ExitMatchesArtifacts /\ OneFaultIsConsistent
  BY DEF Init, HeldInv, RankedIsEarned, ExitMatchesArtifacts, OneFaultIsConsistent, NoResults,
         Failures
<1>7. QED
  BY <1>4, <1>5, <1>6 DEF IInv

\* Every step keeps the inductive invariant.
LEMMA InvStep == IInv /\ [Next]_vars => IInv'
  BY TypeStep, StageStep, FilesStep, KeepStep, InterruptStep, RankedStep, ExitStep,
     HeldStep, FaultStep DEF IInv

----------------------------------------------------------------------------
\* The invariant holds of every reachable state.
THEOREM Invariance == Spec => []IInv
  BY InitInv, InvStep, PTL DEF Spec

\* The command and its artifacts keep their shapes, whatever is raised.
THEOREM TypeCorrect == Spec => []TypeOK
<1>1. IInv => TypeOK
  BY DEF IInv
<1>2. QED
  BY <1>1, Invariance, PTL

\* Only a run in which every stage was measured and every required one observed
\* leaves a result that can be ranked, whatever fails and whatever is interrupted.
THEOREM RankedOnlyIfEarned == Spec => []RankedIsEarned
<1>1. IInv => RankedIsEarned
  BY DEF IInv
<1>2. QED
  BY <1>1, Invariance, PTL

\* Exit statuses 0 and 2 agree with all four artifacts.
THEOREM ExitAgrees == Spec => []ExitMatchesArtifacts
<1>1. IInv => ExitMatchesArtifacts
  BY DEF IInv
<1>2. QED
  BY <1>1, Invariance, PTL

\* Whatever fails and wherever, a failure costs at most the stage it strikes.
THEOREM EarlierStagesArePreserved == Spec => []FailureKeepsEarlierStages
<1>1. IInv => FailureKeepsEarlierStages
  BY DEF IInv, HeldInv, Recorded, FailureKeepsEarlierStages
<1>2. QED
  BY <1>1, Invariance, PTL

\* One disturbance never leaves a ranked result beside a failed manifest.
THEOREM OneFaultIsHandled == Spec => []OneFaultIsConsistent
<1>1. IInv => OneFaultIsConsistent
  BY DEF IInv
<1>2. QED
  BY <1>1, Invariance, PTL

\* After an interruption that nothing hides, no artifact is written.
THEOREM InterruptsFreeze == Spec => InterruptFreezesArtifacts
<1>1. ASSUME IInv, Next, interrupts > 0, ~masked
      PROVE  UNCHANGED files
  <2>1. Running => pc = "collect"
    BY <1>1 DEF IInv, InterruptInv
  <2>2. QED
    BY <1>1, <2>1 DEF Next, At, Start, SaveManifest, SavePartial, Prepare, BeginStage,
           StageRuns, StageRaises, Collect, Parse, Salvage, Record, Accept, Conclude,
           Identify, SaveResults, SaveReport, Finish, Compare, Preserve, KeepManifest,
           KeepResults, KeepReport, KeepPartial, Interrupt
<1>2. IInv /\ [Next]_vars => [interrupts > 0 /\ ~masked => UNCHANGED files]_vars
  BY <1>1
<1>3. QED
  BY <1>2, Invariance, PTL DEF Spec, InterruptFreezesArtifacts

----------------------------------------------------------------------------
(* The setups: what a caller may rely on between two of its steps.         *)

SetupStep(c) == CommandStep(c) \/ (Cut(c) /\ troubles' \in Nat)

Owns(c) == caller[c].at \in {"cloning", "select"}
OwnsPath(c, p) == Owns(c) /\ Entry(c).path = p
Rows(c) == 1 .. Len(Lock(c))
AtPin(c, i) == dir[Lock(c)[i].path] = Lock(c)[i].commit
Present(c, i) == dir[Lock(c)[i].path] # Absent

IndexInv ==
  \A c \in Callers :
    /\ caller[c].at \in {"clone", "cloning", "select"} => caller[c].i \in Rows(c)
    /\ caller[c].at = "moving" => caller[c].i \in 1 .. Items

\* A directory is cloned by one caller at a time, and is broken as long.
OwnInv ==
  \A c \in Callers : Owns(c) =>
    /\ dir[Entry(c).path] = Broken
    /\ \A o \in Callers \ {c} : ~OwnsPath(o, Entry(c).path)

\* What was validated is still at its commit.
PinInv ==
  \A c \in Callers :
    /\ caller[c].at = "validate" => \A i \in Rows(c) : i < caller[c].i => AtPin(c, i)
    /\ caller[c].at \in {"pip", "moving", "browser", "ready"} => \A i \in Rows(c) : AtPin(c, i)

\* Without an overlap one caller is at it,
AloneInv ==
  ~overlap => \A c, o \in Callers : Inside(c) /\ Inside(o) => c = o

\* pip runs before anybody relies on the packages, one item after the other, and what it
\* left is complete when it is accepted, unless it was cut short at the wrong moment,
Installing(c) == caller[c].at \in {"pip", "moving"}
Relying(c) == caller[c].at \in {"browser", "ready"}
Installed(n) == \A k \in 1 .. Items : k < n => k \in deps
DepsInv ==
  ~overlap =>
    /\ \A c \in Callers :
         /\ Relying(c) => Accepted
         /\ Installing(c) => Installed(caller[c].i) /\ \A o \in Callers : ~Relying(o)
    /\ ~hollow /\ Accepted => Complete \/ \E c \in Callers : Installing(c)

\* a directory that was found stays there,
PresentInv ==
  ~overlap => \A c \in Callers :
    /\ caller[c].at \in {"look", "clone", "cloning", "select"} =>
         \A i \in Rows(c) : i < caller[c].i => Present(c, i)
    /\ caller[c].at = "validate" => \A i \in Rows(c) : Present(c, i)

\* and one that was refused stays refused.
Refused(c, i) ==
  \/ dir[Lock(c)[i].path] \in Commits \ {Lock(c)[i].commit}
  \/ dir[Lock(c)[i].path] = Broken /\ \A o \in Callers : ~OwnsPath(o, Lock(c)[i].path)
RefusedInv ==
  ~overlap => \A c \in Callers :
    caller[c].at = "refused" /\ caller[c].setup => \E i \in Rows(c) : Refused(c, i)

SetupInv ==
  /\ SetupTypeOK /\ IndexInv /\ OwnInv /\ PinInv
  /\ AloneInv /\ DepsInv /\ PresentInv /\ RefusedInv

\* The entry a caller is at is one of its lock file, with a path and a commit.
LEMMA EntryIs ==
  ASSUME SetupTypeOK, IndexInv, NEW c \in Callers,
         caller[c].at \in {"clone", "cloning", "select"}
  PROVE  Entry(c) \in Entries /\ Entry(c).path \in Paths /\ Entry(c).commit \in Commits
<1>1. caller[c].lock \in Seq(Entries) /\ caller[c].i \in 1 .. Len(caller[c].lock)
  BY DEF SetupTypeOK, CallerStates, IndexInv, Rows, Lock
<1>2. Entry(c) \in Entries
  BY <1>1 DEF Entry, Lock
<1>3. QED
  BY <1>2 DEF Entries

\* Moving a caller changes where it is, and nothing else about it.
LEMMA Moving ==
  ASSUME SetupTypeOK, NEW c \in Callers, NEW l \in Stations, NEW n \in Nat \ {0}, Move(c, l, n)
  PROVE  /\ caller' \in [Callers -> CallerStates]
         /\ \A o \in Callers \ {c} : caller'[o] = caller[o]
         /\ caller'[c].at = l /\ caller'[c].i = n
         /\ caller'[c].lock = caller[c].lock /\ caller'[c].setup = caller[c].setup
<1>1. caller[c] \in CallerStates
  BY DEF SetupTypeOK
<1>2. caller'[c] = [caller[c] EXCEPT !.at = l, !.i = n]
  BY DEF SetupTypeOK, Move
<1>3. caller'[c] \in CallerStates
  BY <1>1, <1>2 DEF CallerStates
<1>4. QED
  BY <1>1, <1>2, <1>3 DEF SetupTypeOK, Move, CallerStates

\* A caller's step leaves the others' places alone, and keeps its lock once it has begun.
LEMMA Places ==
  ASSUME SetupInv, NEW c \in Callers, SetupStep(c)
  PROVE  /\ caller' \in [Callers -> CallerStates]
         /\ \A o \in Callers \ {c} : caller'[o] = caller[o]
         /\ caller'[c].at # "idle"
         /\ Begin(c) \/ (Inside(c) /\ overlap' = overlap /\ caller'[c].setup = caller[c].setup
                         /\ caller'[c].lock = caller[c].lock)
<1>1. SetupTypeOK /\ caller[c] \in CallerStates /\ caller[c].i \in Nat \ {0}
  BY DEF SetupInv, SetupTypeOK, CallerStates
<1>2. CASE Begin(c)
  <2>1. PICK l \in Locks[c], s \in BOOLEAN :
          caller' = [caller EXCEPT ![c] = [at |-> "look", lock |-> l, i |-> 1, setup |-> s]]
    BY <1>2 DEF Begin
  <2>2. l \in Seq(Entries)
    BY SetupAssumption DEF Entries
  <2>3. [at |-> "look", lock |-> l, i |-> 1, setup |-> s] \in CallerStates
    BY <2>2 DEF CallerStates, Stations
  <2>4. QED
    BY <1>1, <1>2, <2>1, <2>3 DEF SetupTypeOK
<1>3. ASSUME ~Begin(c)
      PROVE  /\ Inside(c) /\ overlap' = overlap
             /\ \E l \in Stations \ {"idle"}, n \in Nat \ {0} : Move(c, l, n)
  <2>1. 1 \in Nat \ {0} /\ caller[c].i + 1 \in Nat \ {0}
    BY <1>1
  <2>2. /\ AtCommand(c) => Inside(c)
        /\ \A l \in Stations \ (Ended \cup {"idle"}) : CallerAt(c, l) => Inside(c)
    BY DEF AtCommand, Inside, Ended, CallerAt, Stations
  <2>3. CASE Look(c) \/ Looked(c) \/ Clone(c) \/ Cloned(c) \/ Select(c) \/ Validate(c)
    BY <1>1, <2>1, <2>2, <2>3
       DEF Look, Looked, Clone, Cloned, Select, Validate, Stations, Ended, Here, Quiet
  <2>4. CASE ReadDependencies(c) \/ PipRemoves(c) \/ PipMoves(c) \/ Reread(c) \/ FindBrowser(c)
    BY <1>1, <2>1, <2>2, <2>4
       DEF ReadDependencies, PipRemoves, PipMoves, Reread, FindBrowser, Stations, Ended, Here,
           Quiet
  <2>5. CASE CommandFails(c) \/ CommandTimesOut(c) \/ (Cut(c) /\ troubles' \in Nat)
    BY <1>1, <2>1, <2>2, <2>5 DEF CommandFails, CommandTimesOut, Cut, Trouble, Stations, Ended
  <2>6. QED
    BY <1>3, <2>3, <2>4, <2>5 DEF SetupStep, CommandStep
<1>4. QED
  BY <1>1, <1>2, <1>3, Moving

\* What a step does to the directories: one is begun, selected or removed, by its owner.
LEMMA Directories ==
  ASSUME SetupInv, NEW c \in Callers, SetupStep(c)
  PROVE  \/ dir' = dir
         \/ /\ Clone(c) /\ Entry(c).path \in Paths /\ dir[Entry(c).path] = Absent
            /\ dir' = [dir EXCEPT ![Entry(c).path] = Broken]
            /\ caller'[c].at = "cloning" /\ caller'[c].i = caller[c].i
         \/ /\ Select(c) /\ Entry(c) \in Entries
            /\ dir[Entry(c).path] = Broken
            /\ dir' = [dir EXCEPT ![Entry(c).path] = Entry(c).commit]
         \/ /\ caller[c].at = "cloning" /\ caller'[c].at \in {"failed", "cut"}
            /\ Entry(c).path \in Paths /\ dir[Entry(c).path] = Broken
            /\ dir' = [dir EXCEPT ![Entry(c).path] = Absent]
<1>1. SetupTypeOK /\ caller[c].i \in Nat \ {0}
  BY DEF SetupInv, SetupTypeOK, CallerStates
<1>2. caller[c].at \in {"clone", "cloning", "select"} =>
        Entry(c) \in Entries /\ Entry(c).path \in Paths
  BY EntryIs DEF SetupInv
<1>3. caller[c].at \in {"cloning", "select"} => dir[Entry(c).path] = Broken
  BY DEF SetupInv, OwnInv, Owns
<1>4. \A l \in Stations, n \in Nat \ {0} :
        Move(c, l, n) => caller'[c].at = l /\ caller'[c].i = n
  BY <1>1, Moving
<1>5. CASE dir' = dir
  BY <1>5
<1>6. CASE Clone(c)
  BY <1>1, <1>2, <1>4, <1>6 DEF Clone, CallerAt, Here, Stations, Ended
<1>7. CASE Select(c)
  BY <1>2, <1>3, <1>7 DEF Select, CallerAt
<1>8. CASE CommandFails(c)
  BY <1>1, <1>2, <1>3, <1>4, <1>8 DEF CommandFails, CallerAt, Stations, Ended
<1>9. CASE Cut(c)
  BY <1>1, <1>2, <1>3, <1>4, <1>9 DEF Cut, CallerAt, Stations, Ended
<1>10. QED
  BY <1>5, <1>6, <1>7, <1>8, <1>9
     DEF SetupStep, CommandStep, Begin, Look, Looked, Cloned, Validate, ReadDependencies,
         PipRemoves, PipMoves, Reread, FindBrowser, CommandTimesOut, world

\* Where a caller gets to, and from where.
Arrival(c) ==
  LET from == caller[c].at  i == caller[c].i  to == caller'[c].at  j == caller'[c].i
      same == dir' = dir /\ deps' = deps
  IN  /\ to \in {"failed", "raised", "cut"} => deps' = deps
      /\ to = "clone" => same /\ from = "look" /\ j = i /\ i <= Len(Lock(c))
      /\ to = "cloning" =>
           /\ deps' = deps /\ from = "clone" /\ j = i /\ dir[Entry(c).path] = Absent
           /\ dir' = [dir EXCEPT ![Entry(c).path] = Broken]
      /\ to = "select" => same /\ from = "cloning" /\ j = i
      /\ to = "look" =>
           /\ deps' = deps
           /\ \/ Begin(c) /\ j = 1 /\ dir' = dir
              \/ from = "look" /\ j = i + 1 /\ i <= Len(Lock(c)) /\ Present(c, i) /\ dir' = dir
              \/ from = "select" /\ j = i + 1 /\ Select(c)
      /\ to = "validate" =>
           /\ same
           /\ \/ from = "look" /\ i > Len(Lock(c)) /\ j = 1
              \/ from = "validate" /\ i <= Len(Lock(c)) /\ AtPin(c, i) /\ j = i + 1
      /\ to = "pip" =>
           /\ dir' = dir
           /\ \/ from = "validate" /\ i > Len(Lock(c)) /\ ~Accepted /\ j = 1 /\ deps' = deps
              \/ from = "moving" /\ j = i + 1 /\ deps' = deps \cup {i}
      /\ to = "moving" => dir' = dir /\ from = "pip" /\ i <= Items /\ j = i /\ deps' = deps \ {i}
      /\ to = "browser" =>
           /\ same /\ Accepted
           /\ (from = "pip" /\ i > Items) \/ (from = "validate" /\ i > Len(Lock(c)))
      /\ to = "ready" => same /\ from = "browser"
      /\ to = "refused" =>
           /\ same
           /\ \/ from \in {"look", "validate"} /\ ~caller[c].setup
              \/ from = "validate" /\ i <= Len(Lock(c)) /\ ~AtPin(c, i)
              \/ from = "pip" /\ i > Items /\ ~Accepted

\* Every step of the setup arrives where it does in one of the ways that the next lemmas
\* split on.
LEMMA Arriving ==
  ASSUME SetupInv, NEW c \in Callers, SetupStep(c)
  PROVE  Arrival(c)
<1>1. SetupTypeOK /\ caller[c].i \in Nat \ {0}
  BY DEF SetupInv, SetupTypeOK, CallerStates
<1>2. \A l \in Stations, n \in Nat \ {0} :
        Move(c, l, n) => caller'[c].at = l /\ caller'[c].i = n
  BY <1>1, Moving
<1>3. 1 \in Nat \ {0} /\ caller[c].i + 1 \in Nat \ {0}
  BY <1>1
<1> USE <1>1, <1>2, <1>3 DEF Arrival, CallerAt, Here, world, Stations, Ended
<1>4. CASE Begin(c)
  <2>1. caller'[c].at = "look" /\ caller'[c].i = 1
    BY <1>4 DEF Begin, SetupTypeOK
  <2>2. QED
    BY <1>4, <2>1 DEF Begin
<1>5. CASE Look(c)
  BY <1>5 DEF Look, Entry, Present
<1>6. CASE Looked(c) \/ Cloned(c)
  BY <1>6 DEF Looked, Cloned
<1>7. CASE Clone(c)
  BY <1>7 DEF Clone
<1>8. CASE Select(c)
  <2>1. caller'[c].at = "look" /\ caller'[c].i = caller[c].i + 1
    BY <1>8 DEF Select
  <2>2. QED
    BY <1>8, <2>1 DEF Select
<1>9. CASE Validate(c)
  BY <1>9 DEF Validate, AtPin, Entry
<1>10. CASE ReadDependencies(c)
  BY <1>10 DEF ReadDependencies
<1>11. CASE PipRemoves(c)
  BY <1>11 DEF PipRemoves
<1>12. CASE PipMoves(c)
  BY <1>12 DEF PipMoves
<1>13. CASE Reread(c) \/ FindBrowser(c)
  BY <1>13 DEF Reread, FindBrowser
<1>14. CASE CommandFails(c) \/ CommandTimesOut(c) \/ (Cut(c) /\ troubles' \in Nat)
  BY <1>14 DEF CommandFails, CommandTimesOut, Cut, Trouble
<1>15. QED
  BY <1>4, <1>5, <1>6, <1>7, <1>8, <1>9, <1>10, <1>11, <1>12, <1>13, <1>14
     DEF SetupStep, CommandStep

\* A pip that comes to an early end, and no other step, may leave packages that look complete.
LEMMA EarlyEnds ==
  ASSUME SetupInv, NEW c \in Callers, SetupStep(c)
  PROVE  \/ hollow' = hollow /\ ~(caller[c].at \in {"pip", "moving"} /\ caller'[c].at \in {"failed", "raised", "cut"})
         \/ hollow' = (hollow \/ (caller[c].at \in {"pip", "moving"} /\ Accepted /\ ~Complete))
<1>1. SetupTypeOK /\ caller[c].i \in Nat \ {0}
  BY DEF SetupInv, SetupTypeOK, CallerStates
<1>2. CASE CommandFails(c) \/ CommandTimesOut(c) \/ Cut(c)
  BY <1>2 DEF CommandFails, CommandTimesOut, Cut, LeavesOff
<1>3. CASE ~(CommandFails(c) \/ CommandTimesOut(c) \/ Cut(c))
  <2>1. hollow' = hollow
    BY <1>3 DEF SetupStep, CommandStep, Begin, Look, Looked, Clone, Cloned, Select, Validate,
         ReadDependencies, PipRemoves, PipMoves, Reread, FindBrowser, Quiet
  <2>2. ASSUME caller[c].at \in {"pip", "moving"}
        PROVE  caller'[c].at \in {"pip", "moving", "browser", "refused"}
    <3>1. PipRemoves(c) \/ PipMoves(c) \/ Reread(c)
      BY <1>3, <2>2 DEF SetupStep, CommandStep, Begin, Look, Looked, Clone, Cloned, Select,
           Validate, ReadDependencies, FindBrowser, CallerAt
    <3>2. \A l \in Stations, n \in Nat \ {0} : Move(c, l, n) => caller'[c].at = l
      BY <1>1, Moving
    <3>3. QED
      BY <1>1, <3>1, <3>2 DEF PipRemoves, PipMoves, Reread, Here, Stations, Ended
  <2>3. QED
    BY <2>1, <2>2
<1>4. QED
  BY <1>2, <1>3

\* Every step of the setup keeps its types.
LEMMA SetupTypeStep ==
  ASSUME SetupInv, NEW c \in Callers, SetupStep(c)
  PROVE  SetupTypeOK'
<1>1. caller' \in [Callers -> CallerStates]
  BY Places
<1>2. SetupTypeOK /\ caller[c].i \in Nat \ {0}
  BY DEF SetupInv, SetupTypeOK, CallerStates
<1>3. dir' \in [Paths -> Commits \cup {Absent, Broken}]
  BY <1>2, Directories DEF SetupTypeOK, Entries
<1>4. deps' \subseteq 1 .. Items
  <2>1. caller[c].at = "moving" => caller[c].i \in 1 .. Items
    BY DEF SetupInv, IndexInv
  <2>2. caller'[c].at \in Stations \ {"idle"}
    BY <1>1, Places DEF CallerStates
  <2>3. deps' = deps \/ deps' = deps \ {caller[c].i}
        \/ (caller[c].at = "moving" /\ deps' = deps \cup {caller[c].i})
    BY <2>2, Arriving DEF Arrival, Stations, Ended
  <2>4. QED
    BY <1>2, <2>1, <2>3 DEF SetupTypeOK
<1>5. troubles' \in Nat
  BY <1>2 DEF SetupTypeOK, SetupStep, CommandStep, Begin, Look, Looked, Clone, Cloned, Select,
       Validate, ReadDependencies, PipRemoves, PipMoves, Reread, FindBrowser, CommandFails,
       CommandTimesOut, Quiet, Trouble
<1>6. hollow' \in BOOLEAN
  BY <1>2, EarlyEnds DEF SetupTypeOK
<1>7. overlap' \in BOOLEAN
  <2>1. CASE Begin(c)
    BY <1>2, <2>1 DEF Begin, SetupTypeOK
  <2>2. CASE overlap' = overlap
    BY <1>2, <2>2 DEF SetupTypeOK
  <2>3. QED
    BY <2>1, <2>2, Places
<1>8. QED
  BY <1>1, <1>3, <1>4, <1>5, <1>6, <1>7 DEF SetupTypeOK

\* Every step of the setup keeps each caller's place within its lock file and the
\* packages.
LEMMA IndexStep ==
  ASSUME SetupInv, NEW c \in Callers, SetupStep(c)
  PROVE  IndexInv'
<1> SUFFICES ASSUME NEW o \in Callers
             PROVE  /\ caller'[o].at \in {"clone", "cloning", "select"} => caller'[o].i \in Rows(o)'
                    /\ caller'[o].at = "moving" => caller'[o].i \in 1 .. Items
  BY DEF IndexInv
<1>1. CASE o # c
  BY <1>1, Places DEF SetupInv, IndexInv, Rows, Lock
<1>2. CASE o = c
  <2>1. /\ caller[c].i \in Nat \ {0} /\ caller[c].lock \in Seq(Entries) /\ Items \in Nat
        /\ caller[c].at \in {"clone", "cloning", "select"} => caller[c].i \in Rows(c)
    BY SetupAssumption DEF SetupInv, SetupTypeOK, CallerStates, IndexInv
  <2>2. CASE caller'[c].at \in {"clone", "cloning", "select"}
    <3>1. caller'[c].i = caller[c].i /\ caller[c].i \in Rows(c)
      BY <2>1, <2>2, Arriving DEF Arrival, Rows, Lock
    <3>2. ~Begin(c)
      BY <2>2 DEF Begin, SetupInv, SetupTypeOK
    <3>3. caller'[c].lock = caller[c].lock
      BY <3>2, Places
    <3>4. QED
      BY <1>2, <2>2, <3>1, <3>3 DEF Rows, Lock
  <2>3. CASE caller'[c].at = "moving"
    BY <1>2, <2>1, <2>3, Arriving DEF Arrival
  <2>4. QED
    BY <1>2, <2>2, <2>3
<1>3. QED
  BY <1>1, <1>2

\* Beginning to own a directory takes one that is absent, and only its owner makes a
\* broken one anything else.
LEMMA OwnStep ==
  ASSUME SetupInv, NEW c \in Callers, SetupStep(c)
  PROVE  OwnInv'
<1> SUFFICES ASSUME NEW d \in Callers, Owns(d)'
             PROVE  /\ (dir[Entry(d).path] = Broken)'
                    /\ \A o \in Callers \ {d} : ~OwnsPath(o, Entry(d).path)'
  BY DEF OwnInv, OwnsPath
<1>1. /\ SetupTypeOK /\ IndexInv /\ OwnInv
      /\ \A o \in Callers \ {c} : /\ Owns(o)' <=> Owns(o)
                                  /\ Entry(o)' = Entry(o)
  BY Places DEF SetupInv, Owns, Entry, Lock
<1>2. \A o \in Callers : Owns(o) => Entry(o).path \in Paths /\ dir[Entry(o).path] = Broken
  BY <1>1, EntryIs DEF OwnInv, Owns
<1>3. Owns(c)' => /\ Entry(c)' = Entry(c) /\ dir'[Entry(c).path] = Broken
                  /\ \/ dir[Entry(c).path] = Absent
                     \/ Owns(c) /\ dir' = dir
  <2> HAVE Owns(c)'
  <2>1. ~Begin(c) /\ caller'[c].i = caller[c].i
    BY Arriving DEF Owns, Arrival, Begin, SetupInv, SetupTypeOK
  <2>2. Entry(c)' = Entry(c)
    BY <2>1, Places DEF Entry, Lock
  <2>3. CASE caller'[c].at = "select"
    BY <1>2, <2>2, <2>3, Arriving DEF Arrival, Owns
  <2>4. CASE caller'[c].at = "cloning"
    <3>1. /\ dir[Entry(c).path] = Absent /\ Entry(c).path \in Paths
          /\ dir' = [dir EXCEPT ![Entry(c).path] = Broken]
      BY <1>1, <2>4, Arriving, EntryIs DEF Arrival
    <3>2. dir'[Entry(c).path] = Broken
      BY <1>1, <3>1 DEF SetupTypeOK
    <3>3. QED
      BY <2>2, <3>1, <3>2
  <2>5. QED
    BY <2>3, <2>4 DEF Owns
<1>4. CASE d = c
  <2>1. \A o \in Callers \ {c} : ~OwnsPath(o, Entry(c).path)
    BY <1>1, <1>2, <1>3, <1>4 DEF OwnsPath, OwnInv, Absent, Broken
  <2>2. QED
    BY <1>1, <1>3, <1>4, <2>1 DEF OwnsPath
<1>5. CASE d # c
  <2>1. Owns(d) /\ Entry(d)' = Entry(d) /\ Entry(d).path \in Paths /\ dir[Entry(d).path] = Broken
    BY <1>1, <1>2, <1>5
  <2>2. ~OwnsPath(c, Entry(d).path)
    BY <1>1, <1>5, <2>1 DEF OwnInv
  <2>3. ~OwnsPath(c, Entry(d).path)'
    BY <1>3, <2>1, <2>2 DEF OwnsPath, Absent, Broken
  <2>4. dir'[Entry(d).path] = Broken
    BY <1>1, <2>1, <2>2, Directories DEF OwnsPath, Owns, Select, CallerAt, SetupTypeOK, Absent, Broken
  <2>5. QED
    BY <1>1, <1>5, <2>1, <2>3, <2>4 DEF OwnsPath, OwnInv
<1>6. QED
  BY <1>4, <1>5

\* Nobody moves a checkout that is at a commit.
LEMMA CommitsStay ==
  ASSUME SetupInv, NEW c \in Callers, SetupStep(c), NEW p \in Paths, dir[p] \in Commits
  PROVE  dir'[p] = dir[p]
  BY Directories, SetupAssumption DEF SetupInv, SetupTypeOK

\* Every row of a caller's lock file names a path and a commit.
LEMMA RowsAre ==
  ASSUME SetupTypeOK, NEW c \in Callers, NEW i \in Rows(c)
  PROVE  Lock(c)[i].path \in Paths /\ Lock(c)[i].commit \in Commits /\ i \in Nat
<1>1. caller[c].lock \in Seq(Entries)
  BY DEF SetupTypeOK, CallerStates
<1>2. Lock(c)[i] \in Entries /\ i \in Nat
  BY <1>1 DEF Lock, Rows
<1>3. QED
  BY <1>2 DEF Entries

\* Every step of the setup keeps what was validated at its commit.
LEMMA PinStep ==
  ASSUME SetupInv, NEW c \in Callers, SetupStep(c)
  PROVE  PinInv'
<1>1. SetupTypeOK /\ PinInv
  BY DEF SetupInv
<1>2. \A o \in Callers : \A i \in Rows(o) :
        AtPin(o, i) => dir'[Lock(o)[i].path] = Lock(o)[i].commit
  BY <1>1, RowsAre, CommitsStay DEF AtPin
<1>3. ASSUME NEW o \in Callers, o # c
      PROVE  Rows(o)' = Rows(o) /\ Lock(o)' = Lock(o) /\ caller'[o] = caller[o]
  BY <1>3, Places DEF Rows, Lock
<1>4. ASSUME caller'[c].at \in {"validate", "pip", "moving", "browser", "ready"}
      PROVE  Rows(c)' = Rows(c) /\ Lock(c)' = Lock(c)
  <2>1. ~Begin(c)
    BY <1>1, <1>4 DEF Begin, SetupTypeOK
  <2>2. QED
    BY <2>1, Places DEF Rows, Lock
<1>5. caller[c].i \in Nat \ {0} /\ \A i \in Rows(c) : i \in 1 .. Len(Lock(c))
  BY <1>1 DEF SetupTypeOK, CallerStates, Rows
<1>6. caller[c].lock \in Seq(Entries) /\ Len(Lock(c)) \in Nat
  BY <1>1 DEF SetupTypeOK, CallerStates, Lock
<1>7. ASSUME caller'[c].at = "validate", NEW i \in Rows(c), i < caller'[c].i
      PROVE  AtPin(c, i)
  BY <1>1, <1>5, <1>6, <1>7, Arriving DEF Arrival, PinInv
<1>8. ASSUME caller'[c].at \in {"pip", "moving", "browser", "ready"}, NEW i \in Rows(c)
      PROVE  AtPin(c, i)
  <2>1. \/ caller[c].at = "validate" /\ caller[c].i > Len(Lock(c))
        \/ caller[c].at \in {"pip", "moving", "browser"}
    BY <1>8, Arriving DEF Arrival
  <2>2. QED
    BY <1>1, <1>5, <1>6, <2>1 DEF PinInv
<1>9. QED
  BY <1>1, <1>2, <1>3, <1>4, <1>7, <1>8 DEF PinInv, AtPin

\* Without an overlap, every step of the setup leaves one caller at it.
LEMMA AloneStep ==
  ASSUME SetupInv, NEW c \in Callers, SetupStep(c)
  PROVE  AloneInv'
<1>1. \A o \in Callers \ {c} : Inside(o)' <=> Inside(o)
  BY Places DEF Inside, Ended
<1>2. AloneInv /\ overlap \in BOOLEAN
  BY DEF SetupInv, SetupTypeOK
<1>3. CASE Begin(c)
  BY <1>1, <1>2, <1>3 DEF Begin, AloneInv
<1>4. CASE ~Begin(c)
  BY <1>1, <1>2, <1>4, Places DEF AloneInv
<1>5. QED
  BY <1>3, <1>4

\* What is true of every step while no two callers are at it.
LEMMA AloneNow ==
  ASSUME SetupInv, NEW c \in Callers, SetupStep(c), ~overlap'
  PROVE  /\ ~overlap
         /\ \A o \in Callers \ {c} : ~Inside(o) /\ ~Inside(o)' /\ caller'[o] = caller[o]
<1>1. ~overlap
  BY Places DEF Begin, SetupInv, SetupTypeOK
<1>2. \A o \in Callers \ {c} : ~Inside(o)
  <2>1. CASE Begin(c)
    BY <2>1 DEF Begin
  <2>2. CASE ~Begin(c)
    BY <1>1, <2>2, Places DEF SetupInv, AloneInv
  <2>3. QED
    BY <2>1, <2>2
<1>3. QED
  BY <1>1, <1>2, Places DEF Inside, Ended

\* Whoever has moved the last item has installed them all.
LEMMA AllInstalled ==
  ASSUME SetupTypeOK, NEW n \in Nat, n > Items, Installed(n)
  PROVE  Complete /\ Accepted
<1>1. Items \in Nat /\ Infos \subseteq 1 .. Items /\ deps \subseteq 1 .. Items
  BY SetupAssumption DEF SetupTypeOK
<1>2. \A k \in 1 .. Items : k \in deps
  BY <1>1 DEF Installed
<1>3. QED
  BY <1>1, <1>2 DEF Complete, Accepted

\* Without an overlap, every step keeps the metadata in place for whoever relies on it, and
\* everything else with it, unless a pip was cut short.
LEMMA DepsStep ==
  ASSUME SetupInv, NEW c \in Callers, SetupStep(c)
  PROVE  DepsInv'
<1> SUFFICES ASSUME ~overlap'
             PROVE  /\ \A d \in Callers :
                         /\ Relying(d)' => Accepted'
                         /\ Installing(d)' => Installed(caller[d].i)' /\ \A o \in Callers : ~Relying(o)'
                    /\ ~hollow' /\ Accepted' => Complete' \/ \E d \in Callers : Installing(d)'
  BY DEF DepsInv
<1>1. /\ SetupTypeOK /\ ~overlap /\ Items \in Nat
      /\ \A o \in Callers \ {c} : ~Inside(o) /\ caller'[o] = caller[o]
  BY AloneNow, SetupAssumption DEF SetupInv
<1>2. \A o \in Callers \ {c} : ~Installing(o) /\ ~Installing(o)' /\ (Relying(o)' <=> Relying(o))
  BY <1>1 DEF Inside, Ended, Installing, Relying
<1>3. /\ \A o \in Callers : Relying(o) => Accepted
      /\ Installing(c) => Installed(caller[c].i) /\ \A o \in Callers : ~Relying(o)
      /\ ~hollow /\ Accepted => Complete \/ Installing(c)
  BY <1>1, <1>2 DEF SetupInv, DepsInv
<1>4. caller[c].i \in Nat \ {0} /\ caller'[c].i \in Nat \ {0} /\ caller'[c].at \in Stations \ {"idle"}
  BY <1>1, Places DEF SetupTypeOK, CallerStates
<1>5. CASE Installing(c)'
  <2>1. \A o \in Callers : ~Relying(o)
    BY <1>3, <1>5, Arriving DEF Arrival, Installing
  <2>2. \A o \in Callers : ~Relying(o)'
    BY <1>2, <1>5, <2>1 DEF Installing, Relying
  <2>3. Installed(caller[c].i)'
    <3>1. CASE caller[c].at = "validate"
      BY <1>4, <1>5, <3>1, Arriving DEF Arrival, Installing, Installed
    <3>2. CASE caller[c].at # "validate"
      <4>1. Installing(c) /\ Installed(caller[c].i)
        BY <1>3, <1>5, <3>2, Arriving DEF Arrival, Installing
      <4>2. \/ caller'[c].i = caller[c].i /\ deps' = deps \ {caller[c].i}
            \/ caller'[c].i = caller[c].i + 1 /\ deps' = deps \cup {caller[c].i}
        BY <1>5, <3>2, Arriving DEF Arrival, Installing
      <4>3. QED
        BY <1>1, <1>4, <4>1, <4>2 DEF Installed
    <3>3. QED
      BY <3>1, <3>2
  <2>4. QED
    BY <1>2, <1>5, <2>2, <2>3
<1>6. CASE ~Installing(c)'
  <2>1. deps' = deps
    BY <1>4, <1>6, Arriving DEF Arrival, Stations, Ended, Installing
  <2>2. (Accepted' <=> Accepted) /\ (Complete' <=> Complete)
    BY <2>1 DEF Accepted, Complete
  <2>3. Relying(c)' => Accepted
    BY <1>3, Arriving DEF Arrival, Relying
  <2>4. ASSUME ~hollow', Accepted
        PROVE  Complete
    <3>1. CASE ~Installing(c)
      BY <1>3, <2>4, <3>1, EarlyEnds DEF Installing
    <3>2. CASE Installing(c) /\ caller'[c].at \in {"failed", "raised", "cut"}
      BY <2>4, <3>2, EarlyEnds DEF Installing
    <3>3. CASE Installing(c) /\ caller'[c].at \notin {"failed", "raised", "cut"}
      <4>1. caller[c].i > Items
        BY <1>4, <1>6, <2>4, <3>3, Arriving
           DEF Arrival, Installing, Stations, Ended, Begin, CallerAt
      <4>2. QED
        BY <1>1, <1>3, <1>4, <3>3, <4>1, AllInstalled
    <3>4. QED
      BY <3>1, <3>2, <3>3
  <2>5. QED
    BY <1>2, <1>3, <1>6, <2>2, <2>3, <2>4
<1>7. QED
  BY <1>5, <1>6

\* Without an overlap, every step keeps in place the directories that a caller has
\* found.
LEMMA PresentStep ==
  ASSUME SetupInv, NEW c \in Callers, SetupStep(c)
  PROVE  PresentInv'
<1> SUFFICES ASSUME ~overlap', NEW d \in Callers
             PROVE  /\ caller'[d].at \in {"look", "clone", "cloning", "select"} =>
                         \A i \in Rows(d)' : i < caller'[d].i => Present(d, i)'
                    /\ caller'[d].at = "validate" => \A i \in Rows(d)' : Present(d, i)'
  BY DEF PresentInv
<1>1. SetupTypeOK /\ ~overlap /\ PresentInv /\ caller[c].i \in Nat \ {0}
  BY AloneNow DEF SetupInv, SetupTypeOK, CallerStates
<1>2. CASE d # c
  BY <1>2, AloneNow DEF Inside, Ended
<1>3. CASE Begin(c) /\ d = c
  <2>1. caller'[c].at = "look" /\ caller'[c].i = 1
    BY <1>1, <1>3 DEF Begin, SetupTypeOK
  <2>2. Rows(c)' \subseteq Nat \ {0}
    BY SetupTypeStep DEF Rows, Lock, SetupTypeOK, CallerStates
  <2>3. QED
    BY <1>3, <2>1, <2>2
<1>4. CASE ~Begin(c) /\ d = c
  <2>1. Rows(c)' = Rows(c) /\ Lock(c)' = Lock(c)
    BY <1>4, Places DEF Rows, Lock
  <2>2. \A i \in Rows(c) : Lock(c)[i].path \in Paths /\ i \in 1 .. Len(Lock(c))
    BY <1>1, RowsAre DEF Rows
  <2>3. ASSUME caller'[c].at \notin {"failed", "cut"}, NEW i \in Rows(c), Present(c, i)
        PROVE  Present(c, i)'
    <3>1. dir'[Lock(c)[i].path] # Absent
      BY <1>1, <2>2, <2>3, Directories, SetupAssumption
         DEF Present, SetupTypeOK, Entries, Absent, Broken
    <3>2. QED
      BY <2>1, <3>1 DEF Present
  <2>4. ASSUME caller'[c].at = "look", caller[c].at = "select", Select(c)
        PROVE  dir'[Entry(c).path] # Absent
    <3>1. Entry(c).path \in Paths /\ Entry(c).commit \in Commits
      BY <1>1, <2>4, EntryIs DEF SetupInv
    <3>2. QED
      BY <1>1, <2>4, <3>1, SetupAssumption DEF Select, SetupTypeOK
  <2>5. ASSUME caller'[c].at \in {"look", "clone", "cloning", "select"},
               NEW i \in Rows(c), i < caller'[c].i
        PROVE  Present(c, i)'
    <3>1. CASE i < caller[c].i /\ caller[c].at \in {"look", "clone", "cloning", "select"}
      BY <1>1, <2>3, <2>5, <3>1 DEF PresentInv
    <3>2. CASE ~(i < caller[c].i /\ caller[c].at \in {"look", "clone", "cloning", "select"})
      <4>1. /\ caller'[c].at = "look" /\ i = caller[c].i
            /\ \/ Present(c, i)
               \/ caller[c].at = "select" /\ Select(c)
        BY <1>1, <1>4, <2>2, <2>5, <3>2, Arriving DEF Arrival
      <4>2. QED
        BY <2>1, <2>3, <2>4, <4>1 DEF Present, Entry
    <3>3. QED
      BY <3>1, <3>2
  <2>6. ASSUME caller'[c].at = "validate", NEW i \in Rows(c)
        PROVE  Present(c, i)'
    <3>1. Present(c, i)
      BY <1>1, <2>2, <2>6, Arriving DEF Arrival, PresentInv
    <3>2. QED
      BY <2>3, <2>6, <3>1
  <2>7. QED
    BY <1>4, <2>1, <2>5, <2>6
<1>5. QED
  BY <1>2, <1>3, <1>4

\* Without an overlap, every step keeps what a caller was refused for.
LEMMA RefusedStep ==
  ASSUME SetupInv, NEW c \in Callers, SetupStep(c)
  PROVE  RefusedInv'
<1> SUFFICES ASSUME ~overlap', NEW d \in Callers, caller'[d].at = "refused", caller'[d].setup
             PROVE  \E i \in Rows(d)' : Refused(d, i)'
  BY DEF RefusedInv
<1>1. /\ SetupTypeOK /\ IndexInv /\ OwnInv /\ ~overlap
      /\ \A o \in Callers \ {c} : ~Inside(o) /\ ~Inside(o)' /\ caller'[o] = caller[o]
  BY AloneNow DEF SetupInv
<1>2. \A o \in Callers \ {c} : ~Owns(o)'
  BY <1>1 DEF Owns, Inside, Ended
<1>3. ASSUME NEW p \in Paths, dir[p] = Broken, ~OwnsPath(c, p)
      PROVE  dir'[p] = Broken /\ ~OwnsPath(c, p)'
  <2>1. dir'[p] = Broken
    BY <1>1, <1>3, Directories DEF OwnsPath, Owns, Select, CallerAt, SetupTypeOK, Absent, Broken
  <2>2. ASSUME OwnsPath(c, p)'
        PROVE  FALSE
    <3>1. ~Begin(c) /\ caller'[c].i = caller[c].i /\ caller[c].at \in {"clone", "cloning"}
      BY <1>1, <2>2, Arriving DEF OwnsPath, Owns, Arrival, Begin, SetupTypeOK
    <3>2. Entry(c)' = Entry(c)
      BY <3>1, Places DEF Entry, Lock
    <3>3. caller[c].at = "clone" /\ Entry(c).path = p
      BY <1>3, <2>2, <3>1, <3>2 DEF OwnsPath, Owns
    <3>4. ~Select(c) /\ caller'[c].at \in {"cloning", "select"} /\ CallerAt(c, "clone")
      BY <2>2, <3>3 DEF Select, CallerAt, OwnsPath, Owns
    <3>5. caller'[c].at = "cloning"
      BY <3>3, <3>4, Arriving DEF Arrival
    <3>6. QED
      BY <1>3, <3>3, <3>5, Arriving DEF Arrival, Absent, Broken
  <2>3. QED
    BY <2>1, <2>2
<1>4. CASE d # c
  <2>1. PICK i \in Rows(d) : Refused(d, i)
    BY <1>1, <1>4 DEF SetupInv, RefusedInv
  <2>2. Rows(d)' = Rows(d) /\ Lock(d)' = Lock(d) /\ Lock(d)[i].path \in Paths
    BY <1>1, <1>4, RowsAre DEF Rows, Lock
  <2>3. CASE dir[Lock(d)[i].path] \in Commits \ {Lock(d)[i].commit}
    <3>1. dir'[Lock(d)[i].path] = dir[Lock(d)[i].path]
      BY <2>2, <2>3, CommitsStay
    <3>2. QED
      BY <2>2, <2>3, <3>1 DEF Refused
  <2>4. CASE dir[Lock(d)[i].path] = Broken /\ ~OwnsPath(c, Lock(d)[i].path)
    <3>1. dir'[Lock(d)[i].path] = Broken /\ ~OwnsPath(c, Lock(d)[i].path)'
      BY <1>3, <2>2, <2>4
    <3>2. \A o \in Callers : ~(Owns(o)' /\ Entry(o)'.path = Lock(d)[i].path)
      BY <1>2, <2>2, <3>1 DEF OwnsPath
    <3>3. QED
      BY <2>2, <3>1, <3>2 DEF Refused, OwnsPath
  <2>5. QED
    BY <2>1, <2>3, <2>4 DEF Refused
<1>5. CASE d = c
  <2>1. ~Begin(c)
    BY <1>1, <1>5 DEF Begin, SetupTypeOK
  <2>2. Rows(c)' = Rows(c) /\ Lock(c)' = Lock(c) /\ caller[c].setup
    BY <1>5, <2>1, Places DEF Rows, Lock
  <2>3. caller[c].i \in Nat \ {0} /\ caller[c].lock \in Seq(Entries)
    BY <1>1 DEF SetupTypeOK, CallerStates
  <2>4. ASSUME caller[c].at = "pip", caller[c].i > Items
        PROVE  Accepted
    <3>1. Installed(caller[c].i)
      BY <1>1, <2>4 DEF SetupInv, DepsInv, Installing
    <3>2. QED
      BY <1>1, <2>3, <2>4, <3>1, AllInstalled
  <2>5. dir' = dir /\ caller[c].at = "validate" /\ caller[c].i <= Len(Lock(c)) /\ ~AtPin(c, caller[c].i)
    BY <1>5, <2>2, <2>4, Arriving DEF Arrival
  <2>6. PICK n \in Rows(c) : n = caller[c].i
    BY <2>3, <2>5 DEF Rows, Lock
  <2>7. Present(c, n) /\ ~AtPin(c, n) /\ Lock(c)[n].path \in Paths
    BY <1>1, <2>5, <2>6, RowsAre DEF SetupInv, PresentInv
  <2>8. \/ dir[Lock(c)[n].path] \in Commits \ {Lock(c)[n].commit}
        \/ dir[Lock(c)[n].path] = Broken
    BY <1>1, <2>7 DEF Present, AtPin, SetupTypeOK
  <2>9. \A o \in Callers : ~Owns(o)'
    BY <1>2, <1>5 DEF Owns
  <2>10. Refused(c, n)'
    BY <2>2, <2>5, <2>8, <2>9 DEF Refused, OwnsPath
  <2>11. QED
    BY <1>5, <2>2, <2>10
<1>6. QED
  BY <1>4, <1>5

\* Every step of the setup keeps the setup's invariant.
LEMMA SetupInvStep ==
  ASSUME SetupInv, NEW c \in Callers, SetupStep(c)
  PROVE  SetupInv'
  BY SetupTypeStep, IndexStep, OwnStep, PinStep, AloneStep, DepsStep, PresentStep, RefusedStep
     DEF SetupInv

\* A step that leaves the setup alone keeps its invariant.
LEMMA SetupInvStutter == SetupInv /\ UNCHANGED setupVars => SetupInv'
  BY DEF setupVars, SetupInv, SetupTypeOK, IndexInv, OwnInv, PinInv, AloneInv, DepsInv,
         PresentInv, RefusedInv, Refused, Owns, OwnsPath, Entry, Rows, Lock, AtPin, Present,
         Inside, Complete, Accepted, Installing, Relying, Installed

\* The setup's invariant holds before the first caller.
LEMMA SetupInvInit == SetupInit => SetupInv
<1> SUFFICES ASSUME SetupInit
             PROVE  SetupInv
  OBVIOUS
<1>1. \A c \in Callers : caller[c] = [at |-> "idle", lock |-> <<>>, i |-> 1, setup |-> FALSE]
  BY DEF SetupInit
<1>2. [at |-> "idle", lock |-> <<>>, i |-> 1, setup |-> FALSE] \in CallerStates
  BY DEF CallerStates, Stations
<1>3. SetupTypeOK
  BY <1>2, SetupAssumption DEF SetupInit, SetupTypeOK
<1>4. \A c \in Callers : caller[c].at = "idle"
  BY <1>1
<1>5. ~Accepted
  BY SetupAssumption DEF SetupInit, Accepted
<1>6. QED
  BY <1>3, <1>4, <1>5 DEF SetupInv, IndexInv, OwnInv, PinInv, AloneInv, DepsInv, PresentInv,
     RefusedInv, Owns, Inside, Ended, Installing, Relying

----------------------------------------------------------------------------
(* The command among the setups.                                           *)

\* No stage has begun.
NotYet == {"start", "manifest", "partial", "prepare"}
          \cup {"preserve", "keep_manifest", "keep_results", "keep_report", "keep_partial"}

ReadyInv == pc \notin NotYet => caller[Command].at = "ready"

\* The only way to the stages leads through the end of the checkouts.
LEMMA Gate ==
  ASSUME Next, pc \in NotYet, pc' \notin NotYet
  PROVE  At("prepare") /\ pc' = "ready" /\ exit' = exit /\ interrupts' = interrupts
  BY DEF Next, NotYet, At, Start, SaveManifest, SavePartial, Prepare, BeginStage,
         StageRuns, StageRaises, Collect, Parse, Salvage, Record, Accept, Conclude,
         Identify, SaveResults, SaveReport, Finish, Compare, Preserve, KeepManifest,
         KeepResults, KeepReport, KeepPartial, Interrupt, Save, SaveOrDie, Goto, Raise, Quit,
         noise

\* Every step of setup and qualification together keeps both invariants.
LEMMA JoinedStep ==
  ASSUME SetupInv, ReadyInv, [SetupNext]_<<vars, setupVars>>
  PROVE  SetupInv' /\ ReadyInv'
<1>1. Command \in Callers
  BY CommandAssumption
<1>2. CASE Qualify
  <2>1. CASE interrupts' # interrupts /\ Inside(Command)
    <3>1. SetupStep(Command)
      BY <1>2, <2>1 DEF Qualify, SetupStep, SetupInv, SetupTypeOK
    <3>2. pc \in NotYet
      BY <2>1 DEF ReadyInv, Inside, Ended
    <3>3. pc' \in NotYet
      BY <1>2, <2>1, <3>2, Gate DEF Qualify
    <3>4. QED
      BY <1>1, <3>1, <3>3, SetupInvStep DEF ReadyInv
  <2>2. CASE ~(interrupts' # interrupts /\ Inside(Command))
    <3>1. UNCHANGED setupVars
      BY <1>2, <2>2 DEF Qualify
    <3>2. ASSUME pc \in NotYet, pc' \notin NotYet
          PROVE  caller[Command].at = "ready"
      <4>1. At("prepare") /\ pc' = "ready" /\ exit' = exit /\ interrupts' = interrupts
        BY <1>2, <3>2, Gate DEF Qualify
      <4>2. QED
        BY <1>2, <4>1 DEF Qualify, Heeds, At, Running
    <3>3. QED
      BY <3>1, <3>2, SetupInvStutter DEF ReadyInv, setupVars
  <2>3. QED
    BY <2>1, <2>2
<1>3. CASE CommandSets
  <2>1. SetupStep(Command) /\ pc = "prepare" /\ pc' = pc
    BY <1>3 DEF CommandSets, SetupStep, At, vars
  <2>2. QED
    BY <1>1, <2>1, SetupInvStep DEF ReadyInv, NotYet
<1>4. ASSUME NEW c \in Others, OtherSets(c)
      PROVE  SetupInv' /\ ReadyInv'
  <2>1. c \in Callers /\ c # Command /\ SetupStep(c) /\ pc' = pc
    BY <1>4 DEF Others, OtherSets, SetupStep, vars, SetupInv, SetupTypeOK
  <2>2. caller'[Command] = caller[Command]
    BY <1>1, <2>1, Places
  <2>3. QED
    BY <2>1, <2>2, SetupInvStep DEF ReadyInv
<1>5. CASE UNCHANGED <<vars, setupVars>>
  BY <1>5, SetupInvStutter DEF ReadyInv, vars, setupVars
<1>6. QED
  BY <1>2, <1>3, <1>4, <1>5 DEF SetupNext

\* Setup and qualification, run together, keep both invariants.
LEMMA Joined == SetupSpec => [](SetupInv /\ ReadyInv)
<1>1. SetupSpecInit => SetupInv /\ ReadyInv
  BY SetupInvInit DEF SetupSpecInit, Init, ReadyInv, NotYet
<1>2. QED
  BY <1>1, JoinedStep, PTL DEF SetupSpec

\* With the setups beside it, the command does nothing it would not do alone, so what is
\* proved of it holds among them.
THEOREM SetupsAreInvisible == SetupSpec => Spec
<1>1. SetupSpecInit => Init
  BY DEF SetupSpecInit
<1>2. [SetupNext]_<<vars, setupVars>> => [Next]_vars
  BY DEF SetupNext, Qualify, CommandSets, OtherSets, vars, setupVars
<1>3. QED
  BY <1>1, <1>2, PTL DEF SetupSpec, Spec

\* Directories, packages and callers keep their shapes.
THEOREM SetupTypesHold == SetupSpec => []SetupTypeOK
<1>1. SetupInv => SetupTypeOK
  BY DEF SetupInv
<1>2. QED
  BY <1>1, Joined, PTL

\* A stage runs at the commits the manifest names, whatever the other callers' locks say.
THEOREM StagesRunPinned == SetupSpec => []StageCheckoutsPinned
<1>1. SetupInv /\ ReadyInv => StageCheckoutsPinned
  BY CommandAssumption
     DEF StageCheckoutsPinned, SetupInv, ReadyInv, PinInv, AtPin, Rows, At, NotYet
<1>2. QED
  BY <1>1, Joined, PTL

\* Spark's packages are in place while it runs, unless two setups overlapped or a pip was
\* cut short with all the metadata in place.
THEOREM StagesFindPackages == SetupSpec => []StageDepsInPlace
<1>1. SetupInv /\ ReadyInv => StageDepsInPlace
  <2> SUFFICES ASSUME SetupInv, ReadyInv, At("running"), ~overlap, ~hollow
               PROVE  Complete
    BY DEF StageDepsInPlace
  <2>1. Command \in Callers /\ Relying(Command)
    BY CommandAssumption DEF ReadyInv, At, NotYet, Relying
  <2>2. Accepted /\ \A c \in Callers : ~Installing(c)
    BY <2>1 DEF SetupInv, DepsInv
  <2>3. QED
    BY <2>2 DEF SetupInv, DepsInv
<1>2. QED
  BY <1>1, Joined, PTL

\* A setup that is let alone is refused only for what is in a checkout's directory.
THEOREM RefusalsHaveCauses == SetupSpec => []RefusalHasACause
<1>1. SetupInv => RefusalHasACause
  <2> SUFFICES ASSUME SetupInv, NEW c \in Callers, CallerAt(c, "refused"), caller[c].setup,
                      ~overlap
               PROVE  \E i \in 1 .. Len(Lock(c)) :
                        dir[Lock(c)[i].path] \notin {Absent, Lock(c)[i].commit}
    BY DEF RefusalHasACause
  <2>1. PICK i \in Rows(c) : Refused(c, i)
    BY DEF SetupInv, RefusedInv, CallerAt
  <2>2. Lock(c)[i].commit \in Commits
    BY <2>1, RowsAre DEF SetupInv
  <2>3. QED
    BY <2>1, <2>2, SetupAssumption DEF Refused, Rows, Absent, Broken
<1>2. QED
  BY <1>1, Joined, PTL
=============================================================================
