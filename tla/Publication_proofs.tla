-------------------------- MODULE Publication_proofs --------------------------
(***************************************************************************)
(* Facts about Publication, for any archive, any files and any number of   *)
(* comparisons, failing calls and crashes: what is logged and forwarded    *)
(* and what is reported of an answer (from Exchange_proofs), that the      *)
(* files are registers, that an announced verdict stays, and that a        *)
(* comparison that was alone leaves outputs that agree.                    *)
(***************************************************************************)
EXTENDS Publication, Exchange_proofs, WellFoundedInduction

----------------------------------------------------------------------------
(* The exchange.                                                           *)

\* Whatever the other processes do, the exchange goes its own way.
LEMMA ExchangeMoves == [Next]_vars => [ExchangeNext]_exchangeVars
BY DEF Next, vars, Exchanging, Conclude, Announce, Preserve, Preserved, Collect, SaveOutput, Writing,
   Saved, GiveUp, Kill, PowerFailure

\* The log of the live run is as Exchange_proofs says, at any time.
LEMMA ExchangeInvariance == Spec => [](EInv /\ AnswerInv)
<1>1. Init => EInv /\ AnswerInv
  BY ExchangeInitOk, AnswerInitOk DEF Init
<1>2. EInv /\ AnswerInv /\ [Next]_vars => (EInv /\ AnswerInv)'
  BY ExchangeMoves, ExchangeStep, AnswerStep
<1> QED
  BY <1>1, <1>2, PTL DEF Spec

\* Every row of the log is accepted by its reader, alone and together with the others.
THEOREM EveryRowAccepted == Spec => []RowsAccepted
BY ExchangeInvariance, RowsAreAccepted, PTL

\* What is forwarded has the control that is logged, and an explicit "off" stands.
THEOREM OffStands == Spec => []OffIsAuthoritative
BY ExchangeInvariance, ForwardedAsLogged, PTL

\* Whatever the model answers and however the network cuts it, a whole streamed answer
\* is reported as what its events say: faulty iff one of them is, and else with the flags
\* they have earned.
THEOREM CutsDoNotMatter == Spec => []CutsDontMatter
<1>1. AnswerInv => CutsDontMatter
  BY DEF AnswerInv
<1> QED
  BY <1>1, ExchangeInvariance, PTL

\* A client that leaves in the middle of a well-formed answer, at whatever byte, makes
\* no fault of it and no flag that the whole answer would not have.
THEOREM LeavingIsNoFault == Spec => []DisconnectIsNoFault
<1>1. AnswerInv => DisconnectIsNoFault
  BY DEF AnswerInv
<1> QED
  BY <1>1, ExchangeInvariance, PTL

----------------------------------------------------------------------------
(* The writer.                                                             *)

Durable == [data : Data, synced : {TRUE}]
Stages == {"exchange", "results", "preserve", "finished", "exited", "killed",
           "idle", "writing", "done", "gave up"}

WTypes ==
  /\ dir \in [Files -> Durable] /\ disk \in [Files -> SUBSET Durable]
  /\ job \in [Procs -> [step : Steps, file : Files \cup {"none"}, data : Data]]
  /\ \A p \in Procs : job[p].step # "idle" => job[p].file \in Files

PTypes ==
  /\ stage \in [Procs -> Stages] /\ found \in [Procs -> Data] /\ next \in [Procs -> Nat]
  /\ alone \in [Procs -> BOOLEAN]

\* Whose file is whose: only qualification writes results.json, and only before its end,
\* only comparisons write outputs.
Owns(p) ==
  job[p].step # "idle" =>
    \/ /\ Comparing(p) /\ next[p] \in DOMAIN Outputs
       /\ job[p].file = Outputs[next[p]] /\ job[p].data = found[p]
    \/ /\ p = "run" /\ stage[p] \in {"results", "preserve"} /\ job[p].file = "results"
       /\ stage[p] = "preserve" => job[p].data = "INFRA_ERROR"

Owners ==
  (\A p \in Procs : Owns(p)) /\ stage["cli"] \in {"idle", "writing", "done", "gave up"}

\* A file that holds one version, and would after a power failure.
Settled(f, data) == dir[f] = Version(data, TRUE) /\ disk[f] = {Version(data, TRUE)}

\* How far a write is that no other process disturbs.
Placed(p) ==
  /\ job[p].step \in {"replaced", "returned"} => dir[job[p].file] = Version(job[p].data, TRUE)
  /\ job[p].step = "returned" => disk[job[p].file] = {Version(job[p].data, TRUE)}

Verdicts ==
  /\ job["run"].step # "idle" /\ job["run"].file = "results" => Placed("run")
  /\ announced # "none" => /\ stage["run"] \notin {"exchange", "results", "preserve"}
                           /\ Settled("results", announced)

\* The comparison that is alone, if there is one: nobody else compares, its write is not
\* disturbed, and the outputs it has written stay.
LoneWhere(p) ==
  alone[p] => /\ stage[p] \in {"writing", "done"}
              /\ \A q \in Procs : q # p => ~alone[q] /\ ~Comparing(q)
LoneBusy(p) ==
  alone[p] /\ Comparing(p) => next[p] > 0 /\ (job[p].step # "idle" => Placed(p))
LoneLeft(p) ==
  alone[p] => \A i \in DOMAIN Outputs :
                i < next[p] \/ stage[p] = "done" => Settled(Outputs[i], found[p])

Loners == \A p \in Procs : LoneWhere(p) /\ LoneBusy(p) /\ LoneLeft(p)

\* The invariant.
PInv == WTypes /\ PTypes /\ Owners /\ Verdicts /\ Loners

\* What the assumptions say of the names and values.
LEMMA Names ==
  /\ Procs = {"run", "cli"} /\ "results" \in Files /\ "none" \in Data
  /\ "started" \in Data /\ "INFRA_ERROR" \in Data /\ Scored \subseteq Data
  /\ \A i \in DOMAIN Outputs : Outputs[i] \in Files /\ Outputs[i] # "results"
  /\ Len(Outputs) \in Nat /\ DOMAIN Outputs = 1..Len(Outputs)
BY PublicationAssumption

\* At first every file is settled and nobody writes.
LEMMA InitOk == Init => PInv
<1> SUFFICES ASSUME Init PROVE PInv
  OBVIOUS
<1>1. /\ dir = [f \in Files |-> Version("none", TRUE)]
      /\ disk = [f \in Files |-> {Version("none", TRUE)}]
      /\ job = [p \in Procs |-> NoJob]
      /\ stage = [p \in Procs |-> IF p = "run" THEN "exchange" ELSE "idle"]
      /\ found = [p \in Procs |-> "none"] /\ next = [p \in Procs |-> 0]
      /\ alone = [p \in Procs |-> FALSE] /\ announced = "none"
  BY DEF Init, WriterInit
<1>2. WTypes /\ PTypes
  <2>1. dir \in [Files -> Durable] /\ disk \in [Files -> SUBSET Durable]
    BY <1>1, Names DEF Version, Durable
  <2>2. /\ job \in [Procs -> [step : Steps, file : Files \cup {"none"}, data : Data]]
        /\ \A p \in Procs : job[p].step # "idle" => job[p].file \in Files
    BY <1>1, Names DEF NoJob, Steps
  <2>3. stage \in [Procs -> Stages] /\ found \in [Procs -> Data] /\ next \in [Procs -> Nat]
        /\ alone \in [Procs -> BOOLEAN]
    BY <1>1, Names DEF Stages
  <2> QED
    BY ONLY <2>1, <2>2, <2>3 DEF WTypes, PTypes
<1>3. \A p \in Procs : job[p].step = "idle" /\ ~Comparing(p) /\ ~alone[p]
  BY <1>1 DEF NoJob, Comparing
<1>4. stage["cli"] = "idle"
  BY <1>1, Names
<1>5. Owners
  BY <1>3, <1>4 DEF Owners, Owns
<1>6. Verdicts /\ Loners
  BY <1>1, <1>3, Names DEF Verdicts, Loners, LoneWhere, LoneBusy, LoneLeft
<1> QED
  BY <1>2, <1>5, <1>6 DEF PInv

----------------------------------------------------------------------------
(* What the steps of a write do.                                           *)

\* The step of p from one system call to the next.
Advance(p) ==
  /\ dir' = dir /\ disk' = disk
  /\ job'[p].step \in Steps \ {"idle", "replaced", "returned"}

PutInPlace(p) ==
  LET f == job[p].file
      new == Version(job[p].data, TRUE)
  IN /\ job'[p].step = "replaced" /\ dir'[f] = new /\ disk'[f] = disk[f] \cup {new}
     /\ \A g \in Files \ {f} : dir'[g] = dir[g] /\ disk'[g] = disk[g]

MadeDurable(p) ==
  LET f == job[p].file
  IN /\ job[p].step = "replaced" /\ job'[p].step = "returned" /\ dir' = dir /\ disk'[f] = {dir[f]}
     /\ \A g \in Files \ {f} : disk'[g] = disk[g]

\* A step of a write is one of the three, and disturbs nobody else's.
LEMMA WriteSteps ==
  ASSUME WTypes, NEW p \in Procs, WriteStep(p)
  PROVE  /\ WTypes'
         /\ job[p].step # "idle" /\ job[p].file \in Files
         /\ job'[p].file = job[p].file /\ job'[p].data = job[p].data
         /\ \A q \in Procs : q # p => job'[q] = job[q]
         /\ Advance(p) \/ PutInPlace(p) \/ MadeDurable(p)
<1>1. PICK s \in Steps \ {"idle"} : job' = [job EXCEPT ![p].step = s]
  BY DEF WriteStep, Create, Fill, SyncFile, Replace, Put, SyncDirectory, WriteFails, Step, Steps
<1>2. job[p].step # "idle"
  BY DEF WriteStep, Create, Fill, SyncFile, Replace, SyncDirectory, WriteFails, At
<1>3. job[p].file \in Files
  BY <1>2 DEF WTypes
<1>4. /\ job' \in [Procs -> [step : Steps, file : Files \cup {"none"}, data : Data]]
      /\ job'[p].step = s /\ job'[p].file = job[p].file /\ job'[p].data = job[p].data
      /\ \A q \in Procs : q # p => job'[q] = job[q]
  BY <1>1 DEF WTypes
<1>5. Version(job[p].data, TRUE) \in Durable
  BY DEF Version, Durable, WTypes
<1>6. CASE Create(p) \/ Fill(p) \/ SyncFile(p) \/ WriteFails(p)
  <2>1. dir' = dir /\ disk' = disk
    BY <1>6 DEF Create, Fill, SyncFile, WriteFails
  <2>2. job'[p].step \in Steps \ {"idle", "replaced", "returned"}
    BY <1>6 DEF Create, Fill, SyncFile, WriteFails, Step, Steps, WTypes
  <2> QED
    BY <1>2, <1>3, <1>4, <2>1, <2>2 DEF Advance, WTypes
<1>7. CASE Replace(p)
  <2> DEFINE f == job[p].file
             new == Version(job[p].data, TRUE)
  <2>1. /\ dir' = [dir EXCEPT ![f] = new] /\ disk' = [disk EXCEPT ![f] = @ \cup {new}]
        /\ job'[p].step = "replaced"
    BY <1>7 DEF Replace, Put, Step, WTypes
  <2>2. PutInPlace(p) /\ dir' \in [Files -> Durable] /\ disk' \in [Files -> SUBSET Durable]
    BY <1>3, <1>5, <2>1 DEF PutInPlace, WTypes
  <2> QED
    BY <1>2, <1>3, <1>4, <2>2 DEF WTypes
<1>8. CASE SyncDirectory(p)
  <2> DEFINE f == job[p].file
  <2>1. /\ dir' = dir /\ disk' = [disk EXCEPT ![f] = {dir[f]}]
        /\ job[p].step = "replaced" /\ job'[p].step = "returned"
    BY <1>8 DEF SyncDirectory, Step, At, WTypes
  <2>2. MadeDurable(p) /\ disk' \in [Files -> SUBSET Durable]
    BY <1>3, <2>1 DEF MadeDurable, WTypes
  <2> QED
    BY <1>2, <1>3, <1>4, <2>1, <2>2 DEF WTypes
<1> QED
  BY <1>6, <1>7, <1>8 DEF WriteStep

\* A call starts a write of a known file and version.
LEMMA OpenStep ==
  ASSUME WTypes, NEW p \in Procs, NEW f \in Files, NEW data \in Data, Open(p, f, data)
  PROVE  /\ WTypes' /\ dir' = dir /\ disk' = disk
         /\ job'[p] = [step |-> "checked", file |-> f, data |-> data]
         /\ \A q \in Procs : q # p => job'[q] = job[q]
<1>1. /\ job' = [job EXCEPT ![p] = [step |-> "checked", file |-> f, data |-> data]]
      /\ dir' = dir /\ disk' = disk
  BY DEF Open
<1>2. [step |-> "checked", file |-> f, data |-> data] \in [step : Steps, file : Files \cup {"none"}, data : Data]
  BY DEF Steps
<1> QED
  BY <1>1, <1>2 DEF WTypes

\* A process ends its write, or is stopped.
LEMMA DropJob ==
  ASSUME WTypes, NEW p \in Procs, job' = [job EXCEPT ![p] = NoJob], UNCHANGED <<dir, disk>>
  PROVE  /\ WTypes' /\ job'[p].step = "idle" /\ \A q \in Procs : q # p => job'[q] = job[q]
<1>1. NoJob \in [step : Steps, file : Files \cup {"none"}, data : Data] /\ NoJob.step = "idle"
  BY Names DEF NoJob, Steps
<1> QED
  BY <1>1 DEF WTypes

\* What a power failure leaves was there before, whole.
LEMMA PowerStep ==
  ASSUME WTypes, PowerLoss
  PROVE  /\ WTypes' /\ \A p \in Procs : job'[p].step = "idle"
         /\ \A f \in Files : dir'[f] \in disk[f] /\ disk'[f] = {dir'[f]}
<1>1. PICK left \in [Files -> UNION {disk[f] : f \in Files}] :
        /\ \A f \in Files : left[f] \in disk[f]
        /\ dir' = [f \in Files |-> Version(Survivor(left[f]), TRUE)]
  BY DEF PowerLoss
<1>2. disk' = [f \in Files |-> {dir'[f]}] /\ job' = [p \in Procs |-> NoJob]
  BY DEF PowerLoss
<1>3. \A f \in Files : left[f] \in Durable
  BY <1>1 DEF WTypes
<1>4. \A f \in Files : dir'[f] = left[f]
  BY <1>1, <1>3 DEF Version, Survivor, Durable
<1>5. dir' \in [Files -> Durable] /\ disk' \in [Files -> SUBSET Durable]
  <2>1. \A f \in Files : dir'[f] \in Durable
    BY <1>3, <1>4
  <2>2. dir' \in [Files -> Durable]
    BY <1>1, <2>1
  <2> QED
    BY <1>2, <2>1, <2>2
<1>6. /\ job' \in [Procs -> [step : Steps, file : Files \cup {"none"}, data : Data]]
      /\ \A p \in Procs : job'[p].step = "idle"
  BY <1>2, Names DEF NoJob, Steps
<1> QED
  BY <1>1, <1>2, <1>4, <1>5, <1>6 DEF WTypes

----------------------------------------------------------------------------
(* The files are registers.                                                *)

\* The value and the remains of a file, as Register sees them.
RValue == [f \in Files |-> dir[f].data]
RKept == [f \in Files |-> {Survivor(v) : v \in disk[f]}]

\* A step of a write is a write, a settling, or nothing to the register.
LEMMA WriteIsRegister ==
  ASSUME WTypes, NEW p \in Procs, WriteStep(p)
  PROVE  Register!Next \/ UNCHANGED <<RValue, RKept>>
<1> DEFINE f == job[p].file
           new == Version(job[p].data, TRUE)
<1>1. /\ WTypes' /\ f \in Files /\ job[p].data \in Data
      /\ Advance(p) \/ PutInPlace(p) \/ MadeDurable(p)
  BY WriteSteps DEF WTypes
<1>2. CASE Advance(p)
  BY <1>2 DEF Advance, RValue, RKept
<1>3. CASE PutInPlace(p)
  <2>1. new.data = job[p].data /\ Survivor(new) = job[p].data
    BY DEF Version, Survivor
  <2>2. RValue' = [RValue EXCEPT ![f] = job[p].data]
    BY <1>1, <1>3, <2>1 DEF PutInPlace, RValue
  <2>3. RKept' = [RKept EXCEPT ![f] = @ \cup {job[p].data}]
    <3>1. {Survivor(v) : v \in disk'[f]} = {Survivor(v) : v \in disk[f]} \cup {job[p].data}
      <4>1. {Survivor(v) : v \in disk[f] \cup {new}} = {Survivor(v) : v \in disk[f]} \cup {Survivor(new)}
        OBVIOUS
      <4> QED
        BY <1>3, <2>1, <4>1 DEF PutInPlace
    <3>2. \A g \in Files \ {f} : {Survivor(v) : v \in disk'[g]} = {Survivor(v) : v \in disk[g]}
      BY <1>3 DEF PutInPlace
    <3> QED
      BY <1>1, <3>1, <3>2 DEF RKept
  <2> QED
    BY <1>1, <2>2, <2>3 DEF Register!Next, Register!Write, RValue, RKept
<1>4. CASE MadeDurable(p)
  <2>1. Survivor(dir[f]) = dir[f].data
    BY <1>1 DEF Survivor, WTypes, Durable
  <2>2. RValue' = RValue
    BY <1>4 DEF MadeDurable, RValue
  <2>3. RKept' = [RKept EXCEPT ![f] = {RValue[f]}]
    <3>1. {Survivor(v) : v \in disk'[f]} = {RValue[f]}
      BY <1>1, <1>4, <2>1 DEF MadeDurable, RValue
    <3>2. \A g \in Files \ {f} : {Survivor(v) : v \in disk'[g]} = {Survivor(v) : v \in disk[g]}
      BY <1>4 DEF MadeDurable
    <3> QED
      BY <1>1, <3>1, <3>2 DEF RKept
  <2> QED
    BY <1>1, <2>2, <2>3 DEF Register!Next, Register!Settle, RValue, RKept
<1> QED
  BY <1>1, <1>2, <1>3, <1>4

\* So is a power failure.
LEMMA PowerIsRegister ==
  ASSUME WTypes, PowerLoss
  PROVE  Register!Next
<1>1. WTypes' /\ \A f \in Files : dir'[f] \in disk[f] /\ disk'[f] = {dir'[f]}
  BY PowerStep
<1>2. \A f \in Files : dir'[f] \in Durable /\ Survivor(dir'[f]) = dir'[f].data
  BY <1>1 DEF WTypes, Durable, Survivor
<1>3. RValue' \in [Files -> Data] /\ \A f \in Files : RValue'[f] = dir'[f].data
  BY <1>2 DEF RValue, Durable
<1>4. \A f \in Files : RValue'[f] \in {Survivor(v) : v \in disk[f]}
  BY <1>1, <1>2, <1>3
<1>5. RKept' = [f \in Files |-> {RValue'[f]}]
  <2>1. \A f \in Files : {Survivor(v) : v \in disk'[f]} = {RValue'[f]}
    BY <1>1, <1>2, <1>3
  <2> QED
    BY <2>1 DEF RKept
<1>6. Register!PowerFails
  BY <1>3, <1>4, <1>5 DEF Register!PowerFails, RValue, RKept
<1> QED
  BY <1>6 DEF Register!Next

\* Nothing else touches a file.
LEMMA FileSteps ==
  ASSUME [Next]_vars
  PROVE  UNCHANGED <<dir, disk>> \/ (\E p \in Procs : WriteStep(p)) \/ PowerLoss
BY DEF Next, vars, writerVars, Exchanging, Conclude, SaveResults, Open, Announce, Preserve, Preserved,
   Collect, SaveOutput, Writing, Saved, GiveUp, Kill, PowerFailure

\* At first a register holds no file, and may leave nothing else.
LEMMA InitIsRegister == Init => Register!Init
<1> SUFFICES ASSUME Init PROVE Register!Init
  OBVIOUS
<1>1. /\ \A f \in Files : dir[f] = Version("none", TRUE)
      /\ disk = [f \in Files |-> {dir[f]}]
  BY DEF Init, WriterInit
<1>2. \A f \in Files : dir[f].data \in Data /\ Survivor(dir[f]) = dir[f].data
  BY <1>1, Names DEF Version, Survivor
<1>3. RValue \in [Files -> Data]
  BY <1>2 DEF RValue
<1>4. RKept = [f \in Files |-> {RValue[f]}]
  BY <1>1, <1>2 DEF RKept, RValue
<1> QED
  BY <1>3, <1>4 DEF Register!Init, RValue, RKept

----------------------------------------------------------------------------
(* The steps keep the invariant.                                           *)

\* A comparison that does nothing, while nothing is written, and nobody begins one.
LEMMA LoneRests ==
  ASSUME PInv, NEW p \in Procs, job'[p] = job[p], stage'[p] = stage[p], found'[p] = found[p],
         next'[p] = next[p], alone'[p] => alone[p], dir' = dir, disk' = disk,
         \A q \in Procs : (alone'[q] => alone[q]) /\ (stage'[q] = "writing" => stage[q] = "writing")
  PROVE  (LoneWhere(p) /\ LoneBusy(p) /\ LoneLeft(p))'
<1>1. LoneWhere(p) /\ LoneBusy(p) /\ LoneLeft(p)
  BY DEF PInv, Loners
<1>2. LoneWhere(p)'
  BY <1>1 DEF LoneWhere, Comparing
<1>3. LoneBusy(p)'
  BY <1>1 DEF LoneBusy, Comparing, Placed
<1>4. LoneLeft(p)'
  BY <1>1 DEF LoneLeft, Settled
<1> QED
  BY <1>2, <1>3, <1>4

\* Who is not alone has nothing to keep.
LEMMA NotAlone ==
  ASSUME NEW p \in Procs, ~alone'[p]
  PROVE  (LoneWhere(p) /\ LoneBusy(p) /\ LoneLeft(p))'
BY DEF LoneWhere, LoneBusy, LoneLeft

\* The verdict, while nothing is written and qualification does nothing.
LEMMA VerdictRests ==
  ASSUME PInv, job'["run"].step = "idle" \/ job'["run"] = job["run"],
         announced' = announced, dir' = dir, disk' = disk,
         stage'["run"] \in {"exchange", "results", "preserve"} => stage'["run"] = stage["run"]
  PROVE  Verdicts'
BY DEF PInv, Verdicts, Placed, Settled

\* A step that does not touch what the invariant is about.
LEMMA Idle ==
  ASSUME PInv, UNCHANGED <<dir, disk, job, stage, found, next, alone, announced>>
  PROVE  PInv'
<1>1. /\ dir' = dir /\ disk' = disk /\ job' = job /\ stage' = stage /\ found' = found
      /\ next' = next /\ alone' = alone /\ announced' = announced
  OBVIOUS
<1>2. WTypes' /\ PTypes'
  BY <1>1 DEF PInv, WTypes, PTypes
<1>3. Owners'
  BY <1>1 DEF PInv, Owners, Owns, Comparing
<1>4. Verdicts'
  BY <1>1, VerdictRests
<1>5. Loners'
  BY <1>1, LoneRests DEF Loners
<1> QED
  BY <1>2, <1>3, <1>4, <1>5 DEF PInv

\* Where a step leaves the processes.
LEMMA Goes ==
  ASSUME PTypes, NEW p \in Procs, NEW l \in Stages, Go(p, l)
  PROVE  /\ stage' \in [Procs -> Stages] /\ stage'[p] = l
         /\ \A q \in Procs : q # p => stage'[q] = stage[q]
BY DEF Go, PTypes

\* Qualification decides, or goes on to preserve the failure: it starts to write its file.
LEMMA StartsResults ==
  ASSUME PInv, NEW data \in Data, NEW l \in {"results", "preserve"},
         l = "preserve" => data = "INFRA_ERROR",
         stage["run"] \in {"exchange", "results"}, Go("run", l),
         \A q \in Procs : q # "run" => job'[q] = job[q],
         job'["run"] = [step |-> "checked", file |-> "results", data |-> data],
         WTypes', UNCHANGED <<dir, disk, found, next, alone, announced>>
  PROVE  PInv'
<1>1. /\ stage' \in [Procs -> Stages] /\ stage'["run"] = l
      /\ \A q \in Procs : q # "run" => stage'[q] = stage[q]
  <2>1. l \in Stages /\ "run" \in Procs /\ PTypes
    BY Names DEF PInv, Stages
  <2> QED
    BY <2>1, Goes
<1>2. PTypes'
  BY <1>1 DEF PInv, PTypes
<1>3. ~alone["run"]
  BY Names DEF PInv, Loners, LoneWhere
<1>4. Owners'
  <2> SUFFICES ASSUME NEW p \in Procs PROVE Owns(p)'
    BY <1>1, Names DEF PInv, Owners
  <2>1. CASE p = "run"
    BY <1>1, <2>1 DEF Owns
  <2>2. CASE p # "run"
    <3>1. Owns(p) /\ stage'[p] = stage[p] /\ job'[p] = job[p]
      BY <1>1, <2>2 DEF PInv, Owners
    <3> QED
      BY <2>2, <3>1 DEF Owns, Comparing
  <2> QED
    BY <2>1, <2>2
<1>5. Verdicts'
  <2>1. announced' = "none"
    BY DEF PInv, Verdicts
  <2>2. Placed("run")'
    BY DEF Placed
  <2> QED
    BY <2>1, <2>2 DEF Verdicts
<1>6. Loners'
  <2>1. \A q \in Procs : stage'[q] = "writing" => stage[q] = "writing"
    BY <1>1
  <2> SUFFICES ASSUME NEW p \in Procs PROVE (LoneWhere(p) /\ LoneBusy(p) /\ LoneLeft(p))'
    BY DEF Loners
  <2>2. CASE p = "run"
    BY <1>3, <2>2, NotAlone
  <2>3. CASE p # "run"
    BY <1>1, <2>1, <2>3, LoneRests
  <2> QED
    BY <2>2, <2>3
<1> QED
  BY <1>2, <1>4, <1>5, <1>6 DEF PInv

\* It ends.
LEMMA EndsResults ==
  ASSUME PInv, NEW l \in {"finished", "exited"}, stage["run"] \in {"results", "preserve"}, Go("run", l),
         job' = [job EXCEPT !["run"] = NoJob], UNCHANGED <<dir, disk, found, next, alone>>,
         announced' # "none" => At("run", "returned") /\ announced' = job["run"].data
  PROVE  PInv'
<1>1. /\ stage' \in [Procs -> Stages] /\ stage'["run"] = l
      /\ \A q \in Procs : q # "run" => stage'[q] = stage[q]
  <2>1. l \in Stages /\ "run" \in Procs /\ PTypes
    BY Names DEF PInv, Stages
  <2> QED
    BY <2>1, Goes
<1>2. PTypes'
  BY <1>1 DEF PInv, PTypes
<1>3. WTypes' /\ job'["run"].step = "idle" /\ \A q \in Procs : q # "run" => job'[q] = job[q]
  BY DropJob, Names DEF PInv
<1>4. ~alone["run"]
  BY Names DEF PInv, Loners, LoneWhere
<1>5. Owners'
  <2>1. \A p \in Procs : job'[p].step # "idle" => p # "run" /\ job'[p] = job[p] /\ stage'[p] = stage[p]
    BY <1>1, <1>3
  <2>2. \A p \in Procs : Owns(p) => Owns(p)'
    BY <2>1 DEF Owns, Comparing
  <2>3. stage'["cli"] = stage["cli"]
    BY <1>1, Names
  <2> QED
    BY <2>2, <2>3 DEF PInv, Owners
<1>6. Verdicts'
  <2>1. At("run", "returned") => Settled("results", job["run"].data)
    BY Names DEF PInv, Owners, Owns, Comparing, Verdicts, Placed, Settled, At
  <2> QED
    BY <1>1, <1>3, <2>1 DEF Verdicts, Settled
<1>7. Loners'
  <2>1. \A q \in Procs : stage'[q] = "writing" => stage[q] = "writing"
    BY <1>1
  <2> SUFFICES ASSUME NEW p \in Procs PROVE (LoneWhere(p) /\ LoneBusy(p) /\ LoneLeft(p))'
    BY DEF Loners
  <2>2. CASE p = "run"
    BY <1>4, <2>2, NotAlone
  <2>3. CASE p # "run"
    BY <1>1, <1>3, <2>1, <2>3, LoneRests
  <2> QED
    BY <2>2, <2>3
<1> QED
  BY <1>2, <1>3, <1>5, <1>6, <1>7 DEF PInv

\* A comparison begins, perhaps a second one.
LEMMA CollectStep ==
  ASSUME PInv, NEW p \in Procs, Collect(p)
  PROVE  PInv'
<1>1. /\ Go(p, "writing") /\ found' = [found EXCEPT ![p] = Seen] /\ next' = [next EXCEPT ![p] = 1]
      /\ alone' = [q \in Procs |-> q = p /\ \A o \in Procs : ~Comparing(o)]
      /\ dir' = dir /\ disk' = disk /\ job' = job /\ announced' = announced
  BY DEF Collect, writerVars
<1>2. /\ stage' \in [Procs -> Stages] /\ stage'[p] = "writing"
      /\ \A q \in Procs : q # p => stage'[q] = stage[q]
  BY <1>1, Goes DEF PInv, Stages
<1>3. stage[p] \in {"finished", "idle", "done", "gave up"}
  BY DEF Collect, MayCompare
<1>4. job[p].step = "idle"
  BY <1>3 DEF PInv, Owners, Owns, Comparing
<1>5. Seen \in Data
  BY Names DEF Seen, PInv, WTypes, Durable
<1>6. WTypes' /\ PTypes'
  BY <1>1, <1>2, <1>5 DEF PInv, WTypes, PTypes
<1>7. Owners'
  <2> SUFFICES ASSUME NEW q \in Procs PROVE Owns(q)'
    BY <1>2, Names DEF PInv, Owners
  <2>1. CASE q = p
    BY <1>1, <1>4, <2>1 DEF Owns
  <2>2. CASE q # p
    <3>1. /\ Owns(q) /\ stage'[q] = stage[q] /\ job'[q] = job[q] /\ next'[q] = next[q]
          /\ found'[q] = found[q]
      BY <1>1, <1>2, <2>2 DEF PInv, PTypes, Owners
    <3> QED
      BY <3>1 DEF Owns, Comparing
  <2> QED
    BY <2>1, <2>2
<1>8. Verdicts'
  <2>1. stage'["run"] \in {"exchange", "results", "preserve"} => stage'["run"] = stage["run"]
    BY <1>2, Names
  <2> QED
    BY <1>1, <2>1, VerdictRests
<1>9. Loners'
  <2> SUFFICES ASSUME NEW q \in Procs PROVE (LoneWhere(q) /\ LoneBusy(q) /\ LoneLeft(q))'
    BY DEF Loners
  <2>1. CASE ~alone'[q]
    BY <2>1, NotAlone
  <2>2. CASE alone'[q]
    <3>1. q = p /\ (\A o \in Procs : ~Comparing(o)) /\ \A o \in Procs : o # p => ~alone'[o]
      BY <1>1, <2>2
    <3>2. LoneWhere(q)'
      BY <1>2, <3>1 DEF LoneWhere, Comparing
    <3>3. next'[q] = 1 /\ job'[q].step = "idle" /\ stage'[q] = "writing"
      BY <1>1, <1>2, <1>4, <3>1 DEF PInv, PTypes
    <3>4. LoneBusy(q)' /\ LoneLeft(q)'
      BY <3>3, Names DEF LoneBusy, LoneLeft
    <3> QED
      BY <3>2, <3>4
  <2> QED
    BY <2>1, <2>2
<1> QED
  BY <1>6, <1>7, <1>8, <1>9 DEF PInv

\* A comparison starts to write an output.
LEMMA SaveStep ==
  ASSUME PInv, NEW p \in Procs, SaveOutput(p)
  PROVE  PInv'
<1> DEFINE f == Outputs[next[p]]
<1>1. /\ Comparing(p) /\ next[p] \in DOMAIN Outputs /\ Open(p, f, found[p])
      /\ stage' = stage /\ found' = found /\ next' = next /\ alone' = alone
      /\ announced' = announced
  BY DEF SaveOutput, publicationVars, comparison
<1>2. f \in Files /\ f # "results" /\ found[p] \in Data
  BY <1>1, Names DEF PInv, PTypes
<1>3. /\ WTypes' /\ dir' = dir /\ disk' = disk
      /\ job'[p] = [step |-> "checked", file |-> f, data |-> found[p]]
      /\ \A q \in Procs : q # p => job'[q] = job[q]
  BY <1>1, <1>2, OpenStep DEF PInv
<1>4. PTypes'
  BY <1>1 DEF PInv, PTypes
<1>5. Owners'
  <2> SUFFICES ASSUME NEW q \in Procs PROVE Owns(q)'
    BY <1>1 DEF PInv, Owners
  <2>1. CASE q = p
    BY <1>1, <1>3, <2>1 DEF Owns, Comparing
  <2>2. CASE q # p
    <3>1. Owns(q) /\ job'[q] = job[q]
      BY <1>3, <2>2 DEF PInv, Owners
    <3> QED
      BY <1>1, <3>1 DEF Owns, Comparing
  <2> QED
    BY <2>1, <2>2
<1>6. Verdicts'
  <2>1. CASE p = "run"
    <3>1. job'["run"].file # "results" /\ Verdicts
      BY <1>2, <1>3, <2>1 DEF PInv
    <3>2. Settled("results", announced) => Settled("results", announced)'
      BY <1>1, <1>3 DEF Settled
    <3> QED
      BY <1>1, <3>1, <3>2 DEF Verdicts, Settled
  <2>2. CASE p # "run"
    BY <1>1, <1>3, <2>2, Names, VerdictRests
  <2> QED
    BY <2>1, <2>2
<1>7. Loners'
  <2> SUFFICES ASSUME NEW q \in Procs PROVE (LoneWhere(q) /\ LoneBusy(q) /\ LoneLeft(q))'
    BY DEF Loners
  <2>1. CASE q = p
    <3>1. LoneWhere(p) /\ LoneBusy(p) /\ LoneLeft(p)
      BY DEF PInv, Loners
    <3>2. LoneWhere(p)' /\ LoneLeft(p)'
      BY <1>1, <1>3, <3>1 DEF LoneWhere, LoneLeft, Comparing, Settled
    <3>3. LoneBusy(p)'
      BY <1>1, <1>3, <3>1 DEF LoneBusy, Comparing, Placed
    <3> QED
      BY <2>1, <3>2, <3>3
  <2>2. CASE q # p
    BY <1>1, <1>3, <2>2, LoneRests
  <2> QED
    BY <2>1, <2>2
<1> QED
  BY <1>3, <1>4, <1>5, <1>6, <1>7 DEF PInv

\* A version is saved: on to the next output, or to the end.
LEMMA SavedStep ==
  ASSUME PInv, NEW p \in Procs, Saved(p)
  PROVE  PInv'
<1>1. /\ Comparing(p) /\ At(p, "returned") /\ job' = [job EXCEPT ![p] = NoJob]
      /\ next' = [next EXCEPT ![p] = @ + 1]
      /\ dir' = dir /\ disk' = disk /\ found' = found /\ alone' = alone /\ announced' = announced
      /\ \/ next[p] = Len(Outputs) /\ Go(p, "done")
         \/ next[p] # Len(Outputs) /\ stage' = stage
  BY DEF Saved
<1>2. /\ WTypes' /\ job'[p].step = "idle" /\ \A q \in Procs : q # p => job'[q] = job[q]
  BY <1>1, DropJob DEF PInv
<1>3. /\ stage' \in [Procs -> Stages] /\ stage'[p] \in {"writing", "done"}
      /\ \A q \in Procs : q # p => stage'[q] = stage[q]
      /\ stage'[p] = "done" => next[p] = Len(Outputs)
  <2>1. CASE Go(p, "done") /\ next[p] = Len(Outputs)
    BY <2>1, Goes DEF PInv, Stages
  <2>2. CASE stage' = stage
    BY <1>1, <2>2 DEF PInv, PTypes, Comparing
  <2> QED
    BY <1>1, <2>1, <2>2
<1>4. PTypes' /\ next'[p] = next[p] + 1
  <2>1. next[p] \in Nat /\ next \in [Procs -> Nat]
    BY DEF PInv, PTypes
  <2>2. next' \in [Procs -> Nat] /\ next'[p] = next[p] + 1
    BY <1>1, <2>1
  <2> QED
    BY <1>1, <1>3, <2>2 DEF PInv, PTypes
<1>5. Owners'
  <2> SUFFICES ASSUME NEW q \in Procs PROVE Owns(q)'
    BY <1>3, Names DEF PInv, Owners
  <2>1. CASE q = p
    BY <1>2, <2>1 DEF Owns
  <2>2. CASE q # p
    <3>1. /\ Owns(q) /\ stage'[q] = stage[q] /\ job'[q] = job[q] /\ next'[q] = next[q]
          /\ found'[q] = found[q]
      BY <1>1, <1>2, <1>3, <2>2 DEF PInv, PTypes, Owners
    <3> QED
      BY <3>1 DEF Owns, Comparing
  <2> QED
    BY <2>1, <2>2
<1>6. Verdicts'
  <2>1. stage'["run"] \in {"exchange", "results", "preserve"} => stage'["run"] = stage["run"]
    BY <1>3, Names
  <2>2. job'["run"].step = "idle" \/ job'["run"] = job["run"]
    BY <1>2, Names
  <2> QED
    BY <1>1, <2>1, <2>2, VerdictRests
<1>7. Loners'
  <2> SUFFICES ASSUME NEW q \in Procs PROVE (LoneWhere(q) /\ LoneBusy(q) /\ LoneLeft(q))'
    BY DEF Loners
  <2>1. CASE ~alone'[q]
    BY <2>1, NotAlone
  <2>2. CASE alone'[q]
    <3>1. LoneWhere(q) /\ LoneBusy(q) /\ LoneLeft(q) /\ alone[q]
      BY <1>1, <2>2 DEF PInv, Loners
    <3>2. q = p
      BY <1>1, <3>1 DEF LoneWhere
    <3>3. LoneWhere(q)'
      BY <1>1, <1>3, <3>1, <3>2 DEF LoneWhere, Comparing
    <3>4. LoneBusy(q)'
      BY <1>2, <1>4, <3>2 DEF LoneBusy, PInv, PTypes
    <3>5. next[p] \in DOMAIN Outputs /\ Settled(Outputs[next[p]], found[p])
      BY <1>1, <3>1, <3>2 DEF PInv, Owners, Owns, LoneBusy, Placed, Settled, At, Comparing
    <3>6. LoneLeft(q)'
      <4> SUFFICES ASSUME NEW i \in DOMAIN Outputs, i < next'[p] \/ stage'[p] = "done"
                   PROVE  Settled(Outputs[i], found[p])
        BY <1>1, <3>2 DEF LoneLeft, Settled
      <4>1. i < next[p] \/ i = next[p]
        BY <1>3, <1>4, <3>5, Names
      <4> QED
        BY <3>1, <3>2, <3>5, <4>1 DEF LoneLeft
    <3> QED
      BY <3>3, <3>4, <3>6
  <2> QED
    BY <2>1, <2>2
<1> QED
  BY <1>2, <1>4, <1>5, <1>6, <1>7 DEF PInv

\* A process stops in the middle of what it does.
LEMMA StopStep ==
  ASSUME PInv, NEW p \in Procs, NEW l \in {"gave up", "killed"}, l = "killed" => p = "run", Go(p, l),
         job' = [job EXCEPT ![p] = NoJob], alone' = [alone EXCEPT ![p] = FALSE],
         UNCHANGED <<dir, disk, found, next, announced>>
  PROVE  PInv'
<1>1. /\ stage' \in [Procs -> Stages] /\ stage'[p] = l
      /\ \A q \in Procs : q # p => stage'[q] = stage[q]
  BY Goes DEF PInv, Stages
<1>2. WTypes' /\ job'[p].step = "idle" /\ \A q \in Procs : q # p => job'[q] = job[q]
  BY DropJob DEF PInv
<1>3. PTypes' /\ ~alone'[p] /\ \A q \in Procs : alone'[q] => alone[q]
  BY <1>1 DEF PInv, PTypes
<1>4. Owners'
  <2>1. stage'["cli"] \in {"idle", "writing", "done", "gave up"}
    BY <1>1, Names DEF PInv, Owners
  <2> SUFFICES ASSUME NEW q \in Procs PROVE Owns(q)'
    BY <2>1 DEF Owners
  <2>2. CASE q = p
    BY <1>2, <2>2 DEF Owns
  <2>3. CASE q # p
    <3>1. Owns(q) /\ stage'[q] = stage[q] /\ job'[q] = job[q]
      BY <1>1, <1>2, <2>3 DEF PInv, Owners
    <3> QED
      BY <3>1 DEF Owns, Comparing
  <2> QED
    BY <2>2, <2>3
<1>5. Verdicts'
  <2>1. stage'["run"] \in {"exchange", "results", "preserve"} => stage'["run"] = stage["run"]
    BY <1>1, Names
  <2>2. job'["run"].step = "idle" \/ job'["run"] = job["run"]
    BY <1>2, Names
  <2> QED
    BY <2>1, <2>2, VerdictRests
<1>6. Loners'
  <2>1. \A q \in Procs : stage'[q] = "writing" => stage[q] = "writing"
    BY <1>1
  <2> SUFFICES ASSUME NEW q \in Procs PROVE (LoneWhere(q) /\ LoneBusy(q) /\ LoneLeft(q))'
    BY DEF Loners
  <2>2. CASE q = p
    BY <1>3, <2>2, NotAlone
  <2>3. CASE q # p
    BY <1>1, <1>2, <1>3, <2>1, <2>3, LoneRests
  <2> QED
    BY <2>2, <2>3
<1> QED
  BY <1>2, <1>3, <1>4, <1>5, <1>6 DEF PInv

\* A file that is settled in the next state.
Stays(f, data) == dir'[f] = Version(data, TRUE) /\ disk'[f] = {Version(data, TRUE)}

\* The power fails: what was settled stays, and everybody stops.
LEMMA PowerFails ==
  ASSUME PInv, PowerFailure
  PROVE  PInv'
<1>1. /\ PowerLoss /\ found' = found /\ next' = next /\ announced' = announced
      /\ stage["run"] # "exchange"
      /\ stage' = [p \in Procs |-> IF ~Busy(p) THEN stage[p]
                                   ELSE IF p = "run" THEN "killed" ELSE "gave up"]
      /\ alone' = [p \in Procs |-> alone[p] /\ ~Busy(p)]
  BY DEF PowerFailure
<1>2. /\ WTypes' /\ \A p \in Procs : job'[p].step = "idle"
      /\ \A f \in Files : dir'[f] \in disk[f] /\ disk'[f] = {dir'[f]}
  BY <1>1, PowerStep DEF PInv
<1>3. \A p \in Procs : /\ ~Busy(p) => stage'[p] = stage[p]
                       /\ Busy(p) => stage'[p] \in {"killed", "gave up"}
                       /\ Busy(p) /\ p # "run" => stage'[p] = "gave up"
                       /\ alone'[p] = (alone[p] /\ ~Busy(p))
  BY <1>1
<1>4. PTypes'
  <2>1. \A p \in Procs : stage'[p] \in Stages
    BY <1>3 DEF PInv, PTypes, Stages
  <2> QED
    BY <1>1, <2>1 DEF PInv, PTypes
<1>5. \A f \in Files : \A d : Settled(f, d) => Stays(f, d)
  BY <1>2 DEF Settled, Stays
<1>6. Owners'
  <2>1. stage'["cli"] \in {"idle", "writing", "done", "gave up"}
    BY <1>3, Names DEF PInv, Owners
  <2> QED
    BY <1>2, <2>1 DEF Owners, Owns
<1>7. Verdicts'
  <2>1. stage'["run"] \notin {"exchange", "results", "preserve"}
    BY <1>1, <1>3, Names DEF Busy
  <2>2. announced # "none" => Stays("results", announced)
    BY <1>5, Names DEF PInv, Verdicts
  <2> QED
    BY <1>1, <1>2, <2>1, <2>2, Names DEF Verdicts, Settled, Stays
<1>8. Loners'
  <2> SUFFICES ASSUME NEW p \in Procs, alone'[p] PROVE (LoneWhere(p) /\ LoneBusy(p) /\ LoneLeft(p))'
    BY NotAlone DEF Loners
  <2>1. /\ LoneWhere(p) /\ LoneLeft(p) /\ alone[p] /\ ~Busy(p)
    BY <1>3 DEF PInv, Loners
  <2>2. stage[p] = "done" /\ stage'[p] = "done"
    BY <1>3, <2>1 DEF LoneWhere, Busy
  <2>3. LoneWhere(p)'
    <3>1. \A q \in Procs : ~Comparing(q)'
      BY <1>3 DEF Comparing, Busy
    <3> QED
      BY <1>3, <2>1, <2>2, <3>1 DEF LoneWhere
  <2>4. LoneBusy(p)'
    BY <2>2 DEF LoneBusy, Comparing
  <2>5. LoneLeft(p)'
    <3>1. \A i \in DOMAIN Outputs : Settled(Outputs[i], found[p])
      BY <2>1, <2>2 DEF LoneLeft
    <3>2. \A i \in DOMAIN Outputs : Stays(Outputs[i], found[p])
      BY <1>5, <3>1, Names
    <3> QED
      BY <1>1, <3>2 DEF LoneLeft, Settled, Stays
  <2> QED
    BY <2>3, <2>4, <2>5
<1> QED
  BY <1>2, <1>4, <1>6, <1>7, <1>8 DEF PInv

\* A step of a write disturbs no file that another process is about.
LEMMA WritingStep ==
  ASSUME PInv, NEW p \in Procs, Writing(p)
  PROVE  PInv'
<1> DEFINE f == job[p].file
           new == Version(job[p].data, TRUE)
<1>1. /\ WriteStep(p) /\ stage' = stage /\ found' = found /\ next' = next /\ alone' = alone
      /\ announced' = announced
  BY DEF Writing, publicationVars, comparison
<1>2. /\ WTypes' /\ job[p].step # "idle" /\ f \in Files
      /\ job'[p].file = f /\ job'[p].data = job[p].data
      /\ \A q \in Procs : q # p => job'[q] = job[q]
      /\ Advance(p) \/ PutInPlace(p) \/ MadeDurable(p)
  BY <1>1, WriteSteps DEF PInv
<1>3. \A g \in Files \ {f} : dir'[g] = dir[g] /\ disk'[g] = disk[g]
  BY <1>2 DEF Advance, PutInPlace, MadeDurable
<1>4. Placed(p) => Placed(p)'
  <2>1. CASE Advance(p)
    BY <2>1 DEF Advance, Placed
  <2>2. CASE PutInPlace(p)
    BY <1>2, <2>2 DEF PutInPlace, Placed
  <2>3. CASE MadeDurable(p)
    BY <1>2, <2>3 DEF MadeDurable, Placed
  <2> QED
    BY <1>2, <2>1, <2>2, <2>3
<1>5. Placed(p) /\ Settled(f, job[p].data) => Stays(f, job[p].data)
  <2>1. CASE Advance(p)
    BY <2>1 DEF Advance, Placed, Settled, Stays
  <2>2. CASE PutInPlace(p)
    BY <1>2, <2>2 DEF PutInPlace, Placed, Settled, Stays
  <2>3. CASE MadeDurable(p)
    BY <1>2, <2>3 DEF MadeDurable, Placed, Settled, Stays
  <2> QED
    BY <1>2, <2>1, <2>2, <2>3
<1>6. \A g \in Files \ {f} : \A d : Settled(g, d) => Stays(g, d)
  BY <1>3 DEF Settled, Stays
<1>7. PTypes'
  BY <1>1 DEF PInv, PTypes
<1>8. Owners'
  <2> SUFFICES ASSUME NEW q \in Procs PROVE Owns(q)'
    BY <1>1 DEF PInv, Owners
  <2>1. Owns(q) /\ (job'[q].step # "idle" => job[q].step # "idle")
    BY <1>2 DEF PInv, Owners
  <2>2. job'[q].file = job[q].file /\ job'[q].data = job[q].data
    BY <1>2
  <2> QED
    BY <1>1, <2>1, <2>2 DEF Owns, Comparing
<1>9. Owns(p) /\ (p # "run" => Comparing(p) /\ f # "results")
  <2>1. Owns(p)
    BY DEF PInv, Owners
  <2>2. ASSUME p # "run" PROVE Comparing(p) /\ f # "results"
    <3>1. Comparing(p) /\ next[p] \in DOMAIN Outputs /\ f = Outputs[next[p]]
      BY <1>2, <2>1, <2>2 DEF Owns
    <3> QED
      BY <3>1, Names
  <2> QED
    BY <2>1, <2>2
<1>10. Verdicts'
  <2>1. CASE f = "results"
    <3>1. p = "run" /\ stage[p] \in {"results", "preserve"}
      BY <1>2, <1>9, <2>1, Names DEF Owns
    <3>2. announced = "none" /\ Placed(p)
      BY <1>2, <2>1, <3>1 DEF PInv, Verdicts
    <3> QED
      BY <1>1, <1>4, <3>1, <3>2 DEF Verdicts
  <2>2. CASE f # "results"
    <3>1. announced # "none" => Stays("results", announced)
      BY <1>6, <2>2, Names DEF PInv, Verdicts
    <3>2. job'["run"].step # "idle" /\ job'["run"].file = "results" => Placed("run")'
      <4>1. CASE p = "run"
        BY <1>2, <2>2, <4>1
      <4>2. CASE p # "run"
        <5>1. job'["run"] = job["run"]
          BY <1>2, <4>2, Names
        <5> QED
          BY <1>3, <2>2, <5>1, Names DEF PInv, Verdicts, Placed
      <4> QED
        BY <4>1, <4>2
    <3>3. announced # "none" => stage["run"] \notin {"exchange", "results", "preserve"}
      BY DEF PInv, Verdicts
    <3> QED
      BY <1>1, <3>1, <3>2, <3>3 DEF Verdicts, Settled, Stays
  <2> QED
    BY <2>1, <2>2
<1>11. Loners'
  <2> SUFFICES ASSUME NEW q \in Procs, alone'[q] PROVE (LoneWhere(q) /\ LoneBusy(q) /\ LoneLeft(q))'
    BY NotAlone DEF Loners
  <2>1. LoneWhere(q) /\ LoneBusy(q) /\ LoneLeft(q) /\ alone[q]
    BY <1>1 DEF PInv, Loners
  <2>2. LoneWhere(q)'
    BY <1>1, <2>1 DEF LoneWhere, Comparing
  <2>3. CASE q = p
    <3>1. Comparing(p) /\ job[p].data = found[p]
      BY <1>2, <1>9, <2>1, <2>3 DEF Owns, LoneWhere
    <3>2. Placed(p) /\ next[p] > 0
      BY <1>2, <2>1, <2>3, <3>1 DEF LoneBusy
    <3>3. LoneBusy(q)'
      BY <1>1, <1>4, <2>3, <3>2 DEF LoneBusy
    <3>4. ASSUME NEW i \in DOMAIN Outputs, i < next[p] \/ stage[p] = "done"
          PROVE  Stays(Outputs[i], found[p])
      <4>1. Settled(Outputs[i], found[p]) /\ Outputs[i] \in Files
        BY <2>1, <2>3, <3>4, Names DEF LoneLeft
      <4>2. CASE Outputs[i] = f
        BY <1>5, <3>1, <3>2, <4>1, <4>2
      <4>3. CASE Outputs[i] # f
        BY <1>6, <4>1, <4>3
      <4> QED
        BY <4>2, <4>3
    <3>5. LoneLeft(q)'
      BY <1>1, <2>3, <3>4 DEF LoneLeft, Settled, Stays
    <3> QED
      BY <2>2, <3>3, <3>5
  <2>4. CASE q # p
    <3>1. ~Comparing(p) /\ f = "results"
      BY <1>2, <1>9, <2>1, <2>4 DEF LoneWhere, Owns
    <3>2. job'[q] = job[q]
      BY <1>2, <2>4
    <3>3. LoneBusy(q)'
      <4>1. ASSUME Comparing(q), job[q].step # "idle"
            PROVE  job[q].file \in Files \ {f} /\ Placed(q)
        <5>1. Owns(q)
          BY DEF PInv, Owners
        <5>2. next[q] \in DOMAIN Outputs /\ job[q].file = Outputs[next[q]]
          BY <4>1, <5>1 DEF Owns, Comparing
        <5> QED
          BY <2>1, <3>1, <4>1, <5>2, Names DEF LoneBusy
      <4>2. Comparing(q) /\ job[q].step # "idle" => Placed(q)'
        BY <1>3, <3>2, <4>1 DEF Placed
      <4> QED
        BY <1>1, <2>1, <3>2, <4>2 DEF LoneBusy, Comparing
    <3>4. LoneLeft(q)'
      <4>1. \A i \in DOMAIN Outputs : Outputs[i] \in Files \ {f}
        BY <3>1, Names
      <4>2. \A i \in DOMAIN Outputs : i < next[q] \/ stage[q] = "done" => Stays(Outputs[i], found[q])
        BY <1>6, <2>1, <4>1 DEF LoneLeft
      <4> QED
        BY <1>1, <4>2 DEF LoneLeft, Settled, Stays
    <3> QED
      BY <2>2, <3>3, <3>4
  <2> QED
    BY <2>3, <2>4
<1> QED
  BY <1>2, <1>7, <1>8, <1>10, <1>11 DEF PInv

\* Every step keeps the invariant.
LEMMA PStep ==
  ASSUME PInv, [Next]_vars
  PROVE  PInv'
<1>1. CASE Exchanging \/ UNCHANGED vars
  BY <1>1, Idle DEF Exchanging, vars, writerVars, publicationVars, comparison
<1>2. CASE Conclude
  <2>1. PICK data \in Data, l \in {"results", "preserve"} :
          Open("run", "results", data) /\ Go("run", l) /\ (l = "preserve" => data = "INFRA_ERROR")
    BY <1>2, Names DEF Conclude, SaveResults
  <2>2. /\ WTypes' /\ dir' = dir /\ disk' = disk
        /\ job'["run"] = [step |-> "checked", file |-> "results", data |-> data]
        /\ \A q \in Procs : q # "run" => job'[q] = job[q]
    BY <2>1, OpenStep, Names DEF PInv
  <2> QED
    BY <1>2, <2>1, <2>2, StartsResults DEF Conclude, comparison
<1>3. CASE Announce
  BY <1>3, EndsResults DEF Announce, comparison
<1>4. CASE Preserve
  <2> DEFINE new == [step |-> "checked", file |-> "results", data |-> "INFRA_ERROR"]
  <2>1. /\ job' = [job EXCEPT !["run"] = new] /\ dir' = dir /\ disk' = disk
    BY <1>4 DEF Preserve
  <2>2. new \in [step : Steps, file : Files \cup {"none"}, data : Data] /\ new.file \in Files
    BY Names DEF Steps
  <2> HIDE DEF new
  <2>3. /\ WTypes' /\ job'["run"] = new /\ \A q \in Procs : q # "run" => job'[q] = job[q]
    BY <2>1, <2>2, Names DEF PInv, WTypes
  <2> QED
    BY <1>4, <2>1, <2>3, StartsResults, Names DEF Preserve, comparison, new
<1>5. CASE Preserved
  <2>1. At("run", "returned") => job["run"].data = "INFRA_ERROR"
    BY <1>5, Names DEF Preserved, PInv, Owners, Owns, Comparing, At
  <2> QED
    BY <1>5, <2>1, EndsResults DEF Preserved, comparison
<1>6. ASSUME NEW p \in Procs,
             Collect(p) \/ SaveOutput(p) \/ Writing(p) \/ Saved(p) \/ GiveUp(p) \/ Kill(p)
      PROVE  PInv'
  <2>1. CASE Kill(p)
    BY <2>1, StopStep DEF Kill
  <2>2. CASE GiveUp(p)
    BY <2>2, StopStep DEF GiveUp
  <2> QED
    BY <1>6, <2>1, <2>2, CollectStep, SaveStep, WritingStep, SavedStep
<1>7. CASE PowerFailure
  BY <1>7, PowerFails
<1> QED
  BY <1>1, <1>2, <1>3, <1>4, <1>5, <1>6, <1>7 DEF Next

\* The invariant holds.
LEMMA PInvariance == Spec => []PInv
BY InitOk, PStep, PTL DEF Spec

----------------------------------------------------------------------------
(* What it is for.                                                         *)

\* Every file is a register, whoever writes it, whatever fails.
THEOREM FilesStayWhole == Spec => FilesAreRegisters
<1>1. Init => Register!Init
  BY InitIsRegister
<1>2. PInv /\ [Next]_vars => [Register!Next]_<<RValue, RKept>>
  <2> SUFFICES ASSUME PInv, [Next]_vars PROVE Register!Next \/ UNCHANGED <<RValue, RKept>>
    OBVIOUS
  <2>1. CASE UNCHANGED <<dir, disk>>
    BY <2>1 DEF RValue, RKept
  <2>2. CASE \E p \in Procs : WriteStep(p)
    BY <2>2, WriteIsRegister DEF PInv
  <2>3. CASE PowerLoss
    BY <2>3, PowerIsRegister DEF PInv
  <2> QED
    BY <2>1, <2>2, <2>3, FileSteps
<1> QED
  BY <1>1, <1>2, PInvariance, PTL DEF Spec, FilesAreRegisters, Register!Spec, Register!vars, RValue, RKept

\* An announced verdict is on the disk, and stays.
THEOREM VerdictStays == Spec => []VerdictSurvives
<1>1. PInv => VerdictSurvives
  BY DEF PInv, Verdicts, Settled, VerdictSurvives
<1> QED
  BY <1>1, PInvariance, PTL

\* The outputs of a comparison that was alone are of one read, and stay.
THEOREM LoneComparison == Spec => []AloneIsConsistent
<1>1. PInv => AloneIsConsistent
  <2> SUFFICES ASSUME PInv, NEW p \in Procs, stage[p] = "done", alone[p], NEW i \in DOMAIN Outputs
               PROVE  Settled(Outputs[i], found[p])
    BY DEF AloneIsConsistent, Settled
  <2> QED
    BY DEF PInv, Loners, LoneLeft
<1> QED
  BY <1>1, PInvariance, PTL

----------------------------------------------------------------------------
(* The order of the leaderboard.                                           *)

\* A set of naturals has a least element.
LEMMA Least ==
  ASSUME NEW D \in SUBSET Nat, D # {}
  PROVE  \E i \in D : \A j \in D : i <= j
<1> DEFINE R == {ss \in Nat \X Nat : ss[1] < ss[2]}
<1>1. IsWellFoundedOn(R, Nat)
  BY NatLessThanWellFounded DEF OpToRel
<1>2. \E x \in D : \A y \in D : ~ (<<y, x>> \in R)
  <2> HIDE DEF R
  <2> QED
    BY ONLY <1>1, D \in SUBSET Nat, D # {}, WFMin
<1>3. PICK x \in D : \A y \in D : ~ (<<y, x>> \in R)
  BY <1>2
<1>4. \A y \in D : <<y, x>> \in R <=> y < x
  OBVIOUS
<1>5. \A y \in D : x <= y
  <2> SUFFICES ASSUME NEW y \in D PROVE x <= y
    OBVIOUS
  <2>1. ~(y < x) /\ x \in Nat /\ y \in Nat
    BY <1>3, <1>4
  <2> QED
    BY ONLY <2>1
<1> QED
  BY <1>5

\* Of two keys that differ somewhere one comes before the other.
LEMMA Total ==
  ASSUME NEW k \in Seq(Int), NEW l \in Seq(Int), Len(k) = Len(l),
         NEW n \in 1..Len(k), k[n] # l[n]
  PROVE  Before(k, l) \/ Before(l, k)
<1> DEFINE D == {i \in 1..Len(k) : k[i] # l[i]}
<1>1. D # {}
  OBVIOUS
<1>2. D \in SUBSET Nat
  OBVIOUS
<1>3. PICK i \in D : \A j \in D : i <= j
  BY <1>1, <1>2, Least
<1>4. \A j \in 1..(i-1) : k[j] = l[j]
  BY <1>3
<1>5. i \in DOMAIN k /\ i \in DOMAIN l /\ k[i] \in Int /\ l[i] \in Int /\ k[i] # l[i]
  OBVIOUS
<1>6. k[i] < l[i] \/ l[i] < k[i]
  BY ONLY <1>5
<1> QED
  BY ONLY <1>4, <1>5, <1>6 DEF Before

\* The order is transitive.
LEMMA Transitive ==
  ASSUME NEW k \in Seq(Int), NEW l \in Seq(Int), NEW m \in Seq(Int),
         Len(k) = Len(l), Len(l) = Len(m), Before(k, l), Before(l, m)
  PROVE  Before(k, m)
<1>1. PICK a \in DOMAIN k : k[a] < l[a] /\ \A j \in 1..(a - 1) : k[j] = l[j]
  BY DEF Before
<1>2. PICK b \in DOMAIN l : l[b] < m[b] /\ \A j \in 1..(b - 1) : l[j] = m[j]
  BY DEF Before
<1>3. a \in 1..Len(k) /\ b \in 1..Len(k) /\ DOMAIN k = 1..Len(k)
  OBVIOUS
<1>4. \A i \in 1..Len(k) : k[i] \in Int /\ l[i] \in Int /\ m[i] \in Int
  OBVIOUS
<1>5. CASE a <= b
  <2>1. k[a] \in Int /\ l[a] \in Int /\ m[a] \in Int /\ k[a] < l[a]
    BY ONLY <1>1, <1>3, <1>4
  <2>2. k[a] < m[a]
    <3>1. CASE a = b
      <4>1. l[a] < m[a]
        BY ONLY <1>2, <3>1
      <4> QED
        BY ONLY <2>1, <4>1, SMTT(30)
    <3>2. CASE a < b
      <4>1. a \in 1..(b - 1)
        BY ONLY <1>3, <3>2
      <4>2. l[a] = m[a]
        BY ONLY <1>2, <4>1
      <4> QED
        BY ONLY <2>1, <4>2
    <3>3. a = b \/ a < b
      BY ONLY <1>3, <1>5
    <3> QED
      BY ONLY <3>1, <3>2, <3>3
  <2>3. \A j \in 1..(a - 1) : j \in 1..(b - 1)
    BY ONLY <1>3, <1>5, Len(k) \in Nat, SMTT(30)
  <2>4. \A j \in 1..(a - 1) : k[j] = m[j]
    BY ONLY <1>1, <1>2, <2>3
  <2> QED
    BY ONLY <2>2, <2>4, a \in DOMAIN k DEF Before
<1>6. CASE b < a
  <2>1. b \in 1..(a - 1) /\ \A j \in 1..(b - 1) : j \in 1..(a - 1)
    BY ONLY <1>3, <1>6, Len(k) \in Nat
  <2>2. k[b] < m[b]
    <3>1. k[b] = l[b]
      BY ONLY <1>1, <2>1
    <3>2. l[b] < m[b]
      BY ONLY <1>2
    <3> QED
      BY ONLY <3>1, <3>2
  <2>3. \A j \in 1..(b - 1) : k[j] = m[j]
    BY ONLY <1>1, <1>2, <2>1
  <2> QED
    BY ONLY <1>3, <2>2, <2>3 DEF Before
<1> QED
  BY <1>3, <1>5, <1>6

\* Rows that can be told apart by their keys, and the ranks they get.
Keyed(Q) ==
  /\ \A a, b \in Q : RankKey(a) \in Seq(Int) /\ Len(RankKey(a)) = Len(RankKey(b))
  /\ \A a, b \in Q : a # b => \E n \in 1..Len(RankKey(a)) : RankKey(a)[n] # RankKey(b)[n]
Lower(Q, a) == {s \in Q : Before(RankKey(s), RankKey(a))}
RankIn(Q, a) == 1 + Cardinality(Lower(Q, a))

\* A row has a rank of its own, lower than those of the rows after it.
LEMMA RankOrder ==
  ASSUME NEW Q, IsFiniteSet(Q), Keyed(Q)
  PROVE  /\ \A a \in Q : RankIn(Q, a) \in 1..Cardinality(Q)
         /\ \A a, b \in Q : Before(RankKey(a), RankKey(b)) => RankIn(Q, a) < RankIn(Q, b)
         /\ \A a, b \in Q : a # b => RankIn(Q, a) # RankIn(Q, b)
<1>1. \A a \in Q : a \notin Lower(Q, a)
  BY DEF Lower, Before, Keyed
<1>2. \A a \in Q : /\ Lower(Q, a) \in SUBSET (Q \ {a}) /\ IsFiniteSet(Lower(Q, a))
                   /\ Cardinality(Lower(Q, a)) \in Nat
                   /\ Cardinality(Lower(Q, a)) <= Cardinality(Q) - 1
  <2> SUFFICES ASSUME NEW a \in Q
               PROVE  /\ Lower(Q, a) \in SUBSET (Q \ {a}) /\ IsFiniteSet(Lower(Q, a))
                      /\ Cardinality(Lower(Q, a)) \in Nat
                      /\ Cardinality(Lower(Q, a)) <= Cardinality(Q) - 1
    OBVIOUS
  <2>1. Lower(Q, a) \in SUBSET (Q \ {a})
    BY <1>1 DEF Lower
  <2>2. IsFiniteSet(Q \ {a}) /\ Cardinality(Q \ {a}) = Cardinality(Q) - 1
    BY FS_RemoveElement
  <2>3. IsFiniteSet(Lower(Q, a)) /\ Cardinality(Lower(Q, a)) <= Cardinality(Q \ {a})
    BY <2>1, <2>2, FS_Subset
  <2>4. Cardinality(Lower(Q, a)) \in Nat
    BY <2>3, FS_CardinalityType
  <2> QED
    BY <2>1, <2>2, <2>3, <2>4
<1>3. Cardinality(Q) \in Nat
  BY FS_CardinalityType
<1>4. \A a \in Q : RankIn(Q, a) \in 1..Cardinality(Q)
  BY <1>2, <1>3 DEF RankIn
<1>5. ASSUME NEW a \in Q, NEW b \in Q, Before(RankKey(a), RankKey(b))
      PROVE  RankIn(Q, a) < RankIn(Q, b)
  <2>1. \A s \in Lower(Q, a) : s \in Lower(Q, b)
    <3> SUFFICES ASSUME NEW s \in Lower(Q, a) PROVE Before(RankKey(s), RankKey(b)) /\ s \in Q
      BY DEF Lower
    <3>1. s \in Q /\ Before(RankKey(s), RankKey(a))
      BY DEF Lower
    <3>2. /\ RankKey(s) \in Seq(Int) /\ RankKey(a) \in Seq(Int) /\ RankKey(b) \in Seq(Int)
          /\ Len(RankKey(s)) = Len(RankKey(a)) /\ Len(RankKey(a)) = Len(RankKey(b))
      BY <3>1 DEF Keyed
    <3> QED
      BY ONLY <1>5, <3>1, <3>2, Transitive
  <2>2. (Lower(Q, a) \cup {a}) \in SUBSET Lower(Q, b)
    BY <1>5, <2>1 DEF Lower
  <2>3. Cardinality(Lower(Q, a) \cup {a}) = Cardinality(Lower(Q, a)) + 1
    BY <1>1, <1>2, FS_AddElement
  <2>4. Cardinality(Lower(Q, a) \cup {a}) <= Cardinality(Lower(Q, b))
    BY <1>2, <2>2, FS_Subset
  <2> QED
    BY <1>2, <2>3, <2>4 DEF RankIn
<1>6. ASSUME NEW a \in Q, NEW b \in Q, a # b
      PROVE  RankIn(Q, a) # RankIn(Q, b)
  <2>1. PICK n \in 1..Len(RankKey(a)) : RankKey(a)[n] # RankKey(b)[n]
    BY <1>6 DEF Keyed
  <2>2. RankKey(a) \in Seq(Int) /\ RankKey(b) \in Seq(Int) /\ Len(RankKey(a)) = Len(RankKey(b))
    BY DEF Keyed
  <2>3. Before(RankKey(a), RankKey(b)) \/ Before(RankKey(b), RankKey(a))
    BY ONLY <2>1, <2>2, Total
  <2>4. RankIn(Q, a) \in Int /\ RankIn(Q, b) \in Int
    BY <1>4
  <2>5. RankIn(Q, a) < RankIn(Q, b) \/ RankIn(Q, b) < RankIn(Q, a)
    BY <1>5, <2>3
  <2> QED
    BY ONLY <2>4, <2>5
<1> QED
  BY <1>4, <1>5, <1>6

\* The ranks are numbered without a gap.
LEMMA RanksAreAll ==
  ASSUME NEW Q, IsFiniteSet(Q), Keyed(Q)
  PROVE  {RankIn(Q, a) : a \in Q} = 1..Cardinality(Q)
<1> DEFINE f == [a \in Q |-> RankIn(Q, a)]
           T == 1..Cardinality(Q)
<1>1. Cardinality(Q) \in Nat
  BY FS_CardinalityType
<1>2. IsFiniteSet(T) /\ Cardinality(T) = Cardinality(Q)
  BY <1>1, FS_Interval
<1>3. f \in [Q -> T] /\ \A a, b \in Q : f[a] = f[b] => a = b
  BY RankOrder
<1>4. f \in Injection(Q, T)
  BY <1>3 DEF Injection, IsInjective
<1>5. f \in Surjection(Q, T)
  <2> HIDE DEF f, T
  <2> QED
    BY <1>2, <1>4, FS_Injection
<1>6. \A t \in T : \E a \in Q : f[a] = t
  BY <1>5 DEF Surjection
<1> QED
  BY <1>3, <1>6

\* One entry for each row.
LEMMA EntriesAreRows ==
  ASSUME NEW Q, IsFiniteSet(Q)
  PROVE  Cardinality({[row |-> a, rank |-> RankIn(Q, a)] : a \in Q}) = Cardinality(Q)
<1> DEFINE E == {[row |-> a, rank |-> RankIn(Q, a)] : a \in Q}
           f == [a \in Q |-> [row |-> a, rank |-> RankIn(Q, a)]]
<1>1. f \in [Q -> E] /\ (\A a, b \in Q : f[a] = f[b] => a = b) /\ \A t \in E : \E a \in Q : f[a] = t
  OBVIOUS
<1>2. f \in Bijection(Q, E)
  BY <1>1 DEF Bijection, Injection, Surjection, IsInjective
<1>3. ExistsBijection(Q, E)
  BY <1>2 DEF ExistsBijection
<1> QED
  BY <1>3, FS_Bijection

----------------------------------------------------------------------------
(* The rows of a comparison.                                               *)

\* What was found in every directory.
Found(data) == [d \in DOMAIN Archive \cup {Live} |->
                   IF d = Live THEN LiveEntry(data) ELSE Archive[d]]

\* The live run's result can be sorted, and says its outcome.
LEMMA LiveIsSortable ==
  ASSUME NEW data \in Data
  PROVE  /\ Sortable(LiveEntry(data).result)
         /\ LiveEntry(data).kind = "result" => LiveEntry(data).result.outcome = data
<1>1. CASE data = "started"
  BY <1>1, ArchiveAssumption DEF LiveEntry
<1>2. CASE data # "started"
  <2> DEFINE r == ResultOf(data)
  <2>1. /\ r.components = LiveResult.components /\ r.run = LiveResult.run
        /\ r.stamp = LiveResult.stamp /\ r.outcome = data
        /\ r.score \in {LiveResult.score, Missing}
    BY ArchiveAssumption DEF ResultOf, RankFields, OtherFields
  <2>2. Sortable(r)
    BY <2>1, ArchiveAssumption DEF Sortable, Missing
  <2> QED
    BY <1>2, <2>1, <2>2 DEF LiveEntry
<1> QED
  BY <1>1, <1>2

\* A comparison has finitely many rows, one of each directory.
LEMMA RowsAreFound ==
  ASSUME NEW data \in Data
  PROVE  /\ IsFiniteSet(RunsAt(data))
         /\ \A row \in RunsAt(data) :
              /\ row.dir \in Int /\ row = RowOf(row.dir, Found(data)[row.dir])
              /\ Sortable(row.result)
              /\ row.dir = Live /\ row.validation = "VALID" => row.result.outcome = data
<1> DEFINE F == Found(data)
           D == {d \in DOMAIN Archive \cup {Live} : Listed(F[d])}
           f == [d \in D |-> RowOf(d, F[d])]
<1>1. DOMAIN F = DOMAIN Archive \cup {Live}
  BY DEF Found
<1>2. RunsAt(data) = {RowOf(d, F[d]) : d \in D}
  BY <1>1 DEF RunsAt, CollectedRows, Found
<1>3. IsFiniteSet(D)
  <2>1. IsFiniteSet(DOMAIN Archive \cup {Live})
    BY ArchiveAssumption, FS_AddElement
  <2>2. D \in SUBSET (DOMAIN Archive \cup {Live})
    OBVIOUS
  <2> QED
    BY <2>1, <2>2, FS_Subset
<1>4. IsFiniteSet(RunsAt(data))
  <2>1. f \in Surjection(D, RunsAt(data))
    BY <1>2 DEF Surjection
  <2> QED
    BY <1>3, <2>1, FS_Surjection
<1>5. ASSUME NEW d \in D
      PROVE  /\ RowOf(d, F[d]).dir = d /\ d \in Int /\ Sortable(RowOf(d, F[d]).result)
             /\ d = Live /\ RowOf(d, F[d]).validation = "VALID" => RowOf(d, F[d]).result.outcome = data
  <2>1. RowOf(d, F[d]).dir = d /\ RowOf(d, F[d]).result = F[d].result
    BY DEF RowOf
  <2>2. d \in Int
    BY ArchiveAssumption
  <2>3. Sortable(F[d].result)
    BY ArchiveAssumption, LiveIsSortable DEF Found
  <2>4. ASSUME d = Live, RowOf(d, F[d]).validation = "VALID" PROVE F[d].result.outcome = data
    <3>1. F[d] = LiveEntry(data)
      BY <2>4 DEF Found
    <3>2. F[d].kind = "result"
      BY <2>4 DEF RowOf
    <3> QED
      BY <3>1, <3>2, LiveIsSortable
  <2> QED
    BY <2>1, <2>2, <2>3, <2>4
<1>6. ASSUME NEW row \in RunsAt(data)
      PROVE  /\ row.dir \in Int /\ row = RowOf(row.dir, F[row.dir])
             /\ Sortable(row.result)
             /\ row.dir = Live /\ row.validation = "VALID" => row.result.outcome = data
  <2>1. PICK d \in D : row = RowOf(d, F[d])
    BY <1>2
  <2> HIDE DEF D, F
  <2> QED
    BY <1>5, <2>1
<1> QED
  BY <1>4, <1>6

\* What a concatenation is made of.
LEMMA Concatenation ==
  ASSUME NEW s \in Seq(Int), NEW t \in Seq(Int)
  PROVE  /\ s \o t \in Seq(Int) /\ Len(s \o t) = Len(s) + Len(t)
         /\ \A i \in 1..Len(s) : (s \o t)[i] = s[i]
         /\ \A i \in 1..Len(t) : (s \o t)[Len(s) + i] = t[i]
OBVIOUS

\* Rows of different directories have keys that differ.
LEMMA RowsAreKeyed ==
  ASSUME NEW data \in Data, NEW Q \in SUBSET RunsAt(data)
  PROVE  Keyed(Q)
<1>1. ASSUME NEW row \in Q
      PROVE  /\ RankKey(row) \in Seq(Int) /\ Len(RankKey(row)) = Len(LiveResult.components) + 4
             /\ RankKey(row)[1] = Descending(row.result.score)
             /\ RankKey(row)[Len(LiveResult.components) + 4] = row.dir
  <2> DEFINE c == row.result.components
             k == [i \in DOMAIN c |-> Descending(c[i])]
             n == Len(LiveResult.components)
             a == <<Descending(row.result.score)>>
             z == <<row.result.stamp, row.result.run, row.dir>>
  <2>1. row.dir \in Int /\ Sortable(row.result)
    BY RowsAreFound
  <2>2. c \in Seq(Int) /\ Len(c) = n /\ n \in Nat
    BY <2>1 DEF Sortable
  <2>3. \A v \in Int : Descending(v) \in Int
    BY ComparisonAssumption DEF Descending
  <2>4. k \in Seq(Int) /\ Len(k) = n
    <3>1. DOMAIN c = 1..n /\ \A i \in 1..n : c[i] \in Int
      BY <2>2
    <3>2. k \in [1..n -> Int]
      BY <2>3, <3>1
    <3> HIDE DEF k, n
    <3> QED
      BY ONLY <2>2, <3>2
  <2>5. a \in Seq(Int) /\ Len(a) = 1 /\ a[1] = Descending(row.result.score)
    <3>1. Descending(row.result.score) \in Int
      BY <2>1, <2>3 DEF Sortable
    <3> QED
      BY ONLY <3>1
  <2>6. z \in Seq(Int) /\ Len(z) = 3 /\ z[3] = row.dir
    BY <2>1 DEF Sortable
  <2>7. RankKey(row) = a \o k \o z
    BY DEF RankKey
  <2> HIDE DEF a, k, z, c, n
  <2>8. a \o k \in Seq(Int) /\ Len(a \o k) = n + 1 /\ (a \o k)[1] = a[1]
    <3>1. /\ a \o k \in Seq(Int) /\ Len(a \o k) = Len(a) + Len(k)
          /\ \A i \in 1..Len(a) : (a \o k)[i] = a[i]
      BY ONLY <2>4, <2>5, Concatenation
    <3> QED
      BY ONLY <2>2, <2>4, <2>5, <3>1
  <2>9. /\ (a \o k) \o z \in Seq(Int) /\ Len((a \o k) \o z) = n + 4
        /\ ((a \o k) \o z)[1] = a[1] /\ ((a \o k) \o z)[n + 4] = z[3]
    <3> DEFINE s == a \o k
    <3>1. /\ s \o z \in Seq(Int) /\ Len(s \o z) = Len(s) + Len(z)
          /\ \A i \in 1..Len(s) : (s \o z)[i] = s[i]
          /\ \A i \in 1..Len(z) : (s \o z)[Len(s) + i] = z[i]
      BY ONLY <2>6, <2>8, Concatenation
    <3> HIDE DEF s
    <3>2. 1 \in 1..Len(s) /\ 3 \in 1..Len(z) /\ Len(s) + 3 = n + 4
      BY ONLY <2>2, <2>6, <2>8 DEF s
    <3>3. (s \o z)[1] = s[1] /\ (s \o z)[n + 4] = z[3]
      BY <3>1, <3>2
    <3>4. Len(s \o z) = n + 4 /\ s[1] = a[1]
      BY <2>2, <2>6, <2>8, <3>1 DEF s
    <3> QED
      BY <3>1, <3>3, <3>4 DEF s
  <2> QED
    BY <2>5, <2>6, <2>7, <2>9 DEF n
<1>2. \A a, b \in Q : a # b => a.dir # b.dir
  BY RowsAreFound
<1>3. Len(LiveResult.components) \in Nat
  BY ArchiveAssumption DEF Sortable
<1>4. \A a, b \in Q : RankKey(a) \in Seq(Int) /\ Len(RankKey(a)) = Len(RankKey(b))
  BY <1>1
<1>5. ASSUME NEW a \in Q, NEW b \in Q, a # b
      PROVE  \E n \in 1..Len(RankKey(a)) : RankKey(a)[n] # RankKey(b)[n]
  <2> DEFINE n == Len(LiveResult.components) + 4
  <2>1. n \in 1..Len(RankKey(a))
    BY <1>1, <1>3
  <2>2. RankKey(a)[n] # RankKey(b)[n]
    BY <1>1, <1>2, <1>5
  <2> QED
    BY <2>1, <2>2
<1> QED
  BY ONLY <1>4, <1>5 DEF Keyed

\* The score comes first in the key.
LEMMA ScoreIsFirst ==
  ASSUME NEW data \in Data, NEW a \in RunsAt(data), NEW b \in RunsAt(data),
         a.result.score # Missing, b.result.score # Missing, a.result.score > b.result.score
  PROVE  Before(RankKey(a), RankKey(b))
<1>1. /\ RankKey(a)[1] = Descending(a.result.score) /\ RankKey(b)[1] = Descending(b.result.score)
      /\ 1 \in DOMAIN RankKey(a)
  BY RowsAreFound DEF RankKey, Sortable
<1>2. a.result.score \in Int /\ b.result.score \in Int
  BY RowsAreFound DEF Sortable
<1>3. RankKey(a)[1] < RankKey(b)[1]
  BY <1>1, <1>2 DEF Descending
<1> QED
  BY <1>1, <1>3 DEF Before

----------------------------------------------------------------------------
(* Who is shown as decided.                                                *)

\* What a row says follows from the result that was read.
LEMMA RowParts ==
  ASSUME NEW data \in Data, NEW row \in RunsAt(data)
  PROVE  \E valid \in BOOLEAN :
           /\ row.eligible = (valid /\ Eligible(row.result))
           /\ row.complete = (valid /\ IdentityComplete(row.result.model))
           /\ row.group = (IF valid /\ Compatible(row.result) THEN Group(row.result) ELSE NoGroup)
           /\ valid => row.validation = "VALID"
           /\ ~valid => row.validation \in {"INCOMPLETE", "INVALID"}
<1> DEFINE e == Found(data)[row.dir]
           valid == e.kind = "result"
<1> HIDE DEF e
<1>1. row = RowOf(row.dir, e)
  BY RowsAreFound DEF e
<1>2. /\ RowOf(row.dir, e).result = e.result
      /\ RowOf(row.dir, e).eligible = (valid /\ Eligible(e.result))
      /\ RowOf(row.dir, e).complete = (valid /\ IdentityComplete(e.result.model))
      /\ RowOf(row.dir, e).group
           = (IF valid /\ Compatible(e.result) THEN Group(e.result) ELSE NoGroup)
      /\ valid => RowOf(row.dir, e).validation = "VALID"
      /\ ~valid => RowOf(row.dir, e).validation \in {"INCOMPLETE", "INVALID"}
  BY DEF RowOf
<1>3. valid \in BOOLEAN
  OBVIOUS
<1> HIDE DEF valid
<1> QED
  BY <1>1, <1>2, <1>3

\* The entries of the leaderboard, field by field.
LEMMA EntryFields ==
  ASSUME NEW Q, NEW E, E = {[row |-> a, rank |-> RankIn(Q, a)] : a \in Q}
  PROVE  /\ \A q \in E : q.row \in Q /\ q.rank = RankIn(Q, q.row)
         /\ \A a \in Q : \E q \in E : q.row = a /\ q.rank = RankIn(Q, a)
<1>1. \A q \in E : q.row \in Q /\ q.rank = RankIn(Q, q.row)
  OBVIOUS
<1>2. ASSUME NEW a \in Q PROVE \E q \in E : q.row = a /\ q.rank = RankIn(Q, a)
  <2> WITNESS [row |-> a, rank |-> RankIn(Q, a)] \in E
  <2> QED
    OBVIOUS
<1> QED
  BY ONLY <1>1, <1>2

\* The diagnostics, field by field.
LEMMA DiagnosticFields ==
  ASSUME NEW R, NEW E, E = {[row |-> row, status |-> Diagnosis(row)] : row \in R}
  PROVE  /\ \A d \in E : d.row \in R /\ d.status = Diagnosis(d.row)
         /\ \A row \in R : \E d \in E : d.row = row
<1>1. \A d \in E : d.row \in R /\ d.status = Diagnosis(d.row)
  OBVIOUS
<1>2. ASSUME NEW a \in R PROVE \E d \in E : d.row = a
  <2> WITNESS [row |-> a, status |-> Diagnosis(a)] \in E
  <2> QED
    OBVIOUS
<1> QED
  BY ONLY <1>1, <1>2

\* A row of the current group is one of the run it stands for, decided under the policy
\* configured for its model, and of a model that is known.
LEMMA CurrentIsEarned ==
  ASSUME NEW data \in Data, NEW row \in RunsAt(data), IsCurrent(row), data \in Scored => trusted
  PROVE  Earned(row) /\ row.validation = "VALID"
<1> DEFINE r == row.result
<1>1. PICK valid \in BOOLEAN :
        /\ row.eligible = (valid /\ Eligible(r))
        /\ row.complete = (valid /\ IdentityComplete(r.model))
        /\ row.group = (IF valid /\ Compatible(r) THEN Group(r) ELSE NoGroup)
        /\ valid => row.validation = "VALID"
  BY RowParts
<1>2. row.eligible /\ r.profile = "standard" /\ row.group = Current /\ row.complete
  BY DEF IsCurrent
<1>3. valid /\ Eligible(r) /\ IdentityComplete(r.model) /\ row.validation = "VALID"
  BY <1>1, <1>2
<1>4. r.outcome \in Scored /\ Validity(r) = "VALID" /\ r.status = "COMPLETE" /\ Compatible(r)
  BY <1>3 DEF Eligible
<1>5. /\ r.generation = Current.generation /\ r.setup = Current.setup
      /\ TrackIn(r) = "primary-deployment" /\ RuleOf(r) = "configured-per-model"
  BY <1>1, <1>2, <1>3, <1>4, ComparisonAssumption DEF Group
<1>6. Modern(r)
  BY <1>5 DEF TrackIn
<1>7. Derived(r) = "configured"
  <2>1. /\ Or(r.track, TrackOf(Derived(r))) = "primary-deployment"
        /\ r.track \in {Absent, TrackOf(Derived(r))}
    BY <1>4, <1>5, <1>6 DEF TrackIn, Compatible
  <2>2. TrackOf(Derived(r)) = "primary-deployment"
    BY <2>1 DEF Or
  <2> QED
    BY <2>2 DEF TrackOf, Absent
<1>8. r.requested = "configured"
  BY <1>7 DEF Derived, Absent
<1>9. /\ PolicyOf(r) = r.configured /\ PolicyOf(r) # Absent /\ PolicyOf(r) = Or(r.policy, r.effective)
      /\ r.policy = Absent \/ r.effective = Absent \/ r.policy = r.effective
  <2>1. r.generation \notin {"v2", "v3"}
    BY <1>6 DEF Modern
  <2>2. PolicyOf(r) = Or(r.policy, r.effective)
    BY <2>1 DEF PolicyOf
  <2> QED
    BY <1>4, <1>6, <1>7, <2>2 DEF Compatible
<1>10. /\ r.configured # Absent /\ r.configured \in {r.policy, r.effective}
       /\ {r.policy, r.effective} \subseteq {r.configured, Absent}
  BY <1>9 DEF Or
<1>11. IdentityFields \subseteq Known(Entry(r.model)) \cup Known(r.model.observed)
  BY <1>3 DEF IdentityComplete
<1>12. row.dir = Live => trusted
  BY <1>3, <1>4, RowsAreFound
<1> QED
  BY <1>2, <1>3, <1>4, <1>5, <1>8, <1>10, <1>11, <1>12 DEF Earned

\* The public leaderboard of what was found is right.
LEMMA LeaderboardIsRight ==
  ASSUME NEW data \in Data, data \in Scored => trusted
  PROVE  BoardIsRight(RunsAt(data), Leaderboard(RunsAt(data)))
<1> DEFINE rows == RunsAt(data)
           board == Leaderboard(rows)
           current == {row \in rows : IsCurrent(row)}
           Q == {row \in current : row.result.outcome = "QUALIFIED"}
           N == {row \in current : row.result.outcome = "NOT_QUALIFIED"}
           ranked == {q.row : q \in board.qualified}
           other == {d.row : d \in board.diagnostics}
<1>1. /\ board.qualified = {[row |-> a, rank |-> RankIn(Q, a)] : a \in Q}
      /\ board.notQualified = N
      /\ board.diagnostics = {[row |-> row, status |-> Diagnosis(row)] : row \in rows \ current}
  BY DEF Leaderboard, RankIn, Lower
<1>2. Q \in SUBSET rows /\ IsFiniteSet(Q) /\ Keyed(Q)
  <2>1. IsFiniteSet(rows) /\ Q \in SUBSET rows
    BY RowsAreFound
  <2>2. IsFiniteSet(Q)
    BY <2>1, FS_Subset
  <2>3. Keyed(Q)
    BY <2>1, RowsAreKeyed
  <2> QED
    BY <2>1, <2>2, <2>3
<1> DEFINE E == board.qualified
           D == board.diagnostics
<1>3. /\ \A q \in E : q.row \in Q /\ q.rank = RankIn(Q, q.row)
      /\ \A a \in Q : \E q \in E : q.row = a /\ q.rank = RankIn(Q, a)
      /\ \A d \in D : d.row \in rows \ current /\ d.status = Diagnosis(d.row)
      /\ \A row \in rows \ current : \E d \in D : d.row = row
  <2>1. /\ E = {[row |-> a, rank |-> RankIn(Q, a)] : a \in Q}
        /\ D = {[row |-> row, status |-> Diagnosis(row)] : row \in rows \ current}
    BY <1>1
  <2> HIDE DEF E, D, Q, rows, current
  <2>2. /\ \A q \in E : q.row \in Q /\ q.rank = RankIn(Q, q.row)
        /\ \A a \in Q : \E q \in E : q.row = a /\ q.rank = RankIn(Q, a)
    BY ONLY <2>1, EntryFields
  <2>3. /\ \A d \in D : d.row \in rows \ current /\ d.status = Diagnosis(d.row)
        /\ \A row \in rows \ current : \E d \in D : d.row = row
    <3> DEFINE R == rows \ current
    <3>1. D = {[row |-> row, status |-> Diagnosis(row)] : row \in R}
      BY <2>1
    <3> HIDE DEF R
    <3>2. /\ \A d \in D : d.row \in R /\ d.status = Diagnosis(d.row)
          /\ \A row \in R : \E d \in D : d.row = row
      BY ONLY <3>1, DiagnosticFields
    <3> QED
      BY <3>2 DEF R
  <2> QED
    BY ONLY <2>2, <2>3
<1>4. ranked = Q /\ other = rows \ current /\ {q.rank : q \in E} = {RankIn(Q, a) : a \in Q}
  <2> HIDE DEF E, D, Q, rows, current
  <2>1. {q.row : q \in E} = Q
    BY ONLY <1>3
  <2>2. {d.row : d \in D} = rows \ current
    BY ONLY <1>3
  <2>3. {q.rank : q \in E} = {RankIn(Q, a) : a \in Q}
    BY ONLY <1>3
  <2> QED
    BY <2>1, <2>2, <2>3 DEF E, D
<1>5. \A row \in current : Earned(row) /\ row.result.outcome \in Scored /\ row.result.score # Missing
  <2> SUFFICES ASSUME NEW row \in rows, IsCurrent(row)
               PROVE  Earned(row) /\ row.result.outcome \in Scored /\ row.result.score # Missing
    OBVIOUS
  <2>1. Earned(row)
    BY CurrentIsEarned
  <2>2. row.result.outcome \in Scored
    BY <2>1 DEF Earned
  <2>3. row.eligible
    BY DEF IsCurrent
  <2>4. row.result.score # Missing
    BY <2>3, RowParts DEF Eligible
  <2> QED
    BY <2>1, <2>2, <2>4
<1>6. current = Q \cup N /\ Q \cap N = {}
  BY <1>5 DEF Scored
<1>7. {q.rank : q \in board.qualified} = 1..Cardinality(ranked)
  BY <1>2, <1>4, RanksAreAll
<1>8. Cardinality(board.qualified) = Cardinality(ranked)
  BY <1>1, <1>2, <1>4, EntriesAreRows
<1>9. ASSUME NEW q \in board.qualified, NEW s \in board.qualified, q.rank < s.rank
      PROVE  q.row.result.score >= s.row.result.score
  <2>1. /\ q.row \in Q /\ s.row \in Q /\ q.rank = RankIn(Q, q.row) /\ s.rank = RankIn(Q, s.row)
    BY <1>3
  <2>2. /\ q.row.result.score \in Int /\ s.row.result.score \in Int
        /\ q.row.result.score # Missing /\ s.row.result.score # Missing
    BY <1>2, <1>5, <2>1, RowsAreFound DEF Sortable
  <2>3. ASSUME s.row.result.score > q.row.result.score PROVE FALSE
    <3>1. Before(RankKey(s.row), RankKey(q.row))
      BY <1>2, <2>1, <2>2, <2>3, ScoreIsFirst
    <3>2. RankIn(Q, s.row) < RankIn(Q, q.row)
      BY <1>2, <2>1, <3>1, RankOrder
    <3>3. RankIn(Q, s.row) \in Int /\ RankIn(Q, q.row) \in Int
      <4>1. RankIn(Q, s.row) \in 1..Cardinality(Q) /\ RankIn(Q, q.row) \in 1..Cardinality(Q)
        BY <1>2, <2>1, RankOrder
      <4> QED
        BY <4>1
    <3> QED
      BY <1>9, <2>1, <3>2, <3>3
  <2> QED
    BY <2>2, <2>3
<1>10. ASSUME NEW d \in board.diagnostics, d.status = "UNRANKED", d.row.eligible
      PROVE  FALSE
  <2>1. d.row \in rows /\ ~IsCurrent(d.row) /\ Diagnosis(d.row) = "UNRANKED"
    BY <1>3, <1>10
  <2>3. d.row.validation = "VALID"
    BY <1>10, <2>1, RowParts
  <2>4. d.row.complete /\ d.row.result.profile = "standard" /\ d.row.group = Current
    BY <2>1, <2>3 DEF Diagnosis
  <2> QED
    BY <1>10, <2>1, <2>4 DEF IsCurrent
<1>11. ranked \cup board.notQualified \cup other = rows
  BY <1>1, <1>4, <1>6
<1>12. ranked \cap board.notQualified = {} /\ (ranked \cup board.notQualified) \cap other = {}
  BY <1>1, <1>4, <1>6
<1>13. /\ \A row \in ranked : row.result.outcome = "QUALIFIED" /\ Earned(row)
       /\ \A row \in board.notQualified : row.result.outcome = "NOT_QUALIFIED" /\ Earned(row)
  BY <1>1, <1>4, <1>5
<1> HIDE DEF rows, board
<1> QED
  BY <1>7, <1>8, <1>9, <1>10, <1>11, <1>12, <1>13 DEF BoardIsRight, rows, board

\* And so are the other outputs of the same comparison.
LEMMA OutputsAreRight ==
  ASSUME NEW data \in Data
  PROVE  OutputsAgree(RunsAt(data), Leaderboard(RunsAt(data)))
<1> DEFINE rows == RunsAt(data)
           board == Leaderboard(rows)
           current == {row \in rows : IsCurrent(row)}
           listed == {q.row : q \in board.qualified} \cup board.notQualified
<1>1. /\ \A q \in board.qualified : q.row \in current
      /\ board.notQualified \subseteq current
      /\ \A d \in board.diagnostics : d.row \in rows /\ d.status = Diagnosis(d.row)
  <2> DEFINE Q == {row \in current : row.result.outcome = "QUALIFIED"}
  <2>1. /\ board.qualified = {[row |-> a, rank |-> RankIn(Q, a)] : a \in Q}
        /\ board.notQualified \subseteq current
        /\ board.diagnostics = {[row |-> row, status |-> Diagnosis(row)] : row \in rows \ current}
    BY DEF Leaderboard, RankIn, Lower
  <2>2. Q \subseteq current
    OBVIOUS
  <2> HIDE DEF Q, board, rows, current
  <2> QED
    BY <2>1, <2>2
<1>2. listed \subseteq current
  BY <1>1
<1>3. listed # {} => \E g \in Summary(rows) : g.group = Current /\ listed \subseteq g.rows
  <2> SUFFICES ASSUME NEW a \in current
               PROVE  \E g \in Summary(rows) : g.group = Current /\ listed \subseteq g.rows
    BY <1>2
  <2> DEFINE g == [group |-> Current, rows |-> {row \in rows : row.eligible /\ row.group = Current}]
  <2>1. Current \in {row.group : row \in {s \in rows : s.eligible}}
    BY DEF IsCurrent
  <2>2. g \in Summary(rows)
    BY <2>1 DEF Summary
  <2>3. current \subseteq g.rows
    BY DEF IsCurrent
  <2> QED
    BY <1>2, <2>2, <2>3
<1>4. \A c \in Candidates(rows) : c.rows \cap listed = {}
  <2>1. \A c \in Candidates(rows) : \A row \in c.rows : ~row.complete
    BY DEF Candidates
  <2>2. \A row \in listed : row.complete
    BY <1>2 DEF IsCurrent
  <2> QED
    BY <2>1, <2>2
<1>5. ASSUME NEW d \in board.diagnostics, d.status = "METADATA_INCOMPLETE",
             d.row.result.model.digest # Absent
      PROVE  \E c \in Candidates(rows) : d.row \in c.rows
  <2>1. d.row \in rows /\ Diagnosis(d.row) = "METADATA_INCOMPLETE"
    BY <1>1, <1>5
  <2>2. d.row.validation \in {"VALID", "INCOMPLETE", "INVALID"}
    BY <2>1, RowParts
  <2>3. d.row.validation = "VALID"
    BY <2>1, <2>2 DEF Diagnosis
  <2>4. ~d.row.complete
    BY <2>1, <2>3 DEF Diagnosis
  <2> DEFINE open == {row \in rows : row.validation = "VALID" /\ ~row.complete
                                       /\ row.result.model.digest # Absent}
             c == [digest |-> d.row.result.model.digest,
                   rows |-> {row \in open : row.result.model.digest = d.row.result.model.digest}]
  <2>5. d.row \in open
    BY <1>5, <2>1, <2>3, <2>4
  <2>6. c \in Candidates(rows)
    BY <2>5 DEF Candidates
  <2> QED
    BY <2>5, <2>6
<1> HIDE DEF board
<1>6. \A row \in {d.row : d \in {e \in board.diagnostics : e.status = "METADATA_INCOMPLETE"}} :
        row.result.model.digest = Absent \/ \E c \in Candidates(rows) : row \in c.rows
  BY <1>5
<1> QED
  BY <1>3, <1>4, <1>6 DEF OutputsAgree, board

----------------------------------------------------------------------------
(* What can be read of the live run's decision.                            *)

\* A decision is written only when the log could be trusted, which is judged once.
Trusting ==
  /\ phase # "judged" => ~trusted
  /\ dir["results"].data \in Scored => trusted
  /\ \A v \in disk["results"] : v.data \in Scored => trusted
  /\ \A p \in Procs : job[p].step # "idle" /\ job[p].file = "results" /\ job[p].data \in Scored => trusted
  /\ \A p \in Procs : found[p] \in Scored => trusted

\* At first nothing is decided.
LEMMA InitTrusts == Init => Trusting
<1> SUFFICES ASSUME Init PROVE Trusting
  OBVIOUS
<1>1. /\ ~trusted /\ phase = "idle" /\ \A p \in Procs : found[p] = "none" /\ job[p].step = "idle"
      /\ dir["results"] = Version("none", TRUE) /\ disk["results"] = {Version("none", TRUE)}
  BY Names DEF Init, ExchangeInit, WriterInit, NoJob
<1> QED
  BY <1>1 DEF Trusting, Scored, Version

\* The verdict on the log is given once.
LEMMA JudgedOnce ==
  ASSUME Trusting, [Next]_vars
  PROVE  /\ trusted => trusted'
         /\ phase' # "judged" => ~trusted'
<1>1. CASE phase' = phase /\ trusted' = trusted
  BY <1>1 DEF Trusting
<1>2. CASE ExchangeNext
  <2>1. CASE Judge
    BY <2>1 DEF Judge, Between, Trusting
  <2>2. CASE ~Judge
    <3>1. trusted' = trusted /\ phase # "judged"
      BY <1>2, <2>2 DEF ExchangeNext, Ask, Reject, Between, Unreachable, Begin, Chunk, End
    <3> QED
      BY <3>1 DEF Trusting
  <2> QED
    BY <2>1, <2>2
<1> QED
  BY <1>1, <1>2, ExchangeMoves DEF exchangeVars

\* What is decided stays trusted.
LEMMA TrustStep ==
  ASSUME PInv, Trusting, [Next]_vars
  PROVE  Trusting'
<1>1. (trusted => trusted') /\ (phase' # "judged" => ~trusted')
  BY JudgedOnce
<1>2. \A d : d \in Scored => d # "none" /\ d # "started" /\ d # "INFRA_ERROR"
  BY DEF Scored
<1>3. CASE UNCHANGED <<dir, disk, job, found>>
  BY <1>1, <1>3 DEF Trusting
<1>4. CASE Conclude
  <2>1. PICK data \in Data :
          /\ job' = [job EXCEPT !["run"] = [step |-> "checked", file |-> "results", data |-> data]]
          /\ dir' = dir /\ disk' = disk /\ found' = found /\ (data \in Scored => trusted)
    BY <1>2, <1>4, Names DEF Conclude, SaveResults, Open, comparison
  <2>2. /\ job'["run"].data = data /\ \A q \in Procs : q # "run" => job'[q] = job[q]
    BY <2>1, Names DEF PInv, WTypes
  <2> QED
    BY <1>1, <2>1, <2>2 DEF Trusting
<1>5. CASE Announce \/ Preserved
  <2>1. /\ job' = [job EXCEPT !["run"] = NoJob] /\ dir' = dir /\ disk' = disk /\ found' = found
    BY <1>5 DEF Announce, Preserved, comparison
  <2>2. job'["run"].step = "idle" /\ \A q \in Procs : q # "run" => job'[q] = job[q]
    BY <2>1, Names DEF PInv, WTypes, NoJob
  <2> QED
    BY <1>1, <2>1, <2>2 DEF Trusting
<1>6. CASE Preserve
  <2>1. /\ job' = [job EXCEPT !["run"] = [step |-> "checked", file |-> "results", data |-> "INFRA_ERROR"]]
        /\ dir' = dir /\ disk' = disk /\ found' = found
    BY <1>6 DEF Preserve, comparison
  <2>2. job'["run"].data = "INFRA_ERROR" /\ \A q \in Procs : q # "run" => job'[q] = job[q]
    BY <2>1, Names DEF PInv, WTypes
  <2> QED
    BY <1>1, <1>2, <2>1, <2>2 DEF Trusting
<1>7. ASSUME NEW p \in Procs, Collect(p) PROVE Trusting'
  <2>1. dir' = dir /\ disk' = disk /\ job' = job /\ found' = [found EXCEPT ![p] = Seen]
    BY <1>7 DEF Collect, writerVars
  <2>2. Seen \in Scored => dir["results"].data \in Scored
    BY <1>2 DEF Seen
  <2>3. \A q \in Procs : found'[q] \in Scored => trusted
    BY <2>1, <2>2 DEF Trusting, PInv, PTypes
  <2> QED
    BY <1>1, <2>1, <2>3 DEF Trusting
<1>8. ASSUME NEW p \in Procs, SaveOutput(p) PROVE Trusting'
  <2>1. /\ Open(p, Outputs[next[p]], found[p]) /\ found' = found
        /\ Outputs[next[p]] \in Files /\ Outputs[next[p]] # "results" /\ found[p] \in Data
    BY <1>8, Names DEF SaveOutput, publicationVars, comparison, PInv, PTypes
  <2> DEFINE f == Outputs[next[p]]
             data == found[p]
  <2>2. /\ dir' = dir /\ disk' = disk /\ job'[p].file = f
        /\ \A q \in Procs : q # p => job'[q] = job[q]
    <3>1. f \in Files /\ data \in Data /\ WTypes /\ Open(p, f, data)
      BY <2>1 DEF PInv
    <3> HIDE DEF f, data
    <3>2. /\ dir' = dir /\ disk' = disk
          /\ job'[p] = [step |-> "checked", file |-> f, data |-> data]
          /\ \A q \in Procs : q # p => job'[q] = job[q]
      BY <3>1, OpenStep
    <3> QED
      BY <3>2
  <2> QED
    BY <1>1, <2>1, <2>2 DEF Trusting
<1>9. ASSUME NEW p \in Procs, Writing(p) PROVE Trusting'
  <2>1. WriteStep(p) /\ found' = found
    BY <1>9 DEF Writing, publicationVars, comparison
  <2>2. /\ job[p].step # "idle" /\ job[p].file \in Files
        /\ job'[p].file = job[p].file /\ job'[p].data = job[p].data
        /\ \A q \in Procs : q # p => job'[q] = job[q]
        /\ Advance(p) \/ PutInPlace(p) \/ MadeDurable(p)
    BY <2>1, WriteSteps DEF PInv
  <2>3. \A q \in Procs : job'[q].step # "idle" /\ job'[q].file = "results" /\ job'[q].data \in Scored => trusted
    BY <2>2 DEF Trusting
  <2>4. /\ dir'["results"].data \in Scored => trusted
        /\ \A v \in disk'["results"] : v.data \in Scored => trusted
    <3>1. CASE Advance(p)
      BY <3>1 DEF Advance, Trusting
    <3>2. CASE PutInPlace(p)
      BY <2>2, <3>2, Names DEF PutInPlace, Trusting, Version
    <3>3. CASE MadeDurable(p)
      BY <2>2, <3>3, Names DEF MadeDurable, Trusting
    <3> QED
      BY <2>2, <3>1, <3>2, <3>3
  <2> QED
    BY <1>1, <2>1, <2>3, <2>4 DEF Trusting
<1>10. ASSUME NEW p \in Procs, Saved(p) \/ GiveUp(p) \/ Kill(p) PROVE Trusting'
  <2>1. job' = [job EXCEPT ![p] = NoJob] /\ dir' = dir /\ disk' = disk /\ found' = found
    BY <1>10 DEF Saved, GiveUp, Kill
  <2>2. job'[p].step = "idle" /\ \A q \in Procs : q # p => job'[q] = job[q]
    BY <2>1, DropJob DEF PInv
  <2> QED
    BY <1>1, <2>1, <2>2 DEF Trusting
<1>11. CASE PowerFailure
  <2>1. PowerLoss /\ found' = found
    BY <1>11 DEF PowerFailure
  <2>2. /\ \A p \in Procs : job'[p].step = "idle"
        /\ dir'["results"] \in disk["results"] /\ disk'["results"] = {dir'["results"]}
    BY <2>1, PowerStep, Names DEF PInv
  <2> QED
    BY <1>1, <2>1, <2>2 DEF Trusting
<1>12. CASE Exchanging \/ UNCHANGED vars
  BY <1>3, <1>12 DEF Exchanging, vars, writerVars, publicationVars, comparison
<1> QED
  BY <1>4, <1>5, <1>6, <1>7, <1>8, <1>9, <1>10, <1>11, <1>12 DEF Next

\* Whatever is read, the leaderboard shows as decided only what earned it, in order,
\* and every run once; and the other outputs agree.
THEOREM BoardsAreEarned == Spec => []BoardIsEarned
<1>1. PInv /\ Trusting => BoardIsEarned
  <2> SUFFICES ASSUME PInv, Trusting, NEW p \in Procs
               PROVE  LET rows == RunsAt(found[p])
                          board == Leaderboard(rows)
                      IN BoardIsRight(rows, board) /\ OutputsAgree(rows, board)
    BY DEF BoardIsEarned
  <2>1. found[p] \in Data /\ (found[p] \in Scored => trusted)
    BY DEF PInv, PTypes, Trusting
  <2> QED
    BY <2>1, LeaderboardIsRight, OutputsAreRight
<1>2. PInv /\ Trusting /\ [Next]_vars => Trusting'
  BY TrustStep
<1> QED
  BY <1>1, <1>2, InitTrusts, PInvariance, PTL DEF Spec
=============================================================================
