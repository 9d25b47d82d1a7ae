----------------------------- MODULE Publication -----------------------------
(***************************************************************************)
(* From a request to the leaderboard: one qualification with one stage     *)
(* (Exchange), the verdict it writes to results.json, and the comparisons  *)
(* that read every run directory and write their outputs, one by one, with *)
(* the atomic writer (ArtifactWriter): the one qualification makes when it *)
(* has ended (main) and those of the compare command, at any time.  A      *)
(* system call may fail, a process be killed, the power be lost.           *)
(*                                                                         *)
(* "run" is the qualification and "cli" whoever types compare.  Runs that  *)
(* ended long ago are the Archive; so a version of results.json, or of an  *)
(* output, is told by what it says of the live run: the outcome, "started" *)
(* for an output that lists it as incomplete, "none" for no file at all.   *)
(***************************************************************************)
EXTENDS Exchange, ArtifactWriter, Comparison

CONSTANTS
  Archive,      \* the other run directories: directory -> what is in it
  Live,         \* the directory of the live run
  LiveResult,   \* a result of the live run, less what this module works out
  Outputs,      \* the files a comparison writes, in order
  MaxCompares,  \* bound: compare commands
  MaxCrashes    \* bound: processes killed, and power failures

\* What a result has that rows are ranked by; score_components has every component.
RankFields == {"score", "components", "stamp", "run"}
OtherFields == {"outcome", "validity", "decision", "status", "requested", "selection", "track",
                "source", "policy", "effective", "configured", "model"}
Sortable(r) ==
  /\ r.score \in Int /\ r.stamp \in Int /\ r.run \in Int
  /\ r.components \in Seq(Int) /\ Len(r.components) = Len(LiveResult.components)

ASSUME ArchiveAssumption ==
  /\ IsFiniteSet(DOMAIN Archive) /\ DOMAIN Archive \cup {Live} \subseteq Int
  /\ Sortable(LiveResult) /\ \A d \in DOMAIN Archive : Sortable(Archive[d].result)
  /\ RankFields \cup OtherFields \subseteq DOMAIN LiveResult

ASSUME PublicationAssumption ==
  /\ Procs = {"run", "cli"} /\ Live \notin DOMAIN Archive
  /\ "results" \in Files /\ Outputs \in Seq(Files \ {"results"})
  /\ Data = {"none", "started"} \cup Scored \cup {"INFRA_ERROR"}
  /\ MaxCompares \in Nat /\ MaxCrashes \in Nat

VARIABLES
  stage,      \* where each process is
  found,      \* what a comparison read of the live run
  next,       \* the output it writes next
  alone,      \* no other comparison has begun since it did, or was going on then
  announced,  \* the verdict qualification ended with
  compares,   \* compare commands so far
  crashes     \* kills and power failures so far

comparison == <<found, next, alone, compares>>
publicationVars == <<stage, comparison, announced, crashes>>
vars == <<exchangeVars, writerVars, publicationVars>>

Init ==
  /\ ExchangeInit
  /\ WriterInit([f \in Files |-> "none"])
  /\ stage = [p \in Procs |-> IF p = "run" THEN "exchange" ELSE "idle"]
  /\ found = [p \in Procs |-> "none"] /\ next = [p \in Procs |-> 0]
  /\ alone = [p \in Procs |-> FALSE]
  /\ announced = "none" /\ compares = 0 /\ crashes = 0

----------------------------------------------------------------------------
(* What the live run's directory holds.                                    *)

\* The results of execute and of preserve_infrastructure_failure.
ResultOf(outcome) ==
  LET selection == Selection(config.requested)
      policy    == Resolve(config.requested, config.model)
      scored    == outcome \in Scored
  IN [LiveResult EXCEPT
        !.requested = config.requested, !.selection = selection,
        !.track = TrackOf(selection), !.source = SourceOf(selection),
        !.policy = policy, !.effective = policy, !.configured = config.model.configured,
        !.outcome = outcome,
        !.status = IF scored THEN "COMPLETE" ELSE "INFRA_FAILURE",
        !.validity = IF scored THEN "VALID" ELSE "INFRA_FAILURE",
        !.decision = CASE outcome = "QUALIFIED" -> "MEETS_PROFILE"
                       [] outcome = "NOT_QUALIFIED" -> "DOES_NOT_MEET_PROFILE"
                       [] OTHER -> "NOT_ASSESSED",
        !.score = IF scored THEN @ ELSE Missing,
        !.model.digest = IF scored THEN @ ELSE Absent]

LiveEntry(data) ==
  IF data = "started" THEN [kind |-> "started", result |-> LiveResult]
  ELSE [kind |-> "result", result |-> ResultOf(data)]

\* collect_runs, for what it read of the live run.
RunsAt(data) ==
  CollectedRows([d \in DOMAIN Archive \cup {Live} |->
                   IF d = Live THEN LiveEntry(data) ELSE Archive[d]])

----------------------------------------------------------------------------
(* The end of qualification.                                               *)

Go(p, l) == stage' = [stage EXCEPT ![p] = l]
SaveResults(data) == Open("run", "results", data)

\* execute writes the decision; a log that cannot be trusted is an infrastructure
\* failure, and preserve writes that.
Conclude ==
  /\ stage["run"] = "exchange" /\ phase = "judged"
  /\ IF trusted
     THEN \E outcome \in Scored : SaveResults(outcome) /\ Go("run", "results")
     ELSE SaveResults("INFRA_ERROR") /\ Go("run", "preserve")
  /\ UNCHANGED <<exchangeVars, comparison, announced, crashes>>

\* The write returned; so do those of the report and of partial-results.json.
Announce ==
  /\ stage["run"] = "results" /\ At("run", "returned")
  /\ announced' = job["run"].data /\ Go("run", "finished")
  /\ job' = [job EXCEPT !["run"] = NoJob]
  /\ UNCHANGED <<exchangeVars, dir, disk, errors, comparison, crashes>>

\* One of them failed: what stands in results.json is replaced.
Preserve ==
  /\ stage["run"] = "results"
  /\ \/ At("run", "failed") /\ UNCHANGED errors
     \/ At("run", "returned") /\ errors < MaxErrors /\ errors' = errors + 1
  /\ job' = [job EXCEPT !["run"] = [step |-> "checked", file |-> "results", data |-> "INFRA_ERROR"]]
  /\ Go("run", "preserve")
  /\ UNCHANGED <<exchangeVars, dir, disk, comparison, announced, crashes>>

\* No comparison after an infrastructure failure; a failed write ends in a traceback.
Preserved ==
  /\ stage["run"] = "preserve" /\ job["run"].step \in {"returned", "failed"}
  /\ announced' = IF At("run", "returned") THEN "INFRA_ERROR" ELSE "none"
  /\ Go("run", "exited") /\ job' = [job EXCEPT !["run"] = NoJob]
  /\ UNCHANGED <<exchangeVars, dir, disk, errors, comparison, crashes>>

----------------------------------------------------------------------------
(* compare_runs.                                                           *)

Comparing(p) == stage[p] = "writing"
Seen == IF dir["results"].data = "none" THEN "started" ELSE dir["results"].data

\* The compare command, any number of times; a look at a run whose stage is still going
\* on sees what it sees once that is over.
MayCompare(p) ==
  IF p = "run" THEN stage[p] = "finished"
  ELSE /\ stage[p] \in {"idle", "done", "gave up"} /\ phase = "judged"
       /\ compares < MaxCompares

\* Everything is read, and the leaderboard validated, before anything is written.
Collect(p) ==
  /\ MayCompare(p) /\ Go(p, "writing")
  /\ found' = [found EXCEPT ![p] = Seen] /\ next' = [next EXCEPT ![p] = 1]
  /\ alone' = [q \in Procs |-> q = p /\ \A o \in Procs : ~Comparing(o)]
  /\ compares' = IF p = "cli" THEN compares + 1 ELSE compares
  /\ UNCHANGED <<exchangeVars, writerVars, announced, crashes>>

\* Variant: the runs are read again for every output.
SaveOutputRereads(p) ==
  /\ Comparing(p) /\ next[p] \in DOMAIN Outputs
  /\ Open(p, Outputs[next[p]], Seen)
  /\ UNCHANGED <<exchangeVars, publicationVars>>

SaveOutput(p) ==
  /\ Comparing(p) /\ next[p] \in DOMAIN Outputs
  /\ Open(p, Outputs[next[p]], found[p])
  /\ UNCHANGED <<exchangeVars, publicationVars>>

Saved(p) ==
  /\ Comparing(p) /\ At(p, "returned")
  /\ job' = [job EXCEPT ![p] = NoJob] /\ next' = [next EXCEPT ![p] = @ + 1]
  /\ IF next[p] = Len(Outputs) THEN Go(p, "done") ELSE UNCHANGED stage
  /\ UNCHANGED <<exchangeVars, dir, disk, errors, found, alone, compares, announced, crashes>>

\* The outputs after the one that failed are not written.  Qualification keeps its exit
\* status (main: POST_PROCESS_ERROR).
GiveUp(p) ==
  /\ Comparing(p) /\ At(p, "failed")
  /\ job' = [job EXCEPT ![p] = NoJob] /\ Go(p, "gave up")
  /\ alone' = [alone EXCEPT ![p] = FALSE]
  /\ UNCHANGED <<exchangeVars, dir, disk, errors, found, next, compares, announced, crashes>>

----------------------------------------------------------------------------
(* The system.                                                             *)

Exchanging == stage["run"] = "exchange" /\ ExchangeNext /\ UNCHANGED <<writerVars, publicationVars>>
Writing(p) == WriteStep(p) /\ UNCHANGED <<exchangeVars, publicationVars>>

Busy(p) == stage[p] \in {"results", "preserve", "finished", "writing"}

Kill(p) ==
  /\ Busy(p) /\ crashes < MaxCrashes /\ crashes' = crashes + 1
  /\ job' = [job EXCEPT ![p] = NoJob]
  /\ Go(p, IF p = "run" THEN "killed" ELSE "gave up") /\ alone' = [alone EXCEPT ![p] = FALSE]
  /\ UNCHANGED <<exchangeVars, dir, disk, errors, found, next, compares, announced>>

PowerFailure ==
  /\ phase = "judged" /\ stage["run"] # "exchange"
  /\ crashes < MaxCrashes /\ crashes' = crashes + 1
  /\ PowerLoss
  /\ stage' = [p \in Procs |-> IF ~Busy(p) THEN stage[p]
                               ELSE IF p = "run" THEN "killed" ELSE "gave up"]
  /\ alone' = [p \in Procs |-> alone[p] /\ ~Busy(p)]
  /\ UNCHANGED <<exchangeVars, found, next, compares, announced>>

Next ==
  \/ Exchanging
  \/ Conclude \/ Announce \/ Preserve \/ Preserved
  \/ \E p \in Procs :
       Collect(p) \/ SaveOutput(p) \/ Writing(p) \/ Saved(p) \/ GiveUp(p) \/ Kill(p)
  \/ PowerFailure

Spec == Init /\ [][Next]_vars

----------------------------------------------------------------------------
(* Properties.                                                             *)

\* What a ranked or listed row must be, said of the result itself: the decision of a
\* complete, valid, standard run in the policy configured for its model, of a known
\* model; and if it is the live run, one whose requests were all observed.
Earned(row) ==
  LET r == row.result
  IN /\ r.outcome \in Scored /\ Validity(r) = "VALID" /\ r.status = "COMPLETE"
     /\ r.profile = "standard" /\ r.generation = Current.generation /\ r.setup = Current.setup
     /\ r.requested = "configured" /\ r.configured # Absent
     /\ r.configured \in {r.policy, r.effective} /\ {r.policy, r.effective} \subseteq {r.configured, Absent}
     /\ IdentityFields \subseteq Known(Entry(r.model)) \cup Known(r.model.observed)
     /\ row.dir = Live => trusted

BoardIsRight(rows, board) ==
  LET ranked == {q.row : q \in board.qualified}
      other  == {d.row : d \in board.diagnostics}
  IN /\ ranked \cup board.notQualified \cup other = rows
     /\ ranked \cap board.notQualified = {} /\ (ranked \cup board.notQualified) \cap other = {}
     /\ {q.rank : q \in board.qualified} = 1..Cardinality(ranked)
     /\ Cardinality(board.qualified) = Cardinality(ranked)
     /\ \A q, s \in board.qualified : q.rank < s.rank => q.row.result.score >= s.row.result.score
     /\ \A row \in ranked : row.result.outcome = "QUALIFIED" /\ Earned(row)
     /\ \A row \in board.notQualified : row.result.outcome = "NOT_QUALIFIED" /\ Earned(row)
     /\ \A d \in board.diagnostics : d.status = "UNRANKED" => ~d.row.eligible

\* The other outputs of the same comparison: the listed rows are of one group of the
\* summary, and the unknown models are exactly those somebody is asked to look at.
OutputsAgree(rows, board) ==
  LET listed  == {q.row : q \in board.qualified} \cup board.notQualified
      unknown == {d.row : d \in {e \in board.diagnostics : e.status = "METADATA_INCOMPLETE"}}
  IN /\ listed # {} => \E g \in Summary(rows) : g.group = Current /\ listed \subseteq g.rows
     /\ \A c \in Candidates(rows) : c.rows \cap listed = {}
     /\ \A row \in unknown :
          row.result.model.digest = Absent \/ \E c \in Candidates(rows) : row \in c.rows

\* Of whatever directories a comparison reads, and whatever state it finds the live run
\* in, the leaderboard lists every run exactly once, numbers the ranked ones without a
\* gap or a tie, in order of their scores, and shows as decided only runs that earned
\* it: an infrastructure failure, an explicit policy, a smoke run, a broken, unfinished
\* or historical result and one of an unknown model are diagnostics (README.md:340-380).
\* The summary and the metadata candidates of the same comparison say so too.
BoardIsEarned ==
  \A p \in Procs : Comparing(p) /\ next[p] = 1 /\ At(p, "idle") =>
    LET rows  == RunsAt(found[p])
        board == Leaderboard(rows)
    IN BoardIsRight(rows, board) /\ OutputsAgree(rows, board)

\* Every file is a register: a reader finds one whole version of it at any time, and so
\* does who looks after a power failure, which brings back nothing older than the last
\* version that was made durable.
FilesAreRegisters == Register!Spec

\* A verdict that was announced is on the disk, whole, and stays there: no crash of a
\* comparison or of the machine takes it back, so every later comparison lists the run.
VerdictSurvives ==
  announced # "none" =>
    \A v \in disk["results"] : v = Version(announced, TRUE) /\ dir["results"] = v

\* A comparison that ran alone to its end leaves outputs that agree: each is of the runs
\* it read, and a power failure afterwards does not take one of them back.  (The five
\* writes are no transaction: two comparisons at once, or one that failed, may leave
\* outputs of different reads, and the later write need not be of the later read.)
AloneIsConsistent ==
  \A p \in Procs : stage[p] = "done" /\ alone[p] =>
    \A i \in DOMAIN Outputs :
      disk[Outputs[i]] = {Version(found[p], TRUE)} /\ dir[Outputs[i]] = Version(found[p], TRUE)
=============================================================================
