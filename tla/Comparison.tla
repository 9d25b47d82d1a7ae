----------------------------- MODULE Comparison -----------------------------
(***************************************************************************)
(* harness/comparison.py as a function: what a comparison makes of the run *)
(* directories it has read.  Each becomes one row (collect_runs); a row is *)
(* eligible or it says why not, belongs to a compatibility group or to     *)
(* none, and the public leaderboard ranks the qualified ones of the        *)
(* current group, lists the others of that group and gives every other row *)
(* a diagnostic status.                                                    *)
(*                                                                         *)
(* The values that make up a group besides generation, profile, track and  *)
(* rule (scoring version and weights, probe, profile configuration, pins)  *)
(* are one value, the "setup" of a result.  What a run knows of its model  *)
(* is a set of <<field, value>> pairs, and so is an entry of the registry. *)
(***************************************************************************)
EXTENDS Integers, Sequences, FiniteSets, ReasoningPolicy

CONSTANTS
  Registry,     \* model-metadata.yaml: digest -> what it says of the model
  Current,      \* the group of the current standard: its generation and setup
  Worst         \* more than any score: where a missing component is sorted

ASSUME ComparisonAssumption ==
  /\ Worst \in Nat
  /\ Current.profile = "standard" /\ Current.track = "primary-deployment"
  /\ Current.rule = "configured-per-model"

Absent == "absent"
Missing == -1
Scored == {"QUALIFIED", "NOT_QUALIFIED"}
Or(a, b) == IF a # Absent THEN a ELSE b

----------------------------------------------------------------------------
(* resolve_public_identity: complete, or what is missing.                  *)

IdentityFields == {"name", "source", "version", "variant", "architecture", "quantization"}
Entry(model) == IF model.digest \in DOMAIN Registry THEN Registry[model.digest] ELSE {}
Known(pairs) == {p[1] : p \in pairs}

\* Where the registry and the run both know a field of these, they must agree.
Contradictions(model) ==
  {f \in {"architecture", "variant", "quantization"} :
     \E p \in Entry(model), q \in model.observed : p[1] = f /\ q[1] = f /\ p[2] # q[2]}

IdentityComplete(model) ==
  /\ model.digest # Absent /\ model.context
  /\ IdentityFields \subseteq Known(Entry(model)) \cup Known(model.observed)
  /\ Contradictions(model) = {}

----------------------------------------------------------------------------
(* _compatibility.                                                         *)

Modern(r) == r.generation \in {"v4", "v5"}
Derived(r) ==
  IF r.requested = "configured" THEN "configured"
  ELSE IF r.requested \in Policies THEN "explicit" ELSE Absent
TrackOf(selection) ==
  CASE selection = "configured" -> "primary-deployment"
    [] selection = "explicit"   -> "controlled-policy"
    [] OTHER -> Absent
SourceOf(selection) ==
  CASE selection = "configured" -> "models.yaml"
    [] selection = "explicit"   -> "explicit CLI"
    [] OTHER -> Absent

PolicyOf(r) ==
  CASE r.generation = "v2" -> "legacy"
    [] r.generation = "v3" /\ r.thinking = "off" -> "off"
    [] OTHER -> Or(r.policy, r.effective)
RuleOf(r) ==
  IF ~Modern(r) THEN PolicyOf(r)
  ELSE IF Derived(r) = "configured" THEN "configured-per-model" ELSE PolicyOf(r)
TrackIn(r) == IF Modern(r) THEN Or(r.track, TrackOf(Derived(r))) ELSE "historical"

\* What a result says of its policy must agree with itself: a configured run with the
\* policy its model entry had, an explicit one with the policy that was asked for.
Compatible(r) ==
  /\ r.generation \in {"v2", "v3", "v4", "v5"} /\ r.setup # Absent /\ PolicyOf(r) # Absent
  /\ r.policy = Absent \/ r.effective = Absent \/ r.policy = r.effective
  /\ Modern(r) =>
       /\ Derived(r) # Absent
       /\ r.selection \in {Absent, Derived(r)} /\ r.track \in {Absent, TrackOf(Derived(r))}
       /\ r.source = SourceOf(Derived(r))
       /\ PolicyOf(r) = IF Derived(r) = "configured" THEN r.configured ELSE r.requested

Group(r) ==
  [generation |-> r.generation, setup |-> r.setup, profile |-> r.profile,
   track |-> TrackIn(r), rule |-> RuleOf(r)]
NoGroup == [generation |-> Absent, setup |-> Absent, profile |-> Absent,
            track |-> Absent, rule |-> Absent]

----------------------------------------------------------------------------
(* _base_row, _incomplete_row and _result_row.                             *)

\* Results from before these fields were recorded.
Validity(r) ==
  Or(r.validity, CASE r.outcome = "INFRA_ERROR" /\ r.quarantined -> "QUARANTINED"
                   [] r.outcome = "INFRA_ERROR" /\ ~r.quarantined -> "INFRA_FAILURE"
                   [] r.outcome \in Scored -> "VALID"
                   [] OTHER -> "INCOMPLETE")
Decision(r) ==
  Or(r.decision, CASE r.outcome = "QUALIFIED" -> "MEETS_PROFILE"
                   [] r.outcome = "NOT_QUALIFIED" -> "DOES_NOT_MEET_PROFILE"
                   [] OTHER -> "NOT_ASSESSED")

Eligible(r) ==
  /\ r.outcome \in Scored /\ Validity(r) = "VALID"
  /\ Decision(r) \in {"MEETS_PROFILE", "DOES_NOT_MEET_PROFILE"}
  /\ r.status = "COMPLETE" /\ r.score # Missing /\ Compatible(r)

InfrastructureError(r) ==
  \/ Validity(r) = "INFRA_FAILURE"
  \/ r.status = "INFRA_ERROR" /\ Validity(r) # "QUARANTINED"

\* A directory with none of the three files is no run.
Listed(entry) == entry.kind # "empty"

\* A row: the directory, what was found in it, and what follows from it.
RowOf(dir, entry) ==
  LET r == entry.result
      valid == entry.kind = "result"
  IN [dir |-> dir, validation |-> CASE valid -> "VALID"
                                    [] entry.kind = "started" -> "INCOMPLETE"
                                    [] OTHER -> "INVALID",
      result |-> r, eligible |-> valid /\ Eligible(r),
      complete |-> valid /\ IdentityComplete(r.model),
      group |-> IF valid /\ Compatible(r) THEN Group(r) ELSE NoGroup]

\* collect_runs; found maps each directory to what was in it.
CollectedRows(found) == {RowOf(d, found[d]) : d \in {e \in DOMAIN found : Listed(found[e])}}

----------------------------------------------------------------------------
(* The leaderboard.                                                        *)

Descending(v) == IF v = Missing THEN Worst ELSE 0 - v

\* Variant: rows are told apart by score, components and time alone.
RankKeyShort(row) ==
  LET r == row.result
  IN <<Descending(r.score)>> \o [i \in DOMAIN r.components |-> Descending(r.components[i])]
       \o <<r.stamp>>

\* _rank_sort_key, and behind it the order of the rows that are sorted by it.
RankKey(row) ==
  LET r == row.result
  IN <<Descending(r.score)>> \o [i \in DOMAIN r.components |-> Descending(r.components[i])]
       \o <<r.stamp, r.run, row.dir>>

Before(k, l) == \E i \in DOMAIN k : k[i] < l[i] /\ \A j \in 1..(i - 1) : k[j] = l[j]

IsCurrent(row) ==
  /\ row.eligible /\ row.result.profile = "standard"
  /\ row.group = Current /\ row.complete

\* _diagnostic_status
Diagnosis(row) ==
  LET r == row.result
  IN IF row.validation # "VALID" THEN row.validation
     ELSE IF Validity(r) = "QUARANTINED" THEN "QUARANTINED"
     ELSE IF r.outcome = "INFRA_ERROR" \/ InfrastructureError(r) THEN "INFRA_ERROR"
     ELSE IF ~row.complete THEN "METADATA_INCOMPLETE"
     ELSE IF r.generation = "v2" /\ Current.generation # "v2" THEN "LEGACY_THINKING_CONTROL_MISMATCH"
     ELSE IF r.generation \in {"v3", "v4"} /\ Current.generation = "v5" THEN "HISTORICAL_COHORT"
     ELSE IF r.profile = "smoke" THEN "SMOKE_ONLY"
     ELSE IF r.profile # "standard" \/ row.group # Current THEN "INCOMPATIBLE"
     ELSE "UNRANKED"

\* build_public_leaderboard: the rank of every qualified row of the current group, the
\* others of that group, and the rest with their statuses.
Leaderboard(rows) ==
  LET current   == {row \in rows : IsCurrent(row)}
      qualified == {row \in current : row.result.outcome = "QUALIFIED"}
  IN [qualified |-> {[row |-> row, rank |-> 1 + Cardinality(
                        {s \in qualified : Before(RankKey(s), RankKey(row))})] : row \in qualified},
      notQualified |-> {row \in current : row.result.outcome = "NOT_QUALIFIED"},
      diagnostics |-> {[row |-> row, status |-> Diagnosis(row)] : row \in rows \ current}]

\* build_summary: the eligible rows by group.
Summary(rows) ==
  {[group |-> g, rows |-> {row \in rows : row.eligible /\ row.group = g}] :
     g \in {row.group : row \in {s \in rows : s.eligible}}}

\* build_metadata_candidates: the runs of an incomplete identity by their digest.
Candidates(rows) ==
  LET open == {row \in rows : row.validation = "VALID" /\ ~row.complete
                                /\ row.result.model.digest # Absent}
  IN {[digest |-> d, rows |-> {row \in open : row.result.model.digest = d}] :
        d \in {row.result.model.digest : row \in open}}
=============================================================================
