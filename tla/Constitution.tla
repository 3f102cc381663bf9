---------------------------- MODULE Constitution ----------------------------
(***************************************************************************)
(* The constitution, the evaluation of a release against it and the ledger *)
(* of alignment debt (regression-suite/core/constitution.py).  Values and  *)
(* debts are in hundredths, a Boolean metric is 0 or 1.                    *)
(***************************************************************************)
EXTENDS Integers, FiniteSets, SequencesExt, Functions

CONSTANTS Principles,        (* the principles: enforcement and criteria   *)
          Rates,             (* accumulation_rate of each debt category    *)
          DebtThresholds,    (* debt_thresholds                            *)
          MetricSets,        (* the metrics a release may come with        *)
          MaxAccepted,       (* bound: accepted risks, coverage gaps       *)
          MaxReleases,       (* bound: evaluated releases                  *)
          Pauses,            (* how many days may pass at a time           *)
          MaxDay             (* bound: days                                *)

(* A criterion names a metric and how it is tested: the expressions of the *)
(* YAML file are an operator and, for a comparison, a bound.               *)
Comparisons == {">=", "<=", ">", "<", "="}
Tests == Comparisons \cup {"true", "false", "delta", "review", "other"}

Categories == {"constitution_deviation", "risk_acceptance", "coverage_gap"}

(* Principle, as _load reads it; the failure modes and the safeguards are  *)
(* looked up by nothing that decides.                                      *)
IsPrinciple(p) ==
    /\ p.enforcement \in {"hard", "soft"}
    /\ IsFiniteSet(p.criteria)
    /\ \A c \in p.criteria : c.test \in Tests

(* config/constitution.yaml:270-287 books every kind of debt at a positive *)
(* rate.                                                                   *)
ASSUME ConstitutionAssumption ==
    /\ IsFiniteSet(DOMAIN Principles)
    /\ \A p \in DOMAIN Principles : IsPrinciple(Principles[p])
    /\ Rates \in [Categories -> Nat \ {0}]
    /\ DebtThresholds \in [{"warn", "block", "critical"} -> Nat]
    /\ Pauses \subseteq Nat /\ MaxAccepted \in Nat /\ MaxReleases \in Nat /\ MaxDay \in Nat

VARIABLES debts,             (* AlignmentDebtLedger.entries                *)
          totalDebt,         (* total_debt                                 *)
          today,             (* datetime.now, in days                      *)
          evaluations        (* auxiliary: the outcome of each evaluation  *)

constitutionVars == <<debts, totalDebt, today, evaluations>>

(* AlignmentDebtEntry; release is the evaluation that made it.             *)
DebtEntry == [category : Categories, amount : Nat, created : Nat,
              status : {"active", "resolved"}, release : Nat]

ConstitutionTypeOK ==
    /\ debts \in Seq(DebtEntry)
    /\ totalDebt \in Nat
    /\ today \in 0..MaxDay
    /\ Len(evaluations) \in 0..MaxReleases

ConstitutionInit == debts = <<>> /\ totalDebt = 0 /\ today = 0 /\ evaluations = <<>>

----------------------------------------------------------------------------

(* Principle._evaluate_threshold                                           *)
EvaluateThreshold(value, c) ==
    CASE c.test = "true"  -> value # 0
      [] c.test = "false" -> value = 0
      [] c.test = ">="    -> value >= c.bound
      [] c.test = "<="    -> value <= c.bound
      [] c.test = ">"     -> value > c.bound
      [] c.test = "<"     -> value < c.bound
      [] c.test = "="     -> value = c.bound
      [] c.test = "delta" -> value <= 0
      [] c.test \in {"review", "other"} -> TRUE

(* Principle.evaluate: the criteria that are violated.  A metric that is   *)
(* missing violates its criterion; the comment there calls this a soft     *)
(* violation, but what becomes of it is up to the principle's enforcement. *)
Evaluate(p, metrics) ==
    {c \in p.criteria : c.metric \in DOMAIN metrics =>
                            ~EvaluateThreshold(metrics[c.metric], c)}

(* float() raises when a comparison is with a name, which the code meets   *)
(* only when the metric is there.  NoNumber stands for such a bound.       *)
NoNumber == -1

Evaluates(metrics) ==
    \A p \in DOMAIN Principles : \A c \in Principles[p].criteria :
        c.test \in Comparisons /\ c.metric \in DOMAIN metrics =>
            c.bound # NoNumber

(* The violations evaluate_release lists.                                  *)
Violations(metrics) ==
    UNION {{[principle |-> p, criterion |-> c.metric,
             severity |-> Principles[p].enforcement] :
                c \in Evaluate(Principles[p], metrics)} :
           p \in DOMAIN Principles}

OfSeverity(violations, severity) == {v \in violations : v.severity = severity}

(* evaluate_release: the verdict                                           *)
VerdictOn(violations) ==
    IF OfSeverity(violations, "hard") # {} THEN "BLOCK"
    ELSE IF OfSeverity(violations, "soft") # {} THEN "WARN"
    ELSE "OK"

Entries(category, count) ==
    [i \in 1..count |->
        [category |-> category, amount |-> Rates[category], created |-> today,
         status |-> "active", release |-> Len(evaluations) + 1]]

(* Mutant: soft violations are booked too.                                 *)
AlignmentDebt_Soft(violations, accepted, gaps) ==
    Entries("constitution_deviation", Cardinality(violations))
      \o Entries("risk_acceptance", accepted)
      \o Entries("coverage_gap", gaps)

(* calculate_alignment_debt *)
AlignmentDebt(violations, accepted, gaps) ==
    Entries("constitution_deviation",
            Cardinality(OfSeverity(violations, "hard")))
      \o Entries("risk_acceptance", accepted)
      \o Entries("coverage_gap", gaps)

WithStatus(entries, status) == {i \in DOMAIN entries : entries[i].status = status}

SumOfAmounts(entries, S) == SumFunctionOnSet([i \in DOMAIN entries |-> entries[i].amount], S)

(* _recalculate_total *)
Recalculated(entries) == SumOfAmounts(entries, WithStatus(entries, "active"))

(* A release is evaluated and its debt is booked: evaluate_release,        *)
(* calculate_alignment_debt, add_entries.                                  *)
EvaluateRelease ==
    \E metrics \in MetricSets, accepted, gaps \in 0..MaxAccepted :
        /\ Len(evaluations) < MaxReleases
        /\ Evaluates(metrics)
        /\ LET violations == Violations(metrics)
               booked == AlignmentDebt(violations, accepted, gaps)
           IN  /\ debts' = debts \o booked
               /\ totalDebt' = Recalculated(debts')
               /\ evaluations' = Append(evaluations,
                                    [verdict |-> VerdictOn(violations),
                                     metrics |-> metrics])
        /\ UNCHANGED today

(* Mutant: the total is not worked out again.                              *)
ResolveEntry_KeepTotal(i) ==
    /\ debts[i].status = "active"
    /\ debts' = [debts EXCEPT ![i].status = "resolved"]
    /\ UNCHANGED <<totalDebt, today, evaluations>>

(* resolve_entry; an entry that is not active is not found.                *)
ResolveEntry(i) ==
    /\ debts[i].status = "active"
    /\ debts' = [debts EXCEPT ![i].status = "resolved"]
    /\ totalDebt' = Recalculated(debts')
    /\ UNCHANGED <<today, evaluations>>

DaysPass ==
    /\ \E n \in Pauses : today + n <= MaxDay /\ today' = today + n
    /\ UNCHANGED <<debts, totalDebt, evaluations>>

ConstitutionNext ==
    \/ EvaluateRelease
    \/ \E i \in DOMAIN debts : ResolveEntry(i)
    \/ DaysPass

----------------------------------------------------------------------------

(* get_debt_status *)
DebtStatus(total) ==
    IF total >= DebtThresholds.critical THEN "CRITICAL"
    ELSE IF total >= DebtThresholds.block THEN "BLOCK"
    ELSE IF total >= DebtThresholds.warn THEN "WARN"
    ELSE "OK"

(* get_debt_by_category *)
DebtByCategory ==
    LET active == WithStatus(debts, "active")
    IN  [k \in {debts[i].category : i \in active} |->
            SumOfAmounts(debts, {i \in active : debts[i].category = k})]

(* get_trend.  An entry that was made and resolved in the period counts as *)
(* resolved only.                                                          *)
Trend(days) ==
    LET recent == {i \in DOMAIN debts : today - debts[i].created <= days}
        gone == SumOfAmounts(debts, recent \cap WithStatus(debts, "resolved"))
        new == SumOfAmounts(debts, recent \cap WithStatus(debts, "active"))
    IN  [added |-> new, resolved |-> gone, net |-> new - gone,
         total |-> totalDebt]

(* export_for_report *)
ExportForReport ==
    [total |-> totalDebt, byCategory |-> DebtByCategory, trend |-> Trend(30),
     active |-> Cardinality(WithStatus(debts, "active")),
     resolved |-> Cardinality(WithStatus(debts, "resolved"))]

(* Some entry, active or not, is a deviation that the release left.        *)
Deviates(r) ==
    \E i \in DOMAIN debts :
        debts[i].release = r /\ debts[i].category = "constitution_deviation"

HardCriteria ==
    UNION {Principles[p].criteria :
              p \in {p \in DOMAIN Principles : Principles[p].enforcement = "hard"}}

(* A hard principle is broken by a metric that was measured.               *)
BreaksHard(metrics) ==
    \E c \in HardCriteria : /\ c.metric \in DOMAIN metrics
                            /\ ~EvaluateThreshold(metrics[c.metric], c)

(* Nothing that the hard principles ask about is missing.                  *)
MeasuresHard(metrics) == \A c \in HardCriteria : c.metric \in DOMAIN metrics

(* Debt follows the verdicts: whatever was resolved in between, a release  *)
(* was blocked exactly when it left deviation debt; it left some when a    *)
(* measured metric broke a hard principle, and when all of theirs were     *)
(* measured only then (nothing is said here of a missing metric); the      *)
(* report's total is the debt of its categories, no more than was added    *)
(* in a period and remains, and the debt is OK only while no hard          *)
(* violation's worth of it is left (constitution.py:308-351 and 372-556).  *)
DebtFollowsVerdicts ==
    LET report == ExportForReport
    IN  /\ \A r \in DOMAIN evaluations :
              /\ evaluations[r].verdict = "BLOCK" <=> Deviates(r)
              /\ BreaksHard(evaluations[r].metrics) => Deviates(r)
              /\ MeasuresHard(evaluations[r].metrics) /\ Deviates(r) =>
                    BreaksHard(evaluations[r].metrics)
        /\ report.total = SumFunction(report.byCategory)
        /\ report.active + report.resolved = Len(debts)
        /\ report.trend.added <= report.total
        /\ today <= 30 => report.trend.added = report.total
        /\ report.total = 0 <=> report.active = 0
        /\ DebtStatus(report.total) = "OK" =>
              Cardinality({i \in WithStatus(debts, "active") :
                              debts[i].category = "constitution_deviation"})
                * Rates["constitution_deviation"] < DebtThresholds["warn"]
=============================================================================
