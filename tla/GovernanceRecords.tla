-------------------------- MODULE GovernanceRecords --------------------------
(***************************************************************************)
(* The records a release leaves: the audit package with its chain of       *)
(* custody (regression-suite/governance/audit_export.py) and the memo on   *)
(* the risks that remain (governance/residual_risk_memo.py).  Metrics are  *)
(* in thousandths, risk scores in two-thousandths.                         *)
(***************************************************************************)
EXTENDS Integers, SequencesExt

CONSTANTS Contents,          (* what an artifact may contain               *)
          MemoMetrics,       (* the metrics a memo may be made of          *)
          MaxArtifacts,      (* bound: artifacts of the package            *)
          MaxCustodyEvents   (* bound: custody events of the package       *)

VARIABLES package,           (* AuditPackage                               *)
          handed,            (* the hash finalize_package returned last    *)
          memo               (* ResidualRiskMemo, the last one             *)

recordsVars == <<package, handed, memo>>

ArtifactTypes == {"metrics_snapshot", "review_decision"}

(* AuditArtifact: its hash stands for its content, its identifier is its   *)
(* place in the package.                                                   *)
Artifact == [type : ArtifactTypes, content : Contents]

(* ComplianceMapping: which artifacts show that a requirement is met; the  *)
(* status is always satisfied.                                             *)
Requirements ==
    [NIST_AI_RMF |-> {"GOVERN-1.1", "MAP-1.1", "MEASURE-2.2", "MANAGE-1.1"},
     EU_AI_ACT   |-> {"Article-9", "Article-11"}]

(* AuditPackage *)
IsPackage(p) ==
    /\ p.artifacts \in Seq(Artifact)
    /\ p.hash \in Seq(Contents)
    /\ p.approved \in BOOLEAN
    /\ \A k \in DOMAIN p.events :
          p.events[k].type \in {"package_created", "artifact_added",
                               "package_finalized"}
    /\ \E standards \in SUBSET DOMAIN Requirements :
          DOMAIN p.compliance = UNION {Requirements[s] : s \in standards}

(* ChainOfCustody.add_event *)
CustodyEvent(type, artifacts) == [type |-> type, artifacts |-> artifacts]

(* _compute_package_hash: it covers the contents, not the custody chain.   *)
PackageHash(artifacts) == [i \in DOMAIN artifacts |-> artifacts[i].content]

(* create_package *)
NewPackage ==
    [artifacts |-> <<>>, hash |-> PackageHash(<<>>), approved |-> FALSE,
     events |-> <<CustodyEvent("package_created", {})>>,
     compliance |-> <<>>]

(* Mutant: the hash is left for finalize_package to work out.              *)
AddArtifact_KeepHash(artifact) ==
    /\ Len(package.artifacts) < MaxArtifacts
    /\ Len(package.events) < MaxCustodyEvents
    /\ package' = [package EXCEPT
                      !.artifacts = Append(@, artifact),
                      !.events = Append(@, CustodyEvent("artifact_added",
                                          {Len(package.artifacts) + 1}))]
    /\ UNCHANGED <<handed, memo>>

(* add_artifact.  Nothing asks whether the package is final.               *)
AddArtifact(artifact) ==
    /\ Len(package.artifacts) < MaxArtifacts
    /\ Len(package.events) < MaxCustodyEvents
    /\ package' = [package EXCEPT
                      !.artifacts = Append(@, artifact),
                      !.events = Append(@, CustodyEvent("artifact_added",
                                          {Len(package.artifacts) + 1})),
                      !.hash = PackageHash(Append(package.artifacts, artifact))]
    /\ UNCHANGED <<handed, memo>>

(* add_metrics_artifact, add_decision_artifact                             *)
AddMetrics == \E c \in Contents :
    AddArtifact([type |-> "metrics_snapshot", content |-> c])

AddDecision == \E c \in Contents :
    AddArtifact([type |-> "review_decision", content |-> c])

OfType(type) == {i \in DOMAIN package.artifacts : package.artifacts[i].type = type}

(* The evidence generate_compliance_report names for a requirement.        *)
EvidenceFor(requirement) ==
    CASE requirement = "MAP-1.1"     -> OfType("metrics_snapshot")
      [] requirement = "MANAGE-1.1"  -> OfType("review_decision")
      [] requirement = "MEASURE-2.2" -> {}
      [] OTHER                       -> DOMAIN package.artifacts

(* generate_compliance_report *)
GenerateCompliance(standards) ==
    /\ package' = [package EXCEPT
                      !.compliance = [r \in UNION {Requirements[s] : s \in standards} |->
                                         EvidenceFor(r)]]
    /\ UNCHANGED <<handed, memo>>

(* finalize_package *)
FinalizePackage ==
    /\ Len(package.events) < MaxCustodyEvents
    /\ package' = [package EXCEPT
                      !.approved = TRUE,
                      !.events = Append(@, CustodyEvent("package_finalized",
                                                  DOMAIN package.artifacts)),
                      !.hash = PackageHash(package.artifacts)]
    /\ handed' = {package'.hash}
    /\ UNCHANGED memo

(* verify_integrity: nothing is hashed again.                              *)
VerifyIntegrity == TRUE

----------------------------------------------------------------------------

(* The thresholds of _metric_to_risk.                                      *)
RiskThresholds ==
    [violation_rate       |-> [warn |-> 80,  block |-> 120],
     delayed_failure_rate |-> [warn |-> 250, block |-> 350],
     policy_erosion_slope |-> [warn |-> 120, block |-> 200]]

(* ResidualRisk: the metric stands for what it says of itself.             *)
ResidualRisk ==
    [metric : DOMAIN RiskThresholds, likelihood : {"medium", "high"},
     impact : {"medium", "high"}, score : 0..2000]

(* Mutant: a metric becomes a risk at the level that blocks.               *)
MetricToRisk_Late(metric, value) ==
    LET t == RiskThresholds[metric]
        score == (2000 * (value - t.warn)) \div (t.block - t.warn)
    IN  IF value <= t.block THEN {}
        ELSE {[metric |-> metric, likelihood |-> "high",
               impact |-> IF metric = "violation_rate" THEN "high" ELSE "medium",
               score |-> IF score > 2000 THEN 2000 ELSE score]}

(* _metric_to_risk: no risk, or one (ResidualRisk).  2000 over the width   *)
(* of each pair of thresholds is a whole number.                           *)
MetricToRisk(metric, value) ==
    LET t == RiskThresholds[metric]
        score == (2000 * (value - t.warn)) \div (t.block - t.warn)
    IN  IF value <= t.warn THEN {}
        ELSE {[metric |-> metric,
               likelihood |-> IF value <= t.block THEN "medium" ELSE "high",
               impact |-> IF metric = "violation_rate" THEN "high" ELSE "medium",
               score |-> IF score > 2000 THEN 2000 ELSE score]}

(* _extract_risks *)
ExtractRisks(metrics) ==
    UNION {MetricToRisk(m, metrics[m]) :
              m \in DOMAIN metrics \cap DOMAIN RiskThresholds}

(* residual_after_mitigation, in twenty-thousandths: seven tenths.         *)
Residual(risks) == SumFunctionOnSet([r \in risks |-> 7 * r.score], risks)

(* _assess_constitution_alignment: the principles it names.                *)
Alignment(risks) ==
    (IF risks # {} THEN {"partially aligned"} ELSE {})
      \cup (IF \E r \in risks : r.score > 1000 THEN {"deviation"} ELSE {})

(* _calculate_alignment_debt, in two-hundred-thousandths: a tenth of what  *)
(* remains, and 0.05 for a deviation.                                      *)
MemoDebt(risks) ==
    Residual(risks) + (IF "deviation" \in Alignment(risks) THEN 10000 ELSE 0)

(* _generate_acceptance_criteria: a criterion for each risk                *)
(* (RiskAcceptanceCriteria), and whether its breach rolls back.            *)
AcceptanceCriteria(risks) ==
    {[metric |-> r.metric, autoRollback |-> r.score > 1600] : r \in risks}

(* _assess_risk_trend, from the present violation rate alone.              *)
RiskTrend(metrics) ==
    LET rate == IF "violation_rate" \in DOMAIN metrics
                THEN metrics.violation_rate ELSE 0
    IN  IF rate < 80 THEN "improving"
        ELSE IF rate < 120 THEN "stable" ELSE "degrading"

(* What a memo says (ResidualRiskMemo); the owner, the approvers and the   *)
(* texts are left out.                                                     *)
IsMemo(m) ==
    /\ m.verdict \in {"OK", "WARN", "BLOCK"}
    /\ m.decision \in {"APPROVED", "APPROVED_WITH_CONDITIONS"}
    /\ m.risks \subseteq ResidualRisk
    /\ {c.metric : c \in m.criteria} = {r.metric : r \in m.risks}
    /\ m.residual \in Nat /\ m.debt \in Nat /\ m.highImpact \in Nat
    /\ m.trend \in {"improving", "stable", "degrading"}

(* generate_memo.  A blocked release is approved with conditions too.      *)
Memo(verdict, metrics) ==
    LET risks == ExtractRisks(metrics)
    IN  [metrics |-> metrics, verdict |-> verdict, risks |-> risks,
         decision |-> IF verdict = "OK" THEN "APPROVED" ELSE "APPROVED_WITH_CONDITIONS",
         residual |-> Residual(risks), debt |-> MemoDebt(risks),
         alignment |-> Alignment(risks), criteria |-> AcceptanceCriteria(risks),
         highImpact |-> Cardinality({r \in risks : r.impact = "high"}),
         trend |-> RiskTrend(metrics)]

GenerateMemo(verdict, metrics) ==
    /\ memo' = {Memo(verdict, metrics)}
    /\ UNCHANGED <<package, handed>>

----------------------------------------------------------------------------

RecordsTypeOK ==
    /\ IsPackage(package)
    /\ handed \subseteq Seq(Contents)
    /\ \A m \in memo : IsMemo(m)

RecordsInit == package = NewPackage /\ handed = {} /\ memo = {}

RecordsNext ==
    \/ AddMetrics
    \/ AddDecision
    \/ \E standards \in SUBSET DOMAIN Requirements : GenerateCompliance(standards)
    \/ FinalizePackage
    \/ \E verdict \in {"OK", "WARN", "BLOCK"}, metrics \in MemoMetrics :
          GenerateMemo(verdict, metrics)

----------------------------------------------------------------------------

(* The events of a type, and the artifacts that were there at an event.    *)
EventsOf(type, events) == {k \in DOMAIN events : events[k].type = type}
Present(events, k) == 1..Cardinality(EventsOf("artifact_added", events) \cap 1..k)

(* The chain of custody tells the whole story of a package: whatever was   *)
(* added, finalized and reported in whichever order, its artifacts can be  *)
(* read off the chain, the package hash covers exactly them, each approval *)
(* and each compliance report names what was there when it was given, and  *)
(* the hash an approver was handed is out of date exactly when an artifact *)
(* came in after the last approval (audit_export.py:229-252, 385-493).     *)
CustodyComplete ==
    LET events == package.events
        finals == EventsOf("package_finalized", events)
    IN  /\ events[1].type = "package_created"
        /\ Present(events, Len(events)) = DOMAIN package.artifacts
        /\ \A k \in EventsOf("artifact_added", events) :
              events[k].artifacts = Present(events, k) \ Present(events, k - 1)
        /\ package.hash = PackageHash(package.artifacts)
        /\ \A k \in finals : events[k].artifacts = Present(events, k)
        /\ package.approved <=> finals # {}
        /\ handed # {} <=> finals # {}
        /\ \A hash \in handed :
              /\ IsPrefix(hash, package.hash)
              /\ hash = package.hash
                    <=> Present(events, Max(finals)) = DOMAIN package.artifacts
        /\ \A r \in DOMAIN package.compliance :
              /\ package.compliance[r] \subseteq DOMAIN package.artifacts
              /\ r \in Requirements.EU_AI_ACT =>
                    \E n \in 0..Len(package.artifacts) : package.compliance[r] = 1..n

(* Metrics that are no better than those of the last memo.                 *)
AtLeast(metrics, other) ==
    \A m \in DOMAIN other : m \in DOMAIN metrics /\ metrics[m] >= other[m]

TrendRank == [improving |-> 0, stable |-> 1, degrading |-> 2]

(* All that the one memo owns to, the other does.                          *)
OwnsNoLess(new, old) ==
    /\ {r.metric : r \in old.risks} \subseteq {r.metric : r \in new.risks}
    /\ \A c \in old.criteria :
          \E d \in new.criteria : d.metric = c.metric
                                   /\ (c.autoRollback => d.autoRollback)
    /\ new.debt >= old.debt
    /\ old.alignment \subseteq new.alignment
    /\ TrendRank[new.trend] >= TrendRank[old.trend]
    /\ old.trend = "degrading" => new.risks # {}

(* The memo of a release that measures worse than the last owns to no less *)
(* risk: it names every metric the other named, asks for its criteria, and *)
(* has no smaller debt and no better trend; and a memo that finds no risk  *)
(* still says degrading for no release (residual_risk_memo.py:369-518).    *)
MemoOwnsRisk ==
    [][\A new \in memo', old \in memo :
          AtLeast(new.metrics, old.metrics) => OwnsNoLess(new, old)]_recordsVars
=============================================================================
