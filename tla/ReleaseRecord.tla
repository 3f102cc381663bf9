---------------------------- MODULE ReleaseRecord ----------------------------
(***************************************************************************)
(* What the regression suite keeps and says about releases, in one         *)
(* specification.  Its parts share no state and never call one another     *)
(* (each is used by a program of its own), so a behaviour is one of a      *)
(* single part, chosen at the start, while the others stay as they begin.  *)
(***************************************************************************)
EXTENDS ReleaseLedger, ReleaseHistory, ReleaseVerdict, Constitution,
        GamingDetector, SubmissionChecks, GovernanceRecords

CONSTANTS Decisions,         (* the decisions that are put in the ledger   *)
          Moments,           (* timestamps of regression runs              *)
          RunMetrics,        (* what a regression run may have measured    *)
          TrendThresholds    (* the thresholds trends are projected to     *)

ASSUME ReleaseAssumption ==
    /\ Decisions \subseteq [content : Content, override : BOOLEAN,
                            acceptance : SUBSET Acceptances]
    /\ Moments \subseteq Nat
    /\ TrendThresholds \subseteq Int
    /\ \A metrics \in RunMetrics :
          DOMAIN metrics \subseteq Metrics /\ \A m \in DOMAIN metrics : metrics[m] \in Int
    /\ \A metrics \in MemoMetrics : \A m \in DOMAIN metrics : metrics[m] \in Int

Parts == {"ledger", "history", "verdict", "constitution", "gaming",
          "submission", "change", "package", "memo"}

VARIABLE part                (* auxiliary: the part that acts              *)

historyVars == <<runs>>
gamingVars == <<history>>

releaseVars == <<part, ledgerVars, historyVars, verdictVars, constitutionVars,
                 gamingVars, submissionVars, recordsVars>>

(* The types of the parts (core/history.py:15-30, core/constitution.py:     *)
(* 149-178, governance/: the dataclasses).                                 *)
ReleaseTypeOK ==
    /\ part \in Parts
    /\ LedgerTypeOK
    /\ HistoryTypeOK
    /\ ConstitutionTypeOK
    /\ RecordsTypeOK

Init ==
    /\ part \in Parts
    /\ LedgerInit
    /\ HistoryInit
    /\ VerdictInit
    /\ ConstitutionInit
    /\ GamingInit
    /\ SubmissionInit
    /\ part # "submission" => submission = CHOOSE s \in Submissions : TRUE
    /\ RecordsInit

(* Entries are added in the order they are made.                           *)
DecideRelease ==
    \E d \in Decisions :
        AddEntry(d.content, Len(entries), d.override, d.acceptance)

LedgerStep ==
    /\ part = "ledger"
    /\ \/ DecideRelease
       \/ \E r \in Releases : RecordIncident(r)
       \/ \E r \in Releases : RecordRollback(r)
    /\ UNCHANGED <<part, historyVars, verdictVars, constitutionVars, gamingVars,
                   submissionVars, recordsVars>>

HistoryStep ==
    /\ part = "history"
    /\ \/ \E t \in Moments, metrics \in RunMetrics :
             AddRun([timestamp |-> t, metrics |-> metrics])
       \/ ClearHistory
    /\ UNCHANGED <<part, ledgerVars, verdictVars, constitutionVars, gamingVars,
                   submissionVars, recordsVars>>

VerdictStep ==
    /\ part = "verdict"
    /\ VerdictNext
    /\ UNCHANGED <<part, ledgerVars, historyVars, constitutionVars, gamingVars,
                   submissionVars, recordsVars>>

ConstitutionStep ==
    /\ part = "constitution"
    /\ ConstitutionNext
    /\ UNCHANGED <<part, ledgerVars, historyVars, verdictVars, gamingVars,
                   submissionVars, recordsVars>>

GamingStep ==
    /\ part = "gaming"
    /\ AddSnapshot
    /\ UNCHANGED <<part, ledgerVars, historyVars, verdictVars, constitutionVars,
                   submissionVars, recordsVars>>

SubmissionStep ==
    /\ \/ part = "submission" /\ (Degrade \/ Delay)
       \/ part = "change" /\ Announce
    /\ UNCHANGED <<part, ledgerVars, historyVars, verdictVars, constitutionVars,
                   gamingVars, recordsVars>>

PackageStep ==
    /\ part = "package"
    /\ \/ AddMetrics
       \/ AddDecision
       \/ \E standards \in SUBSET DOMAIN Requirements : GenerateCompliance(standards)
       \/ FinalizePackage
    /\ UNCHANGED <<part, ledgerVars, historyVars, verdictVars, constitutionVars,
                   gamingVars, submissionVars>>

MemoStep ==
    /\ part = "memo"
    /\ \E verdict \in {"OK", "WARN", "BLOCK"}, metrics \in MemoMetrics :
          GenerateMemo(verdict, metrics)
    /\ UNCHANGED <<part, ledgerVars, historyVars, verdictVars, constitutionVars,
                   gamingVars, submissionVars>>

Next ==
    \/ LedgerStep
    \/ HistoryStep
    \/ VerdictStep
    \/ ConstitutionStep
    \/ GamingStep
    \/ SubmissionStep
    \/ PackageStep
    \/ MemoStep

Spec == Init /\ [][Next]_releaseVars

----------------------------------------------------------------------------

(* The trend of every metric is sound towards every threshold, whichever   *)
(* way it is bad, and what a trend report advises as critical it also      *)
(* counts as critical (history.py:188-329, 344-351).                       *)
TrendsSound ==
    \A threshold \in TrendThresholds, higherIsWorse \in BOOLEAN :
        LET analyses == AnalyzeAll([m \in Metrics |-> threshold],
                                   [m \in Metrics |-> higherIsWorse])
        IN  /\ \A m \in Metrics : TrendSound(m, threshold, higherIsWorse)
            /\ {m \in DOMAIN analyses : analyses[m].advice = "critical"}
                 \subseteq ReportedCritical(analyses)

(* Gaming is not rewarded and honest work not suspected: what is worse is  *)
(* never judged better, and a uniform gain raises no pattern of gaming     *)
(* (anti_gaming/, core/gaming_detector.py:151-443).                        *)
GamingJudged == []UniformGainQuiet /\ WorseNeverBetter

(* What governance hands on is of the kinds that the dataclasses declare,  *)
(* and complete: the chain of custody tells the whole story of a package,  *)
(* and a memo owns to the risk that was measured                           *)
(* (audit_export.py:229-252, residual_risk_memo.py:369-518).               *)
RecordsComplete == [](ReleaseTypeOK /\ CustodyComplete) /\ MemoOwnsRisk
=============================================================================
