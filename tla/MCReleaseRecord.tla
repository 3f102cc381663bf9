--------------------------- MODULE MCReleaseRecord ---------------------------
(* Small instances of the parts of ReleaseRecord.                          *)
EXTENDS ReleaseRecord

MCAcceptance ==
    [release |-> "r1", risks |-> {[level |-> "high", expires |-> TRUE]},
     total |-> "high",
     hash |-> <<"r1", {[level |-> "high", expires |-> TRUE]}>>]

MCAcceptances == {MCAcceptance}

MCOutcomeOf == [OK |-> "approved", WARN |-> "approved_with_conditions",
                BLOCK |-> "blocked"]

(* Every verdict with the outcome that follows it, and an override that    *)
(* accepts a risk.                                                         *)
MCDecisions ==
    {[content |-> [release |-> r, verdict |-> v, outcome |-> MCOutcomeOf[v]],
      override |-> FALSE, acceptance |-> {}] : r \in {"r1", "r2"},
                                               v \in {"OK", "WARN", "BLOCK"}}
      \cup {[content |-> [release |-> "r1", verdict |-> "BLOCK",
                          outcome |-> "approved_with_conditions"],
             override |-> TRUE, acceptance |-> {MCAcceptance}]}

MCRunMetrics == {[m \in {"m1"} |-> v] : v \in {0, 9, 30}} \cup {[m \in {} |-> 0]}

(* Five violations of twenty are the most that is asked about.             *)
MCMisuse == {m \in UNION {MisuseMetrics([violations |-> v, hedging |-> h], 20) :
                            v \in {0, 1, 2, 5}, h \in {0, 2}} :
                "avg_detection_turn" \in DOMAIN m => m.avg_detection_turn = 2000}

(* A model that holds up and one that does not, in the other two suites.   *)
MCRedTeam ==
    <<CHOOSE m \in RedTeamMetrics([successful |-> 2, delayed |-> 1], 10, 150) :
         m.avg_first_failure_turn = 3000,
      CHOOSE m \in RedTeamMetrics([successful |-> 4, delayed |-> 1], 10, 400) :
         m.avg_first_failure_turn = 2000>>

MCTrajectory ==
    <<CHOOSE m \in TrajectoryMetrics([k \in 1..2 |-> 100], 150) : TRUE,
      CHOOSE m \in TrajectoryMetrics([k \in 1..2 |-> 400 * k], 400) :
         m.avg_first_failure = 4000>>

MCMeasurements ==
    {[misuse |-> m, redteam |-> MCRedTeam[k], trajectory |-> MCTrajectory[k]] :
        m \in MCMisuse, k \in 1..2}

MCSuites == {{}, {"misuse"}, {"misuse", "traffic"}}

MCCriterion(metric, test, bound) == [metric |-> metric, test |-> test, bound |-> bound]

(* Four principles of the constitution, with criteria of every kind it     *)
(* uses; the bound of one is a name and not a number.                      *)
MCPrinciples ==
    [P1 |-> [enforcement |-> "hard",
             criteria |-> {MCCriterion("critical_violation_rate", "delta", 0)}],
     P2 |-> [enforcement |-> "hard",
             criteria |-> {MCCriterion("statistical_power", ">=", 80),
                           MCCriterion("ci_upper_bound", "<", NoNumber)}],
     P4 |-> [enforcement |-> "soft",
             criteria |-> {MCCriterion("single_point_of_failure", "false", 0)}],
     P6 |-> [enforcement |-> "soft",
             criteria |-> {MCCriterion("undocumented_risks", "=", 0)}]]

MCMetricSet(rate, power, single) ==
    [critical_violation_rate |-> rate, statistical_power |-> power,
     single_point_of_failure |-> single, undocumented_risks |-> 0]

(* Good, a soft violation, a hard one, and metrics that are missing.       *)
MCMetricSets ==
    {MCMetricSet(0, 80, 0) @@ [ci_upper_bound |-> 11],
     MCMetricSet(0, 90, 1) @@ [ci_upper_bound |-> 10],
     MCMetricSet(5, 80, 1) @@ [ci_upper_bound |-> 10],
     [critical_violation_rate |-> 0, undocumented_risks |-> 0]}

(* With a bound in place of the name, so that a release can be evaluated   *)
(* without a hard violation.                                               *)
MCPrinciplesWithBound ==
    [MCPrinciples EXCEPT
        !.P2.criteria = {MCCriterion("statistical_power", ">=", 80),
                         MCCriterion("ci_upper_bound", "<", 12)}]

MCRates == [constitution_deviation |-> 5, risk_acceptance |-> 1, coverage_gap |-> 1]
MCDebtThresholds == [warn |-> 10, block |-> 25, critical |-> 50]

MCGateThresholds == [a |-> 800, b |-> 600, c |-> 400]
MCCorrelated == {<<"a", "b">>, <<"b", "a">>}

MCSnapshot(set, a, b, c) == [testSet |-> set, metrics |-> [a |-> a, b |-> b, c |-> c]]

(* The second is the first and a tenth; the third trades b for a, the last *)
(* is perfect.                                                             *)
MCSnapshots ==
    {MCSnapshot("t1", 800, 600, 400), MCSnapshot("t1", 880, 660, 440),
     MCSnapshot("t1", 960, 500, 300), MCSnapshot("t2", 980, 980, 980)}

MCRun(score, reported, official, proxy) ==
    [score |-> score, reported |-> reported,
     official |-> [failure_rate |-> official], proxy |-> [failure_rate |-> proxy]]

MCSubmission(known, holdout, before, hours) ==
    [known |-> known, holdout |-> holdout, novel |-> holdout,
     results |-> <<known, known, [i \in DOMAIN known |-> known[i] - 100]>>,
     score |-> 900, paraphrases |-> <<700, 600>>, variations |-> <<900, 700, 600>>,
     identical |-> 1, runs |-> before, official |-> [failure_rate |-> 110],
     hours |-> hours]

MCSubmissions ==
    {MCSubmission(<<900, 900, 900, 900, 900>>, <<900, 850, 800, 850, 900>>, <<>>, 1),
     MCSubmission(<<900, 800, 900>>, <<800, 900>>,
                  <<MCRun(500, FALSE, 90, 300), MCRun(900, TRUE, 100, 250),
                    MCRun(600, FALSE, 110, 100)>>, 1)}

MCFile(path) == [path |-> path]

(* What git shows, components that are added or removed and a threshold    *)
(* that is lowered.                                                        *)
MCChanges ==
    GitChanges({MCFile({"safeguard", "pre_action_filter"}), MCFile({"readme"})})
      \cup {[component |-> c, type |-> t, named |-> {}, words |-> w] :
              c \in {"pre_action_filter", "drift_threshold"},
              t \in {"added", "removed"}, w \in {{}, {"threshold", "lower"}}}

MCMemoMetrics ==
    {[violation_rate |-> v, delayed_failure_rate |-> d] :
        v \in {70, 80, 90, 115, 120, 130}, d \in {250, 310, 400}}
      \cup {[policy_erosion_slope |-> p] : p \in {100, 200}}
=============================================================================
