--------------------------- MODULE GamingDetector ---------------------------
(***************************************************************************)
(* Detection of metrics that are optimised for the gate                    *)
(* (regression-suite/core/gaming_detector.py), over a history of metric    *)
(* snapshots.  Scores are in thousandths.                                  *)
(***************************************************************************)
EXTENDS Integers, SequencesExt

CONSTANTS GateThresholds,    (* thresholds: metric -> score                *)
          Correlated,        (* the pairs <<a, b>> of the correlation      *)
                             (* matrix that are at 0.5 or above            *)
          Snapshots,         (* what the next snapshot may be              *)
          Unit,              (* what a score is counted in to correlate    *)
          MaxSnapshots       (* bound: snapshots of the history            *)

(* Any scores are multiples of 1; a larger unit keeps the numbers small.   *)
ASSUME GamingAssumption ==
    /\ Unit \in Nat \ {0}
    /\ IsFiniteSet(DOMAIN GateThresholds)
    /\ \A s \in Snapshots :
          /\ IsFiniteSet(DOMAIN s.metrics)
          /\ \A m \in DOMAIN s.metrics : s.metrics[m] \in Int /\ s.metrics[m] % Unit = 0

VARIABLE history             (* MetricSnapshot: [testSet, metrics]         *)

GamingInit == history = <<>>

(* The next snapshot joins the history the detector is made with.          *)
AddSnapshot ==
    /\ Len(history) < MaxSnapshots
    /\ \E s \in Snapshots : history' = Append(history, s)

(* A metric that is missing from a snapshot counts as 0.                   *)
Score(snapshot, metric) ==
    IF metric \in DOMAIN snapshot.metrics THEN snapshot.metrics[metric] ELSE 0

Scores(snapshots, metric) ==
    [i \in DOMAIN snapshots |-> Score(snapshots[i], metric)]

SumOf(values) == SumFunction(values)

(* n^2 times the variance of n values.                                     *)
Spread(values) ==
    Cardinality(DOMAIN values) * SumOf([i \in DOMAIN values |-> values[i] * values[i]])
      - SumOf(values) * SumOf(values)

Half(values) == Len(values) \div 2

(* _detect_overfitting: on one test set a score without variance, or a     *)
(* late half that is nearly perfect after an early half that was not.      *)
Overfitted ==
    {a \in (DOMAIN GateThresholds) \X {"high", "medium"} :
        \E set \in {history[i].testSet : i \in DOMAIN history} :
            LET values == Scores(SelectSeq(history, LAMBDA s : s.testSet = set),
                                 a[1])
                n == Len(values)
                early == SubSeq(values, 1, Half(values))
                late == SubSeq(values, Half(values) + 1, n)
            IN  /\ Len(history) >= 5 /\ n >= 3
                /\ \/ /\ a[2] = "high"
                      /\ Spread(values) < n * n
                      /\ SumOf(values) > 950 * n
                   \/ /\ a[2] = "medium" /\ n >= 5
                      /\ SumOf(early) < 900 * Len(early)
                      /\ SumOf(late) > 980 * Len(late)}

Recent == history[Len(history)]
Previous == history[Len(history) - 1]

(* The relative change of a metric from the previous snapshot lies above   *)
(* some hundredths, or below; without a previous score there is none.      *)
ChangedBy(metric) == Score(Recent, metric) - Score(Previous, metric)

Rose(metric, percent) ==
    /\ Score(Previous, metric) > 0
    /\ 100 * ChangedBy(metric) > percent * Score(Previous, metric)

Fell(metric, percent) ==
    /\ Score(Previous, metric) > 0
    /\ 100 * ChangedBy(metric) < -percent * Score(Previous, metric)

(* _detect_localized_improvement.  It does not ask that anything improved. *)
LocalizedImprovement ==
    /\ Len(history) >= 2
    /\ Cardinality({m \in DOMAIN GateThresholds : Rose(m, 5)}) <= 2
    /\ Cardinality({m \in DOMAIN GateThresholds : Fell(m, 2)}) >= 3

(* _detect_threshold_hugging: of the last ten scores more than seven in    *)
(* ten are at most five hundredths above the threshold.                    *)
Hugging ==
    {metric \in DOMAIN GateThresholds :
        LET t == GateThresholds[metric]
            n == Len(history)
            last == Scores(SubSeq(history, IF n > 10 THEN n - 9 ELSE 1, n), metric)
            near == {i \in DOMAIN last : t <= last[i] /\ 100 * last[i] <= 105 * t}
        IN  n >= 5 /\ 10 * Cardinality(near) > 7 * Len(last)}

(* Mutant: a metric alone is taken to diverge.                             *)
Diverging_OneSided ==
    {p \in Correlated : Len(history) >= 2 /\ (Rose(p[1], 5) \/ Fell(p[2], 3))}

(* _detect_metric_divergence *)
Diverging ==
    {p \in Correlated : Len(history) >= 2 /\ Rose(p[1], 5) /\ Fell(p[2], 3)}

(* _detect_temporal_gaming: a score above 0.95 between two pairs that are  *)
(* low on average.                                                         *)
Spikes ==
    {a \in (DOMAIN GateThresholds) \X (3..(Len(history) - 2)) :
        LET v == Scores(history, a[1])
            i == a[2]
        IN  /\ Len(history) >= 10
            /\ v[i - 2] + v[i - 1] < 2 * 850
            /\ v[i] > 950
            /\ v[i + 1] + v[i + 2] < 2 * 880}

(* detect_all, with the severity of each alert.                            *)
DetectAll ==
    {[pattern |-> "overfitting", severity |-> a[2]] : a \in Overfitted}
      \cup {[pattern |-> "localized_improvement", severity |-> "high"] :
               x \in {y \in {0} : LocalizedImprovement}}
      \cup {[pattern |-> "threshold_hugging", severity |-> "medium"] : a \in Hugging}
      \cup {[pattern |-> "metric_divergence", severity |-> "medium"] : a \in Diverging}
      \cup {[pattern |-> "temporal_gaming", severity |-> "low"] : a \in Spikes}

(* compute_fragmentation_score: the variance of the relative changes, in   *)
(* thousandths and times the square of their number.                       *)
Fragmentation ==
    LET changed == {m \in DOMAIN GateThresholds : Score(Previous, m) > 0}
    IN  IF Len(history) < 2 THEN 0
        ELSE Spread([m \in changed |-> (1000 * ChangedBy(m)) \div Score(Previous, m)])

(* get_summary *)
GamingSummary(alerts) ==
    [high |-> Cardinality({a \in alerts : a.severity = "high"}),
     medium |-> Cardinality({a \in alerts : a.severity = "medium"}),
     low |-> Cardinality({a \in alerts : a.severity = "low"}),
     fragmentation |-> Fragmentation]

----------------------------------------------------------------------------
(* AntiGamingStrategies, on two sets of results: metric -> score.          *)

Common(one, other) == DOMAIN one \cap DOMAIN other

(* holdout_test_set: the largest gap is within the tolerance.              *)
HoldoutConsistent(main, holdout, tolerance) ==
    \A m \in Common(main, holdout) : main[m] - holdout[m] <= tolerance

(* ood_probe: the average drop is neither too small nor too large.  With   *)
(* nothing in common it is 0, which is too small.                          *)
OodDropExpected(inside, outside, expected) ==
    LET common == Common(inside, outside)
        drop == SumOf([m \in common |-> inside[m] - outside[m]])
    IN  /\ common # {}
        /\ drop >= 20 * Cardinality(common)
        /\ drop <= 2 * expected * Cardinality(common)

(* production_correlation, from three common metrics on: the correlation   *)
(* is at least so many fifths.  Both sides are squared, for the bound is   *)
(* positive.  Scores that are all the same have no correlation, and that   *)
(* passes.                                                                 *)
ProductionCorrelated(eval, production, fifths) ==
    LET common == Common(eval, production)
        n == Cardinality(common)
        dev(r, s) == n * SumOf([m \in common |-> r[m] * s[m]])
                       - SumOf([m \in common |-> r[m]]) * SumOf([m \in common |-> s[m]])
        constant == dev(eval, eval) = 0 \/ dev(production, production) = 0
    IN  n >= 3 /\ ~constant =>
          /\ dev(eval, production) > 0
          /\ 25 * dev(eval, production) * dev(eval, production)
               >= fifths * fifths * dev(eval, eval) * dev(production, production)

----------------------------------------------------------------------------

(* The metrics of the gate.  A correlation is the same in any unit.        *)
Gated(metrics) ==
    [m \in DOMAIN metrics \cap DOMAIN GateThresholds |-> metrics[m] \div Unit]

(* Every metric of the gate gained by the same share of its last score.    *)
UniformGain ==
    /\ Len(history) >= 2
    /\ \A m \in DOMAIN GateThresholds :
          Score(Previous, m) > 0 /\ ChangedBy(m) >= 0
    /\ \A m, k \in DOMAIN GateThresholds :
          ChangedBy(m) * Score(Previous, k) = ChangedBy(k) * Score(Previous, m)

(* A release that improves everything alike is never taken for one that    *)
(* was tuned to some metrics, whatever happened before it: no localized    *)
(* improvement, no metric of the gate that fell behind, no fragmentation,  *)
(* and the scores of the gate correlate with those before.  A divergence   *)
(* is never reported both ways round, and a drop that counts as expected   *)
(* is never within a holdout tolerance that is smaller than the least such *)
(* drop (gaming_detector.py:151-192, 227-271, 311-339, 370-443).           *)
UniformGainQuiet ==
    LET alerts == DetectAll
        patterns == {a.pattern : a \in alerts}
    IN  /\ UniformGain =>
              /\ "localized_improvement" \notin patterns
              /\ \A p \in Diverging : p[2] \notin DOMAIN GateThresholds
              /\ GamingSummary(alerts).fragmentation = 0
              /\ ProductionCorrelated(Gated(Previous.metrics), Gated(Recent.metrics), 3)
        /\ \A p \in Diverging : <<p[2], p[1]>> \notin Diverging
        /\ Len(history) >= 2 /\ OodDropExpected(Previous.metrics, Recent.metrics, 150)
              => ~HoldoutConsistent(Previous.metrics, Recent.metrics, 19)
=============================================================================
