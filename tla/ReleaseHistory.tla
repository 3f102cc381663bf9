--------------------------- MODULE ReleaseHistory ---------------------------
(***************************************************************************)
(* The history of regression runs and the trend of a metric over it        *)
(* (regression-suite/core/history.py).  A value is in thousandths, so a    *)
(* rate of 0.05 is 50, and a slope is kept as a quotient of integers.      *)
(***************************************************************************)
EXTENDS Integers, SequencesExt, Ordering

CONSTANTS Metrics,           (* names of the metrics                       *)
          ErosionThreshold,  (* erosion_threshold, in thousandths          *)
          MinRuns,           (* min_runs                                   *)
          MaxRuns            (* bound: runs of the history                 *)

ASSUME HistoryAssumption ==
    ErosionThreshold \in Nat /\ MinRuns \in Nat \ {0, 1} /\ MaxRuns \in Nat

VARIABLE runs                (* _runs, and the file: each change saves     *)

(* HistoricalRun.  A metric that was not measured is not in the domain of  *)
(* metrics; the identifiers and the metadata are left out.                 *)
IsRun(run) ==
    /\ run.timestamp \in Nat
    /\ DOMAIN run.metrics \subseteq Metrics
    /\ \A m \in DOMAIN run.metrics : run.metrics[m] \in Int

HistoryTypeOK == DOMAIN runs = 1..Len(runs) /\ \A i \in DOMAIN runs : IsRun(runs[i])

HistoryInit == runs = <<>>

(* add_run *)
AddRun(run) ==
    /\ Len(runs) < MaxRuns
    /\ runs' = Append(runs, run)

(* clear *)
ClearHistory == runs' = <<>>

Having(metric) == {i \in DOMAIN runs : metric \in DOMAIN runs[i].metrics}

NewestFirst(metric) == ByKey([i \in Having(metric) |-> -runs[i].timestamp])

(* Mutant: the list is not turned round.                                   *)
GetRuns_Newest(metric) == NewestFirst(metric)

(* get_runs: places of the runs that have the metric, oldest first.  The   *)
(* code sorts them with the newest first and turns the list round, so runs *)
(* of the same moment come out latest added first.                         *)
GetRuns(metric) == Reverse(NewestFirst(metric))

(* get_metric_series: the values *)
MetricSeries(metric) ==
    LET places == GetRuns(metric)
    IN  [k \in DOMAIN places |-> runs[places[k]].metrics[metric]]

----------------------------------------------------------------------------

Total(values) == SumFunction(values)

(* linear_regression, over x = 0, 1, ...: the slope is num / den, and      *)
(* r_squared is num^2 / (den * spread).                                    *)
LinearRegression(values) ==
    LET n == Len(values)
        sumX == Total([k \in 1..n |-> k - 1])
        sumY == Total(values)
        sumXY == Total([k \in 1..n |-> (k - 1) * values[k]])
        sumX2 == Total([k \in 1..n |-> (k - 1) * (k - 1)])
        sumY2 == Total([k \in 1..n |-> values[k] * values[k]])
    IN  IF n < 2 THEN [num |-> 0, den |-> 1, spread |-> 0]
        ELSE [num |-> n * sumXY - sumX * sumY,
              den |-> n * sumX2 - sumX * sumX,
              spread |-> n * sumY2 - sumY * sumY]

(* r_squared > 0.7; it is 0 when the values are all the same.              *)
Confident(fit) ==
    fit.spread > 0 /\ 10 * fit.num * fit.num > 7 * fit.den * fit.spread

NoBreach == -1               (* None *)

CeilingOf(a, b) == (a + b - 1) \div b

(* Mutant: the quotient is rounded down.                                   *)
ProjectBreach_Floor(current, fit, threshold, higherIsWorse) ==
    LET sign == IF higherIsWorse THEN 1 ELSE -1
    IN  IF fit.num = 0 THEN NoBreach
        ELSE IF sign * current >= sign * threshold THEN 0
        ELSE IF sign * fit.num <= 0 THEN NoBreach
        ELSE (sign * (threshold - current) * fit.den) \div (sign * fit.num)

(* project_breach: how many releases until the threshold is reached.  A    *)
(* metric that is worse when lower is the same with every sign turned.     *)
ProjectBreach(current, fit, threshold, higherIsWorse) ==
    LET sign == IF higherIsWorse THEN 1 ELSE -1
    IN  IF fit.num = 0 THEN NoBreach
        ELSE IF sign * current >= sign * threshold THEN 0
        ELSE IF sign * fit.num <= 0 THEN NoBreach
        ELSE CeilingOf(sign * (threshold - current) * fit.den, sign * fit.num)

(* The recommendation.  A breach of 0 counts as no breach.                 *)
Advice(eroding, fit, breach) ==
    CASE eroding /\ Confident(fit) /\ breach \in 1..3  -> "critical"
      [] eroding /\ Confident(fit) /\ breach \in 4..10 -> "warning"
      [] eroding /\ Confident(fit) /\ breach \notin 1..10 -> "monitor"
      [] eroding /\ ~Confident(fit)                    -> "investigate"
      [] OTHER                                         -> "ok"

(* analyze_metric *)
AnalyzeMetric(values, threshold, higherIsWorse) ==
    IF Len(values) < MinRuns
    THEN [fit |-> [num |-> 0, den |-> 1, spread |-> 0], eroding |-> FALSE,
          breach |-> NoBreach, advice |-> "insufficient data"]
    ELSE LET fit == LinearRegression(values)
             slope == IF higherIsWorse THEN fit.num ELSE -fit.num
             eroding == slope > ErosionThreshold * fit.den
             breach == ProjectBreach(Last(values), fit, threshold, higherIsWorse)
         IN  [fit |-> fit, eroding |-> eroding, breach |-> breach,
              advice |-> Advice(eroding, fit, breach)]

(* analyze_all: the metrics with a threshold and at least one value; one   *)
(* without a direction counts as worse when higher.                        *)
AnalyzeAll(thresholds, direction) ==
    [m \in {m \in DOMAIN thresholds : MetricSeries(m) # <<>>} |->
        AnalyzeMetric(MetricSeries(m), thresholds[m],
                      m \in DOMAIN direction => direction[m])]

(* What generate_trend_report counts as critical; it does not ask how well *)
(* the line fits.                                                          *)
ReportedCritical(analyses) ==
    {m \in DOMAIN analyses : analyses[m].eroding /\ analyses[m].breach \in 1..3}

----------------------------------------------------------------------------

(* The runs that measured a metric, in the order they happened.            *)
InOrderOfTime(metric) == ByKey([i \in Having(metric) |-> runs[i].timestamp])

OneRunAMoment ==
    \A i, j \in DOMAIN runs : runs[i].timestamp = runs[j].timestamp => i = j

(* What the trend of one metric must be, told from the steps between       *)
(* releases and not from the fitted line: a metric that loses more than    *)
(* the threshold with every release is eroding, in whatever order the runs *)
(* were added, one that never does is not, and when a breach is projected, *)
(* following the line that many releases reaches the threshold and one     *)
(* release less does not (history.py:188-268).                             *)
TrendSound(metric, threshold, higherIsWorse) ==
    LET sign == IF higherIsWorse THEN 1 ELSE -1
        places == InOrderOfTime(metric)
        loss(k) == sign * (runs[places[k + 1]].metrics[metric]
                             - runs[places[k]].metrics[metric])
        steps == 1..(Len(places) - 1)
        trend == AnalyzeMetric(MetricSeries(metric), threshold, higherIsWorse)
        reaches(n) ==
            sign * (Last(MetricSeries(metric)) * trend.fit.den
                      + n * trend.fit.num)
              >= sign * threshold * trend.fit.den
    IN  OneRunAMoment /\ Len(places) >= MinRuns =>
            /\ (\A k \in steps : loss(k) > ErosionThreshold) => trend.eroding
            /\ (\A k \in steps : loss(k) <= ErosionThreshold) => ~trend.eroding
            /\ trend.breach > 0 =>
                  reaches(trend.breach) /\ ~reaches(trend.breach - 1)
            /\ trend.advice = "critical" => ~reaches(0) /\ reaches(3)
=============================================================================
