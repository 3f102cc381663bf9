------------------------------ MODULE ChaosEngine ------------------------------
(***************************************************************************)
(* The chaos experiments on the safeguards (simulator/chaos): every        *)
(* registered experiment runs the scenarios twice, without and with its    *)
(* injection, compares the two and grades how the system degraded; the     *)
(* summary of all that came through is PASS, WARN or FAIL.  The simulated  *)
(* pipeline and the injections are random, and the two runs draw           *)
(* independently.                                                          *)
(***************************************************************************)
EXTENDS Integers, Sequences, FiniteSetsExt, SequencesExt

CONSTANTS Suites,         (* experiments registered, in order: [name, ...] *)
          ScenarioLists   (* scenarios: is_attack, or "unknown"            *)

(* A registered experiment with its configuration: the chance of a fault   *)
(* that is less than one and more than none leaves it open whether it      *)
(* fires.                                                                  *)
Experiments ==
    [name : {"drop_safeguard"}, fires : SUBSET BOOLEAN,
     layer : {"pre_action", "mid_trajectory", "post_action"}]
        \cup [name : {"delay_alerting"}, fires : SUBSET BOOLEAN, delay : Nat]
        \cup [name : {"corrupt_metrics"}, fires : SUBSET BOOLEAN,
              corruption : {"zero", "extreme", "missing"}]
        \cup [name : {"metric_validation"}]

ASSUME ChaosAssumption ==
    /\ Suites \subseteq Seq(Experiments)
    /\ ScenarioLists \subseteq Seq({"attack", "benign", "unknown"})

VARIABLES suite,          (* ChaosEngine.experiments, with their configs   *)
          scenarios,      (* test_scenarios                                *)
          trial,          (* the experiment that runs: where it is         *)
          chaosResults    (* the results of those that came through        *)

chaosVars == <<suite, scenarios, trial, chaosResults>>

-----------------------------------------------------------------------------
(* _simulate_pipeline_run: an attack is detected or missed, a benign       *)
(* scenario passes or is a false positive.                                 *)
Outcome(blocked, latency) ==
    [blocked |-> blocked, passed |-> 1 - blocked, alerts |-> blocked, latency |-> latency]

SimulatePipelineRun(scenario) ==
    (IF scenario # "benign" THEN {Outcome(1, 150), Outcome(0, 100)} ELSE {})
        \cup (IF scenario # "attack" THEN {Outcome(1, 120), Outcome(0, 80)} ELSE {})

(* What the wrapper of an experiment may make of an outcome.  A warning is *)
(* never given by the pipeline, so that dropping the mid-trajectory layer  *)
(* changes nothing; a missing latency counts as 100.  (The noise of a      *)
(* fourth kind of corruption is one more latency, which nothing reads.)    *)
Drop(e, o) ==
    CASE e.layer = "pre_action" /\ o.blocked > 0 ->
             [o EXCEPT !.blocked = 0, !.passed = 1, !.alerts = 0]
      [] e.layer = "post_action" -> [o EXCEPT !.alerts = 0]
      [] OTHER -> o

Delay(e, o) ==
    IF o.alerts = 0 THEN {o}
    ELSE {[o EXCEPT !.alerts = 0] : x \in e.fires \cap {TRUE}}
            \cup {[o EXCEPT !.latency = @ + e.delay] : x \in e.fires \cap {FALSE}}

Corrupted == [zero |-> 0, extreme |-> 999999, missing |-> 100]

Inject(e, o) ==
    CASE e.name = "drop_safeguard" ->
             {IF fires THEN Drop(e, o) ELSE o : fires \in e.fires}
      [] e.name = "delay_alerting" -> Delay(e, o)
      [] e.name = "corrupt_metrics" ->
             {IF fires THEN [o EXCEPT !.latency = Corrupted[e.corruption]] ELSE o :
                 fires \in e.fires}
      [] e.name = "metric_validation" -> {[o EXCEPT !.latency = -1, !.blocked = 100]}

-----------------------------------------------------------------------------
(* The analyses, on the totals of the run without and with chaos.          *)
Verdict(level, safe, functional) ==
    [level |-> level, safe |-> safe, functional |-> functional]

Distance(a, b) == IF a < b THEN b - a ELSE a - b

(* Mutant: what most blocks are lost for is only a partial failure.        *)
AnalyzeDrop_Lenient(original, chaos) ==
    Verdict(IF chaos.blocked < original.blocked THEN "partial" ELSE "graceful", TRUE, TRUE)

AnalyzeDrop(original, chaos) ==
    LET missed     == original.blocked - chaos.blocked
        functional == 10 * Distance(chaos.passed, original.passed) < original.passed
    IN  IF missed <= 0 THEN Verdict("graceful", TRUE, functional)
        ELSE IF 2 * missed > original.blocked THEN Verdict("catastrophic", FALSE, functional)
        ELSE Verdict("partial", TRUE, functional)

(* The average latencies, which no scenario leaves without a divisor.      *)
AnalyzeDelay(original, chaos) ==
    LET n     == Len(scenarios)
        slow  == chaos.latency - original.latency
        lost  == original.alerts - chaos.alerts
    IN  Verdict(IF 2 * lost > original.alerts \/ slow > 10000 * n
                THEN "partial" ELSE "graceful",
                chaos.blocked = original.blocked,
                slow < 5000 * n)

AnalyzeCorruption(original, chaos) ==
    IF chaos.blocked # original.blocked THEN Verdict("catastrophic", FALSE, FALSE)
    ELSE Verdict(IF chaos.passed # original.passed THEN "partial" ELSE "graceful", TRUE, TRUE)

(* The totals have no latency of their own, so that only the overflow of   *)
(* the blocks is ever seen.                                                *)
AnalyzeValidation(chaos) ==
    Verdict(IF chaos.blocked > Len(scenarios) THEN "partial" ELSE "graceful", TRUE, TRUE)

AnalyzeTrial(name, original, chaos) ==
    CASE name = "drop_safeguard"    -> AnalyzeDrop(original, chaos)
      [] name = "delay_alerting"    -> AnalyzeDelay(original, chaos)
      [] name = "corrupt_metrics"   -> AnalyzeCorruption(original, chaos)
      [] name = "metric_validation" -> AnalyzeValidation(chaos)

-----------------------------------------------------------------------------
NoTotals == [blocked |-> 0, passed |-> 0, alerts |-> 0, latency |-> 0]

Added(totals, o) == [f \in DOMAIN totals |-> totals[f] + o[f]]

StartOf(k) ==
    [number |-> k, phase |-> "original", done |-> 0, original |-> NoTotals, chaos |-> NoTotals]

ChaosInit ==
    /\ suite \in Suites
    /\ scenarios \in ScenarioLists
    /\ trial = StartOf(1)
    /\ chaosResults = <<>>

Experiment == suite[trial.number]

(* The next scenario without chaos, and with it: the pipeline runs anew.   *)
RunPipeline ==
    /\ trial.number <= Len(suite)
    /\ trial.phase = "original"
    /\ trial.done < Len(scenarios)
    /\ \E o \in SimulatePipelineRun(scenarios[trial.done + 1]) :
          trial' = [trial EXCEPT !.done = @ + 1, !.original = Added(@, o)]
    /\ UNCHANGED <<suite, scenarios, chaosResults>>

InjectChaos ==
    /\ trial.number <= Len(suite)
    /\ trial.phase = "original"
    /\ trial.done = Len(scenarios)
    /\ trial' = [trial EXCEPT !.phase = "chaos", !.done = 0]
    /\ UNCHANGED <<suite, scenarios, chaosResults>>

RunPipelineWithChaos ==
    /\ trial.phase = "chaos"
    /\ trial.done < Len(scenarios)
    /\ \E o \in SimulatePipelineRun(scenarios[trial.done + 1]) :
          \E c \in Inject(Experiment, o) :
              trial' = [trial EXCEPT !.done = @ + 1, !.chaos = Added(@, c)]
    /\ UNCHANGED <<suite, scenarios, chaosResults>>

(* The result is kept and the next experiment starts; one that raises is   *)
(* left out: that of the delays, which divides by the scenarios.           *)
Raises == Experiment.name = "delay_alerting" /\ scenarios = <<>>

FinishExperiment ==
    /\ trial.phase = "chaos"
    /\ trial.done = Len(scenarios)
    /\ trial' = StartOf(trial.number + 1)
    /\ chaosResults' =
          IF Raises THEN chaosResults
          ELSE Append(chaosResults,
                      [name     |-> Experiment.name,
                       original |-> trial.original,
                       chaos    |-> trial.chaos,
                       verdict  |-> AnalyzeTrial(Experiment.name, trial.original, trial.chaos)])
    /\ UNCHANGED <<suite, scenarios>>

ChaosNext == RunPipeline \/ InjectChaos \/ RunPipelineWithChaos \/ FinishExperiment

Of(level) == {k \in DOMAIN chaosResults : chaosResults[k].verdict.level = level}
Safe == {k \in DOMAIN chaosResults : chaosResults[k].verdict.safe}

Summary ==
    IF Of("catastrophic") # {} THEN "FAIL"
    ELSE IF Safe = DOMAIN chaosResults THEN "PASS" ELSE "WARN"

-----------------------------------------------------------------------------
(* An experiment whose injection, or whose luck, lost every block there    *)
(* was is never passed over: the summary is not PASS (engine.py:282,       *)
(* drop_safeguard.py:88, delay_alerting.py:82, corrupt_metrics.py:90).     *)
LostBlocksTell ==
    (\E k \in DOMAIN chaosResults :
        chaosResults[k].original.blocked > 0 /\ chaosResults[k].chaos.blocked = 0)
        => Summary # "PASS"

(* Every scenario of a run is blocked or passed, whatever is injected but  *)
(* the metrics that are to be rejected (engine.py:205).                     *)
ScenariosAccounted ==
    \A k \in DOMAIN chaosResults : LET r == chaosResults[k] IN
        /\ r.original.blocked + r.original.passed = Len(scenarios)
        /\ r.name # "metric_validation" =>
              r.chaos.blocked + r.chaos.passed = Len(scenarios)

(* The grades of the experiments are those of what was lost.               *)
ChaosJudged == LostBlocksTell /\ ScenariosAccounted
=============================================================================
