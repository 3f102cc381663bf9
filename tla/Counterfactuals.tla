--------------------------- MODULE Counterfactuals ---------------------------
(***************************************************************************)
(* What-if analyses of an incident (incident-lab/counterfactuals/): a      *)
(* stricter threshold, a safeguard taken away, another routing, and how    *)
(* the engine ranks them.  A trajectory is a sequence of turns.  A turn    *)
(* has marks that call it unsafe, the signals of some layers and an        *)
(* action; a signal gives a value (as a confidence, a score or a drift),   *)
(* a threshold, and whether it triggered.  Numbers are percents.           *)
(***************************************************************************)
EXTENDS Integers, Sequences, FiniteSetsExt, SequencesExt, Ordering

Layers == {"pre_action", "mid_trajectory", "post_action"}

Result(type, outcome, turn, confidence) ==
    [type |-> type, outcome |-> outcome, turn |-> turn, confidence |-> confidence]

(* The outcomes that count as help.                                        *)
Helpful == {"prevented", "mitigated", "detected_earlier"}
WouldHaveHelped(r) == r.outcome \in Helpful

FailureTurn(t) ==
    LET unsafe == {k \in DOMAIN t : "violation" \in t[k].marks}
    IN  IF unsafe = {} THEN Len(t) ELSE Min(unsafe)

Signalled(t) == {p \in (DOMAIN t) \X Layers : p[2] \in DOMAIN t[p[1]].signals}
SignalAt(t, p) == t[p[1]].signals[p[2]]
ValueAs(s, kinds) == IF s.kind \in kinds THEN s.value ELSE 0
Confidence(s) == ValueAs(s, {"confidence"})
FirstTurn(points) == Min({p[1] : p \in points})

-----------------------------------------------------------------------------
(* StricterPolicyCounterfactual: the signals that stayed quiet and would   *)
(* not have with a threshold delta higher (delta is negative).             *)
NearMisses(t, delta, layer) ==
    {p \in Signalled(t) :
        LET s == SignalAt(t, p)
        IN  /\ layer \in {"all", p[2]}
            /\ ~s.triggered
            /\ s.value >= s.threshold + delta}

(* A slip: the misses are sorted the other way round.                      *)
EarliestCatch_Last(points) == Max({p[1] : p \in points})

EarliestCatch(points) == FirstTurn(points)

AnalyzeStricterPolicy(points, failure) ==
    IF points = {} THEN [outcome |-> "no_effect", turn |-> failure]
    ELSE IF EarliestCatch(points) <= failure - 2
    THEN [outcome |-> "prevented", turn |-> 0]
    ELSE IF EarliestCatch(points) = failure - 1
    THEN [outcome |-> "detected_earlier", turn |-> failure - 1]
    ELSE [outcome |-> "mitigated", turn |-> failure]

(* The closer the misses were on average, the surer.                       *)
StricterConfidence(t, points, delta) ==
    LET total == MapThenSumSet(LAMBDA p : SignalAt(t, p).value
                                            - SignalAt(t, p).threshold - delta, points)
    IN  IF points = {} THEN 40
        ELSE IF total < 5 * Cardinality(points) THEN 90
        ELSE IF total < 10 * Cardinality(points) THEN 75
        ELSE IF total < 20 * Cardinality(points) THEN 60 ELSE 50

StricterPolicy(t, delta, layer) ==
    LET points   == NearMisses(t, delta, layer)
        analysis == AnalyzeStricterPolicy(points, FailureTurn(t))
    IN  Result("stricter_policy", analysis.outcome, analysis.turn,
               StricterConfidence(t, points, delta))

(* ThresholdSweepAnalysis: every threshold, taken from a default of 50.    *)
EstimateFpr(threshold) ==
    IF threshold <= 20 THEN 25 ELSE IF threshold <= 30 THEN 15
    ELSE IF threshold <= 40 THEN 8 ELSE IF threshold <= 50 THEN 5
    ELSE IF threshold <= 60 THEN 3 ELSE IF threshold <= 70 THEN 2 ELSE 1

Sweep(t, thresholds) ==
    [x \in thresholds |-> StricterPolicy(t, x - 50, "all")]

(* The lowest threshold that helps within the budget; 0 when none does.    *)
FindOptimalThreshold(sweep, maxFpr) ==
    LET catching == {x \in DOMAIN sweep :
                        WouldHaveHelped(sweep[x]) /\ EstimateFpr(x) <= maxFpr}
    IN  IF catching = {} THEN 0 ELSE Min(catching)

-----------------------------------------------------------------------------
(* RemoveSafeguardCounterfactual: the layer that detected the incident may *)
(* have a backup; another may have given useful signals.                   *)
HighSignals(t, layer) ==
    {p \in Signalled(t) : p[2] = layer /\ Confidence(SignalAt(t, p)) > 70}
UsefulSignals(t, layer) ==
    {p \in Signalled(t) : p[2] = layer /\ Confidence(SignalAt(t, p)) > 30}

AnalyzeRemoval(t, root, layer) ==
    LET backups == {l \in Layers \ {layer} : HighSignals(t, l) # {}}
    IN  IF layer = root.layer
        THEN IF "pre_action" \in backups THEN "detected_earlier"
             ELSE IF backups # {} THEN "no_effect" ELSE "made_worse"
        ELSE IF UsefulSignals(t, layer) # {} THEN "mitigated" ELSE "no_effect"

RemoveSafeguard(t, root, layer) ==
    LET outcome  == AnalyzeRemoval(t, root, layer)
        earliest == IF Signalled(t) = {} THEN FailureTurn(t) ELSE FirstTurn(Signalled(t))
    IN  Result("remove_safeguard", outcome,
               IF outcome = "made_worse" THEN Max({1, earliest - 1}) ELSE FailureTurn(t),
               IF Signalled(t) = {} THEN 30 ELSE IF layer = root.layer THEN 85 ELSE 60)

EscalateSeverity ==
    [low |-> "medium", medium |-> "high", high |-> "critical", critical |-> "critical"]

-----------------------------------------------------------------------------
(* AlternativeRoutingCounterfactual.                                       *)
Routed(outcome, turn, confidence) ==
    Result("alternative_routing", outcome, turn, confidence)

HumanInLoop(t, root) ==
    LET warnings == {p \in Signalled(t) :
                        ValueAs(SignalAt(t, p), {"confidence", "drift"}) > 30}
    IN  IF warnings # {} /\ FirstTurn(warnings) < FailureTurn(t)
        THEN Routed("prevented", 0, 75)
        ELSE IF root.category = "Coordinated Misuse" THEN Routed("prevented", 0, 80)
        ELSE Routed("mitigated", FailureTurn(t), 50)

ConservativeModel(t, root) ==
    IF root.category \in {"Coordinated Misuse", "Tool Misuse"}
    THEN Routed("prevented", 0, 85)
    ELSE IF root.category = "Policy Erosion"
    THEN Routed("mitigated", FailureTurn(t) + 2, 60)
    ELSE Routed("no_effect", FailureTurn(t), 50)

DoubleCheck(t) ==
    LET close == {p \in Signalled(t) :
                     /\ Confidence(SignalAt(t, p)) >= 40
                     /\ Confidence(SignalAt(t, p)) < SignalAt(t, p).threshold}
    IN  IF Cardinality(close) >= 2
        THEN Routed("detected_earlier", Max({1, FailureTurn(t) - 1}), 65)
        ELSE Routed("no_effect", FailureTurn(t), 70)

ReorderSafeguards(t, root) ==
    IF root.layer = "mid_trajectory" THEN Routed("detected_earlier", 1, 60)
    ELSE Routed("no_effect", FailureTurn(t), 50)

(* An action that is a record, and not a text, ends the whole analysis.    *)
CapabilityRestriction(t) ==
    IF \E k \in DOMAIN t : t[k].action = "record"
    THEN Routed("raises", FailureTurn(t), 0)
    ELSE IF \E k \in DOMAIN t : t[k].action = "tool" THEN Routed("prevented", 0, 90)
    ELSE Routed("no_effect", FailureTurn(t), 70)

AlternativeRouting(t, root, routing) ==
    CASE routing = "human_in_loop"          -> HumanInLoop(t, root)
      [] routing = "conservative_model"     -> ConservativeModel(t, root)
      [] routing = "double_check"           -> DoubleCheck(t)
      [] routing = "reorder_safeguards"     -> ReorderSafeguards(t, root)
      [] routing = "capability_restriction" -> CapabilityRestriction(t)
      [] OTHER                              -> Routed("inconclusive", FailureTurn(t), 30)

-----------------------------------------------------------------------------
(* CounterfactualEngine: the three analyses with what they do by default,  *)
(* or those that are asked for; summarize puts what helps first.           *)
AnalyzeAll(t, root) ==
    <<RemoveSafeguard(t, root, "mid_trajectory"), StricterPolicy(t, -10, "all"),
      AlternativeRouting(t, root, "human_in_loop")>>

(* A specification names an analysis and what it is to change; a list of   *)
(* them is analyzed one after the other, whatever is in it.                *)
Apply(t, root, spec) ==
    CASE spec.type = "remove_safeguard"    -> RemoveSafeguard(t, root, spec.layer)
      [] spec.type = "stricter_policy"     -> StricterPolicy(t, spec.delta, spec.layer)
      [] spec.type = "alternative_routing" -> AlternativeRouting(t, root, spec.routing)

Analyze(t, root, specs) == [k \in DOMAIN specs |-> Apply(t, root, specs[k])]

(* A slip: what an analysis would have changed is left out of its rank.    *)
ImpactScore_Unweighted(r) == r.confidence

ImpactScore(r) ==
    r.confidence * (CASE r.outcome = "prevented" -> 10
                      [] r.outcome = "mitigated" -> 7
                      [] r.outcome = "detected_earlier" -> 5
                      [] OTHER -> 0)

Summarize(results) ==
    LET helpful == {i \in DOMAIN results : WouldHaveHelped(results[i])}
    IN  [helped    |-> Sorted(results, [i \in helpful |-> -ImpactScore(results[i])]),
         unhelpful |-> AtPlaces(results, DOMAIN results \ helpful)]
=============================================================================
