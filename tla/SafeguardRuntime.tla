---------------------------- MODULE SafeguardRuntime ----------------------------
(***************************************************************************)
(* The pluggable safeguards of the simulator (simulator/safeguards/api.py, *)
(* composer.py, policy_dsl.py, escalation.py, post_action.py and           *)
(* analysis/policy_conflict_detector.py): hooks are registered with a      *)
(* runtime, answers of layers are composed, declared policies are loaded   *)
(* and searched for conflicts, and the thresholds of the escalation        *)
(* policy are adapted to the risk of a context.  What an agent shows is a  *)
(* signal [drift, violations, uncertainty, toolRisk, features]; scores are *)
(* percents, thresholds that shrink are in ten-thousandths of a percent,   *)
(* and no score meets such a threshold exactly, where floating-point       *)
(* numbers may differ.                                                     *)
(***************************************************************************)
EXTENDS Integers, Sequences, FiniteSetsExt, SequencesExt, Ordering

CONSTANTS Signals,        (* what an agent may show                        *)
          Hooks,          (* hooks that may be registered                  *)
          Answers,        (* what a safeguard may answer the composer      *)
          PolicyFiles,    (* lists of rules that may be loaded             *)
          Policies,       (* policies that may be searched for conflicts   *)
          ToolResults,    (* what the post-action hook may see             *)
          Sensitivities,  (* of the adaptive escalation policy, percents   *)
          ContextRisks,   (* what it is adjusted for, percents             *)
          MaxGuards       (* bound on the guards added to each             *)

VARIABLES runtimeHooks,   (* SafeguardsRuntime.hooks                       *)
          composer,       (* a SafeguardComposer: [rule, layers]           *)
          rules,          (* PolicyEngine.rules                            *)
          escalation,     (* AdaptiveEscalationPolicy: its two thresholds  *)
          grown,          (* bound: the guards added and adjustments       *)
          catalogue,      (* the policies the detector is given            *)
          audit           (* what the post-action hook answered last       *)

guardVars == <<runtimeHooks, composer, rules, escalation, grown, catalogue, audit>>

-----------------------------------------------------------------------------
(* Mutant: the last one to answer wins.                                   *)
Favoured_Last(said, weight) == said[Len(said)]

(* What several hooks say: the greatest of them, and the first of equals.  *)
Favoured(said, weight) ==
    said[Min({i \in DOMAIN said : \A j \in DOMAIN said : weight[said[j]] <= weight[said[i]]})]

DecisionPriority ==
    [hard_stop |-> 4, human_review |-> 3, soft_stop |-> 2, log_only |-> 1, proceed |-> 0]

HookPoints == {"pre_action", "mid_step", "post_action"}

(* The drift monitor that comes with the API, or a hook of its user, of    *)
(* which only what it decides is known.                                    *)
HookDecision(hook, s) ==
    IF hook.kind = "plugin" THEN hook.decision
    ELSE IF s.drift > hook.threshold THEN "hard_stop"
    ELSE IF 10 * s.drift > 6 * hook.threshold THEN "soft_stop" ELSE "proceed"

StepDecision(registered, s) ==
    IF registered = <<>> THEN "proceed"
    ELSE Favoured([i \in DOMAIN registered |-> HookDecision(registered[i], s)],
                  DecisionPriority)

Register ==
    \E h \in Hooks :
        /\ grown < MaxGuards
        /\ grown' = grown + 1
        /\ runtimeHooks' = [runtimeHooks EXCEPT ![h.point] = Append(@, h)]
        /\ UNCHANGED <<composer, rules, escalation, catalogue, audit>>

-----------------------------------------------------------------------------
(* The composer: its layers answer in order, by [action, confidence].      *)
GuardLayers == <<"pre_action", "mid_trajectory", "post_action">>

ActionPriority == [hard_stop |-> 4, soft_stop |-> 3, log_only |-> 2, allow |-> 1]

AggregationRules == {"most_restrictive", "majority_vote", "weighted"}

StrategyLayers ==
    [none       |-> {},
     pre_only   |-> {"pre_action"},
     mid_only   |-> {"mid_trajectory"},
     post_only  |-> {"post_action"},
     pre_mid    |-> {"pre_action", "mid_trajectory"},
     full_stack |-> {"pre_action", "mid_trajectory", "post_action"}]

Placeholder ==
    [pre_action |-> 90, mid_trajectory |-> 85, post_action |-> 95]

CreateStrategy(name) ==
    [rule   |-> "most_restrictive",
     layers |-> [l \in ToSet(GuardLayers) |->
                    IF l \in StrategyLayers[name]
                    THEN <<[action |-> "allow", confidence |-> Placeholder[l]]>>
                    ELSE <<>>]]

Results(c) ==
    c.layers[GuardLayers[1]] \o c.layers[GuardLayers[2]] \o c.layers[GuardLayers[3]]

Saying(c, action) == {i \in DOMAIN Results(c) : Results(c)[i].action = action}

(* What each action is worth: its priority, its votes or their confidence. *)
Weight(c) ==
    [a \in DOMAIN ActionPriority |->
        CASE c.rule = "most_restrictive" -> ActionPriority[a]
          [] c.rule = "majority_vote"    -> Cardinality(Saying(c, a))
          [] c.rule = "weighted"         ->
                SumFunction([i \in Saying(c, a) |-> Results(c)[i].confidence])]

(* Without an answer each of the rules raises: there is nothing to choose. *)
Composed(c) ==
    LET results == Results(c)
    IN  IF results = <<>> THEN "raises"
        ELSE Favoured([i \in DOMAIN results |-> results[i].action], Weight(c))

AddSafeguard ==
    \E l \in ToSet(GuardLayers), a \in Answers :
        /\ grown < MaxGuards
        /\ grown' = grown + 1
        /\ composer' = [composer EXCEPT !.layers[l] = Append(@, a)]
        /\ UNCHANGED <<runtimeHooks, rules, escalation, catalogue, audit>>

SetAggregationRule ==
    \E r \in AggregationRules :
        /\ composer' = [composer EXCEPT !.rule = r]
        /\ UNCHANGED <<runtimeHooks, rules, escalation, grown, catalogue, audit>>

-----------------------------------------------------------------------------
(* Declared policies.  A condition is a list of alternatives, each a list  *)
(* of comparisons <<left, op, right>> that must all hold; a word is a      *)
(* number [num], in hundredths, a quoted text [text] or a name [name].     *)
Num(n) == [num |-> n]
Text(t) == [text |-> t]
Name(n) == [name |-> n]

ValueOf(word, namespace) ==
    IF DOMAIN word # {"name"} THEN word
    ELSE IF word.name \in DOMAIN namespace THEN namespace[word.name] ELSE Text(word.name)

IsNumber(value) == DOMAIN value = {"num"}

(* Numbers are compared by order, and everything for equality: what does   *)
(* not parse, or compares unlike things by order, never matches.           *)
Compares(op, a, b) ==
    \/ op = "==" /\ a = b
    \/ op = "!=" /\ a # b
    \/ /\ IsNumber(a) /\ IsNumber(b)
       /\ \/ op = ">"  /\ a.num > b.num
          \/ op = "<"  /\ a.num < b.num
          \/ op = ">=" /\ a.num >= b.num
          \/ op = "<=" /\ a.num <= b.num

EvaluateCondition(when, namespace) ==
    \E k \in DOMAIN when : \A i \in DOMAIN when[k] :
        LET leaf == when[k][i]
        IN  /\ Len(leaf) = 3
            /\ Compares(leaf[2], ValueOf(leaf[1], namespace), ValueOf(leaf[3], namespace))

(* Features go before what the context shows under the same name.          *)
Namespace(s) ==
    [name \in {"drift_score", "violation_count"} \cup DOMAIN s.features |->
        IF name \in DOMAIN s.features THEN s.features[name]
        ELSE IF name = "drift_score" THEN Num(s.drift) ELSE Num(100 * s.violations)]

(* Mutant: the lowest priority comes first.                                *)
ByPriority_Ascending(file) == Sorted(file, [i \in DOMAIN file |-> file[i].priority])

(* Loading keeps the order of rules of the same priority.                  *)
ByPriority(file) == Sorted(file, [i \in DOMAIN file |-> -file[i].priority])

Evaluate(loaded, s) ==
    LET matching == {i \in DOMAIN loaded : EvaluateCondition(loaded[i].when, Namespace(s))}
    IN  IF matching = {} THEN "proceed" ELSE loaded[Min(matching)].action

Above(name, n) == <<<<Name(name), ">", Num(n)>>>>
DefaultPolicy ==
    <<[when |-> <<Above("drift_score", 50)>>, action |-> "hard_stop", priority |-> 10],
      [when |-> <<Above("drift_score", 30)>>, action |-> "soft_stop", priority |-> 5],
      [when |-> <<Above("violation_count", 0)>>, action |-> "hard_stop", priority |-> 15],
      [when |-> <<<<<<Name("tool_risk"), "==", Text("high")>>>>>>, action |-> "soft_stop",
       priority |-> 8]>>

LoadPolicy ==
    \E file \in PolicyFiles :
        /\ rules' = ByPriority(file)
        /\ UNCHANGED <<runtimeHooks, composer, escalation, grown, catalogue, audit>>

-----------------------------------------------------------------------------
(* The escalation policy.                                                  *)
EscalationOrder == <<"none", "warn", "clarify", "soft_stop", "human_review", "hard_stop">>

Escalates(e, s) ==
    LET drifts(t)    == 10000 * s.drift >= t
        uncertain    == 10000 * s.uncertainty >= e.uncertainty
    IN  IF s.violations >= 1 \/ s.drift >= 80 THEN "hard_stop"
        ELSE IF s.drift >= 60 /\ uncertain THEN "human_review"
        ELSE IF drifts(e.drift) \/ s.toolRisk >= 70 THEN "soft_stop"
        ELSE IF uncertain THEN "clarify"
        ELSE IF s.drift >= 30 THEN "warn" ELSE "none"

Adaptive(sensitivity) ==
    [drift |-> 5000 * (110 - sensitivity), uncertainty |-> 4000 * (110 - sensitivity)]

AdjustForContext ==
    \E risk \in ContextRisks :
        LET shrunk(t) == (t * (1000 - 3 * risk)) \div 1000
        IN  /\ grown < MaxGuards
            /\ grown' = grown + 1
            /\ escalation' = [drift       |-> shrunk(escalation.drift),
                              uncertainty |-> shrunk(escalation.uncertainty)]
            /\ UNCHANGED <<runtimeHooks, composer, rules, catalogue, audit>>

-----------------------------------------------------------------------------
(* The detector of conflicts, on policies [layer, condition, action,       *)
(* priority] whose conditions are sets of words.  "!=" leaves its first    *)
(* sign behind, and is a word that two conditions can share.               *)
Noise == {">", "<", ">=", "<=", "==", "and", "or", "not", "true", "false", "0", "1"}

Overlap(a, b) == (a.condition \cap b.condition) \ Noise # {}

Subsumes(a, b) ==
    a.condition \subseteq b.condition /\ Cardinality(a.condition) < Cardinality(b.condition)

Conflict(type, severity, i, j) ==
    [type |-> type, severity |-> severity, policies |-> <<i, j>>]

Disagree(a, b) == Overlap(a, b) /\ a.action # b.action

Pairs(c) == (DOMAIN c) \X (DOMAIN c)

(* The smaller priority number comes first, in the order given at a tie.   *)
Overrides(c) ==
    {Conflict("override",
              IF c[p[1]].action = "allow" /\ c[p[2]].action = "block"
              THEN "critical" ELSE "high", p[1], p[2]) :
        p \in {q \in Pairs(c) :
                  /\ c[q[1]].layer = c[q[2]].layer
                  /\ \/ c[q[1]].priority < c[q[2]].priority
                     \/ c[q[1]].priority = c[q[2]].priority /\ q[1] < q[2]
                  /\ Disagree(c[q[1]], c[q[2]])}}

Contradictions(c) ==
    {Conflict("contradiction", "high", p[1], p[2]) :
        p \in {q \in Pairs(c) :
                  /\ \E k, l \in DOMAIN GuardLayers :
                        k < l /\ c[q[1]].layer = GuardLayers[k] /\ c[q[2]].layer = GuardLayers[l]
                  /\ Overlap(c[q[1]], c[q[2]])
                  /\ c[q[1]].action = "allow" /\ c[q[2]].action = "block"}}

SameLayer(c) ==
    {q \in Pairs(c) : q[1] < q[2] /\ c[q[1]].layer = c[q[2]].layer}

Redundancies(c) ==
    {Conflict("redundancy", "low", p[1], p[2]) :
        p \in {q \in SameLayer(c) : c[q[1]].action = c[q[2]].action
                                    /\ Subsumes(c[q[1]], c[q[2]])}}

Orderings(c) ==
    {Conflict("ordering", "medium", p[1], p[2]) :
        p \in {q \in SameLayer(c) : c[q[1]].priority = c[q[2]].priority
                                    /\ Disagree(c[q[1]], c[q[2]])}}

Analyze(c) == Overrides(c) \cup Contradictions(c) \cup Redundancies(c) \cup Orderings(c)

AddPolicy ==
    \E p \in Policies :
        /\ grown < MaxGuards
        /\ grown' = grown + 1
        /\ catalogue' = Append(catalogue, p)
        /\ UNCHANGED <<runtimeHooks, composer, rules, escalation, audit>>

-----------------------------------------------------------------------------
(* The post-action hook, on a tool's result [status, risk, indicators]:    *)
(* none is a result without output that nothing is said of.                *)
OutcomeStatus(r) ==
    CASE r.status = "none"    -> [status |-> "ok", score |-> 0]
      [] r.status = "error"   -> [status |-> "error", score |-> 30]
      [] r.status = "blocked" -> [status |-> "blocked", score |-> 50]
      [] OTHER -> IF r.risk > 70 THEN [status |-> "high_risk", score |-> r.risk]
                  ELSE [status |-> "ok", score |-> 0]

PostAction(r) ==
    [status  |-> IF r.indicators > 0 THEN "anomaly" ELSE OutcomeStatus(r).status,
     outcome |-> OutcomeStatus(r).score,
     anomaly |-> Min({(100 * r.indicators) \div 3, 100})]

Audit ==
    \E r \in ToolResults :
        /\ audit' = PostAction(r)
        /\ UNCHANGED <<runtimeHooks, composer, rules, escalation, grown, catalogue>>

-----------------------------------------------------------------------------
(* Scores and counts are numbers, and features that are named like what    *)
(* the context shows agree with it.  With a sensitivity below a tenth the  *)
(* escalation policy would let pass a drift that the default rules block.  *)
ASSUME GuardAssumption ==
    /\ \A s \in Signals :
          /\ {s.drift, s.violations, s.uncertainty, s.toolRisk} \subseteq Nat
          /\ "drift_score" \in DOMAIN s.features => s.features["drift_score"] = Num(s.drift)
          /\ "violation_count" \in DOMAIN s.features =>
                s.features["violation_count"] = Num(100 * s.violations)
    /\ \A h \in Hooks :
          /\ h.point \in HookPoints
          /\ h.kind = "plugin" => h.decision \in DOMAIN DecisionPriority
    /\ Answers \subseteq [action : DOMAIN ActionPriority, confidence : Nat]
    /\ \A r \in ToolResults : r.risk \in Nat /\ r.indicators \in Nat
    /\ Sensitivities \subseteq 10..100
    /\ ContextRisks \subseteq 0..100

GuardInit ==
    /\ runtimeHooks = [p \in HookPoints |-> <<>>]
    /\ composer \in {CreateStrategy(s) : s \in DOMAIN StrategyLayers}
    /\ rules = <<>>
    /\ escalation \in {Adaptive(s) : s \in Sensitivities}
    /\ grown = 0
    /\ catalogue = <<>>
    /\ audit = PostAction([status |-> "none", risk |-> 0, indicators |-> 0])

(* The steps of each of the users of the safeguards.                       *)
RuntimeNext == Register
ComposerNext == AddSafeguard \/ SetAggregationRule
PolicyNext == LoadPolicy \/ AdjustForContext \/ Audit
DetectorNext == AddPolicy

-----------------------------------------------------------------------------
EscalationRank(e, s) == CHOOSE k \in DOMAIN EscalationOrder :
                            EscalationOrder[k] = Escalates(e, s)

(* What the default policy would block, the escalation policy does not let *)
(* run on: it pauses at least, however it is adjusted (policy_dsl.py:214,  *)
(* escalation.py:156).                                                     *)
StopsArePaused ==
    rules = ByPriority(DefaultPolicy) =>
        \A s \in Signals :
            Evaluate(rules, s) = "hard_stop" =>
                Escalates(escalation, s) \in {"soft_stop", "human_review", "hard_stop"}

(* The default policy answers with the most severe of the rules that       *)
(* match, though it takes the first (policy_dsl.py:112, api.py:196).       *)
FirstIsWorst ==
    rules = ByPriority(DefaultPolicy) =>
        \A s \in Signals, k \in DOMAIN rules :
            EvaluateCondition(rules[k].when, Namespace(s)) =>
                DecisionPriority[rules[k].action] <= DecisionPriority[Evaluate(rules, s)]

(* The post-action hook calls a result ok when neither auditor scores it   *)
(* (post_action.py:134).                                                   *)
AuditHonest == audit.status = "ok" <=> audit.outcome = 0 /\ audit.anomaly = 0

(* What depends on the order of evaluation is reported as an override too  *)
(* (policy_conflict_detector.py:127, 234).                                 *)
OrderingsOverride ==
    \A c \in Orderings(catalogue) :
        \E o \in Overrides(catalogue) : o.policies = c.policies

(* One more hook, one more safeguard where the most restrictive wins, or   *)
(* an adjustment for risk never makes an answer laxer (api.py:187,         *)
(* composer.py:135, escalation.py:162).                                    *)
NoLaxer ==
    /\ \A p \in HookPoints, s \in Signals :
          DecisionPriority[StepDecision(runtimeHooks[p], s)]
              <= DecisionPriority[StepDecision(runtimeHooks'[p], s)]
    /\ composer'.rule = "most_restrictive" /\ Results(composer) # <<>> =>
          ActionPriority[Composed(composer)] <= ActionPriority[Composed(composer')]
    /\ \A s \in Signals : EscalationRank(escalation, s) <= EscalationRank(escalation', s)

(* A conflict that was reported stays reported as policies are added       *)
(* (policy_conflict_detector.py:74).                                       *)
ConflictsStay == Analyze(catalogue) \subseteq Analyze(catalogue')

GuardsTighten ==
    /\ [](StopsArePaused /\ FirstIsWorst /\ AuditHonest /\ OrderingsOverride)
    /\ [][NoLaxer /\ ConflictsStay]_guardVars
=============================================================================
