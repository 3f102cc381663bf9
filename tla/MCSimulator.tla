------------------------------ MODULE MCSimulator ------------------------------
(* A small instance of Simulator: the agent's requests of MCAgentExecutor, *)
(* signals on both sides of every threshold, four hooks, answers of each   *)
(* action, three policy files, seven policies, and one suite for each kind *)
(* of chaos.                                                               *)
EXTENDS Simulator, MCAgentExecutor

MCSignals ==
    LET Signal(drift, violations, uncertainty, toolRisk, features) ==
            [drift |-> drift, violations |-> violations, uncertainty |-> uncertainty,
             toolRisk |-> toolRisk, features |-> features]
        Risk(name) == [tool_risk |-> Text(name)]
    IN  {Signal(d, 0, u, 10, Risk("low")) :
            d \in {0, 26, 31, 51, 61, 81}, u \in {5, 33, 95}}
        \cup {Signal(20, 1, 5, 10, Risk("low")), Signal(35, 0, 5, 90, Risk("high")),
              Signal(52, 2, 50, 71, <<>>)}

MCHooks ==
    {[kind |-> "drift", threshold |-> 50, point |-> "mid_step"],
     [kind |-> "drift", threshold |-> 30, point |-> "mid_step"],
     [kind |-> "plugin", decision |-> "human_review", point |-> "mid_step"],
     [kind |-> "plugin", decision |-> "log_only", point |-> "pre_action"]}

MCAnswers ==
    {[action |-> a, confidence |-> 90] : a \in DOMAIN ActionPriority}
        \cup {[action |-> "hard_stop", confidence |-> 40]}

(* A rule over two alternatives, one of which never parses.                *)
MCPolicyFiles ==
    {DefaultPolicy,
     <<[when |-> <<<<<<Name("not"), Name("drift_score"), ">", Num(50)>>>>,
                   <<<<Name("violation_count"), ">=", Num(100)>>,
                     <<Name("tool_risk"), "!=", Text("high")>>>>>>,
        action |-> "human_review", priority |-> 1]>>,
     <<>>}

MCPolicies ==
    LET Policy(layer, condition, action, priority) ==
            [layer |-> layer, condition |-> condition, action |-> action,
             priority |-> priority]
    IN  {Policy("pre_action", {"injection_score", ">", "0.8"}, "block", 1),
         Policy("pre_action", {"injection_score", ">", "0.5"}, "allow", 1),
         Policy("pre_action", {"injection_score", ">", "0.8", "topic"}, "block", 2),
         Policy("mid_trajectory", {"topic", "!", "benign"}, "block", 1),
         Policy("mid_trajectory", {"drift", "!", "zero"}, "allow", 2),
         Policy("pre_action", {"topic", "==", "research"}, "allow", 2),
         Policy("post_action", {"topic", "true"}, "block", 1)}

MCToolResults ==
    {[status |-> "none", risk |-> 0, indicators |-> 0]}
        \cup [status : {"error", "blocked", "success"}, risk : {0, 70, 90},
              indicators : 0..4]

Either == {TRUE, FALSE}

Dropping(layer, fires) == [name |-> "drop_safeguard", layer |-> layer, fires |-> fires]

Delaying(delay) == [name |-> "delay_alerting", delay |-> delay, fires |-> Either]

Corrupting(how) == [name |-> "corrupt_metrics", corruption |-> how, fires |-> Either]

MCSuites ==
    {<<Dropping("pre_action", {TRUE})>>,
     <<Dropping("pre_action", Either)>>,
     <<Dropping("mid_trajectory", {TRUE})>>,
     <<Dropping("post_action", {TRUE})>>,
     <<Delaying(5000)>>,
     <<Delaying(20000)>>,
     <<Corrupting("zero")>>,
     <<Corrupting("extreme")>>,
     <<Corrupting("missing")>>,
     <<[name |-> "metric_validation"]>>}

MCScenarioLists ==
    {<<>>, <<"attack", "attack", "benign">>, <<"attack", "unknown">>,
     <<"attack", "attack", "attack">>}

MCAttacks == <<4, 1>>

(* No indicator, the simulated refusal, a refusal in so many words, one    *)
(* and two indicators of a violation, and a refusal that explains.         *)
MCResponses ==
    LET Says(refusals, violations, hedging) ==
            [refusals |-> refusals, violations |-> violations, hedging |-> hedging]
    IN  {Says(0, 0, 0), Says(0, 0, 1), Says(2, 0, 1), Says(0, 1, 0), Says(0, 2, 1),
         Says(2, 3, 0)}
=============================================================================
