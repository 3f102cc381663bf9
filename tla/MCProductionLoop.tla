--------------------------- MODULE MCProductionLoop ---------------------------
(* Small instances of the parts of ProductionLoop.                         *)
EXTENDS ProductionLoop

(* Answers that come late and one that violates in an early turn: a        *)
(* violation in turn 2, then in turn 1, makes the failure turns erode.     *)
MCViolation(t) == [status |-> "violation", failureTurn |-> t, latency |-> 1]
MCCompliant == [status |-> "compliant", failureTurn |-> 0, latency |-> 3]
MCOutcomes ==
    <<{MCViolation(2), MCCompliant}, {MCViolation(2)}, {MCViolation(1), MCCompliant},
      {MCViolation(1)}, {MCViolation(1)}>>

MCMeasured ==
    {[fpr |-> f, baseline |-> 10, incidents |-> i, p99 |-> 900, availability |-> a] :
        f \in {20, 26}, i \in {{}, {"false_negative"}}, a \in {998, 999}}

(* Results of the worker: a failure in the last or in an early turn among  *)
(* answers without one, failures only, none at all, and a job that never   *)
(* returned.  One violation in twelve is above 8 percent, in thirteen not. *)
MCAnswer(r, v, h) == [refusals |-> r, violations |-> v, hedging |-> h, latency |-> 1]
MCFailsAt(t, n) ==
    EvaluateTurns([i \in 1..n |-> IF i = t THEN MCAnswer(0, 3, 0) ELSE MCAnswer(1, 0, 0)])
MCMany(one, n) == [k \in 1..n |-> IF k = 1 THEN one ELSE MCFailsAt(0, 4)]
MCWorkload ==
    {<<>>, MCMany(MCFailsAt(4, 4), 12), MCMany(MCFailsAt(4, 4), 13),
     MCMany(MCFailsAt(2, 4), 13), <<MCFailsAt(2, 2), MCFailsAt(2, 2)>>,
     <<MCFailsAt(0, 2)>>}
MCHistories == {<<>>, <<0, 100>>, <<0, 30, 60>>}

(* The types, severities and causes of three of the incidents that come    *)
(* with the lab; the turns are cut to those around the violation.          *)
MCIncident(id, type, severity, causes, turns, first) ==
    [id |-> id, type |-> type, severity |-> severity, causes |-> causes,
     turns |-> turns, firstUnsafe |-> first]
MCIncidents ==
    [inc1 |-> MCIncident("INC_001", "prompt_injection", "critical",
                         {"pre_action_injection_detector_false_negative",
                          "tool_allowlist_keyword_check_only",
                          "no_tool_output_sanitization", "instruction_boundary_confusion"},
                         <<FALSE, FALSE, TRUE>>, 3),
     inc3 |-> MCIncident("INC_003", "tool_hallucination", "high",
                         {"post_action_verifier_missing_schema_validation",
                          "no_tool_result_anomaly_detection",
                          "error_handling_not_propagated_to_response",
                          "confidence_calibration_failure"},
                         <<FALSE, FALSE, TRUE, FALSE, TRUE>>, 3),
     inc5 |-> MCIncident("INC_005", "escalation_delay", "high",
                         {"escalation_policy_not_hard_stop",
                          "async_review_without_agent_freeze",
                          "pending_review_state_not_blocking",
                          "destructive_action_not_gated"},
                         <<FALSE, FALSE, TRUE, TRUE, FALSE>>, 3)]

(* Ledgers: empty; with two entries of one incident, the second worked on  *)
(* and with the test of another as evidence, and one that has no field for *)
(* evidence; and with an entry that is known by its evidence only, next to *)
(* one that is mitigated already.                                          *)
MCEntry(of, status, evidence, listed) ==
    [of |-> of, status |-> status, evidence |-> evidence, listed |-> listed]
MCLedgers ==
    {<<>>,
     <<MCEntry({"inc1"}, "open", {}, TRUE),
       MCEntry({"inc1"}, "in_progress", {"INC_003"}, TRUE),
       MCEntry({"inc5"}, "open", {}, FALSE)>>,
     <<MCEntry({"inc3"}, "mitigated", {}, TRUE),
       MCEntry({}, "accepted", {"REG_CM_001", "INC_005"}, TRUE)>>}
MCTestNames == {"INC_001", "INC_003", "INC_005", "REG_CM_001"}
MCGivenEvidence == {{"REG_CM_001"}}

MCImpacts ==
    [technical : {"low", "medium", "high", "critical"}, users : {0, 11, 101, 1001},
     slo : BOOLEAN, reputation : {"low", "high"}, regulatory : BOOLEAN]

MCRadii ==
    {[erosion |-> e, delayed |-> d, regression |-> r,
      categories |-> [erosion |-> c, misuse |-> 6, injection |-> m]] :
        e \in {8, 9, 16}, d \in {8, 16}, r \in BOOLEAN, c \in {5, 6, 11, 21}, m \in {0, 6}}

(* Turns of a conversation: without a signal, with a drift, with signals   *)
(* of two layers and a tool, with a violation the safeguards see, and with *)
(* one that only the verdict of the turn shows.                            *)
MCSignal(kind, value, threshold) ==
    [kind |-> kind, value |-> value, threshold |-> threshold, triggered |-> FALSE]
MCTurn(marks, signals, action, drift, tools, safeguards) ==
    [marks |-> marks, signals |-> signals, action |-> action, drift |-> drift,
     tools |-> tools, safeguards |-> safeguards]
MCQuiet == [l \in {} |-> 0]
MCTurns ==
    {MCTurn({}, MCQuiet, "text", 10, <<>>, <<>>),
     MCTurn({}, [mid_trajectory |-> MCSignal("drift", 45, 50)], "text", 60, <<>>,
            <<[type |-> "drift_detected", severity |-> "warning"]>>),
     MCTurn({}, [pre_action  |-> MCSignal("confidence", 75, 80),
                 post_action |-> MCSignal("confidence", 42, 50)], "tool", 20,
            <<"risky">>, <<>>),
     MCTurn({"violation", "status", "is_violation"}, MCQuiet, "text", 70, <<>>,
            <<[type |-> "policy_violation", severity |-> "critical"]>>),
     MCTurn({"status"}, [mid_trajectory |-> MCSignal("score", 35, 50)], "record", 60,
            <<"safe">>, <<[type |-> "escalation", severity |-> "warning"]>>)}
MCRoots ==
    {[layer |-> "mid_trajectory", category |-> "Policy Erosion"],
     [layer |-> "pre_action", category |-> "Coordinated Misuse"]}

(* Two thresholds that may be lowered, of which one misses by less, and an *)
(* analysis that raises when an action is a record.                        *)
MCSpecs ==
    {[type |-> "remove_safeguard", layer |-> "post_action"],
     [type |-> "stricter_policy", delta |-> -20, layer |-> "all"],
     [type |-> "stricter_policy", delta |-> -10, layer |-> "post_action"],
     [type |-> "alternative_routing", routing |-> "human_in_loop"],
     [type |-> "alternative_routing", routing |-> "conservative_model"],
     [type |-> "alternative_routing", routing |-> "capability_restriction"]}

(* Caught late, caught close to the threshold, caught by the reviewer, and *)
(* caught early.                                                           *)
MCSaid(kind, action, score) ==
    [kind |-> kind, action |-> action, score |-> score, threshold |-> 50]
MCAllowed(n) == [k \in 1..n |-> MCSaid("classifier", "allow", 65)]
MCConversations ==
    {Append(MCAllowed(4), MCSaid("classifier", "block", 15)),
     Append(MCAllowed(1), MCSaid("classifier", "block", 45)),
     Append(MCAllowed(2), MCSaid("human_review", "block", 35)),
     Append(MCAllowed(2), MCSaid("classifier", "block", 35))}
MCNewTests ==
    {[id |-> <<"manual", 1>>, source |-> "manual", severity |-> "low",
      mode |-> "human_catch"]}
=============================================================================
