--------------------------- MODULE RollbackPolicy ---------------------------
(***************************************************************************)
(* Automatic rollback (orchestrator/rollback_policy.py): a trigger causes  *)
(* one event, unless another, of any kind, happened within the cooldown.   *)
(***************************************************************************)
EXTENDS Integers, Sequences

CONSTANTS RollbackCooldown,  (* minutes without a second event (30)        *)
          RollbackEnabled,   (* the policy's switch                        *)
          MaxRollbacks       (* bound on the events                        *)

ASSUME RollbackAssumption == RollbackCooldown \in Nat

VARIABLES rollbacks,         (* self.events                                *)
          lastRollback       (* self.last_rollback: none, or {its time}    *)

rollbackVars == <<rollbacks, lastRollback>>

(* What the default policy does, and how long it is expected to take.      *)
ActionOf ==
    [eval_infrastructure_failure |-> "pause_eval",
     drift_detection_failure     |-> "switch_to_baseline",
     false_positive_spike        |-> "revert_config",
     false_negative_detection    |-> "full_rollback",
     slo_breach                  |-> "pause_eval",
     budget_exhaustion           |-> "alert_only",
     manual_trigger              |-> "full_rollback"]

RecoveryTime ==
    [alert_only |-> 0, pause_eval |-> 15, revert_config |-> 30,
     switch_to_baseline |-> 60, full_rollback |-> 120]

RollbackInit == rollbacks = <<>> /\ lastRollback = {}

(* A slip: the cooldown taken for seconds.                                 *)
CoolingDown_Seconds(now) == \E t \in lastRollback : 60 * now < 60 * t + RollbackCooldown

CoolingDown(now) == \E t \in lastRollback : now < t + RollbackCooldown

CheckTrigger(trigger, now) ==
    /\ RollbackEnabled /\ ~CoolingDown(now)
    /\ Len(rollbacks) < MaxRollbacks
    /\ rollbacks' = Append(rollbacks,
                           [time |-> now, trigger |-> trigger,
                            action |-> ActionOf[trigger],
                            eta |-> now + RecoveryTime[ActionOf[trigger]],
                            resolved |-> FALSE])
    /\ lastRollback' = {now}

ResolveEvent(i) ==
    /\ i \in DOMAIN rollbacks
    /\ rollbacks' = [rollbacks EXCEPT ![i].resolved = TRUE]
    /\ UNCHANGED lastRollback

ActiveEvents == {i \in DOMAIN rollbacks : ~rollbacks[i].resolved}

(* The detectors that name a trigger; rates in percent, availability in    *)
(* thousandths.                                                            *)
FalsePositiveSpike(fpr, baseline) == fpr > baseline + 15
FalseNegative(incidents) == \E i \in incidents : i = "false_negative"
SloBreached(p99, availability) == p99 > 1000 \/ availability < 999

Triggers(m) ==
    (IF FalsePositiveSpike(m.fpr, m.baseline) THEN {"false_positive_spike"} ELSE {})
      \cup (IF FalseNegative(m.incidents) THEN {"false_negative_detection"} ELSE {})
      \cup (IF SloBreached(m.p99, m.availability) THEN {"slo_breach"} ELSE {})

RollbackNext(now, measured) ==
    \/ \E m \in measured : \E t \in Triggers(m) : CheckTrigger(t, now)
    \/ \E t \in DOMAIN ActionOf \ {"false_positive_spike", "false_negative_detection",
                                   "slo_breach"} : CheckTrigger(t, now)
    \/ \E i \in ActiveEvents : ResolveEvent(i)

-----------------------------------------------------------------------------
(* Two events are a cooldown apart, whatever triggers them and whatever is *)
(* resolved between them (rollback_policy.py:111).                         *)
RollbacksSpaced ==
    \A j, k \in DOMAIN rollbacks :
        j < k => rollbacks[k].time >= rollbacks[j].time + RollbackCooldown
=============================================================================
