---------------------------- MODULE ProductionLoop ----------------------------
(***************************************************************************)
(* Around a release: it is streamed and rolled back, evaluated and gated,  *)
(* its incidents are replayed, promoted to tests and graded, and the tests *)
(* age.  The parts are programs that share no state in the code, so a      *)
(* behaviour is one of a single part, chosen at the start, while the       *)
(* others stay as they begin.                                              *)
(***************************************************************************)
EXTENDS StreamingEvaluator, RollbackPolicy, ReleaseGate, IncidentLab,
        IncidentReplay, TestLifecycle

CONSTANTS Moments,       (* the minutes at which triggers are checked      *)
          Measured       (* what the rollback detectors may see            *)

ASSUME LoopAssumption == Moments \subseteq Nat

Parts == {"streaming", "rollback", "gate", "lab", "grading", "replay", "lifecycle"}

VARIABLES part,          (* auxiliary: the part that acts                  *)
          minute         (* the time of the rollback policy                *)

loopVars == <<part, minute, streamingVars, rollbackVars, gateVars, labVars,
              replayVars, lifecycleVars>>

Init ==
    /\ part \in Parts
    /\ minute = 0
    /\ StreamingInit
    /\ RollbackInit
    /\ GateInit
    /\ part # "gate" => backend = "json"
    /\ LabInit
    /\ part # "lab" => debts = CHOOSE l \in Ledgers : TRUE
    /\ ReplayInit
    /\ part # "replay" => root = CHOOSE r \in Roots : TRUE
    /\ LifecycleInit

StreamingStep ==
    /\ part = "streaming"
    /\ StreamingNext
    /\ UNCHANGED <<part, minute, rollbackVars, gateVars, labVars, replayVars,
                   lifecycleVars>>

(* Time passes to a later moment, or a trigger is checked, or resolved.    *)
RollbackStep ==
    /\ part = "rollback"
    /\ \/ /\ \E m \in Moments : m > minute /\ minute' = m
          /\ UNCHANGED rollbackVars
       \/ RollbackNext(minute, Measured) /\ UNCHANGED minute
    /\ UNCHANGED <<part, streamingVars, gateVars, labVars, replayVars, lifecycleVars>>

GateStep ==
    /\ part = "gate"
    /\ GateNext
    /\ UNCHANGED <<part, minute, streamingVars, rollbackVars, labVars, replayVars,
                   lifecycleVars>>

LabStep ==
    /\ \/ part = "lab" /\ LabNext
       \/ part = "grading" /\ GradingNext
    /\ UNCHANGED <<part, minute, streamingVars, rollbackVars, gateVars, replayVars,
                   lifecycleVars>>

ReplayStep ==
    /\ part = "replay"
    /\ ReplayNext
    /\ UNCHANGED <<part, minute, streamingVars, rollbackVars, gateVars, labVars,
                   lifecycleVars>>

LifecycleStep ==
    /\ part = "lifecycle"
    /\ LifecycleNext
    /\ UNCHANGED <<part, minute, streamingVars, rollbackVars, gateVars, labVars,
                   replayVars>>

Next ==
    \/ StreamingStep
    \/ RollbackStep
    \/ GateStep
    \/ LabStep
    \/ ReplayStep
    \/ LifecycleStep

(* The thread of every loop runs on, and join returns once it has ended.   *)
LoopThread(l) ==
    /\ part = "streaming"
    /\ LoopStep(l)
    /\ UNCHANGED <<part, minute, clock, rollbackVars, gateVars, labVars, replayVars,
                   lifecycleVars>>

JoiningCaller ==
    /\ part = "streaming"
    /\ StopReturns
    /\ UNCHANGED <<part, minute, clock, rollbackVars, gateVars, labVars, replayVars,
                   lifecycleVars>>

Fairness ==
    /\ \A l \in 1..MaxStreams : WF_loopVars(LoopThread(l))
    /\ WF_loopVars(JoiningCaller)

Spec == Init /\ [][Next]_loopVars /\ Fairness

-----------------------------------------------------------------------------
(* Neither alerts nor rollbacks come faster than their cooldowns allow     *)
(* (alerts.py:79, rollback_policy.py:111).                                 *)
CooldownsHold == AlertsSpaced /\ RollbacksSpaced

(* What is concluded from an incident can be acted on: the grades keep the *)
(* order of what they grade, and what hindsight offers is what would have  *)
(* helped (severity_scoring.py:114, counterfactuals/engine.py:154).        *)
IncidentsJudged == GradesOrdered /\ HindsightSound
=============================================================================
