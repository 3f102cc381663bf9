------------------------------- MODULE Simulator -------------------------------
(***************************************************************************)
(* The simulator (simulator) and its stress tests (stress-testing): agents *)
(* run under safeguards, safeguards are plugged together, declared and     *)
(* searched for conflicts, broken by chaos and stressed by attacks.  The   *)
(* parts are programs, or objects of a program, that share no state in the *)
(* code, so a behaviour is one of a single part, chosen at the start,      *)
(* while the others stay as they begin.                                    *)
(***************************************************************************)
EXTENDS AgentExecutor, SafeguardRuntime, ChaosEngine, StressTest

Parts == {"agent", "runtime", "composer", "policies", "detector", "chaos", "stress"}

VARIABLE part            (* auxiliary: the part that acts                  *)

simulatorVars == <<part, vars, guardVars, chaosVars, stressVars>>

Fixed(S) == CHOOSE x \in S : TRUE

SimulatorInit ==
    /\ part \in Parts
    /\ Init
    /\ part # "agent" => hooks = {} /\ request = Fixed(Requests)
    /\ GuardInit
    /\ part # "composer" => composer = CreateStrategy("none")
    /\ part # "policies" => escalation = Adaptive(Fixed(Sensitivities))
    /\ ChaosInit
    /\ part # "chaos" => suite = Fixed(Suites) /\ scenarios = Fixed(ScenarioLists)
    /\ StressInit

AgentStep ==
    /\ part = "agent"
    /\ Next
    /\ UNCHANGED <<part, guardVars, chaosVars, stressVars>>

GuardStep ==
    /\ \/ part = "runtime" /\ RuntimeNext
       \/ part = "composer" /\ ComposerNext
       \/ part = "policies" /\ PolicyNext
       \/ part = "detector" /\ DetectorNext
    /\ UNCHANGED <<part, vars, chaosVars, stressVars>>

ChaosStep ==
    /\ part = "chaos"
    /\ ChaosNext
    /\ UNCHANGED <<part, vars, guardVars, stressVars>>

StressStep ==
    /\ part = "stress"
    /\ StressNext
    /\ UNCHANGED <<part, vars, guardVars, chaosVars>>

SimulatorNext == AgentStep \/ GuardStep \/ ChaosStep \/ StressStep

SimulatorSpec == SimulatorInit /\ [][SimulatorNext]_simulatorVars

-----------------------------------------------------------------------------
(* The trials of the safeguards judge what happened in them: a run that    *)
(* lost every block is not passed over, and the sums taken of rollouts     *)
(* agree (chaos/engine.py:282, metrics.py:122).                            *)
TrialsJudged == ChaosJudged /\ StressAccounted /\ DegradationSound
=============================================================================
