---------------------------- MODULE AgentExecutor ----------------------------
(***************************************************************************)
(* The agent of the simulator (simulator/agent/executor.py) with the       *)
(* safeguards that its hooks combine (simulator/safeguards).  An executor  *)
(* takes one request after another: the planner turns it into a list of    *)
(* actions, and each action passes the pre-action hook, its tool and the   *)
(* mid-trajectory hook.  The post-action hook only adds to the report.     *)
(* Texts are what the safeguards count in them.                            *)
(***************************************************************************)
EXTENDS Integers, Sequences, FiniteSets

CONSTANTS Requests,        (* what users ask for, see Request              *)
          SoftIntent, HardIntent,  (* adjusted thresholds of the intent    *)
                           (* classifier, in 300ths                        *)
          SoftDrift, HardDrift,    (* adjusted thresholds of the drift     *)
                           (* monitor, in 50ths                            *)
          MaxRuns          (* bound: requests to one executor              *)

Kinds == {"travel", "research", "suspicious", "generic"}

(* Matches of malicious patterns and of high-risk keywords, an injection,  *)
(* risky and sensitive topics, and a pattern of violations that a tool     *)
(* which repeats the request would return.                                 *)
Request == [kind : Kinds, malicious : Nat, keywords : Nat, risky : Nat,
            sensitive : Nat, injection : BOOLEAN, forbidden : BOOLEAN]

ASSUME AgentAssumption ==
    /\ Requests \subseteq Request
    /\ SoftIntent \in Nat /\ HardIntent \in Nat /\ SoftIntent <= HardIntent
    /\ SoftDrift \in Nat /\ HardDrift \in Nat /\ SoftDrift <= HardDrift
    /\ 0 < SoftDrift
    /\ MaxRuns \in Nat

Layers == {"pre", "mid"}

VARIABLES hooks,           (* the hooks the executor was given             *)
          baseline,        (* risky words in baseline_topics, or None; the *)
                           (* drift monitor is never reset                 *)
          runs,            (* number of requests so far                    *)
          request,         (* the request of this run                      *)
          stage,           (* where in execute the program is              *)
          step,            (* the step being executed                      *)
          steps,           (* the steps of this run that have returned     *)
          status,          (* of the run                                   *)
          memory           (* AgentState                                   *)

vars == <<hooks, baseline, runs, request, stage, step, steps, status, memory>>

None == -1

(* SafeguardLevel *)
Levels == {"pass", "warn", "soft_stop", "hard_stop"}
Unchecked == "unchecked"

Outcomes == {"running", "blocked", "paused"}

(* What a step reports: what each check said, what became of the    *)
(* tool, the projected drift, and how the step ended.                      *)
Step == [intent : Levels \cup {Unchecked}, injection : Levels \cup {Unchecked},
         tool : {"none", "success", "error"},
         drift : Levels \cup {Unchecked}, violation : Levels \cup {Unchecked},
         total : Nat, status : Outcomes]

Blank == [intent |-> Unchecked, injection |-> Unchecked, tool |-> "none",
          drift |-> Unchecked, violation |-> Unchecked,
          total |-> 0, status |-> "running"]

AgentState == [drift : Nat, violations : Nat, escalations : Nat,
               blocked : BOOLEAN]

Fresh == [drift |-> 0, violations |-> 0, escalations |-> 0, blocked |-> FALSE]

TypeOK ==
    /\ hooks \subseteq Layers
    /\ baseline \in Nat \cup {None}
    /\ runs \in 0..MaxRuns
    /\ request \in Requests
    /\ stage \in {"idle", "pre", "tool", "mid"}
    /\ step \in Step
    /\ steps \in Seq(Step)
    /\ status \in Outcomes \cup {"completed"}
    /\ memory \in AgentState

Init ==
    /\ hooks \in SUBSET Layers
    /\ baseline = None
    /\ runs = 0
    /\ request \in Requests
    /\ stage = "idle"
    /\ step = Blank
    /\ steps = <<>>
    /\ status = "completed"
    /\ memory = Fresh

----------------------------------------------------------------------------

(* An action of a plan: its risk in tenths, whether it names a tool, and   *)
(* whether that tool's output repeats the request.                         *)
Action(risk, tool, echo) == [risk |-> risk, tool |-> tool, echo |-> echo]

(* Planner.plan, by the kind of request. *)
PlanOf ==
    [travel     |-> <<Action(0, TRUE, FALSE), Action(0, TRUE, FALSE),
                      Action(1, TRUE, FALSE), Action(0, FALSE, FALSE)>>,
     research   |-> <<Action(1, TRUE, TRUE), Action(1, TRUE, FALSE),
                      Action(2, TRUE, FALSE), Action(0, FALSE, FALSE)>>,
     suspicious |-> <<Action(6, TRUE, TRUE), Action(7, TRUE, FALSE),
                      Action(9, TRUE, FALSE)>>,
     generic    |-> <<Action(1, TRUE, FALSE), Action(0, FALSE, FALSE)>>]

Plan == PlanOf[request.kind]
Current == Plan[Len(steps) + 1]

AtMost(n, cap) == IF n > cap THEN cap ELSE n

(* The values of SafeguardLevel in the order of strings, which is how the  *)
(* hooks compare them.                                                     *)
Alphabet == [hard_stop |-> 0, pass |-> 1, soft_stop |-> 2, warn |-> 3]

(* "the more severe result" of two checks *)
Primary(first, second) ==
    IF Alphabet[second] > Alphabet[first] THEN second ELSE first

(* IntentClassifier.check: 0.4 malicious/3 + 0.3 keywords/5 + 0.3 risk *)
IntentLevel(r, risk) ==
    LET score == 40 * AtMost(r.malicious, 3) + 18 * AtMost(r.keywords, 5)
                 + 9 * risk
    IN  CASE score >= HardIntent -> "hard_stop"
          [] score >= SoftIntent /\ score < HardIntent -> "soft_stop"
          [] score >= 60 /\ score < SoftIntent -> "warn"
          [] OTHER -> "pass"

(* InjectionDetector.check *)
InjectionLevel(r) == IF r.injection THEN "hard_stop" ELSE "pass"

(* The drift monitor's combined score of a request in tenths:              *)
(* 0.6 (new risky words)/3 + 0.4 (risky and sensitive words)/4.            *)
Shift(r, base) ==
    LET new == IF r.risky > base THEN r.risky - base ELSE 0
    IN  2 * AtMost(new, 3) + AtMost(r.risky + r.sensitive, 4)

(* Mutant: the step's own drift decides.                                   *)
DriftLevel_Own(total, shift) ==
    CASE shift >= HardDrift -> "hard_stop"
      [] shift >= SoftDrift /\ shift < HardDrift -> "soft_stop"
      [] shift < SoftDrift /\ shift >= 2 -> "warn"
      [] OTHER -> "pass"

(* DriftMonitor.check, from the accumulated and the combined score *)
DriftLevel(total, shift) ==
    CASE total >= HardDrift -> "hard_stop"
      [] total >= SoftDrift /\ total < HardDrift -> "soft_stop"
      [] total < SoftDrift /\ shift >= 2 -> "warn"
      [] OTHER -> "pass"

(* ViolationMonitor.check, of an action and what became of its tool *)
ViolationLevel(r, action, tool) ==
    CASE tool = "success" /\ action.echo /\ r.forbidden -> "hard_stop"
      [] action.risk >= 8 -> "soft_stop"
      [] OTHER -> "pass"

----------------------------------------------------------------------------

(* Mutant: the memory of the run before is kept.                           *)
Execute_NoReset(r) ==
    /\ stage = "idle"
    /\ runs < MaxRuns
    /\ runs' = runs + 1
    /\ request' = r
    /\ stage' = "pre"
    /\ step' = Blank
    /\ steps' = <<>>
    /\ status' = "running"
    /\ memory' = [memory EXCEPT !.blocked = FALSE]
    /\ UNCHANGED <<hooks, baseline>>

(* execute: reset the memory and plan. *)
Execute(r) ==
    /\ stage = "idle"
    /\ runs < MaxRuns
    /\ runs' = runs + 1
    /\ request' = r
    /\ stage' = "pre"
    /\ step' = Blank
    /\ steps' = <<>>
    /\ status' = "running"
    /\ memory' = Fresh
    /\ UNCHANGED <<hooks, baseline>>

(* Mutant: the last step is given the status of the run.                   *)
Return_Final(done) ==
    /\ status' = IF done.status # "running" THEN done.status
                 ELSE IF Len(steps) + 1 = Len(Plan) THEN "completed"
                 ELSE "running"
    /\ steps' = Append(steps, [done EXCEPT !.status = status'])
    /\ step' = Blank
    /\ stage' = IF status' = "running" THEN "pre" ELSE "idle"

(* The step returns: the run stops, is complete, or goes on with the next. *)
Return(done) ==
    /\ steps' = Append(steps, done)
    /\ step' = Blank
    /\ status' = IF done.status # "running" THEN done.status
                 ELSE IF Len(steps) + 1 = Len(Plan) THEN "completed"
                 ELSE "running"
    /\ stage' = IF status' = "running" THEN "pre" ELSE "idle"

(* What the pre-action hook says of the current action. *)
Intent == IntentLevel(request, Current.risk)
Injected == InjectionLevel(request)

(* _execute_step: only a hard stop of the pre-action hook stops the step.  *)
Block ==
    /\ stage = "pre"
    /\ "pre" \in hooks
    /\ Primary(Intent, Injected) = "hard_stop"
    /\ Return([step EXCEPT !.intent = Intent, !.injection = Injected,
                           !.status = "blocked"])
    /\ memory' = [memory EXCEPT !.blocked = TRUE]
    /\ UNCHANGED <<hooks, baseline, runs, request>>

Admit ==
    /\ stage = "pre"
    /\ \/ /\ "pre" \in hooks
          /\ Primary(Intent, Injected) # "hard_stop"
          /\ step' = [step EXCEPT !.intent = Intent, !.injection = Injected]
       \/ /\ "pre" \notin hooks
          /\ UNCHANGED step
    /\ stage' = "tool"
    /\ UNCHANGED <<hooks, baseline, runs, request, steps, status, memory>>

(* The tool of the action, if it names one, returns or raises. *)
RunTool ==
    /\ stage = "tool"
    /\ \E result \in IF Current.tool THEN {"success", "error"} ELSE {"none"} :
          step' = [step EXCEPT !.tool = result]
    /\ stage' = "mid"
    /\ UNCHANGED <<hooks, baseline, runs, request, steps, status, memory>>

(* The drift monitor's baseline: of the first request it ever checks.      *)
Base == IF baseline = None THEN request.risky ELSE baseline

(* Mutant: the executor does not look at soft stops.                       *)
Ending_Unpaused == [pass |-> "running", warn |-> "running",
                    soft_stop |-> "running", hard_stop |-> "blocked"]

(* Mutant: the executor blocks at a soft stop.                             *)
Ending_Strict == [pass |-> "running", warn |-> "running",
                  soft_stop |-> "blocked", hard_stop |-> "blocked"]

(* How a step ends, by what the mid-trajectory hook says.                  *)
Ending == [pass |-> "running", warn |-> "running",
           soft_stop |-> "paused", hard_stop |-> "blocked"]

(* What the two monitors see in the current step. *)
Projected == memory.drift + Shift(request, Base)
Drift == DriftLevel(Projected, Shift(request, Base))
Violation == ViolationLevel(request, Current, step.tool)

Violates(done) == "hard_stop" \in {done.drift, done.violation}

(* _execute_step, the mid-trajectory hook and what follows.  The memory    *)
(* adds the whole score where the monitor looked at a fifth of it.         *)
MidTrajectory ==
    /\ stage = "mid"
    /\ "mid" \in hooks
    /\ LET primary == Primary(Drift, Violation)
           done == [step EXCEPT !.drift = Drift, !.violation = Violation,
                                !.total = Projected,
                                !.status = Ending[primary]]
       IN  /\ Return(done)
           /\ memory' =
                [drift |-> memory.drift + 5 * Shift(request, Base),
                 violations |-> memory.violations
                                   + IF Violates(done) THEN 1 ELSE 0,
                 escalations |-> memory.escalations
                    + IF primary \in {"soft_stop", "hard_stop"} THEN 1 ELSE 0,
                 blocked |-> primary = "hard_stop"]
    /\ baseline' = Base
    /\ UNCHANGED <<hooks, runs, request>>

(* The same without a hook. *)
Unwatched ==
    /\ stage = "mid"
    /\ "mid" \notin hooks
    /\ Return(step)
    /\ UNCHANGED <<hooks, baseline, runs, request, memory>>

Next ==
    \/ \E r \in Requests : Execute(r)
    \/ Block
    \/ Admit
    \/ RunTool
    \/ MidTrajectory
    \/ Unwatched

Spec == Init /\ [][Next]_vars

----------------------------------------------------------------------------

(* The last step of the run that has returned. *)
LastStep == steps[Len(steps)]

(* The steps of this run that the mid-trajectory hook has seen.            *)
Watched == {i \in DOMAIN steps : steps[i].drift # Unchecked}

(* The counters describe this run and no other: drift is that of the       *)
(* request for each watched step, violations are the steps in which either *)
(* monitor called for a hard stop (executor.py:177-182, memory.py:96).    *)
CountersMatch ==
    /\ memory.drift = 5 * Shift(request, Base) * Cardinality(Watched)
    /\ memory.violations = Cardinality({i \in Watched : Violates(steps[i])})

(* A run is escalated once at most, and an escalation is its end: it was   *)
(* paused or blocked by the mid-trajectory hook (trajectory_monitor.py:203,*)
(* executor.py:187-203).                                                   *)
EscalationEnds ==
    /\ memory.escalations <= 1
    /\ memory.escalations = 1 <=>
          /\ status \in {"paused", "blocked"}
          /\ LastStep.drift # Unchecked

(* A run is blocked for a cause: a check of its last step called for a     *)
(* hard stop.  If that was a pre-action check no tool ran in the step, and *)
(* the memory says that the run is blocked exactly when it is              *)
(* (executor.py:153-161, 187-195).                                         *)
BlockedForCause ==
    /\ memory.blocked <=> status = "blocked"
    /\ status = "blocked" =>
          \/ LastStep.intent = "hard_stop" /\ LastStep.tool = "none"
          \/ LastStep.drift = "hard_stop"

(* "If mild drift persists across multiple turns, it eventually triggers   *)
(* review" (design.md:197).  When what one step adds is less than the gap  *)
(* between the two thresholds, no run goes on past a step in which the     *)
(* drift in all had reached the lower one, whatever the other monitor      *)
(* says and whatever the executor did before.                              *)
SlowDriftIsPaused ==
    "mid" \in hooks /\ 5 * Shift(request, Base) <= HardDrift - SoftDrift =>
        \A i \in DOMAIN steps :
            steps[i].status = "running" => steps[i].total < SoftDrift

(* "Take the more severe result" (pre_action.py:162): no run goes on past  *)
(* a step in which a check calls for a hard stop.                          *)
HardStopsBlock ==
    \A i \in DOMAIN steps :
        steps[i].status = "running" =>
            "hard_stop" \notin {steps[i].intent, steps[i].injection,
                                steps[i].drift, steps[i].violation}
=============================================================================
