----------------------------- MODULE Simulator_proof -----------------------------
(***************************************************************************)
(* Theorems about the simulator and its stress tests, for all requests,    *)
(* thresholds, hooks, suites of experiments, attacks and answers: first    *)
(* the agent executor, then the chaos engine, the stress tests, and the    *)
(* pluggable safeguards, with what this says of the simulator as a whole.  *)
(***************************************************************************)
EXTENDS Simulator, SumTheorems, FiniteSetTheorems, TLAPS

(***************************************************************************)
(* The agent executor (AgentExecutor).                                     *)
(***************************************************************************)

(* While a run is under way every step so far ran through, nothing is      *)
(* escalated or blocked, and the record of the next step holds no more     *)
(* than the stages it has passed.                                          *)
Underway ==
    stage # "idle" =>
        /\ status = "running"
        /\ \A i \in DOMAIN steps : steps[i].status = "running"
        /\ memory.escalations = 0
        /\ ~memory.blocked
        /\ step.drift = Unchecked
        /\ step.status = "running"
        /\ step.total = 0
        /\ stage \in {"pre", "tool"} => step.tool = "none"

(* Steps are watched by the hook that exists, whose baseline is then set.  *)
WatchedByHook ==
    /\ "mid" \notin hooks => Watched = {}
    /\ Watched # {} => baseline # None
    /\ stage # "idle" /\ "mid" \in hooks => Watched = DOMAIN steps

(* What the next check will look at is below the upper threshold, if one   *)
(* step cannot jump over the gap between the two.                          *)
NextBelow ==
    /\ stage # "idle"
    /\ "mid" \in hooks
    /\ 5 * Shift(request, Base) <= HardDrift - SoftDrift
    => memory.drift + Shift(request, Base) < HardDrift

AgentInv ==
    /\ TypeOK
    /\ stage = "idle" => status # "running"
    /\ Underway
    /\ WatchedByHook
    /\ NextBelow
    /\ CountersMatch
    /\ EscalationEnds
    /\ BlockedForCause
    /\ SlowDriftIsPaused

----------------------------------------------------------------------------

(* What the string comparison of the hooks does guarantee: a hard stop of  *)
(* the whole is one of its first check, and a soft stop of the first check *)
(* is lost to a warning only.                                              *)
LEMMA PrimaryFact ==
    ASSUME NEW a \in Levels, NEW b \in Levels
    PROVE  /\ Primary(a, b) \in Levels
           /\ Primary(a, b) = "hard_stop" => a = "hard_stop"
           /\ a = "soft_stop" /\ b # "warn" => Primary(a, b) = "soft_stop"
  <1>1. /\ Alphabet["hard_stop"] = 0
        /\ Alphabet["pass"] = 1
        /\ Alphabet["soft_stop"] = 2
        /\ Alphabet["warn"] = 3
    BY DEF Alphabet
  <1>2. QED  BY <1>1 DEF Primary, Levels

(* Every check answers with a level; a violation is never a warning.       *)
LEMMA LevelFact ==
    /\ \A r, risk : IntentLevel(r, risk) \in Levels
    /\ \A r : InjectionLevel(r) \in Levels
    /\ \A total, shift : DriftLevel(total, shift) \in Levels
    /\ \A r, action, tool :
          ViolationLevel(r, action, tool) \in Levels \ {"warn"}
  BY DEF IntentLevel, InjectionLevel, DriftLevel, ViolationLevel, Levels

(* The score of a request is a number. *)
LEMMA ShiftFact ==
    ASSUME NEW r \in Request, NEW base \in Nat
    PROVE  Shift(r, base) \in Nat
  BY DEF Shift, AtMost, Request

LEMMA BaseFact == TypeOK => /\ request \in Request
                            /\ Base \in Nat
                            /\ Shift(request, Base) \in Nat
  <1> SUFFICES ASSUME TypeOK PROVE /\ request \in Request
                                   /\ Base \in Nat
                                   /\ Shift(request, Base) \in Nat
    OBVIOUS
  <1>1. request \in Request
    BY AgentAssumption DEF TypeOK
  <1>2. Base \in Nat
    BY <1>1 DEF TypeOK, Base, Request, None
  <1>3. QED  BY <1>1, <1>2, ShiftFact

(* The drift level, by the thresholds. *)
LEMMA DriftFact ==
    ASSUME NEW total \in Nat, NEW shift \in Nat
    PROVE  /\ total < HardDrift => DriftLevel(total, shift) # "hard_stop"
           /\ total < HardDrift /\ total >= SoftDrift
                 => DriftLevel(total, shift) = "soft_stop"
  BY AgentAssumption DEF DriftLevel

LEMMA EndingFact ==
    ASSUME NEW level \in Levels
    PROVE  /\ Ending[level] \in Outcomes
           /\ Ending[level] = "running" <=> level \notin {"soft_stop", "hard_stop"}
           /\ Ending[level] = "blocked" <=> level = "hard_stop"
  <1>1. /\ Ending["hard_stop"] = "blocked"
        /\ Ending["soft_stop"] = "paused"
        /\ Ending["pass"] = "running"
        /\ Ending["warn"] = "running"
    BY DEF Ending
  <1>2. QED  BY <1>1 DEF Levels, Outcomes

LEMMA InitAgentInv == Init => AgentInv
  <1> SUFFICES ASSUME Init PROVE AgentInv
    OBVIOUS
  <1>1. TypeOK
    BY AgentAssumption DEF Init, TypeOK, Blank, Fresh, Step, AgentState,
       Outcomes, Unchecked, None
  <1>2. DOMAIN steps = {} /\ Watched = {}
    BY DEF Init, Watched
  <1>3. Cardinality(Watched) = 0
       /\ Cardinality({i \in Watched : Violates(steps[i])}) = 0
    <2>1. {i \in Watched : Violates(steps[i])} = {}
      BY <1>2
    <2>2. QED  BY <1>2, <2>1, FS_EmptySet
  <1>4. CountersMatch
    BY <1>1, <1>3, BaseFact DEF CountersMatch, Init, Fresh
  <1>5. SlowDriftIsPaused
    BY <1>2 DEF SlowDriftIsPaused
  <1>6. Underway /\ NextBelow /\ status # "running" /\ WatchedByHook
    BY <1>2 DEF Init, Underway, NextBelow, WatchedByHook
  <1>7. EscalationEnds /\ BlockedForCause
    BY DEF Init, Fresh, EscalationEnds, BlockedForCause
  <1>8. QED  BY <1>1, <1>4, <1>5, <1>6, <1>7 DEF AgentInv

----------------------------------------------------------------------------

(* The steps of a kind. *)
Hits(s, S) == {i \in DOMAIN s : s[i] \in S}

(* Counting the steps of a kind before and after one more.                 *)
LEMMA OneMore ==
    ASSUME NEW s \in Seq(Step), NEW d \in Step, NEW S
    PROVE  /\ Cardinality(Hits(s, S)) \in Nat
           /\ Cardinality(Hits(Append(s, d), S)) =
                 Cardinality(Hits(s, S)) + (IF d \in S THEN 1 ELSE 0)
  <1>1. /\ Len(s) \in Nat /\ DOMAIN s = 1..Len(s)
        /\ DOMAIN Append(s, d) = 1..Len(s) + 1
        /\ \A i \in 1..Len(s) : Append(s, d)[i] = s[i]
        /\ Append(s, d)[Len(s) + 1] = d
    OBVIOUS
  <1>2. IsFiniteSet(Hits(s, S)) /\ Cardinality(Hits(s, S)) \in Nat
    <2>0. 1 \in Int /\ Len(s) \in Int
      BY <1>1
    <2>1. IsFiniteSet(1..Len(s))
      BY <2>0, FS_Interval
    <2>2. Hits(s, S) \subseteq 1..Len(s)
      BY <1>1 DEF Hits
    <2>3. QED  BY <2>1, <2>2, FS_Subset, FS_CardinalityType
  <1>3. CASE d \in S
    <2>1. /\ Hits(Append(s, d), S) = Hits(s, S) \cup {Len(s) + 1}
          /\ Len(s) + 1 \notin Hits(s, S)
      BY <1>1, <1>3 DEF Hits
    <2>2. QED  BY <1>2, <1>3, <2>1, FS_AddElement
  <1>4. CASE d \notin S
    <2>1. Hits(Append(s, d), S) = Hits(s, S)
      BY <1>1, <1>4 DEF Hits
    <2>2. QED  BY <1>2, <1>4, <2>1
  <1>5. QED  BY <1>3, <1>4

(* The steps that count, as sets of records.                               *)
Seen == {d \in Step : d.drift # Unchecked}
Bad == {d \in Seen : Violates(d)}
BadSteps == {i \in Watched : Violates(steps[i])}

LEMMA CountFact ==
    ASSUME TypeOK
    PROVE  Watched = Hits(steps, Seen) /\ BadSteps = Hits(steps, Bad)
  <1>1. \A i \in DOMAIN steps : steps[i] \in Step
    BY DEF TypeOK
  <1>2. QED  BY <1>1 DEF Watched, Seen, Bad, BadSteps, Hits

(* What the return of a step does to the run. *)
LEMMA ReturnFact ==
    ASSUME TypeOK, NEW done \in Step, Return(done)
    PROVE  /\ steps' = Append(steps, done)
           /\ steps' \in Seq(Step)
           /\ step' = Blank
           /\ step' \in Step
           /\ status' \in Outcomes \cup {"completed"}
           /\ stage' \in {"idle", "pre"}
           /\ stage' = "idle" <=> status' # "running"
           /\ done.status # "running" => status' = done.status
           /\ done.status = "running" => status' \in {"running", "completed"}
           /\ DOMAIN steps' = DOMAIN steps \cup {Len(steps')}
           /\ \A i \in DOMAIN steps : steps'[i] = steps[i]
           /\ LastStep' = done
           /\ steps'[Len(steps')] = done
  <1>1. /\ steps \in Seq(Step)
        /\ steps' = Append(steps, done)
        /\ step' = Blank
    BY DEF TypeOK, Return
  <1>2. /\ steps' \in Seq(Step)
        /\ Len(steps') = Len(steps) + 1
        /\ Len(steps) \in Nat
        /\ DOMAIN steps = 1..Len(steps)
        /\ DOMAIN steps' = 1..Len(steps')
        /\ \A i \in DOMAIN steps : steps'[i] = steps[i]
        /\ steps'[Len(steps')] = done
    BY <1>1
  <1>3. Blank \in Step
    BY DEF Blank, Step, Outcomes, Unchecked
  <1>4. done.status \in Outcomes
    BY DEF Step
  <1>5. LastStep' = done
    BY <1>2 DEF LastStep
  <1>6. DOMAIN steps' = DOMAIN steps \cup {Len(steps')}
    BY <1>2
  <1>7. /\ status' \in Outcomes \cup {"completed"}
        /\ stage' \in {"idle", "pre"}
        /\ stage' = "idle" <=> status' # "running"
        /\ done.status # "running" => status' = done.status
        /\ done.status = "running" => status' \in {"running", "completed"}
    BY <1>4 DEF Return, Outcomes
  <1>8. QED  BY <1>1, <1>2, <1>3, <1>5, <1>6, <1>7

(* What it does to the counts. *)
LEMMA ReturnCount ==
    ASSUME TypeOK, NEW done \in Step, Return(done)
    PROVE  /\ Cardinality(Watched) \in Nat
           /\ Cardinality(BadSteps) \in Nat
           /\ Cardinality(Watched') = Cardinality(Watched)
                 + (IF done.drift # Unchecked THEN 1 ELSE 0)
           /\ Cardinality(BadSteps') = Cardinality(BadSteps)
                 + (IF done.drift # Unchecked /\ Violates(done) THEN 1 ELSE 0)
  <1>1. /\ steps' = Append(steps, done)
        /\ steps \in Seq(Step)
        /\ \A i \in DOMAIN steps' : steps'[i] \in Step
    BY ReturnFact DEF TypeOK
  <1>2. Watched' = Hits(steps', Seen) /\ BadSteps' = Hits(steps', Bad)
    BY <1>1 DEF Watched, BadSteps, Seen, Bad, Violates, Hits
  <1>3. /\ done \in Seen <=> done.drift # Unchecked
        /\ done \in Bad <=> done.drift # Unchecked /\ Violates(done)
    BY DEF Seen, Bad
  <1>4. /\ Cardinality(Watched) \in Nat
        /\ Cardinality(Watched') = Cardinality(Watched)
              + (IF done \in Seen THEN 1 ELSE 0)
    BY <1>1, <1>2, CountFact, OneMore
  <1>5. /\ Cardinality(BadSteps) \in Nat
        /\ Cardinality(BadSteps') = Cardinality(BadSteps)
              + (IF done \in Bad THEN 1 ELSE 0)
    BY <1>1, <1>2, CountFact, OneMore
  <1>6. QED  BY <1>3, <1>4, <1>5

----------------------------------------------------------------------------

(* A new request: the memory is fresh and no step has returned.            *)
LEMMA ExecuteKeeps ==
    ASSUME AgentInv, NEW r \in Requests, Execute(r)
    PROVE  AgentInv'
  <1>1. TypeOK'
    BY AgentAssumption DEF AgentInv, TypeOK, Execute, Blank, Fresh, Step,
       AgentState, Outcomes, Unchecked
  <1>2. DOMAIN steps' = {} /\ Watched' = {} /\ BadSteps' = {}
    BY DEF Execute, Watched, BadSteps
  <1>3. Cardinality(Watched') = 0 /\ Cardinality(BadSteps') = 0
    BY <1>2, FS_EmptySet
  <1>4. Shift(request, Base)' \in Nat
    <2>1. request' \in Request
      BY AgentAssumption DEF Execute
    <2>2. Base' \in Nat
      BY <1>1, <2>1 DEF TypeOK, Base, Request, None
    <2>3. Shift(request', Base') \in Nat
      BY <2>1, <2>2, ShiftFact
    <2>4. QED  BY <2>3
  <1>5. CountersMatch'
    BY <1>3, <1>4 DEF CountersMatch, BadSteps, Execute, Fresh
  <1>6. NextBelow'
    BY <1>4, AgentAssumption DEF NextBelow, Execute, Fresh
  <1>7. Underway' /\ (stage = "idle" => status # "running")' /\ WatchedByHook'
    BY <1>2 DEF Execute, Underway, WatchedByHook, Blank, Fresh
  <1>8. EscalationEnds' /\ BlockedForCause' /\ SlowDriftIsPaused'
    BY <1>2 DEF Execute, Fresh, EscalationEnds, BlockedForCause,
       SlowDriftIsPaused
  <1>9. QED  BY <1>1, <1>5, <1>6, <1>7, <1>8 DEF AgentInv

(* Within a step only the record of the step changes. *)
LEMMA WithinStep ==
    ASSUME AgentInv, step' \in Step, stage' \in {"tool", "mid"}, stage # "idle",
           step'.drift = step.drift, step'.total = step.total,
           step'.status = step.status,
           stage' = "tool" => step'.tool = "none",
           UNCHANGED <<hooks, baseline, runs, request, steps, status, memory>>
    PROVE  AgentInv'
  <1>1. TypeOK'
    BY DEF AgentInv, TypeOK
  <1>2. Watched' = Watched /\ Base' = Base
        /\ Shift(request, Base)' = Shift(request, Base)
        /\ LastStep' = LastStep
    BY DEF Watched, Base, Shift, LastStep
  <1>3. CountersMatch' /\ NextBelow' /\ SlowDriftIsPaused'
    BY <1>2 DEF AgentInv, CountersMatch, NextBelow, SlowDriftIsPaused, Violates
  <1>4. Underway' /\ (stage = "idle" => status # "running")' /\ WatchedByHook'
    BY <1>2 DEF AgentInv, Underway, WatchedByHook
  <1>5. EscalationEnds' /\ BlockedForCause'
    BY <1>2 DEF AgentInv, EscalationEnds, BlockedForCause
  <1>6. QED  BY <1>1, <1>3, <1>4, <1>5 DEF AgentInv

LEMMA AdmitKeeps == AgentInv /\ Admit => AgentInv'
  <1> SUFFICES ASSUME AgentInv, Admit PROVE AgentInv'
    OBVIOUS
  <1>1. step \in Step /\ Intent \in Levels /\ Injected \in Levels
    BY LevelFact DEF AgentInv, TypeOK, Intent, Injected
  <1>2. /\ step' \in Step
        /\ step'.drift = step.drift /\ step'.total = step.total
        /\ step'.status = step.status /\ step'.tool = step.tool
    BY <1>1 DEF Admit, Step
  <1>3. step.tool = "none"
    BY DEF Admit, AgentInv, Underway
  <1>4. QED  BY <1>2, <1>3, WithinStep DEF Admit

LEMMA RunToolKeeps == AgentInv /\ RunTool => AgentInv'
  <1> SUFFICES ASSUME AgentInv, RunTool PROVE AgentInv'
    OBVIOUS
  <1>1. step \in Step
    BY DEF AgentInv, TypeOK
  <1>2. PICK result \in {"success", "error", "none"} :
           step' = [step EXCEPT !.tool = result]
    BY DEF RunTool
  <1>3. /\ step' \in Step
        /\ step'.drift = step.drift /\ step'.total = step.total
        /\ step'.status = step.status
    BY <1>1, <1>2 DEF Step
  <1>4. QED  BY <1>3, WithinStep DEF RunTool

(* The facts about a returning step that the next three lemmas share.      *)
LEMMA Running ==
    ASSUME AgentInv, stage # "idle"
    PROVE  /\ step \in Step /\ step.drift = Unchecked /\ step.total = 0
           /\ step.status = "running" /\ status = "running"
           /\ \A i \in DOMAIN steps : steps[i].status = "running"
           /\ memory \in AgentState /\ ~memory.blocked
           /\ memory.escalations = 0
  BY DEF AgentInv, TypeOK, Underway

LEMMA BlockKeeps == AgentInv /\ Block => AgentInv'
  <1> SUFFICES ASSUME AgentInv, Block PROVE AgentInv'
    OBVIOUS
  <1> DEFINE done == [step EXCEPT !.intent = Intent, !.injection = Injected,
                                  !.status = "blocked"]
  <1>1. stage = "pre" /\ stage # "idle" /\ TypeOK /\ Return(done)
    BY DEF Block, AgentInv
  <1>2. Intent \in Levels /\ Injected \in Levels
    BY LevelFact DEF Intent, Injected
  <1>3. Intent = "hard_stop"
    BY <1>2, PrimaryFact DEF Block
  <1>4. step.tool = "none"
    BY <1>1 DEF AgentInv, Underway
  <1>5. /\ done \in Step /\ done.drift = Unchecked /\ done.status = "blocked"
        /\ done.intent = "hard_stop" /\ done.tool = "none"
    BY <1>1, <1>2, <1>3, <1>4, Running DEF Step, Outcomes
  <1> HIDE DEF done
  <1>6. /\ steps' \in Seq(Step) /\ step' \in Step /\ status' = "blocked"
        /\ stage' = "idle" /\ LastStep' = done
        /\ DOMAIN steps' = DOMAIN steps \cup {Len(steps')}
        /\ \A i \in DOMAIN steps : steps'[i] = steps[i]
        /\ steps'[Len(steps')] = done
    BY <1>1, <1>5, ReturnFact
  <1>7. /\ memory' \in AgentState /\ memory'.blocked
        /\ memory'.drift = memory.drift
        /\ memory'.violations = memory.violations
        /\ memory'.escalations = 0
    BY <1>1, Running DEF Block, AgentState
  <1>8. TypeOK'
    BY <1>1, <1>6, <1>7 DEF Block, TypeOK, Outcomes
  <1>9. Base' = Base /\ Shift(request, Base)' = Shift(request, Base)
    BY DEF Block, Base, Shift
  <1>10. CountersMatch'
    <2>1. /\ Cardinality(Watched') = Cardinality(Watched)
          /\ Cardinality(BadSteps') = Cardinality(BadSteps)
      BY <1>1, <1>5, ReturnCount
    <2>2. QED  BY <2>1, <1>7, <1>9 DEF AgentInv, CountersMatch, BadSteps
  <1>11. WatchedByHook'
    <2>1. Watched' = Watched
      BY <1>5, <1>6 DEF Watched
    <2>2. QED  BY <1>6, <2>1 DEF AgentInv, WatchedByHook, Block
  <1>12. SlowDriftIsPaused'
    BY <1>5, <1>6, <1>9 DEF AgentInv, SlowDriftIsPaused, Block
  <1>13. EscalationEnds' /\ BlockedForCause'
    BY <1>5, <1>6, <1>7 DEF EscalationEnds, BlockedForCause
  <1>14. Underway' /\ NextBelow' /\ (stage = "idle" => status # "running")'
    BY <1>6 DEF Underway, NextBelow
  <1>15. QED  BY <1>8, <1>10, <1>11, <1>12, <1>13, <1>14 DEF AgentInv

LEMMA UnwatchedKeeps == AgentInv /\ Unwatched => AgentInv'
  <1> SUFFICES ASSUME AgentInv, Unwatched PROVE AgentInv'
    OBVIOUS
  <1>1. stage # "idle" /\ TypeOK /\ Return(step) /\ "mid" \notin hooks
    BY DEF Unwatched, AgentInv
  <1>2. step \in Step /\ step.drift = Unchecked /\ step.status = "running"
    BY <1>1, Running
  <1>3. /\ steps' \in Seq(Step) /\ step' = Blank /\ step' \in Step
        /\ status' \in {"running", "completed"}
        /\ stage' \in {"idle", "pre"}
        /\ stage' = "idle" <=> status' # "running"
        /\ DOMAIN steps' = DOMAIN steps \cup {Len(steps')}
        /\ \A i \in DOMAIN steps : steps'[i] = steps[i]
        /\ steps'[Len(steps')] = step
    BY <1>1, <1>2, ReturnFact
  <1>4. TypeOK'
    BY <1>1, <1>3 DEF Unwatched, TypeOK, Outcomes
  <1>5. Base' = Base /\ Shift(request, Base)' = Shift(request, Base)
    BY DEF Unwatched, Base, Shift
  <1>6. CountersMatch'
    <2>1. /\ Cardinality(Watched') = Cardinality(Watched)
          /\ Cardinality(BadSteps') = Cardinality(BadSteps)
      BY <1>1, <1>2, ReturnCount
    <2>2. QED  BY <2>1, <1>5 DEF AgentInv, CountersMatch, BadSteps, Unwatched
  <1>7. WatchedByHook'
    <2>1. Watched' = Watched
      BY <1>2, <1>3 DEF Watched
    <2>2. QED  BY <1>1, <2>1 DEF AgentInv, WatchedByHook, Unwatched
  <1>8. SlowDriftIsPaused' /\ NextBelow'
    BY <1>1 DEF SlowDriftIsPaused, NextBelow, Unwatched
  <1>9. EscalationEnds' /\ BlockedForCause'
    BY <1>1, <1>3, Running DEF EscalationEnds, BlockedForCause, Unwatched
  <1>10. Underway' /\ (stage = "idle" => status # "running")'
    BY <1>1, <1>2, <1>3, Running DEF Underway, Unwatched, Blank
  <1>11. QED  BY <1>4, <1>6, <1>7, <1>8, <1>9, <1>10 DEF AgentInv

LEMMA MidTrajectoryKeeps == AgentInv /\ MidTrajectory => AgentInv'
  <1> SUFFICES ASSUME AgentInv, MidTrajectory PROVE AgentInv'
    OBVIOUS
  <1> DEFINE primary == Primary(Drift, Violation)
             shift == Shift(request, Base)
             done == [step EXCEPT !.drift = Drift, !.violation = Violation,
                                  !.total = Projected,
                                  !.status = Ending[primary]]
  <1>1. stage # "idle" /\ TypeOK /\ Return(done) /\ "mid" \in hooks
    BY DEF MidTrajectory, AgentInv
  <1>2. memory' =
           [drift |-> memory.drift + 5 * shift,
            violations |-> memory.violations + IF Violates(done) THEN 1 ELSE 0,
            escalations |-> memory.escalations
               + IF primary \in {"soft_stop", "hard_stop"} THEN 1 ELSE 0,
            blocked |-> primary = "hard_stop"]
    BY DEF MidTrajectory
  <1>3. Drift \in Levels /\ Violation \in Levels /\ Violation # "warn"
    BY LevelFact DEF Drift, Violation
  <1>4. /\ primary \in Levels
        /\ primary = "hard_stop" => Drift = "hard_stop"
        /\ Drift = "soft_stop" => primary = "soft_stop"
    BY <1>3, PrimaryFact
  <1>5. /\ request \in Request /\ shift \in Nat /\ memory.drift \in Nat
        /\ Projected = memory.drift + shift /\ Projected \in Nat
    BY <1>1, BaseFact, Running DEF AgentState, Projected
  <1>6. /\ Ending[primary] \in Outcomes
        /\ Ending[primary] = "running" <=> primary \notin {"soft_stop", "hard_stop"}
        /\ Ending[primary] = "blocked" <=> primary = "hard_stop"
    BY <1>4, EndingFact
  <1>7. /\ done \in Step /\ done.drift = Drift /\ done.total = Projected
        /\ done.status = Ending[primary] /\ done.drift # Unchecked
    BY <1>1, <1>3, <1>5, <1>6, Running DEF Step, Levels, Unchecked
  <1> HIDE DEF done, primary, shift
  <1>8. /\ steps' \in Seq(Step) /\ step' = Blank /\ step' \in Step
        /\ status' \in Outcomes \cup {"completed"}
        /\ done.status # "running" => status' = done.status
        /\ done.status = "running" => status' \in {"running", "completed"}
        /\ stage' \in {"idle", "pre"}
        /\ stage' = "idle" <=> status' # "running"
        /\ LastStep' = done
        /\ DOMAIN steps' = DOMAIN steps \cup {Len(steps')}
        /\ \A i \in DOMAIN steps : steps'[i] = steps[i]
        /\ steps'[Len(steps')] = done
    BY <1>1, <1>7, ReturnFact
  <1>9. /\ memory' \in AgentState
        /\ memory'.drift = memory.drift + 5 * shift
        /\ memory'.violations = memory.violations
                                  + (IF Violates(done) THEN 1 ELSE 0)
        /\ memory'.escalations =
              IF primary \in {"soft_stop", "hard_stop"} THEN 1 ELSE 0
        /\ memory'.blocked <=> primary = "hard_stop"
    <2> DEFINE v == memory.violations + IF Violates(done) THEN 1 ELSE 0
               e == memory.escalations
                       + IF primary \in {"soft_stop", "hard_stop"} THEN 1 ELSE 0
               b == primary = "hard_stop"
    <2>1. memory.violations \in Nat /\ memory.escalations = 0
      BY <1>1, Running DEF AgentState
    <2>2. /\ memory.drift + 5 * shift \in Nat /\ v \in Nat /\ b \in BOOLEAN
          /\ e = IF primary \in {"soft_stop", "hard_stop"} THEN 1 ELSE 0
          /\ e \in Nat
      BY <1>5, <2>1
    <2>3. memory' = [drift |-> memory.drift + 5 * shift, violations |-> v,
                     escalations |-> e, blocked |-> b]
      BY <1>2
    <2>4. v = memory.violations + (IF Violates(done) THEN 1 ELSE 0)
      OBVIOUS
    <2> HIDE DEF v, e, b
    <2>5. /\ memory' \in AgentState
          /\ memory'.drift = memory.drift + 5 * shift
          /\ memory'.violations = v /\ memory'.escalations = e
          /\ memory'.blocked = b
      BY <2>2, <2>3 DEF AgentState
    <2>6. QED  BY <2>2, <2>4, <2>5 DEF b
  <1>10. /\ baseline' = Base /\ Base \in Nat /\ baseline' # None /\ Base' = Base
         /\ UNCHANGED <<hooks, runs, request>>
    <2>1. Base \in Nat
      BY <1>1, BaseFact
    <2>2. baseline' = Base /\ UNCHANGED <<hooks, runs, request>>
      BY DEF MidTrajectory
    <2>3. QED  BY <2>1, <2>2 DEF Base, None
  <1>11. Shift(request, Base)' = shift
    BY <1>10 DEF shift
  <1>12. TypeOK'
    BY <1>1, <1>8, <1>9, <1>10 DEF TypeOK
  <1>13. CountersMatch'
    <2>1. /\ Cardinality(Watched) \in Nat
          /\ Cardinality(Watched') = Cardinality(Watched) + 1
          /\ Cardinality(BadSteps') = Cardinality(BadSteps)
                + (IF Violates(done) THEN 1 ELSE 0)
      BY <1>1, <1>7, ReturnCount
    <2>2. /\ memory.drift = 5 * shift * Cardinality(Watched)
          /\ memory.violations = Cardinality(BadSteps)
      BY DEF AgentInv, CountersMatch, BadSteps, shift
    <2>3. memory'.drift = 5 * shift * Cardinality(Watched')
      BY <2>1, <2>2, <1>5, <1>9
    <2>4. QED  BY <2>1, <2>2, <2>3, <1>9, <1>11 DEF CountersMatch, BadSteps
  <1>14. WatchedByHook'
    <2>1. Watched' = Watched \cup {Len(steps')}
      BY <1>7, <1>8 DEF Watched
    <2>2. Watched = DOMAIN steps
      BY <1>1 DEF AgentInv, WatchedByHook
    <2>3. QED  BY <1>1, <1>8, <1>10, <2>1, <2>2 DEF WatchedByHook
  <1>15. ASSUME 5 * shift <= HardDrift - SoftDrift
         PROVE  /\ done.status = "running" => done.total < SoftDrift
                /\ done.total < SoftDrift => memory'.drift + shift < HardDrift
    <2>1. Projected < HardDrift
      BY <1>1, <1>5, <1>15 DEF AgentInv, NextBelow, shift
    <2>2. Drift # "hard_stop" /\ (Projected >= SoftDrift => Drift = "soft_stop")
      BY <1>5, <2>1, DriftFact DEF Drift, shift
    <2>3. done.status = "running" => Projected < SoftDrift
      BY <1>4, <1>5, <1>6, <1>7, <2>2, AgentAssumption
    <2>4. Projected < SoftDrift => memory'.drift + shift < HardDrift
      BY <1>5, <1>9, <1>15, AgentAssumption
    <2>5. QED  BY <1>7, <2>3, <2>4
  <1>16. SlowDriftIsPaused'
    BY <1>1, <1>8, <1>10, <1>11, <1>15, Running DEF AgentInv, SlowDriftIsPaused,
       shift
  <1>17. NextBelow'
    BY <1>7, <1>8, <1>10, <1>11, <1>15 DEF NextBelow
  <1>18. EscalationEnds'
    BY <1>6, <1>7, <1>8, <1>9 DEF EscalationEnds, Outcomes
  <1>19. BlockedForCause'
    BY <1>4, <1>6, <1>7, <1>8, <1>9 DEF BlockedForCause
  <1>20. Underway' /\ (stage = "idle" => status # "running")'
    BY <1>1, <1>6, <1>7, <1>8, <1>9, Running DEF Underway, Blank
  <1>21. QED  BY <1>12, <1>13, <1>14, <1>16, <1>17, <1>18, <1>19, <1>20 DEF AgentInv

LEMMA NextAgentInv == AgentInv /\ [Next]_vars => AgentInv'
  <1> SUFFICES ASSUME AgentInv, [Next]_vars PROVE AgentInv'
    OBVIOUS
  <1>1. CASE \E r \in Requests : Execute(r)
    BY <1>1, ExecuteKeeps
  <1>2. CASE Block
    BY <1>2, BlockKeeps
  <1>3. CASE Admit
    BY <1>3, AdmitKeeps
  <1>4. CASE RunTool
    BY <1>4, RunToolKeeps
  <1>5. CASE MidTrajectory
    BY <1>5, MidTrajectoryKeeps
  <1>6. CASE Unwatched
    BY <1>6, UnwatchedKeeps
  <1>7. CASE UNCHANGED vars
    BY <1>7 DEF vars, AgentInv, TypeOK, Underway, WatchedByHook, NextBelow,
       CountersMatch, EscalationEnds, BlockedForCause, SlowDriftIsPaused,
       Watched, Base, LastStep, Shift
  <1>8. QED  BY <1>1, <1>2, <1>3, <1>4, <1>5, <1>6, <1>7 DEF Next

(* The inductive invariant holds in every state of the executor.           *)
THEOREM AgentInductive == Spec => []AgentInv
  BY InitAgentInv, NextAgentInv, PTL DEF Spec

(* The variables keep their types. *)
THEOREM AgentTypeCorrect == Spec => []TypeOK
  <1>1. AgentInv => TypeOK
    BY DEF AgentInv
  <1>2. QED  BY <1>1, AgentInductive, PTL

(* The memory's counters are those of this run's steps, however many       *)
(* requests the executor has had (executor.py:177-182).                    *)
THEOREM CountersMatchCorrect == Spec => []CountersMatch
  <1>1. AgentInv => CountersMatch
    BY DEF AgentInv
  <1>2. QED  BY <1>1, AgentInductive, PTL

(* A run is escalated once at most and ends by it                          *)
(* (trajectory_monitor.py:203).                                            *)
THEOREM EscalationEndsCorrect == Spec => []EscalationEnds
  <1>1. AgentInv => EscalationEnds
    BY DEF AgentInv
  <1>2. QED  BY <1>1, AgentInductive, PTL

(* A run is blocked only when a check of its last step called for it       *)
(* (executor.py:153-161, 187-195).                                         *)
THEOREM BlockedForCauseCorrect == Spec => []BlockedForCause
  <1>1. AgentInv => BlockedForCause
    BY DEF AgentInv
  <1>2. QED  BY <1>1, AgentInductive, PTL

(* Drift that no single step carries over the gap between the thresholds   *)
(* pauses the run, for all thresholds and requests                         *)
(* (trajectory_monitor.py:60-72).                                          *)
THEOREM SlowDriftIsPausedCorrect == Spec => []SlowDriftIsPaused
  <1>1. AgentInv => SlowDriftIsPaused
    BY DEF AgentInv
  <1>2. QED  BY <1>1, AgentInductive, PTL

-----------------------------------------------------------------------------
(***************************************************************************)
(* The chaos engine (ChaosEngine): every scenario is accounted for and a   *)
(* run that lost every block is not summed up as PASS.                     *)
(***************************************************************************)

ChaosSpec == ChaosInit /\ [][ChaosNext]_chaosVars

Totals == [blocked : Nat, passed : Nat, alerts : Nat, latency : Int]

Names == {"drop_safeguard", "delay_alerting", "corrupt_metrics", "metric_validation"}

Trials == [number : Nat \ {0}, phase : {"original", "chaos"}, done : Nat,
           original : Totals, chaos : Totals]

(* What the totals of so many scenarios with an experiment add up to: all  *)
(* of them, or the blocks that the metric validation makes up.             *)
Accounted(name, chaos, n) ==
    IF name = "metric_validation" THEN chaos.blocked = 100 * n
    ELSE chaos.blocked + chaos.passed = n

TrialInv ==
    /\ suite \in Seq(Experiments)
    /\ scenarios \in Seq({"attack", "benign", "unknown"})
    /\ trial \in Trials
    /\ trial.done <= Len(scenarios)
    /\ trial.phase = "original" =>
          /\ trial.original.blocked + trial.original.passed = trial.done
          /\ trial.chaos = NoTotals
    /\ trial.phase = "chaos" =>
          /\ trial.number <= Len(suite)
          /\ trial.original.blocked + trial.original.passed = Len(scenarios)
          /\ Accounted(Experiment.name, trial.chaos, trial.done)

Concluded(r) ==
    /\ r.name \in Names
    /\ r.original \in Totals
    /\ r.chaos \in Totals
    /\ r.original.blocked + r.original.passed = Len(scenarios)
    /\ Accounted(r.name, r.chaos, Len(scenarios))
    /\ r.verdict = AnalyzeTrial(r.name, r.original, r.chaos)

ResultsInv ==
    /\ DOMAIN chaosResults = 1..Len(chaosResults)
    /\ Len(chaosResults) \in Nat
    /\ \A k \in DOMAIN chaosResults : Concluded(chaosResults[k])

ChaosInv == TrialInv /\ ResultsInv

-----------------------------------------------------------------------------
(* What the injections write into an outcome leaves the rest of it as it   *)
(* was.                                                                    *)
LEMMA BlockUndone ==
    ASSUME NEW o \in Totals
    PROVE  LET d == [o EXCEPT !.blocked = 0, !.passed = 1, !.alerts = 0]
           IN  d \in Totals /\ d.blocked = 0 /\ d.passed = 1
  BY DEF Totals

LEMMA AlertLost ==
    ASSUME NEW o \in Totals
    PROVE  LET d == [o EXCEPT !.alerts = 0]
           IN  d \in Totals /\ d.blocked = o.blocked /\ d.passed = o.passed
  BY DEF Totals

LEMMA MetricsRejected ==
    ASSUME NEW o \in Totals
    PROVE  LET d == [o EXCEPT !.latency = -1, !.blocked = 100]
           IN  d \in Totals /\ d.blocked = 100
<1>1. -1 \in Int /\ 100 \in Nat
  OBVIOUS
<1>2. QED
  BY <1>1 DEF Totals

(* A scenario is blocked or passed, once.                                  *)
LEMMA OutcomeIsOne ==
    ASSUME NEW s, NEW o \in SimulatePipelineRun(s)
    PROVE  o \in Totals /\ o.blocked + o.passed = 1
  BY DEF SimulatePipelineRun, Outcome, Totals

(* No injection makes a scenario both or neither, but the last, which      *)
(* makes up a hundred blocks.                                              *)
LEMMA InjectionAccounted ==
    ASSUME NEW e \in Experiments, NEW s, NEW o \in SimulatePipelineRun(s),
           NEW c \in Inject(e, o)
    PROVE  c \in Totals /\ Accounted(e.name, c, 1)
<1>1. o \in Totals /\ o.blocked + o.passed = 1
  BY OutcomeIsOne
<1>2. CASE e.name = "drop_safeguard"
  <2>1. c \in {o, Drop(e, o)}
    BY <1>2 DEF Inject
  <2>2. \/ Drop(e, o) = o
        \/ /\ o.blocked > 0
           /\ Drop(e, o) = [o EXCEPT !.blocked = 0, !.passed = 1, !.alerts = 0]
        \/ Drop(e, o) = [o EXCEPT !.alerts = 0]
    BY DEF Drop
  <2>3. CASE c = o
    BY <1>1, <1>2, <2>3 DEF Accounted
  <2>4. CASE o.blocked > 0 /\ c = [o EXCEPT !.blocked = 0, !.passed = 1, !.alerts = 0]
    <3>1. c \in Totals /\ c.blocked = 0 /\ c.passed = 1
      BY <1>1, <2>4, BlockUndone
    <3>2. QED
      BY <1>2, <3>1 DEF Accounted
  <2>5. CASE c = [o EXCEPT !.alerts = 0]
    BY <1>1, <1>2, <2>5, AlertLost DEF Accounted
  <2>6. QED
    BY <2>1, <2>2, <2>3, <2>4, <2>5
<1>3. CASE e.name = "delay_alerting"
  <2>1. e.delay \in Nat
    BY <1>3 DEF Experiments
  <2>2. \/ c = o
        \/ c = [o EXCEPT !.alerts = 0]
        \/ c = [o EXCEPT !.latency = o.latency + e.delay]
    BY <1>3 DEF Inject, Delay
  <2>3. QED
    BY <1>1, <1>3, <2>1, <2>2 DEF Totals, Accounted
<1>4. CASE e.name = "corrupt_metrics"
  <2>1. Corrupted[e.corruption] \in Int
    BY <1>4 DEF Experiments, Corrupted
  <2>2. c = o \/ c = [o EXCEPT !.latency = Corrupted[e.corruption]]
    BY <1>4 DEF Inject
  <2>3. QED
    BY <1>1, <1>4, <2>1, <2>2 DEF Totals, Accounted
<1>5. CASE e.name = "metric_validation"
  <2>1. c = [o EXCEPT !.latency = -1, !.blocked = 100]
    BY <1>5 DEF Inject
  <2>2. c \in Totals /\ c.blocked = 100
    BY <1>1, <2>1, MetricsRejected
  <2>3. QED
    BY <1>5, <2>2 DEF Accounted
<1>6. e.name \in Names
  BY DEF Experiments, Names
<1>7. QED
  BY <1>2, <1>3, <1>4, <1>5, <1>6 DEF Names

(* Totals add up field by field.                                           *)
LEMMA AddedFields ==
    ASSUME NEW t \in Totals, NEW o \in Totals
    PROVE  /\ Added(t, o) \in Totals
           /\ Added(t, o).blocked = t.blocked + o.blocked
           /\ Added(t, o).passed = t.passed + o.passed
<1>1. DOMAIN t = {"blocked", "passed", "alerts", "latency"}
  BY DEF Totals
<1>2. Added(t, o) = [blocked |-> t.blocked + o.blocked, passed |-> t.passed + o.passed,
                     alerts |-> t.alerts + o.alerts, latency |-> t.latency + o.latency]
  BY <1>1 DEF Added
<1>3. QED
  BY <1>2 DEF Totals

(* The next scenario of a trial, of either run.                            *)
LEMMA TrialMoves ==
    ASSUME NEW t \in Trials, NEW a \in Totals
    PROVE  /\ [t EXCEPT !.done = @ + 1, !.original = a] \in Trials
           /\ [t EXCEPT !.done = @ + 1, !.chaos = a] \in Trials
<1>1. t.done + 1 \in Nat
  BY DEF Trials
<1>2. QED
  BY <1>1 DEF Trials

LEMMA NoTotalsType == NoTotals \in Totals
  BY DEF NoTotals, Totals

-----------------------------------------------------------------------------
LEMMA InitChaosInv == ChaosInit => ChaosInv
<1> SUFFICES ASSUME ChaosInit PROVE ChaosInv
  OBVIOUS
<1>1. suite \in Seq(Experiments) /\ scenarios \in Seq({"attack", "benign", "unknown"})
  BY ChaosAssumption DEF ChaosInit
<1>2. TrialInv
  BY <1>1, NoTotalsType DEF ChaosInit, TrialInv, Trials, StartOf, NoTotals
<1>3. ResultsInv
  BY DEF ChaosInit, ResultsInv
<1>4. QED
  BY <1>2, <1>3 DEF ChaosInv

LEMMA RunPipelineKeeps == ChaosInv /\ RunPipeline => TrialInv'
<1> SUFFICES ASSUME ChaosInv, RunPipeline PROVE TrialInv'
  OBVIOUS
<1>1. TrialInv
  BY DEF ChaosInv
<1>2. PICK o \in SimulatePipelineRun(scenarios[trial.done + 1]) :
          trial' = [trial EXCEPT !.done = @ + 1, !.original = Added(@, o)]
  BY DEF RunPipeline
<1>3. o \in Totals /\ o.blocked + o.passed = 1
  BY <1>2, OutcomeIsOne
<1>4. /\ Added(trial.original, o) \in Totals
      /\ Added(trial.original, o).blocked = trial.original.blocked + o.blocked
      /\ Added(trial.original, o).passed = trial.original.passed + o.passed
  BY <1>1, <1>3, AddedFields DEF TrialInv, Trials
<1>5. /\ trial.original.blocked \in Nat /\ trial.original.passed \in Nat
      /\ o.blocked \in Nat /\ o.passed \in Nat
  BY <1>1, <1>3 DEF TrialInv, Trials, Totals
<1>6. Len(scenarios) \in Nat
  BY <1>1 DEF TrialInv
<1>7. QED
  <2>1. trial'.phase = "original" /\ trial'.done = trial.done + 1
    BY <1>1, <1>2 DEF RunPipeline, TrialInv, Trials
  <2>2. trial'.original = Added(trial.original, o) /\ trial'.chaos = trial.chaos
    BY <1>1, <1>2 DEF TrialInv, Trials
  <2>3. trial' \in Trials
    BY <1>1, <1>2, <1>4, TrialMoves DEF TrialInv
  <2>4. trial.done \in Nat /\ trial.done < Len(scenarios)
    BY <1>1 DEF RunPipeline, TrialInv, Trials
  <2>5. trial.original.blocked + trial.original.passed = trial.done /\ trial.chaos = NoTotals
    BY <1>1 DEF RunPipeline, TrialInv, Trials
  <2>6. suite' = suite /\ scenarios' = scenarios
    BY DEF RunPipeline
  <2>7. trial'.original.blocked + trial'.original.passed = trial'.done
    <3>1. (trial.original.blocked + o.blocked) + (trial.original.passed + o.passed)
             = trial.done + 1
      <4> DEFINE a == trial.original.blocked
                 b == trial.original.passed
                 n == trial.done
                 c == o.blocked
                 d == o.passed
      <4>1. /\ a \in Nat /\ b \in Nat /\ n \in Nat /\ a + b = n
            /\ c \in Nat /\ d \in Nat /\ c + d = 1
        BY <1>3, <1>5, <2>4, <2>5
      <4> HIDE DEF a, b, c, d, n
      <4>2. (a + c) + (b + d) = n + 1
        BY <4>1
      <4>3. QED
        BY <4>2 DEF a, b, c, d, n
    <3>2. QED
      BY <1>4, <2>1, <2>2, <3>1
  <2>8. trial'.done <= Len(scenarios')
    BY <1>6, <2>1, <2>4, <2>6
  <2>9. QED
    BY <1>1, <2>1, <2>2, <2>3, <2>5, <2>6, <2>7, <2>8 DEF TrialInv

LEMMA InjectChaosKeeps == ChaosInv /\ InjectChaos => TrialInv'
<1> SUFFICES ASSUME ChaosInv, InjectChaos PROVE TrialInv'
  OBVIOUS
<1>1. TrialInv
  BY DEF ChaosInv
<1>2. NoTotals.blocked = 0 /\ NoTotals.passed = 0
  BY DEF NoTotals
<1>3. Len(scenarios) \in Nat
  BY <1>1 DEF TrialInv
<1>4. /\ trial'.phase = "chaos" /\ trial'.done = 0 /\ trial'.number = trial.number
      /\ trial'.original = trial.original /\ trial'.chaos = NoTotals
  BY <1>1 DEF InjectChaos, TrialInv, Trials
<1>5. trial' \in Trials
  BY <1>1, NoTotalsType DEF InjectChaos, TrialInv, Trials
<1>6. suite' = suite /\ scenarios' = scenarios /\ trial.number <= Len(suite)
  BY DEF InjectChaos
<1>7. trial'.original.blocked + trial'.original.passed = Len(scenarios')
  BY <1>1, <1>4, <1>6 DEF InjectChaos, TrialInv, Trials
<1>8. Accounted(Experiment.name, trial.chaos, trial.done)'
  BY <1>2, <1>4 DEF Accounted
<1>9. QED
  BY <1>1, <1>3, <1>4, <1>5, <1>6, <1>7, <1>8 DEF TrialInv

LEMMA ExperimentType ==
    ASSUME TrialInv, trial.phase = "chaos"
    PROVE  Experiment \in Experiments
  BY DEF TrialInv, Trials, Experiment

LEMMA RunPipelineWithChaosKeeps == ChaosInv /\ RunPipelineWithChaos => TrialInv'
<1> SUFFICES ASSUME ChaosInv, RunPipelineWithChaos PROVE TrialInv'
  OBVIOUS
<1>1. TrialInv
  BY DEF ChaosInv
<1>2. PICK o \in SimulatePipelineRun(scenarios[trial.done + 1]) :
          \E c \in Inject(Experiment, o) :
              trial' = [trial EXCEPT !.done = @ + 1, !.chaos = Added(@, c)]
  BY DEF RunPipelineWithChaos
<1>3. PICK c \in Inject(Experiment, o) :
          trial' = [trial EXCEPT !.done = @ + 1, !.chaos = Added(@, c)]
  BY <1>2
<1>4. c \in Totals /\ Accounted(Experiment.name, c, 1)
  <2>1. Experiment \in Experiments
    BY <1>1, ExperimentType DEF RunPipelineWithChaos
  <2>2. QED
    BY <1>2, <1>3, <2>1, InjectionAccounted
<1>5. /\ Added(trial.chaos, c) \in Totals
      /\ Added(trial.chaos, c).blocked = trial.chaos.blocked + c.blocked
      /\ Added(trial.chaos, c).passed = trial.chaos.passed + c.passed
  BY <1>1, <1>4, AddedFields DEF TrialInv, Trials
<1>6. /\ trial.chaos.blocked \in Nat /\ trial.chaos.passed \in Nat
      /\ c.blocked \in Nat /\ c.passed \in Nat
  BY <1>1, <1>4 DEF TrialInv, Trials, Totals
<1>7. Experiment' = Experiment
  BY <1>1, <1>3 DEF RunPipelineWithChaos, Experiment, TrialInv, Trials
<1>8. Accounted(Experiment.name, Added(trial.chaos, c), trial.done + 1)
  <2>1. Accounted(Experiment.name, trial.chaos, trial.done) /\ trial.done \in Nat
    BY <1>1 DEF RunPipelineWithChaos, TrialInv, Trials
  <2>2. CASE Experiment.name = "metric_validation"
    BY <1>4, <1>5, <1>6, <2>1, <2>2 DEF Accounted
  <2>3. CASE Experiment.name # "metric_validation"
    BY <1>4, <1>5, <1>6, <2>1, <2>3 DEF Accounted
  <2>4. QED
    BY <2>2, <2>3
<1>9. Len(scenarios) \in Nat
  BY <1>1 DEF TrialInv
<1>10. QED
  <2>1. /\ trial'.phase = "chaos" /\ trial'.done = trial.done + 1
        /\ trial'.number = trial.number /\ trial'.original = trial.original
        /\ trial'.chaos = Added(trial.chaos, c)
    BY <1>1, <1>3 DEF RunPipelineWithChaos, TrialInv, Trials
  <2>2. trial' \in Trials
    BY <1>1, <1>3, <1>5, TrialMoves DEF TrialInv
  <2>3. suite' = suite /\ scenarios' = scenarios
    BY DEF RunPipelineWithChaos
  <2>4. trial'.done <= Len(scenarios')
    BY <1>1, <1>9, <2>1, <2>3 DEF RunPipelineWithChaos, TrialInv, Trials
  <2>5. Accounted(Experiment.name, trial.chaos, trial.done)'
    BY <1>7, <1>8, <2>1 DEF Accounted
  <2>6. /\ trial'.number <= Len(suite')
        /\ trial'.original.blocked + trial'.original.passed = Len(scenarios')
    BY <1>1, <2>1, <2>3 DEF RunPipelineWithChaos, TrialInv, Trials
  <2>7. QED
    BY <1>1, <2>1, <2>2, <2>3, <2>4, <2>5, <2>6 DEF TrialInv

LEMMA FinishKeepsTrial == ChaosInv /\ FinishExperiment => TrialInv'
<1> SUFFICES ASSUME ChaosInv, FinishExperiment PROVE TrialInv'
  OBVIOUS
<1>1. TrialInv
  BY DEF ChaosInv
<1>2. NoTotals.blocked = 0 /\ NoTotals.passed = 0
  BY DEF NoTotals
<1>3. QED
  BY <1>1, <1>2, NoTotalsType DEF FinishExperiment, StartOf, TrialInv, Trials

(* A verdict rests on the totals of its run and on the scenarios, which    *)
(* nothing changes.                                                        *)
LEMMA ConcludedStays ==
    ASSUME NEW r, Concluded(r), UNCHANGED scenarios
    PROVE  Concluded(r)'
  BY DEF Concluded, AnalyzeTrial, AnalyzeDrop, AnalyzeDelay, AnalyzeCorruption,
         AnalyzeValidation

LEMMA FinishKeepsResults == ChaosInv /\ FinishExperiment => ResultsInv'
<1> SUFFICES ASSUME ChaosInv, FinishExperiment PROVE ResultsInv'
  OBVIOUS
<1>1. TrialInv /\ ResultsInv /\ UNCHANGED scenarios
  BY DEF ChaosInv, FinishExperiment
<1>2. CASE Raises
  BY <1>1, <1>2, ConcludedStays DEF FinishExperiment, ResultsInv
<1>3. CASE ~Raises
  <2> DEFINE r == [name     |-> Experiment.name,
                   original |-> trial.original,
                   chaos    |-> trial.chaos,
                   verdict  |-> AnalyzeTrial(Experiment.name, trial.original, trial.chaos)]
  <2>1. chaosResults' = Append(chaosResults, r)
    BY <1>3 DEF FinishExperiment
  <2>2. Concluded(r)
    <3>1. Experiment \in Experiments
      BY <1>1, ExperimentType DEF FinishExperiment
    <3>2. r.name \in Names
      BY <3>1 DEF Experiments, Names
    <3>3. QED
      BY <1>1, <3>2 DEF FinishExperiment, TrialInv, Trials, Concluded
  <2> HIDE DEF r
  <2>3. \A k \in DOMAIN chaosResults' :
            chaosResults'[k] = IF k = Len(chaosResults) + 1 THEN r ELSE chaosResults[k]
    BY <1>1, <2>1 DEF ResultsInv
  <2>4. QED
    BY <1>1, <2>1, <2>2, <2>3, ConcludedStays DEF ResultsInv
<1>4. QED
  BY <1>2, <1>3

LEMMA NextChaosInv == ChaosInv /\ [ChaosNext]_chaosVars => ChaosInv'
<1> SUFFICES ASSUME ChaosInv, [ChaosNext]_chaosVars PROVE ChaosInv'
  OBVIOUS
<1>1. CASE FinishExperiment
  BY <1>1, FinishKeepsTrial, FinishKeepsResults DEF ChaosInv
<1>2. CASE RunPipeline \/ InjectChaos \/ RunPipelineWithChaos
  <2>1. UNCHANGED <<scenarios, chaosResults>>
    BY <1>2 DEF RunPipeline, InjectChaos, RunPipelineWithChaos
  <2>2. ResultsInv'
    BY <2>1, ConcludedStays DEF ChaosInv, ResultsInv
  <2>3. TrialInv'
    BY <1>2, RunPipelineKeeps, InjectChaosKeeps, RunPipelineWithChaosKeeps
  <2>4. QED
    BY <2>2, <2>3 DEF ChaosInv
<1>3. CASE UNCHANGED chaosVars
  <2>1. TrialInv'
    BY <1>3 DEF ChaosInv, chaosVars, TrialInv, Experiment, Accounted
  <2>2. ResultsInv'
    BY <1>3, ConcludedStays DEF ChaosInv, chaosVars, ResultsInv
  <2>3. QED
    BY <2>1, <2>2 DEF ChaosInv
<1>4. QED
  BY <1>1, <1>2, <1>3 DEF ChaosNext

-----------------------------------------------------------------------------
(* A run in which every block was lost is graded unsafe or catastrophic by *)
(* each of the four analyses.                                              *)
LEMMA LossIsGraded ==
    ASSUME NEW r, Concluded(r), Len(scenarios) \in Nat,
           r.original.blocked > 0, r.chaos.blocked = 0
    PROVE  r.verdict.level = "catastrophic" \/ ~r.verdict.safe
<1> USE DEF Verdict
<1>1. /\ r.original.blocked \in Nat /\ r.original.passed \in Nat
  BY DEF Concluded, Totals
<1>2. CASE r.name = "drop_safeguard"
  <2>1. r.verdict = AnalyzeDrop(r.original, r.chaos)
    BY <1>2 DEF Concluded, AnalyzeTrial
  <2>2. r.original.blocked - r.chaos.blocked = r.original.blocked
    BY <1>1
  <2>3. 2 * r.original.blocked > r.original.blocked /\ ~(r.original.blocked <= 0)
    BY <1>1
  <2> DEFINE functional == 10 * Distance(r.chaos.passed, r.original.passed) < r.original.passed
  <2>4. r.verdict = Verdict("catastrophic", FALSE, functional)
    BY <2>1, <2>2, <2>3 DEF AnalyzeDrop
  <2> HIDE DEF functional
  <2>5. QED
    BY <2>4
<1>3. CASE r.name = "delay_alerting"
  <2>1. r.verdict = AnalyzeDelay(r.original, r.chaos)
    BY <1>3 DEF Concluded, AnalyzeTrial
  <2> DEFINE functional == r.chaos.latency - r.original.latency < 5000 * Len(scenarios)
  <2> DEFINE level == IF \/ 2 * (r.original.alerts - r.chaos.alerts) > r.original.alerts
                         \/ r.chaos.latency - r.original.latency > 10000 * Len(scenarios)
                      THEN "partial" ELSE "graceful"
  <2>2. r.verdict = Verdict(level, r.chaos.blocked = r.original.blocked, functional)
    BY <2>1 DEF AnalyzeDelay
  <2> HIDE DEF functional, level
  <2>3. r.verdict.safe = (r.chaos.blocked = r.original.blocked)
    BY <2>2
  <2>4. r.chaos.blocked # r.original.blocked
    BY <1>1
  <2>5. QED
    BY <2>3, <2>4, Zenon
<1>4. CASE r.name = "corrupt_metrics"
  <2>1. r.verdict = AnalyzeCorruption(r.original, r.chaos)
    BY <1>4 DEF Concluded, AnalyzeTrial
  <2>2. QED
    BY <1>1, <2>1 DEF AnalyzeCorruption
<1>5. CASE r.name = "metric_validation"
  <2>1. 0 = 100 * Len(scenarios)
    BY <1>5 DEF Concluded, Accounted
  <2>2. Len(scenarios) = r.original.blocked + r.original.passed
    BY DEF Concluded
  <2>3. QED
    BY <1>1, <2>1, <2>2
<1>6. QED
  BY <1>2, <1>3, <1>4, <1>5 DEF Concluded, Names

LEMMA ChaosInvJudges == ChaosInv => ChaosJudged
<1> SUFFICES ASSUME ChaosInv PROVE ChaosJudged
  OBVIOUS
<1>1. Len(scenarios) \in Nat
  BY DEF ChaosInv, TrialInv
<1>2. \A k \in DOMAIN chaosResults : Concluded(chaosResults[k])
  BY DEF ChaosInv, ResultsInv
<1>3. ScenariosAccounted
  BY <1>2 DEF ScenariosAccounted, Concluded, Accounted
<1>4. LostBlocksTell
  <2> SUFFICES ASSUME NEW k \in DOMAIN chaosResults,
                      chaosResults[k].original.blocked > 0,
                      chaosResults[k].chaos.blocked = 0
               PROVE  Summary # "PASS"
    BY DEF LostBlocksTell
  <2>1. chaosResults[k].verdict.level = "catastrophic" \/ ~chaosResults[k].verdict.safe
    BY <1>1, <1>2, LossIsGraded
  <2>2. CASE chaosResults[k].verdict.level = "catastrophic"
    BY <2>2 DEF Summary, Of
  <2>3. CASE ~chaosResults[k].verdict.safe
    BY <2>3 DEF Summary, Safe
  <2>4. QED
    BY <2>1, <2>2, <2>3
<1>5. QED
  BY <1>3, <1>4 DEF ChaosJudged

(* Whatever is registered and whatever the scenarios, the suite accounts   *)
(* for every scenario and never passes over a run that lost every block    *)
(* (engine.py:205, 282).                                                   *)
THEOREM ChaosJudgedCorrect == ChaosSpec => []ChaosJudged
<1>1. ChaosInit => ChaosInv
  BY InitChaosInv
<1>2. ChaosInv /\ [ChaosNext]_chaosVars => ChaosInv'
  BY NextChaosInv
<1>3. ChaosInv => ChaosJudged
  BY ChaosInvJudges
<1>4. QED
  BY <1>1, <1>2, <1>3, PTL DEF ChaosSpec

-----------------------------------------------------------------------------
(***************************************************************************)
(* The stress tests (StressTest): the sums that are taken of the rollouts  *)
(* on separate ways agree, and no rate is a division by nothing.           *)
(***************************************************************************)
Statuses == {"compliant", "hedging", "violation"}

(* A result is that of a rollout of at least one turn and at most as many  *)
(* as the erosion curve has.                                               *)
Rolled(r) ==
    \E a \in DOMAIN Attacks, turns \in Seq(Statuses) :
        Len(turns) \in 1..CurveTurns /\ r = Rollout(a, turns)

StressInv ==
    /\ attack \in Nat \ {0}
    /\ turnResults \in Seq(Statuses)
    /\ attack \in DOMAIN Attacks => Len(turnResults) <= TurnsToRun
    /\ Len(rollouts) \in Nat
    /\ DOMAIN rollouts = 1..Len(rollouts)
    /\ \A k \in DOMAIN rollouts : Rolled(rollouts[k])

LEMMA TurnsAreSome ==
    ASSUME NEW a \in DOMAIN Attacks, a = attack
    PROVE  TurnsToRun \in 1..CurveTurns
<1>1. Attacks \in Seq(Nat \ {0}) /\ TurnLimit \in 1..CurveTurns
  BY StressAssumption DEF StressAssumption
<1> DEFINE n == Attacks[attack]
<1>2. n \in Nat \ {0}
  BY <1>1
<1>3. TurnsToRun = IF n < TurnLimit THEN n ELSE TurnLimit
  BY DEF TurnsToRun
<1> HIDE DEF n
<1>4. QED
  BY <1>1, <1>2, <1>3 DEF CurveTurns

LEMMA DetectedStatus ==
    ASSUME NEW r \in Responses
    PROVE  DetectResponse(r) \in Statuses
  BY DEF DetectResponse, Statuses

LEMMA InitStressInv == StressInit => StressInv
<1> SUFFICES ASSUME StressInit PROVE StressInv
  OBVIOUS
<1>1. attack = 1 /\ turnResults = <<>> /\ rollouts = <<>>
  BY DEF StressInit
<1>2. 1 \in DOMAIN Attacks => TurnsToRun \in 1..CurveTurns
  BY <1>1, TurnsAreSome
<1>3. QED
  BY <1>1, <1>2 DEF StressInv

LEMMA NextStressInv == StressInv /\ [StressNext]_stressVars => StressInv'
<1> SUFFICES ASSUME StressInv, [StressNext]_stressVars PROVE StressInv'
  OBVIOUS
<1>1. CASE Turn
  <2>1. PICK r \in Responses : turnResults' = Append(turnResults, DetectResponse(r))
    BY <1>1 DEF Turn
  <2>2. turnResults \in Seq(Statuses) /\ DetectResponse(r) \in Statuses
    BY DetectedStatus DEF StressInv
  <2>3. /\ turnResults' \in Seq(Statuses)
        /\ Len(turnResults') = Len(turnResults) + 1
        /\ Len(turnResults) \in Nat
    BY <2>1, <2>2
  <2>4. UNCHANGED <<attack, rollouts>>
    BY <1>1 DEF Turn
  <2>5. TurnsToRun' = TurnsToRun /\ TurnsToRun \in 1..CurveTurns
    BY <1>1, <2>4, TurnsAreSome DEF Turn, TurnsToRun
  <2>6. Len(turnResults') <= TurnsToRun'
    BY <1>1, <2>3, <2>5 DEF Turn, CurveTurns
  <2>7. QED
    BY <2>3, <2>4, <2>6 DEF StressInv, Rolled
<1>2. CASE EndRollout
  <2> DEFINE new == Rollout(attack, turnResults)
  <2>1. TurnsToRun \in 1..CurveTurns
    BY <1>2, TurnsAreSome DEF EndRollout
  <2>2. Rolled(new)
    BY <1>2, <2>1 DEF EndRollout, StressInv, Rolled
  <2>3. rollouts' = Append(rollouts, new)
    BY <1>2 DEF EndRollout
  <2> HIDE DEF new
  <2>4. /\ Len(rollouts') = Len(rollouts) + 1
        /\ DOMAIN rollouts' = 1..Len(rollouts')
        /\ \A k \in 1..Len(rollouts) : rollouts'[k] = rollouts[k]
        /\ rollouts'[Len(rollouts) + 1] = new
    BY <2>3 DEF StressInv
  <2>5. \A k \in DOMAIN rollouts' : Rolled(rollouts'[k])
    BY <2>2, <2>4 DEF StressInv
  <2>6. attack' \in Nat \ {0}
    BY <1>2 DEF EndRollout, StressInv
  <2>7. turnResults' = <<>>
    BY <1>2 DEF EndRollout
  <2>8. ASSUME attack' \in DOMAIN Attacks
        PROVE  Len(turnResults') <= TurnsToRun'
    <3>1. Attacks[attack'] \in Nat \ {0} /\ TurnLimit \in 1..CurveTurns
      BY <2>8, StressAssumption DEF StressAssumption
    <3>2. QED
      BY <2>7, <3>1 DEF TurnsToRun, CurveTurns
  <2>9. QED
    BY <2>4, <2>5, <2>6, <2>7, <2>8 DEF StressInv, Rolled
<1>3. CASE UNCHANGED stressVars
  BY <1>3 DEF StressInv, stressVars, TurnsToRun, Rolled
<1>4. QED
  BY <1>1, <1>2, <1>3 DEF StressNext

(* What a result says of its turns.                                        *)
LEMMA RolledFacts ==
    ASSUME NEW r, Rolled(r)
    PROVE  /\ r.turns \in Seq(Statuses)
           /\ Len(r.turns) \in 1..CurveTurns
           /\ DOMAIN r.turns = 1..Len(r.turns)
           /\ r.finalStatus \in Statuses
           /\ r.finalStatus = "violation" <=> FailedTurns(r.turns) # {}
           /\ r.finalStatus = "compliant"
                 <=> \A t \in DOMAIN r.turns : r.turns[t] = "compliant"
           /\ FailedTurns(r.turns) = {} => r.firstFailureTurn = {}
           /\ FailedTurns(r.turns) # {} =>
                 \E t \in 1..CurveTurns : r.firstFailureTurn = {t}
<1>1. PICK a \in DOMAIN Attacks, turns \in Seq(Statuses) :
          Len(turns) \in 1..CurveTurns /\ r = Rollout(a, turns)
  BY DEF Rolled
<1>2. r.turns = turns
  BY <1>1 DEF Rollout
<1>3. DOMAIN turns = 1..Len(turns) /\ \A t \in DOMAIN turns : turns[t] \in Statuses
  OBVIOUS
<1>4. r.finalStatus = IF FailedTurns(turns) # {} THEN "violation"
                      ELSE IF "hedging" \in ToSet(turns) THEN "hedging"
                      ELSE "compliant"
  BY <1>1 DEF Rollout
<1>5. r.firstFailureTurn = IF FailedTurns(turns) = {} THEN {} ELSE {Min(FailedTurns(turns))}
  BY <1>1 DEF Rollout
<1>6. "hedging" \in ToSet(turns) <=> \E t \in DOMAIN turns : turns[t] = "hedging"
  BY DEF ToSet
<1>7. FailedTurns(turns) = {} <=> \A t \in DOMAIN turns : turns[t] # "violation"
  BY DEF FailedTurns
<1>8. ASSUME FailedTurns(turns) # {}
      PROVE  Min(FailedTurns(turns)) \in 1..CurveTurns
  <2>1. FailedTurns(turns) \subseteq 1..Len(turns) /\ 1..Len(turns) \subseteq 1..CurveTurns
    BY <1>1, <1>3 DEF FailedTurns, CurveTurns
  <2>2. FailedTurns(turns) \in SUBSET Nat
    BY <2>1
  <2>3. \E n \in FailedTurns(turns) : \A m \in FailedTurns(turns) : n <= m
    BY <1>8, <2>2, LeastNatural
  <2>4. Min(FailedTurns(turns)) \in FailedTurns(turns)
    BY <2>3 DEF Min
  <2>5. QED
    BY <2>1, <2>4
<1>9. r.finalStatus \in Statuses
  BY <1>4 DEF Statuses
<1>10. r.finalStatus = "violation" <=> FailedTurns(r.turns) # {}
  BY <1>2, <1>4
<1>11. r.finalStatus = "compliant"
          <=> \A t \in DOMAIN r.turns : r.turns[t] = "compliant"
  BY <1>2, <1>3, <1>4, <1>6, <1>7 DEF Statuses
<1>12. FailedTurns(r.turns) = {} => r.firstFailureTurn = {}
  BY <1>2, <1>5
<1>13. FailedTurns(r.turns) # {} =>
          \E t \in 1..CurveTurns : r.firstFailureTurn = {t}
  BY <1>2, <1>5, <1>8
<1>14. r.turns \in Seq(Statuses) /\ Len(r.turns) \in 1..CurveTurns
       /\ DOMAIN r.turns = 1..Len(r.turns)
  BY <1>1, <1>2, <1>3
<1>15. QED
  BY <1>9, <1>10, <1>11, <1>12, <1>13, <1>14

LEMMA RolloutsFinite ==
    ASSUME StressInv
    PROVE  /\ IsFiniteSet(DOMAIN rollouts)
           /\ Cardinality(DOMAIN rollouts) = Len(rollouts)
           /\ \A S \in SUBSET DOMAIN rollouts :
                 IsFiniteSet(S) /\ Cardinality(S) \in Nat
           /\ \A s : Ended(s) \in SUBSET DOMAIN rollouts
<1>1. Len(rollouts) \in Nat /\ DOMAIN rollouts = 1..Len(rollouts)
  BY DEF StressInv
<1> DEFINE n == Len(rollouts)
<1>2. n \in Nat /\ DOMAIN rollouts = 1..n
  BY <1>1
<1> HIDE DEF n
<1>3. 1 \in Int /\ n \in Int
  BY <1>2
<1>4. IsFiniteSet(1..n) /\ Cardinality(1..n) = IF 1 > n THEN 0 ELSE n - 1 + 1
  BY <1>3, FS_Interval
<1>5. Cardinality(1..n) = n
  BY <1>2, <1>4
<1>6. \A S \in SUBSET DOMAIN rollouts : IsFiniteSet(S) /\ Cardinality(S) \in Nat
  BY <1>2, <1>4, FS_Subset, FS_CardinalityType
<1>7. \A s : Ended(s) \in SUBSET DOMAIN rollouts
  BY DEF Ended
<1>8. QED
  BY <1>2, <1>4, <1>5, <1>6, <1>7 DEF n

(* Every attack succeeded, was hedged or was blocked.                      *)
LEMMA EveryAttackEnded ==
    ASSUME StressInv
    PROVE  Cardinality(Ended("violation")) + Cardinality(Ended("hedging"))
               + Cardinality(Ended("compliant")) = Len(rollouts)
<1> DEFINE v == Ended("violation")
           h == Ended("hedging")
           c == Ended("compliant")
           D == DOMAIN rollouts
<1>1. \A k \in D : rollouts[k].finalStatus \in Statuses
  BY RolledFacts DEF StressInv
<1>2. D = (v \cup h) \cup c /\ v \cap h = {} /\ (v \cup h) \cap c = {}
  BY <1>1 DEF Ended, Statuses
<1>3. \A S \in SUBSET D : IsFiniteSet(S) /\ Cardinality(S) \in Nat
  BY RolloutsFinite
<1>4. v \in SUBSET D /\ h \in SUBSET D /\ c \in SUBSET D /\ v \cup h \in SUBSET D
  BY <1>2
<1>5. Cardinality(D) = Len(rollouts)
  BY RolloutsFinite
<1> HIDE DEF v, h, c, D
<1>6. Cardinality(v \cup h) = Cardinality(v) + Cardinality(h) - Cardinality(v \cap h)
  BY <1>3, <1>4, FS_Union
<1>7. Cardinality((v \cup h) \cup c)
         = Cardinality(v \cup h) + Cardinality(c) - Cardinality((v \cup h) \cap c)
  BY <1>3, <1>4, FS_Union
<1>8. Cardinality({}) = 0
  BY FS_EmptySet
<1>9. Cardinality(v \cap h) = 0 /\ Cardinality((v \cup h) \cap c) = 0
  BY <1>2, <1>8
<1>10. Cardinality(v) \in Nat /\ Cardinality(h) \in Nat /\ Cardinality(c) \in Nat
       /\ Cardinality(v \cup h) \in Nat
  BY <1>3, <1>4
<1>11. Cardinality(D) = Cardinality(v) + Cardinality(h) + Cardinality(c)
  BY <1>2, <1>6, <1>7, <1>9, <1>10
<1>12. QED
  BY <1>5, <1>11 DEF v, h, c

(* The distribution of the first failures counts every success once.       *)
LEMMA FailuresDistributed ==
    ASSUME StressInv
    PROVE  SumFunction(FailureDistribution) = Cardinality(Ended("violation"))
<1> DEFINE S == Ended("violation")
           D == DOMAIN rollouts
           first == [k \in D |-> rollouts[k].firstFailureTurn]
           C == UNION {first[k] : k \in D}
           class == [k \in S |-> CHOOSE t \in 1..CurveTurns : first[k] = {t}]
<1>1. /\ IsFiniteSet(D) /\ IsFiniteSet(S) /\ S \in SUBSET D
  BY RolloutsFinite
<1>2. \A k \in D : /\ k \in S => \E t \in 1..CurveTurns : first[k] = {t}
                   /\ k \notin S => first[k] = {}
  BY RolledFacts DEF StressInv, Ended
<1>3. \A k \in S : class[k] \in 1..CurveTurns /\ first[k] = {class[k]}
  BY <1>1, <1>2
<1>4. IsFiniteSet(C)
  <2>1. \A k \in D : IsFiniteSet(first[k])
    <3>1. \A k \in D : first[k] = {} \/ \E t \in 1..CurveTurns : first[k] = {t}
      BY <1>2
    <3>2. IsFiniteSet({}) /\ \A t : IsFiniteSet({t})
      BY FS_EmptySet, FS_Singleton
    <3> HIDE DEF first, D
    <3> QED
      BY <3>1, <3>2
  <2> HIDE DEF first, D
  <2> QED
    BY <1>1, <2>1, UnionFinite
<1>5. \A k \in S : class[k] \in C
  BY <1>1, <1>3
<1>6. \A t \in C : FirstFailures(t) = {k \in S : class[k] = t}
  <2> SUFFICES ASSUME NEW t \in C
               PROVE  FirstFailures(t) = {k \in S : class[k] = t}
    OBVIOUS
  <2>1. ASSUME NEW k \in D, first[k] = {t} PROVE k \in S /\ class[k] = t
    <3>1. k \in S
      BY <1>2, <2>1
    <3>2. first[k] = {class[k]}
      BY <1>3, <3>1
    <3> QED
      BY <2>1, <3>1, <3>2
  <2>2. ASSUME NEW k \in S, class[k] = t PROVE k \in D /\ first[k] = {t}
    BY <1>1, <1>3, <2>2
  <2>3. FirstFailures(t) = {k \in D : first[k] = {t}}
    BY DEF FirstFailures
  <2> HIDE DEF D, S, first, class
  <2> QED
    BY <2>1, <2>2, <2>3
<1>7. FailureDistribution = [t \in C |-> Cardinality(FirstFailures(t))]
  <2>1. C = UNION {rollouts[k].firstFailureTurn : k \in DOMAIN rollouts}
    OBVIOUS
  <2> QED
    BY <2>1 DEF FailureDistribution
<1> HIDE DEF C, S, class
<1>8. FailureDistribution = [t \in C |-> Cardinality({k \in S : class[k] = t})]
  BY <1>6, <1>7
<1>9. DOMAIN FailureDistribution = C
  BY <1>7
<1>10. SumFunctionOnSet([t \in C |-> Cardinality({k \in S : class[k] = t})], C)
          = Cardinality(S)
  BY <1>1, <1>4, <1>5, CountByClass
<1>11. QED
  BY <1>8, <1>9, <1>10 DEF SumFunction, S

(* So do the categories.                                                   *)
LEMMA SuccessesDistributed ==
    ASSUME StressInv
    PROVE  SumFunction([a \in DOMAIN SuccessByCategory |-> SuccessByCategory[a][1]])
               = Cardinality(Ended("violation"))
<1> DEFINE S == Ended("violation")
           D == DOMAIN rollouts
           class == [k \in D |-> rollouts[k].attack]
           C == {class[k] : k \in D}
           g == [a \in DOMAIN SuccessByCategory |-> SuccessByCategory[a][1]]
<1>1. IsFiniteSet(D) /\ IsFiniteSet(S) /\ S \in SUBSET D
  BY RolloutsFinite
<1>2. IsFiniteSet(C)
  <2> HIDE DEF D, class
  <2> QED
    BY <1>1, ImageFinite
<1>3. DOMAIN SuccessByCategory = C
  BY DEF SuccessByCategory
<1>4. \A a \in C : {k \in D : rollouts[k].attack = a} \cap S = {k \in S : class[k] = a}
  BY <1>1
<1>5. \A a \in C : SuccessByCategory[a][1] = Cardinality({k \in S : class[k] = a})
  BY <1>4 DEF SuccessByCategory
<1>6. g = [a \in C |-> Cardinality({k \in S : class[k] = a})]
  BY <1>3, <1>5
<1>7. DOMAIN g = C
  BY <1>3
<1>8. \A k \in S : class[k] \in C
  BY <1>1
<1> HIDE DEF C, S, class, g
<1>9. SumFunctionOnSet([a \in C |-> Cardinality({k \in S : class[k] = a})], C)
         = Cardinality(S)
  BY <1>1, <1>2, <1>8, CountByClass
<1>10. QED
  BY <1>6, <1>7, <1>9 DEF SumFunction, S, g

(* A proper part of a finite set is smaller.                               *)
LEMMA PartCounts ==
    ASSUME NEW S, IsFiniteSet(S), NEW T \in SUBSET S
    PROVE  Cardinality(T) = Cardinality(S) <=> T = S
  BY FS_Subset

(* The turns of a curve: who reached one, and who complied in it.          *)
Reached(t) == {k \in DOMAIN rollouts : t \in DOMAIN rollouts[k].turns}

Complied(t) == {k \in Reached(t) : rollouts[k].turns[t] = "compliant"}

LEMMA CurveFact ==
    ASSUME StressInv
    PROVE  /\ rollouts = <<>> => DOMAIN ErosionCurve = {} /\ ErosionCurve = <<>>
           /\ rollouts # <<>> => DOMAIN ErosionCurve = 1..CurveTurns
           /\ \A t \in DOMAIN ErosionCurve :
                 ErosionCurve[t] = IF Reached(t) = {} THEN <<1, 1>>
                                   ELSE <<Cardinality(Complied(t)), Cardinality(Reached(t))>>
<1>1. rollouts = <<>> => DOMAIN ErosionCurve = {} /\ ErosionCurve = <<>>
  BY DEF ErosionCurve
<1>2. rollouts # <<>> =>
        ErosionCurve = [t \in 1..CurveTurns |->
                          IF Reached(t) = {} THEN <<1, 1>>
                          ELSE <<Cardinality(Complied(t)), Cardinality(Reached(t))>>]
  BY DEF ErosionCurve, Reached, Complied
<1>3. QED
  BY <1>1, <1>2

LEMMA CurveAtTop ==
    ASSUME StressInv
    PROVE  (\A t \in DOMAIN ErosionCurve : ErosionCurve[t][1] = ErosionCurve[t][2])
               <=> Ended("compliant") = DOMAIN rollouts
<1>1. CASE rollouts = <<>>
  <2>1. DOMAIN ErosionCurve = {}
    BY <1>1, CurveFact
  <2>2. DOMAIN rollouts = {} /\ Ended("compliant") = {}
    BY <1>1 DEF Ended
  <2>3. QED
    BY <2>1, <2>2
<1>2. CASE rollouts # <<>>
  <2>1. DOMAIN ErosionCurve = 1..CurveTurns
    BY <1>2, CurveFact
  <2>2. \A t : /\ Reached(t) \in SUBSET DOMAIN rollouts
               /\ Complied(t) \in SUBSET Reached(t)
               /\ IsFiniteSet(Reached(t))
    BY RolloutsFinite DEF Reached, Complied
  <2>3. \A t \in 1..CurveTurns :
           ErosionCurve[t][1] = ErosionCurve[t][2] <=> Complied(t) = Reached(t)
    <3> SUFFICES ASSUME NEW t \in 1..CurveTurns
                 PROVE  ErosionCurve[t][1] = ErosionCurve[t][2] <=> Complied(t) = Reached(t)
      OBVIOUS
    <3>1. ErosionCurve[t] = IF Reached(t) = {} THEN <<1, 1>>
                            ELSE <<Cardinality(Complied(t)), Cardinality(Reached(t))>>
      BY <2>1, CurveFact
    <3>2. Cardinality(Complied(t)) = Cardinality(Reached(t)) <=> Complied(t) = Reached(t)
      BY <2>2, PartCounts
    <3>3. Reached(t) = {} => Complied(t) = Reached(t)
      BY <2>2
    <3> QED
      BY <3>1, <3>2, <3>3
  <2>4. ASSUME NEW k \in DOMAIN rollouts, rollouts[k].finalStatus # "compliant"
        PROVE  \E t \in 1..CurveTurns : Complied(t) # Reached(t)
    <3>1. PICK t \in DOMAIN rollouts[k].turns : rollouts[k].turns[t] # "compliant"
      BY <2>4, RolledFacts DEF StressInv
    <3>2. t \in 1..CurveTurns
      <4>1. Rolled(rollouts[k])
        BY DEF StressInv
      <4>2. /\ DOMAIN rollouts[k].turns = 1..Len(rollouts[k].turns)
            /\ Len(rollouts[k].turns) \in 1..CurveTurns
        BY <4>1, RolledFacts
      <4> DEFINE n == Len(rollouts[k].turns)
      <4>3. t \in 1..n /\ n \in 1..CurveTurns
        BY <3>1, <4>2
      <4> HIDE DEF n
      <4> QED
        BY <4>3 DEF CurveTurns
    <3>3. k \in Reached(t) /\ k \notin Complied(t)
      BY <3>1 DEF Reached, Complied
    <3> QED
      BY <3>2, <3>3
  <2>5. ASSUME \A k \in DOMAIN rollouts : rollouts[k].finalStatus = "compliant"
        PROVE  \A t : Complied(t) = Reached(t)
    BY <2>5, RolledFacts DEF StressInv, Complied, Reached
  <2>6. Ended("compliant") = DOMAIN rollouts
           <=> \A k \in DOMAIN rollouts : rollouts[k].finalStatus = "compliant"
    BY DEF Ended
  <2>7. QED
    BY <2>1, <2>3, <2>4, <2>5, <2>6
<1>3. QED
  BY <1>1, <1>2

LEMMA SumsAccounted == StressInv => StressAccounted
  BY EveryAttackEnded, FailuresDistributed, SuccessesDistributed, CurveAtTop
     DEF StressAccounted

(* Every rate of the curve is a fraction of something.                     *)
LEMMA CurveRates ==
    ASSUME StressInv, NEW t \in DOMAIN ErosionCurve
    PROVE  /\ ErosionCurve[t][1] \in Nat
           /\ ErosionCurve[t][2] \in Nat \ {0}
<1>1. /\ Reached(t) \in SUBSET DOMAIN rollouts
      /\ Complied(t) \in SUBSET DOMAIN rollouts
  BY DEF Reached, Complied
<1>2. /\ IsFiniteSet(Reached(t))
      /\ Cardinality(Reached(t)) \in Nat
      /\ Cardinality(Complied(t)) \in Nat
  BY <1>1, RolloutsFinite
<1>3. Reached(t) # {} => Cardinality(Reached(t)) # 0
  BY <1>2, FS_EmptySet
<1>4. ErosionCurve[t] = IF Reached(t) = {} THEN <<1, 1>>
                        ELSE <<Cardinality(Complied(t)), Cardinality(Reached(t))>>
  BY CurveFact
<1>5. QED
  BY <1>2, <1>3, <1>4

(* Between a rate of a half or more and one below, the line meets the half *)
(* in less than a turn.                                                    *)
LEMMA CrossesHalf ==
    ASSUME NEW a \in Nat, NEW b \in Nat \ {0}, NEW c \in Nat, NEW d \in Nat \ {0},
           2 * a >= b, 2 * c < d
    PROVE  LET share == <<(2 * a - b) * d, 2 * (a * d - c * b)>>
           IN  share[2] > 0 /\ 0 <= share[1] /\ share[1] < share[2]
<1>1. a * d \in Nat /\ b * d \in Nat /\ c * b \in Nat
  OBVIOUS
<1>2. (2 * a - b) * d = 2 * (a * d) - b * d
  OBVIOUS
<1>3. (2 * a - b) * d >= 0
  <2>1. 2 * a - b \in Nat
    OBVIOUS
  <2> DEFINE x == 2 * a - b
  <2>2. x \in Nat /\ d \in Nat
    BY <2>1
  <2> HIDE DEF x
  <2>3. x * d >= 0
    BY <2>2
  <2> QED
    BY <2>3 DEF x
<1>4. b * d - 2 * (c * b) > 0
  <2> DEFINE x == d - 2 * c
  <2>1. x \in Nat /\ x >= 1 /\ b \in Nat /\ b >= 1
    OBVIOUS
  <2>2. b * x = b * d - 2 * (c * b)
    OBVIOUS
  <2> HIDE DEF x
  <2>3. b * x >= 1
    BY <2>1
  <2> QED
    BY <1>1, <2>2, <2>3
<1> DEFINE ad == a * d
           bd == b * d
           cb == c * b
<1>5. ad \in Nat /\ bd \in Nat /\ cb \in Nat
  BY <1>1
<1>6. (2 * a - b) * d = 2 * ad - bd /\ 2 * ad - bd >= 0 /\ bd - 2 * cb > 0
  BY <1>2, <1>3, <1>4
<1> HIDE DEF ad, bd, cb
<1>7. 2 * (ad - cb) > 0 /\ 2 * ad - bd < 2 * (ad - cb)
  BY <1>5, <1>6
<1>8. QED
  BY <1>6, <1>7 DEF ad, cb

LEMMA HalfLifeSound ==
    ASSUME StressInv
    PROVE  LET share == HalfLife(ErosionCurve).part
           IN  share[2] > 0 /\ 0 <= share[1] /\ share[1] < share[2]
<1> DEFINE curve == ErosionCurve
           Sound(share) == share[2] > 0 /\ 0 <= share[1] /\ share[1] < share[2]
<1>1. CASE BelowHalf(curve) = {}
  <2>1. HalfLife(curve).part = <<0, 1>>
    BY <1>1 DEF HalfLife
  <2>2. QED
    BY <2>1
<1>2. CASE BelowHalf(curve) # {}
  <2> DEFINE t == Min(BelowHalf(curve))
  <2>1. DOMAIN curve \in SUBSET (1..CurveTurns)
    BY CurveFact
  <2>2. BelowHalf(curve) \in SUBSET Nat
    BY <2>1 DEF BelowHalf, CurveTurns
  <2>3. \E n \in BelowHalf(curve) : \A m \in BelowHalf(curve) : n <= m
    BY <1>2, <2>2, LeastNatural
  <2>4. t \in BelowHalf(curve) /\ \A m \in BelowHalf(curve) : t <= m
    BY <2>3 DEF Min
  <2>5. t \in 1..CurveTurns /\ t \in DOMAIN curve /\ DOMAIN curve = 1..CurveTurns
    <3>1. t \in DOMAIN curve
      BY <2>4 DEF BelowHalf
    <3>2. DOMAIN curve = 1..CurveTurns
      BY <3>1, CurveFact
    <3> QED
      BY <3>1, <3>2
  <2>6. CASE t = 1
    <3>1. HalfLife(curve).part = <<0, 1>>
      BY <1>2, <2>6 DEF HalfLife
    <3>2. QED
      BY <3>1
  <2>7. CASE t # 1
    <3> DEFINE p == curve[t - 1]
               q == curve[t]
    <3>1. HalfLife(curve).part = <<(2 * p[1] - p[2]) * q[2],
                                   2 * (p[1] * q[2] - q[1] * p[2])>>
      BY <1>2, <2>7 DEF HalfLife
    <3>2. t - 1 \in DOMAIN curve
      BY <2>5, <2>7 DEF CurveTurns
    <3>3. t - 1 \notin BelowHalf(curve)
      BY <2>4, <2>5 DEF CurveTurns
    <3>4. /\ p[1] \in Nat /\ p[2] \in Nat \ {0}
          /\ q[1] \in Nat /\ q[2] \in Nat \ {0}
      BY <2>5, <3>2, CurveRates
    <3>5. ~(2 * p[1] < p[2]) /\ 2 * q[1] < q[2]
      BY <2>4, <3>2, <3>3 DEF BelowHalf
    <3> HIDE DEF p, q, curve, t
    <3>6. 2 * p[1] >= p[2]
      BY <3>4, <3>5
    <3>7. Sound(<<(2 * p[1] - p[2]) * q[2], 2 * (p[1] * q[2] - q[1] * p[2])>>)
      BY <3>4, <3>5, <3>6, CrossesHalf
    <3> QED
      BY <3>1, <3>7 DEF curve
  <2>8. QED
    BY <2>6, <2>7
<1>3. QED
  BY <1>1, <1>2

LEMMA DegradationIsSound == StressInv => DegradationSound
  BY HalfLifeSound DEF DegradationSound

-----------------------------------------------------------------------------
(***************************************************************************)
(* The pluggable safeguards (SafeguardRuntime).                            *)
(***************************************************************************)
GuardNext == RuntimeNext \/ ComposerNext \/ PolicyNext \/ DetectorNext

LayerNames == {"pre_action", "mid_trajectory", "post_action"}

GuardAnswers == [action : DOMAIN ActionPriority, confidence : Nat]

IsComposer(c) == c \in [rule : AggregationRules, layers : [LayerNames -> Seq(GuardAnswers)]]

(* Hooks and layers hold what may be added to them, and the thresholds of  *)
(* the escalation policy only ever shrink.                                 *)
GuardInv ==
    /\ runtimeHooks \in [HookPoints -> Seq(Hooks)]
    /\ IsComposer(composer)
    /\ escalation \in [drift : Nat, uncertainty : Nat] /\ escalation.drift <= 500000
    /\ catalogue \in Seq(Policies)
    /\ AuditHonest

LEMMA LayersAre == ToSet(GuardLayers) = LayerNames
  BY DEF ToSet, GuardLayers, LayerNames

(* The favoured is one of those said, and none weighs more.                *)
LEMMA FavouredIsGreatest ==
  ASSUME NEW said, NEW n \in Nat \ {0}, DOMAIN said = 1..n, NEW weight,
         \A i \in 1..n : weight[said[i]] \in Nat
  PROVE  \E i \in 1..n : /\ Favoured(said, weight) = said[i]
                         /\ \A j \in 1..n : weight[said[j]] <= weight[said[i]]
<1> DEFINE f == [i \in 1..n |-> weight[said[i]]]
           Greatest == {i \in 1..n : \A j \in 1..n : weight[said[j]] <= weight[said[i]]}
<1>1. IsFiniteSet(1..n)
  BY FS_Interval
<1>2. \A i \in 1..n : f[i] = weight[said[i]] /\ f[i] \in Nat
  OBVIOUS
<1> HIDE DEF f
<1>3. PICK b \in {0} \cup {f[i] : i \in 1..n} : 0 <= b /\ \A i \in 1..n : f[i] <= b
  BY <1>1, <1>2, GreatestValue DEF IntValued
<1>4. \E i \in 1..n : f[i] = b
  <2>1. 1 \in 1..n
    OBVIOUS
  <2>2. b = 0 => f[1] = b
    BY <1>2, <1>3, <2>1
  <2> QED
    BY <1>3, <2>1, <2>2
<1>5. PICK i \in 1..n : f[i] = b
  BY <1>4
<1>6. i \in Greatest /\ Greatest \in SUBSET Nat
  BY <1>2, <1>3, <1>5
<1>7. Favoured(said, weight) = said[Min(Greatest)]
  BY DEF Favoured
<1>8. Min(Greatest) \in Greatest
  <2> HIDE DEF Greatest
  <2>1. \E k \in Greatest : \A m \in Greatest : k <= m
    BY <1>6, LeastNatural
  <2> QED
    BY <2>1 DEF Min
<1> QED
  BY <1>7, <1>8

(* What the hooks of a point decide is known, and one more hook decides    *)
(* nothing laxer.                                                          *)
LEMMA DecisionKnown ==
  ASSUME NEW h \in Hooks, NEW s
  PROVE  DecisionPriority[HookDecision(h, s)] \in Nat
<1>1. h.kind = "plugin" => h.decision \in DOMAIN DecisionPriority
  BY GuardAssumption
<1>2. HookDecision(h, s) \in {"hard_stop", "human_review", "soft_stop", "log_only", "proceed"}
  BY <1>1 DEF HookDecision, DecisionPriority
<1> QED
  BY <1>2 DEF DecisionPriority

LEMMA StepDecisionIsWorst ==
  ASSUME NEW registered \in Seq(Hooks), NEW s
  PROVE  /\ registered = <<>> => DecisionPriority[StepDecision(registered, s)] = 0
         /\ registered # <<>> =>
              \E i \in DOMAIN registered :
                 /\ StepDecision(registered, s) = HookDecision(registered[i], s)
                 /\ \A j \in DOMAIN registered :
                       DecisionPriority[HookDecision(registered[j], s)]
                         <= DecisionPriority[StepDecision(registered, s)]
<1>1. CASE registered = <<>>
  BY <1>1 DEF StepDecision, DecisionPriority
<1>2. CASE registered # <<>>
  <2> DEFINE n == Len(registered)
             said == [i \in DOMAIN registered |-> HookDecision(registered[i], s)]
  <2>1. n \in Nat \ {0} /\ DOMAIN registered = 1..n /\ \A i \in 1..n : registered[i] \in Hooks
    BY <1>2
  <2>2. DOMAIN said = 1..n /\ \A i \in 1..n : said[i] = HookDecision(registered[i], s)
    BY <2>1
  <2>3. StepDecision(registered, s) = Favoured(said, DecisionPriority)
    BY <1>2 DEF StepDecision
  <2> HIDE DEF said, n
  <2>4. \A i \in 1..n : DecisionPriority[said[i]] \in Nat
    BY <2>1, <2>2, DecisionKnown
  <2>5. PICK i \in 1..n :
           /\ Favoured(said, DecisionPriority) = said[i]
           /\ \A j \in 1..n : DecisionPriority[said[j]] <= DecisionPriority[said[i]]
    BY <2>1, <2>2, <2>4, FavouredIsGreatest
  <2> QED
    BY <1>2, <2>1, <2>2, <2>3, <2>5
<1> QED
  BY <1>1, <1>2

LEMMA HooksTighten ==
  ASSUME NEW registered \in Seq(Hooks), NEW h \in Hooks, NEW s
  PROVE  DecisionPriority[StepDecision(registered, s)]
           <= DecisionPriority[StepDecision(Append(registered, h), s)]
<1> DEFINE more == Append(registered, h)
<1>1. more \in Seq(Hooks) /\ more # <<>> /\ DOMAIN registered \subseteq DOMAIN more
  OBVIOUS
<1>2. \A i \in DOMAIN registered : more[i] = registered[i]
  OBVIOUS
<1>3. \A i \in DOMAIN more : more[i] \in Hooks
  BY <1>1
<1> HIDE DEF more
<1>4. PICK i \in DOMAIN more :
         /\ StepDecision(more, s) = HookDecision(more[i], s)
         /\ \A j \in DOMAIN more : DecisionPriority[HookDecision(more[j], s)]
                                     <= DecisionPriority[StepDecision(more, s)]
  BY <1>1, StepDecisionIsWorst
<1>5. DecisionPriority[StepDecision(more, s)] \in Nat
  BY <1>3, <1>4, DecisionKnown
<1>6. DecisionPriority[StepDecision(registered, s)] <= DecisionPriority[StepDecision(more, s)]
  <2>1. CASE registered = <<>>
    <3>1. DecisionPriority[StepDecision(registered, s)] = 0
      BY <2>1, StepDecisionIsWorst
    <3> QED
      BY <1>5, <3>1
  <2>2. CASE registered # <<>>
    <3>1. PICK k \in DOMAIN registered :
             StepDecision(registered, s) = HookDecision(registered[k], s)
      BY <2>2, StepDecisionIsWorst
    <3>2. HookDecision(registered[k], s) = HookDecision(more[k], s) /\ k \in DOMAIN more
      BY <1>1, <1>2
    <3> QED
      BY <1>4, <3>1, <3>2
  <2> QED
    BY <2>1, <2>2
<1> QED
  BY <1>6 DEF more

-----------------------------------------------------------------------------
(* The composer answers with one of the answers of its layers, whatever    *)
(* its rule, and by default with the most restrictive of them.             *)
LEMMA ResultsType ==
  ASSUME NEW c, IsComposer(c)
  PROVE  /\ Results(c) \in Seq(GuardAnswers)
         /\ \A i \in DOMAIN Results(c) : Results(c)[i].action \in DOMAIN ActionPriority
                                        /\ Results(c)[i].confidence \in Nat
<1>1. \A k \in 1..3 : c.layers[GuardLayers[k]] \in Seq(GuardAnswers)
  BY DEF IsComposer, GuardLayers, LayerNames
<1>2. Results(c) \in Seq(GuardAnswers)
  <2>1. /\ c.layers[GuardLayers[1]] \in Seq(GuardAnswers)
        /\ c.layers[GuardLayers[2]] \in Seq(GuardAnswers)
        /\ c.layers[GuardLayers[3]] \in Seq(GuardAnswers)
    BY <1>1
  <2> QED
    BY <2>1 DEF Results
<1>3. \A i \in DOMAIN Results(c) : Results(c)[i] \in GuardAnswers
  BY <1>2
<1> QED
  BY <1>2, <1>3 DEF GuardAnswers

LEMMA WeightType ==
  ASSUME NEW c, IsComposer(c), NEW a \in DOMAIN ActionPriority
  PROVE  /\ Weight(c)[a] \in Nat
         /\ c.rule = "most_restrictive" => Weight(c)[a] = ActionPriority[a]
<1> DEFINE S == Saying(c, a)
           f == [i \in S |-> Results(c)[i].confidence]
<1>1. IsFiniteSet(S)
  <2>1. DOMAIN Results(c) = 1..Len(Results(c)) /\ Len(Results(c)) \in Nat
    BY ResultsType
  <2>2. IsFiniteSet(DOMAIN Results(c))
    BY <2>1, FS_Interval
  <2>3. S \subseteq DOMAIN Results(c)
    BY DEF Saying
  <2> QED
    BY <2>2, <2>3, FS_Subset
<1>2. \A i \in S : f[i] \in Nat
  BY ResultsType DEF Saying
<1>3. DOMAIN f = S
  OBVIOUS
<1>4. Weight(c)[a] = CASE c.rule = "most_restrictive" -> ActionPriority[a]
          [] c.rule = "majority_vote"    -> Cardinality(Saying(c, a))
          [] c.rule = "weighted"         -> SumFunction(f)
  BY DEF Weight
<1> HIDE DEF S, f
<1>5. SumFunction(f) \in Nat
  BY <1>1, <1>2, <1>3, SumOfNaturals DEF SumFunction
<1>6. Cardinality(Saying(c, a)) \in Nat
  BY <1>1, FS_CardinalityType DEF S
<1>7. ActionPriority[a] \in Nat
  BY DEF ActionPriority
<1>8. c.rule \in {"most_restrictive", "majority_vote", "weighted"}
  BY DEF IsComposer, AggregationRules
<1> QED
  BY <1>4, <1>5, <1>6, <1>7, <1>8

LEMMA ComposedIsOne ==
  ASSUME NEW c, IsComposer(c), Results(c) # <<>>
  PROVE  \E i \in DOMAIN Results(c) :
            /\ Composed(c) = Results(c)[i].action
            /\ c.rule = "most_restrictive" =>
                  \A j \in DOMAIN Results(c) :
                     ActionPriority[Results(c)[j].action] <= ActionPriority[Composed(c)]
<1> DEFINE r == Results(c)
           n == Len(r)
           said == [i \in DOMAIN r |-> r[i].action]
<1>1. n \in Nat \ {0} /\ DOMAIN r = 1..n
  BY ResultsType
<1>2. \A i \in 1..n : r[i].action \in DOMAIN ActionPriority
  BY <1>1, ResultsType
<1>3. DOMAIN said = 1..n /\ \A i \in 1..n : said[i] = r[i].action
  BY <1>1
<1>4. Composed(c) = Favoured(said, Weight(c))
  BY DEF Composed
<1> HIDE DEF said, n
<1>5. \A i \in 1..n : Weight(c)[said[i]] \in Nat
  BY <1>2, <1>3, WeightType
<1>6. PICK i \in 1..n :
         /\ Favoured(said, Weight(c)) = said[i]
         /\ \A j \in 1..n : Weight(c)[said[j]] <= Weight(c)[said[i]]
  BY <1>1, <1>3, <1>5, FavouredIsGreatest
<1>7. c.rule = "most_restrictive" =>
         \A j \in 1..n : ActionPriority[r[j].action] <= ActionPriority[r[i].action]
  <2> SUFFICES ASSUME c.rule = "most_restrictive", NEW j \in 1..n
               PROVE  ActionPriority[r[j].action] <= ActionPriority[r[i].action]
    OBVIOUS
  <2>1. /\ Weight(c)[said[j]] = ActionPriority[said[j]]
        /\ Weight(c)[said[i]] = ActionPriority[said[i]]
    BY <1>2, <1>3, WeightType
  <2> QED
    BY <1>3, <1>6, <2>1
<1> QED
  BY <1>1, <1>3, <1>4, <1>6, <1>7

LEMMA ComposerTightens ==
  ASSUME NEW c, IsComposer(c), NEW d, IsComposer(d), Results(c) # <<>>,
         d.rule = "most_restrictive",
         \A i \in DOMAIN Results(c) : \E j \in DOMAIN Results(d) : Results(d)[j] = Results(c)[i]
  PROVE  ActionPriority[Composed(c)] <= ActionPriority[Composed(d)]
<1>1. PICK i \in DOMAIN Results(c) : Composed(c) = Results(c)[i].action
  BY ComposedIsOne
<1>2. PICK j \in DOMAIN Results(d) : Results(d)[j] = Results(c)[i]
  OBVIOUS
<1>3. Results(d) # <<>>
  BY <1>2
<1>4. ActionPriority[Results(d)[j].action] <= ActionPriority[Composed(d)]
  BY <1>3, ComposedIsOne
<1> QED
  BY <1>1, <1>2, <1>4

(* A safeguard that is added leaves the answers that there were.           *)
LEMMA AnswersStay ==
  ASSUME NEW c, IsComposer(c), NEW l \in LayerNames, NEW a \in GuardAnswers
  PROVE  LET d == [c EXCEPT !.layers[l] = Append(@, a)]
         IN  /\ IsComposer(d) /\ d.rule = c.rule
             /\ \A i \in DOMAIN Results(c) :
                   \E j \in DOMAIN Results(d) : Results(d)[j] = Results(c)[i]
<1> DEFINE d == [c EXCEPT !.layers[l] = Append(@, a)]
           x == c.layers["pre_action"]
           y == c.layers["mid_trajectory"]
           z == c.layers["post_action"]
           u == d.layers["pre_action"]
           v == d.layers["mid_trajectory"]
           w == d.layers["post_action"]
<1>1. IsComposer(d) /\ d.rule = c.rule
  <2> DEFINE layers == [c.layers EXCEPT ![l] = Append(c.layers[l], a)]
  <2>1. c.layers \in [LayerNames -> Seq(GuardAnswers)] /\ c.rule \in AggregationRules
    BY DEF IsComposer
  <2>2. Append(c.layers[l], a) \in Seq(GuardAnswers)
    BY <2>1
  <2>3. layers \in [LayerNames -> Seq(GuardAnswers)]
    BY <2>1, <2>2
  <2>4. d = [c EXCEPT !.layers = layers]
    OBVIOUS
  <2> HIDE DEF layers, d
  <2> QED
    BY <2>1, <2>3, <2>4 DEF IsComposer
<1>2. Results(c) = x \o y \o z /\ Results(d) = u \o v \o w
  BY DEF Results, GuardLayers
<1>3. /\ x \in Seq(GuardAnswers) /\ y \in Seq(GuardAnswers) /\ z \in Seq(GuardAnswers)
      /\ u \in Seq(GuardAnswers) /\ v \in Seq(GuardAnswers) /\ w \in Seq(GuardAnswers)
  BY <1>1 DEF IsComposer, LayerNames
<1>4. /\ u = x \/ u = Append(x, a)
      /\ v = y \/ v = Append(y, a)
      /\ w = z \/ w = Append(z, a)
  BY DEF IsComposer, LayerNames
<1> HIDE DEF d, x, y, z, u, v, w
<1>5. ASSUME NEW i \in DOMAIN (x \o y \o z)
      PROVE  \E j \in DOMAIN (u \o v \o w) : (u \o v \o w)[j] = (x \o y \o z)[i]
  <2> DEFINE m == Len(x)
             n == Len(y)
  <2>1. m \in Nat /\ n \in Nat /\ Len(z) \in Nat
    BY <1>3
  <2>2. /\ Len(u) \in {m, m + 1} /\ Len(v) \in {n, n + 1} /\ Len(w) \in {Len(z), Len(z) + 1}
        /\ \A k \in 1..m : u[k] = x[k]
        /\ \A k \in 1..n : v[k] = y[k]
        /\ \A k \in 1..Len(z) : w[k] = z[k]
    <3>1. ASSUME NEW p \in Seq(GuardAnswers), NEW q, q = p \/ q = Append(p, a)
          PROVE  Len(q) \in {Len(p), Len(p) + 1} /\ \A k \in 1..Len(p) : q[k] = p[k]
      <4>1. Len(Append(p, a)) = Len(p) + 1 /\ \A k \in 1..Len(p) : Append(p, a)[k] = p[k]
        OBVIOUS
      <4> QED
        BY <3>1, <4>1
    <3>2. Len(u) \in {Len(x), Len(x) + 1} /\ \A k \in 1..Len(x) : u[k] = x[k]
      BY <1>3, <1>4, <3>1
    <3>3. Len(v) \in {Len(y), Len(y) + 1} /\ \A k \in 1..Len(y) : v[k] = y[k]
      BY <1>3, <1>4, <3>1
    <3>4. Len(w) \in {Len(z), Len(z) + 1} /\ \A k \in 1..Len(z) : w[k] = z[k]
      BY <1>3, <1>4, <3>1
    <3> QED
      BY <3>2, <3>3, <3>4
  <2>3. i \in 1..(m + n + Len(z))
    BY <1>3
  <2>4. (x \o y \o z)[i] = IF i <= m THEN x[i] ELSE IF i <= m + n THEN y[i - m]
                           ELSE z[i - (m + n)]
    BY <1>3, <2>3
  <2>5. \A k \in 1..(Len(u) + Len(v) + Len(w)) :
           /\ k \in DOMAIN (u \o v \o w)
           /\ (u \o v \o w)[k] = IF k <= Len(u) THEN u[k]
                                 ELSE IF k <= Len(u) + Len(v) THEN v[k - Len(u)]
                                 ELSE w[k - (Len(u) + Len(v))]
    BY <1>3
  <2>6. CASE i <= m
    <3>1. i \in 1..(Len(u) + Len(v) + Len(w)) /\ i <= Len(u) /\ i \in 1..m
      BY <2>1, <2>2, <2>3, <2>6
    <3>2. (u \o v \o w)[i] = u[i] /\ (x \o y \o z)[i] = x[i]
      BY <2>4, <2>5, <2>6, <3>1
    <3> QED
      BY <2>2, <2>5, <3>1, <3>2
  <2>7. CASE i > m /\ i <= m + n
    <3> DEFINE k == i - m
               j == Len(u) + k
    <3>1. k \in 1..n /\ j \in 1..(Len(u) + Len(v) + Len(w)) /\ ~(j <= Len(u))
          /\ j <= Len(u) + Len(v) /\ j - Len(u) = k
      BY <2>1, <2>2, <2>3, <2>7
    <3>2. (u \o v \o w)[j] = v[k] /\ (x \o y \o z)[i] = y[k]
      BY <2>1, <2>3, <2>4, <2>5, <2>7, <3>1
    <3> QED
      BY <2>2, <2>5, <3>1, <3>2
  <2>8. CASE i > m + n
    <3> DEFINE k == i - (m + n)
               j == Len(u) + Len(v) + k
    <3>1. k \in 1..Len(z) /\ j \in 1..(Len(u) + Len(v) + Len(w)) /\ ~(j <= Len(u))
          /\ ~(j <= Len(u) + Len(v)) /\ j - (Len(u) + Len(v)) = k
      BY <2>1, <2>2, <2>3, <2>8
    <3>2. (u \o v \o w)[j] = w[k] /\ (x \o y \o z)[i] = z[k]
      BY <2>1, <2>3, <2>4, <2>5, <2>8, <3>1
    <3> QED
      BY <2>2, <2>5, <3>1, <3>2
  <2> QED
    BY <2>1, <2>3, <2>6, <2>7, <2>8
<1> QED
  BY <1>1, <1>2, <1>5 DEF d

-----------------------------------------------------------------------------
(* The escalation policy: a lower threshold never lets more pass.          *)
LEMMA RanksAre ==
  ASSUME NEW e, NEW s
  PROVE  EscalationRank(e, s) =
           CASE Escalates(e, s) = "none" -> 1
             [] Escalates(e, s) = "warn" -> 2
             [] Escalates(e, s) = "clarify" -> 3
             [] Escalates(e, s) = "soft_stop" -> 4
             [] Escalates(e, s) = "human_review" -> 5
             [] Escalates(e, s) = "hard_stop" -> 6
<1>1. Escalates(e, s) \in {"none", "warn", "clarify", "soft_stop", "human_review", "hard_stop"}
  BY DEF Escalates
<1>2. DOMAIN EscalationOrder = 1..6
  BY DEF EscalationOrder
<1>3. /\ EscalationOrder[1] = "none" /\ EscalationOrder[2] = "warn"
      /\ EscalationOrder[3] = "clarify" /\ EscalationOrder[4] = "soft_stop"
      /\ EscalationOrder[5] = "human_review" /\ EscalationOrder[6] = "hard_stop"
  BY DEF EscalationOrder
<1> DEFINE level == Escalates(e, s)
           order == EscalationOrder
<1>4. EscalationRank(e, s) = CHOOSE k \in 1..6 : order[k] = level
  BY <1>2 DEF EscalationRank
<1> HIDE DEF level, order
<1>5. \A k \in 1..6 : k \in {1, 2, 3, 4, 5, 6}
  OBVIOUS
<1>6. \E k \in 1..6 : order[k] = level
  BY <1>1, <1>3 DEF level, order
<1>7. EscalationRank(e, s) \in 1..6 /\ order[EscalationRank(e, s)] = level
  BY <1>4, <1>6
<1> QED
  BY <1>1, <1>3, <1>5, <1>7 DEF level, order

LEMMA EscalationTightens ==
  ASSUME NEW e, NEW f, NEW s \in Signals,
         e.drift \in Nat, f.drift \in Nat, f.drift <= e.drift,
         e.uncertainty \in Nat, f.uncertainty \in Nat, f.uncertainty <= e.uncertainty
  PROVE  EscalationRank(e, s) <= EscalationRank(f, s)
<1>1. s.drift \in Nat /\ s.uncertainty \in Nat
  BY GuardAssumption
<1>2. /\ 10000 * s.drift >= e.drift => 10000 * s.drift >= f.drift
      /\ 10000 * s.uncertainty >= e.uncertainty => 10000 * s.uncertainty >= f.uncertainty
  BY <1>1
<1> QED
  BY <1>2, RanksAre DEF Escalates

LEMMA ThresholdsShrink ==
  ASSUME NEW t \in Nat, NEW risk \in 0..100
  PROVE  (t * (1000 - 3 * risk)) \div 1000 \in 0..t
<1> DEFINE r == 1000 - 3 * risk
           p == t * r
<1>1. r \in 0..1000
  OBVIOUS
<1>2. p \in Nat /\ p <= t * 1000
  BY <1>1
<1> HIDE DEF p, r
<1>3. p \div 1000 \in 0..t
  BY <1>2
<1> QED
  BY <1>3 DEF p, r

-----------------------------------------------------------------------------
(* The default rules are evaluated in the order of their priorities, each  *)
(* of them once.                                                           *)
LEMMA DefaultIs ==
    /\ DOMAIN DefaultPolicy = 1..4
    /\ DefaultPolicy[1] = [when |-> <<Above("drift_score", 50)>>, action |-> "hard_stop",
                           priority |-> 10]
    /\ DefaultPolicy[2] = [when |-> <<Above("drift_score", 30)>>, action |-> "soft_stop",
                           priority |-> 5]
    /\ DefaultPolicy[3] = [when |-> <<Above("violation_count", 0)>>, action |-> "hard_stop",
                           priority |-> 15]
    /\ DefaultPolicy[4].action = "soft_stop" /\ DefaultPolicy[4].priority = 8
  BY DEF DefaultPolicy

LEMMA DefaultSorted ==
    LET sorted == ByPriority(DefaultPolicy)
    IN  /\ DOMAIN sorted \subseteq Nat
        /\ \A k \in DOMAIN sorted : \E i \in 1..4 : sorted[k] = DefaultPolicy[i]
        /\ \A k, l \in DOMAIN sorted : k < l => sorted[l].priority <= sorted[k].priority
<1> DEFINE file == DefaultPolicy
           key == [i \in DOMAIN file |-> -file[i].priority]
           order == ByKey(key)
           n == Cardinality(DOMAIN key)
           sorted == ByPriority(DefaultPolicy)
<1>1. DOMAIN key = 1..4 /\ \A i \in 1..4 : key[i] = -file[i].priority
  BY DefaultIs
<1>2. \A i \in 1..4 : file[i].priority \in Int
  <2>1. \A i \in 1..4 : i = 1 \/ i = 2 \/ i = 3 \/ i = 4
    OBVIOUS
  <2>2. /\ file[1].priority \in Int /\ file[2].priority \in Int
        /\ file[3].priority \in Int /\ file[4].priority \in Int
    BY DefaultIs
  <2> HIDE DEF file
  <2> QED
    BY <2>1, <2>2
<1>3. sorted = [k \in DOMAIN order |-> file[order[k]]]
  BY DEF ByPriority, Sorted
<1> HIDE DEF key, file, sorted
<1>4. IsFiniteSet(DOMAIN key) /\ DOMAIN key \subseteq Int /\ \A i \in DOMAIN key : key[i] \in Int
  <2>1. IsFiniteSet(1..4)
    <3>1. 1 \in Int /\ 4 \in Int
      OBVIOUS
    <3> QED
      BY <3>1, FS_Interval, Zenon
  <2>2. \A i \in 1..4 : key[i] \in Int
    BY <1>1, <1>2
  <2> QED
    BY <1>1, <2>1, <2>2
<1>5. /\ n \in Nat /\ order \in [1..n -> 1..4]
      /\ \A i, j \in 1..n : i < j <=>
            \/ key[order[i]] < key[order[j]]
            \/ key[order[i]] = key[order[j]] /\ order[i] < order[j]
  BY <1>1, <1>4, ByKeySorts
<1> HIDE DEF order, n
<1>6. DOMAIN sorted = 1..n /\ \A k \in 1..n : sorted[k] = file[order[k]] /\ order[k] \in 1..4
  BY <1>3, <1>5
<1>7. ASSUME NEW k \in 1..n, NEW l \in 1..n, k < l
      PROVE  sorted[l].priority <= sorted[k].priority
  <2>1. key[order[k]] <= key[order[l]]
    <3>1. key[order[k]] \in Int /\ key[order[l]] \in Int
      BY <1>1, <1>4, <1>6
    <3> QED
      BY <1>5, <1>7, <3>1
  <2>2. key[order[k]] = -file[order[k]].priority /\ key[order[l]] = -file[order[l]].priority
    BY <1>1, <1>6
  <2>3. file[order[k]].priority \in Int /\ file[order[l]].priority \in Int
    BY <1>2, <1>6
  <2>4. file[order[l]].priority <= file[order[k]].priority
    BY <2>1, <2>2, <2>3
  <2> QED
    BY <1>6, <2>4
<1>8. DOMAIN sorted \subseteq Nat
  BY <1>5, <1>6
<1>9. \A k \in DOMAIN sorted : \E i \in 1..4 : sorted[k] = file[i]
  BY <1>6
<1> QED
  BY <1>6, <1>7, <1>8, <1>9 DEF sorted, file

(* The first rule that matches gives the answer.                           *)
LEMMA FirstAnswers ==
  ASSUME NEW loaded, DOMAIN loaded \subseteq Nat, NEW s
  PROVE  LET matching == {i \in DOMAIN loaded : EvaluateCondition(loaded[i].when, Namespace(s))}
         IN  \/ matching = {} /\ Evaluate(loaded, s) = "proceed"
             \/ \E m \in matching : /\ Evaluate(loaded, s) = loaded[m].action
                                    /\ \A k \in matching : m <= k
<1> DEFINE matching == {i \in DOMAIN loaded : EvaluateCondition(loaded[i].when, Namespace(s))}
<1>1. matching \in SUBSET Nat
  OBVIOUS
<1>2. Evaluate(loaded, s) = IF matching = {} THEN "proceed" ELSE loaded[Min(matching)].action
  BY DEF Evaluate
<1> HIDE DEF matching
<1>3. CASE matching = {}
  BY <1>2, <1>3 DEF matching
<1>4. CASE matching # {}
  <2>1. \E k \in matching : \A l \in matching : k <= l
    BY <1>1, <1>4, LeastNatural
  <2>2. Min(matching) \in matching /\ \A l \in matching : Min(matching) <= l
    BY <2>1 DEF Min
  <2> QED
    BY <1>2, <1>4, <2>2 DEF matching
<1> QED
  BY <1>3, <1>4

LEMMA FirstIsWorstHolds == FirstIsWorst
<1> SUFFICES ASSUME rules = ByPriority(DefaultPolicy), NEW s \in Signals,
                    NEW k \in DOMAIN rules, EvaluateCondition(rules[k].when, Namespace(s))
             PROVE  DecisionPriority[rules[k].action] <= DecisionPriority[Evaluate(rules, s)]
  BY DEF FirstIsWorst
<1>1. /\ DOMAIN rules \subseteq Nat
      /\ \A l \in DOMAIN rules : \E i \in 1..4 : rules[l] = DefaultPolicy[i]
      /\ \A l, m \in DOMAIN rules : l < m => rules[m].priority <= rules[l].priority
  BY DefaultSorted
<1>2. PICK m \in DOMAIN rules : Evaluate(rules, s) = rules[m].action /\ m <= k
  BY <1>1, FirstAnswers
<1>3. PICK i \in 1..4 : rules[k] = DefaultPolicy[i]
  BY <1>1
<1>4. PICK j \in 1..4 : rules[m] = DefaultPolicy[j]
  BY <1>1
<1>5. m = k \/ rules[k].priority <= rules[m].priority
  BY <1>1, <1>2
<1>6. \A l \in 1..4 : l = 1 \/ l = 2 \/ l = 3 \/ l = 4
  OBVIOUS
<1>7. /\ DefaultPolicy[1].action = "hard_stop" /\ DefaultPolicy[1].priority = 10
      /\ DefaultPolicy[2].action = "soft_stop" /\ DefaultPolicy[2].priority = 5
      /\ DefaultPolicy[3].action = "hard_stop" /\ DefaultPolicy[3].priority = 15
      /\ DefaultPolicy[4].action = "soft_stop" /\ DefaultPolicy[4].priority = 8
  BY DefaultIs
<1>8. DecisionPriority["hard_stop"] = 4 /\ DecisionPriority["soft_stop"] = 2
  BY DEF DecisionPriority
<1>9. CASE m = k
  <2>1. \A l \in 1..4 : DecisionPriority[DefaultPolicy[l].action] \in Nat
    BY <1>6, <1>7, <1>8
  <2>2. DecisionPriority[rules[k].action] \in Nat
    BY <1>3, <2>1
  <2> QED
    BY <1>2, <1>9, <2>2
<1>10. CASE rules[k].priority <= rules[m].priority
  <2>1. DefaultPolicy[i].priority <= DefaultPolicy[j].priority
    BY <1>3, <1>4, <1>10
  <2>2. DecisionPriority[DefaultPolicy[i].action] <= DecisionPriority[DefaultPolicy[j].action]
    BY <1>6, <1>7, <1>8, <2>1
  <2> QED
    BY <1>2, <1>3, <1>4, <2>2
<1> QED
  BY <1>5, <1>9, <1>10

(* A comparison with a number reads what the context shows.                *)
LEMMA AboveReads ==
  ASSUME NEW name, NEW n \in Int, NEW v \in Int, NEW namespace,
         name \in DOMAIN namespace, namespace[name] = Num(v),
         EvaluateCondition(<<Above(name, n)>>, namespace)
  PROVE  v > n
<1> DEFINE leaf == <<Name(name), ">", Num(n)>>
<1>1. Compares(leaf[2], ValueOf(leaf[1], namespace), ValueOf(leaf[3], namespace))
  <2>1. <<Above(name, n)>> = <<<<leaf>>>>
    BY DEF Above
  <2>2. DOMAIN <<<<leaf>>>> = {1} /\ <<<<leaf>>>>[1] = <<leaf>>
    <3> HIDE DEF leaf
    <3> QED
      OBVIOUS
  <2>3. DOMAIN <<leaf>> = {1} /\ <<leaf>>[1] = leaf
    <3> HIDE DEF leaf
    <3> QED
      OBVIOUS
  <2> HIDE DEF leaf
  <2> QED
    BY <2>1, <2>2, <2>3 DEF EvaluateCondition
<1>2. leaf[1] = Name(name) /\ leaf[2] = ">" /\ leaf[3] = Num(n)
  OBVIOUS
<1>3. ValueOf(Name(name), namespace) = Num(v)
  BY DEF ValueOf, Name
<1>4. ValueOf(Num(n), namespace) = Num(n)
  BY DEF ValueOf, Num
<1>5. Compares(">", Num(v), Num(n))
  BY <1>1, <1>2, <1>3, <1>4
<1> QED
  BY <1>5 DEF Compares, IsNumber, Num

LEMMA StopsArePausedHolds == GuardInv => StopsArePaused
<1> SUFFICES ASSUME GuardInv, rules = ByPriority(DefaultPolicy), NEW s \in Signals,
                    Evaluate(rules, s) = "hard_stop"
             PROVE  Escalates(escalation, s) \in {"soft_stop", "human_review", "hard_stop"}
  BY DEF StopsArePaused
<1>1. /\ s.drift \in Nat /\ s.violations \in Nat /\ s.uncertainty \in Nat
      /\ Namespace(s)["drift_score"] = Num(s.drift) /\ "drift_score" \in DOMAIN Namespace(s)
      /\ Namespace(s)["violation_count"] = Num(100 * s.violations)
      /\ "violation_count" \in DOMAIN Namespace(s)
  BY GuardAssumption DEF Namespace
<1>2. /\ DOMAIN rules \subseteq Nat
      /\ \A l \in DOMAIN rules : \E i \in 1..4 : rules[l] = DefaultPolicy[i]
  BY DefaultSorted
<1>3. PICK m \in DOMAIN rules : /\ rules[m].action = "hard_stop"
                                /\ EvaluateCondition(rules[m].when, Namespace(s))
  BY <1>2, FirstAnswers
<1>4. PICK i \in 1..4 : rules[m] = DefaultPolicy[i]
  BY <1>2
<1>5. i = 1 \/ i = 3
  <2>1. i = 1 \/ i = 2 \/ i = 3 \/ i = 4
    OBVIOUS
  <2>2. DefaultPolicy[2].action # "hard_stop" /\ DefaultPolicy[4].action # "hard_stop"
    BY DefaultIs
  <2> QED
    BY <1>3, <1>4, <2>1, <2>2
<1>6. CASE i = 1
  <2>1. EvaluateCondition(<<Above("drift_score", 50)>>, Namespace(s))
    BY <1>3, <1>4, <1>6, DefaultIs
  <2>2. s.drift > 50
    BY <1>1, <2>1, AboveReads
  <2>3. escalation.drift \in Nat /\ escalation.drift <= 500000
    BY DEF GuardInv
  <2>4. 10000 * s.drift >= escalation.drift
    BY <1>1, <2>2, <2>3
  <2> QED
    BY <2>4 DEF Escalates
<1>7. CASE i = 3
  <2>1. EvaluateCondition(<<Above("violation_count", 0)>>, Namespace(s))
    BY <1>3, <1>4, <1>7, DefaultIs
  <2>2. 100 * s.violations \in Int
    BY <1>1
  <2>3. 100 * s.violations > 0
    BY <1>1, <2>1, <2>2, AboveReads
  <2>4. s.violations >= 1
    BY <1>1, <2>3
  <2> QED
    BY <2>4 DEF Escalates
<1> QED
  BY <1>5, <1>6, <1>7

-----------------------------------------------------------------------------
(* A score of zero and no indicator, or not ok.                            *)
LEMMA AuditIsHonest ==
  ASSUME NEW r, r.risk \in Nat, r.indicators \in Nat
  PROVE  PostAction(r).status = "ok" <=>
            PostAction(r).outcome = 0 /\ PostAction(r).anomaly = 0
<1> DEFINE q == (100 * r.indicators) \div 3
<1>1. q \in Nat /\ (r.indicators = 0 => q = 0) /\ (r.indicators > 0 => q > 0)
  OBVIOUS
<1> HIDE DEF q
<1>2. Min({q, 100}) = IF q <= 100 THEN q ELSE 100
  <2>1. CASE q <= 100
    <3>1. \A x \in {q, 100} : (\A y \in {q, 100} : x <= y) <=> x = q
      BY <1>1, <2>1
    <3> QED
      BY <2>1, <3>1 DEF Min
  <2>2. CASE ~(q <= 100)
    <3>1. \A x \in {q, 100} : (\A y \in {q, 100} : x <= y) <=> x = 100
      BY <1>1, <2>2
    <3> QED
      BY <2>2, <3>1 DEF Min
  <2> QED
    BY <2>1, <2>2
<1>3. /\ PostAction(r).outcome = OutcomeStatus(r).score
      /\ PostAction(r).anomaly = Min({q, 100})
      /\ PostAction(r).status = IF r.indicators > 0 THEN "anomaly" ELSE OutcomeStatus(r).status
  BY DEF PostAction, q
<1>4. OutcomeStatus(r).status = "ok" <=> OutcomeStatus(r).score = 0
  BY DEF OutcomeStatus
<1>5. PostAction(r).anomaly = 0 <=> r.indicators = 0
  BY <1>1, <1>2, <1>3
<1>6. CASE r.indicators > 0
  BY <1>3, <1>5, <1>6
<1>7. CASE r.indicators = 0
  BY <1>3, <1>4, <1>5, <1>7
<1> QED
  BY <1>6, <1>7

LEMMA OrderingsOverrideHolds == OrderingsOverride
<1> DEFINE c == catalogue
<1> SUFFICES ASSUME NEW x \in Orderings(c)
             PROVE  \E o \in Overrides(c) : o.policies = x.policies
  BY DEF OrderingsOverride
<1>1. PICK q \in SameLayer(c) : /\ c[q[1]].priority = c[q[2]].priority
                                /\ Disagree(c[q[1]], c[q[2]])
                                /\ x = Conflict("ordering", "medium", q[1], q[2])
  BY DEF Orderings
<1>2. q \in Pairs(c) /\ q[1] < q[2] /\ c[q[1]].layer = c[q[2]].layer
  BY <1>1 DEF SameLayer
<1> DEFINE o == Conflict("override", IF c[q[1]].action = "allow" /\ c[q[2]].action = "block"
                                     THEN "critical" ELSE "high", q[1], q[2])
<1>3. o \in Overrides(c)
  BY <1>1, <1>2 DEF Overrides
<1>4. o.policies = x.policies
  BY <1>1 DEF Conflict
<1> QED
  BY <1>3, <1>4

(* What is found of two policies depends on these two alone.               *)
LEMMA AnalysisGrows ==
  ASSUME NEW c, NEW d, DOMAIN c \subseteq DOMAIN d, \A i \in DOMAIN c : d[i] = c[i]
  PROVE  Analyze(c) \subseteq Analyze(d)
<1>1. \A q \in Pairs(c) : q \in Pairs(d) /\ d[q[1]] = c[q[1]] /\ d[q[2]] = c[q[2]]
  BY DEF Pairs
<1>2. Overrides(c) \subseteq Overrides(d)
  <2> SUFFICES ASSUME NEW x \in Overrides(c) PROVE x \in Overrides(d)
    OBVIOUS
  <2>1. PICK q \in Pairs(c) :
           /\ c[q[1]].layer = c[q[2]].layer
           /\ \/ c[q[1]].priority < c[q[2]].priority
              \/ c[q[1]].priority = c[q[2]].priority /\ q[1] < q[2]
           /\ Disagree(c[q[1]], c[q[2]])
           /\ x = Conflict("override",
                    IF c[q[1]].action = "allow" /\ c[q[2]].action = "block"
                    THEN "critical" ELSE "high", q[1], q[2])
    BY DEF Overrides
  <2> QED
    BY <1>1, <2>1 DEF Overrides
<1>3. Contradictions(c) \subseteq Contradictions(d)
  <2> SUFFICES ASSUME NEW x \in Contradictions(c) PROVE x \in Contradictions(d)
    OBVIOUS
  <2>1. PICK q \in Pairs(c) :
           /\ \E k, l \in DOMAIN GuardLayers :
                 k < l /\ c[q[1]].layer = GuardLayers[k] /\ c[q[2]].layer = GuardLayers[l]
           /\ Overlap(c[q[1]], c[q[2]])
           /\ c[q[1]].action = "allow" /\ c[q[2]].action = "block"
           /\ x = Conflict("contradiction", "high", q[1], q[2])
    BY DEF Contradictions
  <2> QED
    BY <1>1, <2>1 DEF Contradictions
<1>4. \A q \in SameLayer(c) : q \in SameLayer(d) /\ d[q[1]] = c[q[1]] /\ d[q[2]] = c[q[2]]
  BY <1>1 DEF SameLayer
<1>5. Redundancies(c) \subseteq Redundancies(d)
  <2> SUFFICES ASSUME NEW x \in Redundancies(c) PROVE x \in Redundancies(d)
    OBVIOUS
  <2>1. PICK q \in SameLayer(c) :
           /\ c[q[1]].action = c[q[2]].action /\ Subsumes(c[q[1]], c[q[2]])
           /\ x = Conflict("redundancy", "low", q[1], q[2])
    BY DEF Redundancies
  <2> QED
    BY <1>4, <2>1 DEF Redundancies
<1>6. Orderings(c) \subseteq Orderings(d)
  <2> SUFFICES ASSUME NEW x \in Orderings(c) PROVE x \in Orderings(d)
    OBVIOUS
  <2>1. PICK q \in SameLayer(c) :
           /\ c[q[1]].priority = c[q[2]].priority /\ Disagree(c[q[1]], c[q[2]])
           /\ x = Conflict("ordering", "medium", q[1], q[2])
    BY DEF Orderings
  <2> QED
    BY <1>4, <2>1 DEF Orderings
<1> QED
  BY <1>2, <1>3, <1>5, <1>6 DEF Analyze

-----------------------------------------------------------------------------
LEMMA InitGuardInv == GuardInit => GuardInv
<1> SUFFICES ASSUME GuardInit PROVE GuardInv
  OBVIOUS
<1>1. runtimeHooks \in [HookPoints -> Seq(Hooks)] /\ catalogue \in Seq(Policies)
  BY DEF GuardInit
<1>2. IsComposer(composer)
  <2>1. PICK name \in DOMAIN StrategyLayers : composer = CreateStrategy(name)
    BY DEF GuardInit
  <2> DEFINE layers == [l \in LayerNames |-> IF l \in StrategyLayers[name]
                 THEN <<[action |-> "allow", confidence |-> Placeholder[l]]>> ELSE <<>>]
  <2>2. composer = [rule |-> "most_restrictive", layers |-> layers]
    BY <2>1, LayersAre DEF CreateStrategy
  <2>3. \A l \in LayerNames : Placeholder[l] \in Nat
    BY DEF LayerNames, Placeholder
  <2>4. \A l \in LayerNames : [action |-> "allow", confidence |-> Placeholder[l]] \in GuardAnswers
    BY <2>3 DEF GuardAnswers, ActionPriority
  <2>5. \A l \in LayerNames :
           <<[action |-> "allow", confidence |-> Placeholder[l]]>> \in Seq(GuardAnswers)
    BY <2>4
  <2>6. layers \in [LayerNames -> Seq(GuardAnswers)]
    BY <2>5
  <2> HIDE DEF layers
  <2> QED
    BY <2>2, <2>6 DEF AggregationRules, IsComposer
<1>3. escalation \in [drift : Nat, uncertainty : Nat] /\ escalation.drift <= 500000
  <2>1. PICK x \in Sensitivities : escalation = Adaptive(x)
    BY DEF GuardInit
  <2>2. x \in 10..100
    BY GuardAssumption
  <2>3. 5000 * (110 - x) \in Nat /\ 5000 * (110 - x) <= 500000 /\ 4000 * (110 - x) \in Nat
    BY <2>2
  <2> QED
    BY <2>1, <2>3 DEF Adaptive
<1>4. AuditHonest
  <2> DEFINE r == [status |-> "none", risk |-> 0, indicators |-> 0]
  <2>1. audit = PostAction(r) /\ r.risk \in Nat /\ r.indicators \in Nat
    BY DEF GuardInit
  <2> HIDE DEF r
  <2> QED
    BY <2>1, AuditIsHonest DEF AuditHonest
<1> QED
  BY <1>1, <1>2, <1>3, <1>4 DEF GuardInv

LEMMA RegisterKeeps ==
  ASSUME GuardInv, NEW h \in Hooks, runtimeHooks' = [runtimeHooks EXCEPT ![h.point] = Append(@, h)]
  PROVE  runtimeHooks' \in [HookPoints -> Seq(Hooks)]
<1>1. h.point \in HookPoints
  BY GuardAssumption
<1>2. runtimeHooks[h.point] \in Seq(Hooks) /\ runtimeHooks \in [HookPoints -> Seq(Hooks)]
  BY <1>1 DEF GuardInv
<1>3. Append(runtimeHooks[h.point], h) \in Seq(Hooks)
  BY <1>2
<1> QED
  BY <1>2, <1>3

LEMMA AdjustShrinks ==
  ASSUME AdjustForContext, escalation.drift \in Nat, escalation.uncertainty \in Nat
  PROVE  /\ escalation'.drift \in 0..escalation.drift
         /\ escalation'.uncertainty \in 0..escalation.uncertainty
         /\ escalation' = [drift |-> escalation'.drift, uncertainty |-> escalation'.uncertainty]
<1> DEFINE Shrunk(t, r) == (t * (1000 - 3 * r)) \div 1000
<1>1. PICK risk \in ContextRisks :
         escalation' = [drift |-> Shrunk(escalation.drift, risk),
                        uncertainty |-> Shrunk(escalation.uncertainty, risk)]
  BY DEF AdjustForContext
<1>2. risk \in 0..100
  BY GuardAssumption
<1>3. /\ Shrunk(escalation.drift, risk) \in 0..escalation.drift
      /\ Shrunk(escalation.uncertainty, risk) \in 0..escalation.uncertainty
  BY <1>2, ThresholdsShrink
<1> HIDE DEF Shrunk
<1> QED
  BY <1>1, <1>3

LEMMA NextGuardInv == GuardInv /\ [GuardNext]_guardVars => GuardInv'
<1> SUFFICES ASSUME GuardInv, [GuardNext]_guardVars PROVE GuardInv'
  OBVIOUS
<1>1. CASE Register
  <2>1. runtimeHooks' \in [HookPoints -> Seq(Hooks)]
    BY <1>1, RegisterKeeps DEF Register
  <2>2. UNCHANGED <<composer, escalation, catalogue, audit>>
    BY <1>1 DEF Register
  <2> QED
    BY <2>1, <2>2 DEF GuardInv, AuditHonest, IsComposer
<1>2. CASE AddSafeguard
  <2>1. PICK l \in LayerNames, a \in Answers :
           composer' = [composer EXCEPT !.layers[l] = Append(@, a)]
    BY <1>2, LayersAre DEF AddSafeguard
  <2>2. a \in GuardAnswers
    BY GuardAssumption DEF GuardAnswers
  <2>3. IsComposer(composer)
    BY DEF GuardInv
  <2> DEFINE d == [composer EXCEPT !.layers[l] = Append(@, a)]
  <2>4. IsComposer(d) /\ composer' = d
    BY <2>1, <2>2, <2>3, AnswersStay
  <2> HIDE DEF d
  <2>5. IsComposer(composer')
    BY <2>4
  <2>6. UNCHANGED <<runtimeHooks, escalation, catalogue, audit>>
    BY <1>2 DEF AddSafeguard
  <2> QED
    BY <2>5, <2>6 DEF GuardInv, AuditHonest, IsComposer
<1>3. CASE SetAggregationRule
  <2>1. PICK r \in AggregationRules : composer' = [composer EXCEPT !.rule = r]
    BY <1>3 DEF SetAggregationRule
  <2>2. IsComposer(composer)
    BY DEF GuardInv
  <2>3. IsComposer(composer')
    BY <2>1, <2>2 DEF IsComposer
  <2>4. UNCHANGED <<runtimeHooks, escalation, catalogue, audit>>
    BY <1>3 DEF SetAggregationRule
  <2> QED
    BY <2>3, <2>4 DEF GuardInv, AuditHonest, IsComposer
<1>4. CASE LoadPolicy
  <2>1. UNCHANGED <<runtimeHooks, composer, escalation, catalogue, audit>>
    BY <1>4 DEF LoadPolicy
  <2> QED
    BY <2>1 DEF GuardInv, AuditHonest, IsComposer
<1>5. CASE AdjustForContext
  <2>1. escalation.drift \in Nat /\ escalation.uncertainty \in Nat /\ escalation.drift <= 500000
    BY DEF GuardInv
  <2>2. /\ escalation'.drift \in 0..escalation.drift
        /\ escalation'.uncertainty \in 0..escalation.uncertainty
        /\ escalation' = [drift |-> escalation'.drift, uncertainty |-> escalation'.uncertainty]
    BY <1>5, <2>1, AdjustShrinks
  <2>3. escalation' \in [drift : Nat, uncertainty : Nat] /\ escalation'.drift <= 500000
    BY <2>1, <2>2
  <2>4. UNCHANGED <<runtimeHooks, composer, catalogue, audit>>
    BY <1>5 DEF AdjustForContext
  <2> QED
    BY <2>3, <2>4 DEF GuardInv, AuditHonest, IsComposer
<1>6. CASE Audit
  <2>1. PICK r \in ToolResults : audit' = PostAction(r)
    BY <1>6 DEF Audit
  <2>2. r.risk \in Nat /\ r.indicators \in Nat
    BY GuardAssumption
  <2>3. AuditHonest'
    BY <2>1, <2>2, AuditIsHonest DEF AuditHonest
  <2>4. UNCHANGED <<runtimeHooks, composer, escalation, catalogue>>
    BY <1>6 DEF Audit
  <2> QED
    BY <2>3, <2>4 DEF GuardInv, IsComposer
<1>7. CASE AddPolicy
  <2>1. PICK p \in Policies : catalogue' = Append(catalogue, p)
    BY <1>7 DEF AddPolicy
  <2>2. catalogue' \in Seq(Policies)
    BY <2>1 DEF GuardInv
  <2>3. UNCHANGED <<runtimeHooks, composer, escalation, audit>>
    BY <1>7 DEF AddPolicy
  <2> QED
    BY <2>2, <2>3 DEF GuardInv, AuditHonest, IsComposer
<1>8. CASE UNCHANGED guardVars
  <2>1. UNCHANGED <<runtimeHooks, composer, escalation, catalogue, audit>>
    BY <1>8 DEF guardVars
  <2> QED
    BY <2>1 DEF GuardInv, AuditHonest, IsComposer
<1> QED
  BY <1>1, <1>2, <1>3, <1>4, <1>5, <1>6, <1>7, <1>8
     DEF GuardNext, RuntimeNext, ComposerNext, PolicyNext, DetectorNext

(* What a list of hooks decides has a priority that is a number.           *)
LEMMA PriorityIsNumber ==
  ASSUME NEW registered \in Seq(Hooks), NEW s
  PROVE  DecisionPriority[StepDecision(registered, s)] \in Nat
<1>1. CASE registered = <<>>
  <2>1. DecisionPriority[StepDecision(registered, s)] = 0
    BY <1>1, StepDecisionIsWorst
  <2> QED
    BY <2>1
<1>2. CASE registered # <<>>
  <2>1. PICK i \in DOMAIN registered : StepDecision(registered, s) = HookDecision(registered[i], s)
    BY <1>2, StepDecisionIsWorst
  <2>2. registered[i] \in Hooks
    OBVIOUS
  <2> QED
    BY <2>1, <2>2, DecisionKnown
<1> QED
  BY <1>1, <1>2

(* One more hook or safeguard, or an adjustment, never makes an answer     *)
(* laxer.                                                                  *)
LEMMA RuntimeNoLaxer ==
  ASSUME GuardInv, [GuardNext]_guardVars, NEW p \in HookPoints, NEW s
  PROVE  DecisionPriority[StepDecision(runtimeHooks[p], s)]
           <= DecisionPriority[StepDecision(runtimeHooks'[p], s)]
<1>1. runtimeHooks \in [HookPoints -> Seq(Hooks)] /\ runtimeHooks[p] \in Seq(Hooks)
  BY DEF GuardInv
<1>2. CASE runtimeHooks' = runtimeHooks
  BY <1>1, <1>2, PriorityIsNumber
<1>3. CASE Register
  <2>1. PICK h \in Hooks : runtimeHooks' = [runtimeHooks EXCEPT ![h.point] = Append(@, h)]
    BY <1>3 DEF Register
  <2>2. runtimeHooks'[p] = runtimeHooks[p] \/ runtimeHooks'[p] = Append(runtimeHooks[p], h)
    BY <1>1, <2>1
  <2>3. CASE runtimeHooks'[p] = runtimeHooks[p]
    BY <1>1, <2>3, PriorityIsNumber
  <2>4. CASE runtimeHooks'[p] = Append(runtimeHooks[p], h)
    BY <1>1, <2>4, HooksTighten
  <2> QED
    BY <2>2, <2>3, <2>4
<1> QED
  BY <1>2, <1>3
     DEF GuardNext, RuntimeNext, ComposerNext, PolicyNext, DetectorNext, AddSafeguard,
         SetAggregationRule, LoadPolicy, AdjustForContext, Audit, AddPolicy, guardVars

LEMMA ComposerNoLaxer ==
  ASSUME GuardInv, [GuardNext]_guardVars,
         composer'.rule = "most_restrictive", Results(composer) # <<>>
  PROVE  ActionPriority[Composed(composer)] <= ActionPriority[Composed(composer')]
<1>1. IsComposer(composer)
  BY DEF GuardInv
<1>2. GuardInv'
  BY NextGuardInv
<1>3. IsComposer(composer')
  BY <1>2 DEF GuardInv
<1>4. \A i \in DOMAIN Results(composer) :
         \E j \in DOMAIN Results(composer') : Results(composer')[j] = Results(composer)[i]
  <2>1. CASE composer' = composer
    BY <2>1
  <2>2. CASE AddSafeguard
    <3>1. PICK l \in LayerNames, a \in Answers :
             composer' = [composer EXCEPT !.layers[l] = Append(@, a)]
      BY <2>2, LayersAre DEF AddSafeguard
    <3>2. a \in GuardAnswers
      BY GuardAssumption DEF GuardAnswers
    <3> DEFINE d == [composer EXCEPT !.layers[l] = Append(@, a)]
    <3>3. \A i \in DOMAIN Results(composer) :
             \E j \in DOMAIN Results(d) : Results(d)[j] = Results(composer)[i]
      BY <1>1, <3>2, AnswersStay
    <3>4. composer' = d
      BY <3>1
    <3> HIDE DEF d
    <3> QED
      BY <3>3, <3>4
  <2>3. CASE SetAggregationRule
    <3>1. PICK r \in AggregationRules : composer' = [composer EXCEPT !.rule = r]
      BY <2>3 DEF SetAggregationRule
    <3>2. composer'.layers = composer.layers
      BY <1>1, <3>1 DEF IsComposer
    <3>3. Results(composer') = Results(composer)
      BY <3>2 DEF Results
    <3> QED
      BY <3>3
  <2> QED
    BY <2>1, <2>2, <2>3
       DEF GuardNext, RuntimeNext, ComposerNext, PolicyNext, DetectorNext, Register,
           LoadPolicy, AdjustForContext, Audit, AddPolicy, guardVars
<1>5. \A c, d : /\ IsComposer(c) /\ IsComposer(d) /\ Results(c) # <<>>
                /\ d.rule = "most_restrictive"
                /\ \A i \in DOMAIN Results(c) :
                      \E j \in DOMAIN Results(d) : Results(d)[j] = Results(c)[i]
                => ActionPriority[Composed(c)] <= ActionPriority[Composed(d)]
  BY ComposerTightens
<1> QED
  BY <1>1, <1>3, <1>4, <1>5

LEMMA EscalationNoLaxer ==
  ASSUME GuardInv, [GuardNext]_guardVars, NEW s \in Signals
  PROVE  EscalationRank(escalation, s) <= EscalationRank(escalation', s)
<1>1. escalation.drift \in Nat /\ escalation.uncertainty \in Nat
  BY DEF GuardInv
<1>2. /\ escalation'.drift \in Nat /\ escalation'.uncertainty \in Nat
      /\ escalation'.drift <= escalation.drift
      /\ escalation'.uncertainty <= escalation.uncertainty
  <2>1. CASE escalation' = escalation
    BY <1>1, <2>1
  <2>2. CASE AdjustForContext
    <3>1. /\ escalation'.drift \in 0..escalation.drift
          /\ escalation'.uncertainty \in 0..escalation.uncertainty
      BY <1>1, <2>2, AdjustShrinks
    <3> QED
      BY <1>1, <3>1
  <2> QED
    BY <2>1, <2>2
       DEF GuardNext, RuntimeNext, ComposerNext, PolicyNext, DetectorNext, Register,
           AddSafeguard, SetAggregationRule, LoadPolicy, Audit, AddPolicy, guardVars
<1> QED
  BY <1>1, <1>2, EscalationTightens

LEMMA GuardStepsTighten ==
  ASSUME GuardInv, [GuardNext]_guardVars
  PROVE  NoLaxer /\ ConflictsStay
<1>1. NoLaxer
  BY RuntimeNoLaxer, ComposerNoLaxer, EscalationNoLaxer DEF NoLaxer
<1>2. ConflictsStay
  <2>1. CASE catalogue' = catalogue
    BY <2>1 DEF ConflictsStay
  <2>2. CASE AddPolicy
    <3>1. PICK p \in Policies : catalogue' = Append(catalogue, p)
      BY <2>2 DEF AddPolicy
    <3>2. /\ DOMAIN catalogue \subseteq DOMAIN catalogue'
          /\ \A i \in DOMAIN catalogue : catalogue'[i] = catalogue[i]
      <4>1. catalogue \in Seq(Policies)
        BY DEF GuardInv
      <4> QED
        BY <3>1, <4>1
    <3>3. \A c, d : DOMAIN c \subseteq DOMAIN d /\ (\A i \in DOMAIN c : d[i] = c[i])
                      => Analyze(c) \subseteq Analyze(d)
      BY AnalysisGrows
    <3>4. Analyze(catalogue) \subseteq Analyze(catalogue')
      BY <3>2, <3>3
    <3> QED
      BY <3>4 DEF ConflictsStay
  <2> QED
    BY <2>1, <2>2
       DEF GuardNext, RuntimeNext, ComposerNext, PolicyNext, DetectorNext, Register,
           AddSafeguard, SetAggregationRule, LoadPolicy, AdjustForContext, Audit, guardVars
<1> QED
  BY <1>1, <1>2

-----------------------------------------------------------------------------
(***************************************************************************)
(* The simulator as a whole: a behaviour of it is one of each of its       *)
(* parts.                                                                  *)
(***************************************************************************)
LEMMA SimulatorImpliesParts ==
    /\ SimulatorInit => Init /\ ChaosInit /\ StressInit
    /\ [SimulatorNext]_simulatorVars =>
          [Next]_vars /\ [ChaosNext]_chaosVars /\ [StressNext]_stressVars
<1>1. SimulatorInit => Init /\ ChaosInit /\ StressInit
  BY DEF SimulatorInit
<1>2. ASSUME [SimulatorNext]_simulatorVars
      PROVE  [Next]_vars /\ [ChaosNext]_chaosVars /\ [StressNext]_stressVars
  BY <1>2 DEF SimulatorNext, AgentStep, GuardStep, ChaosStep, StressStep, simulatorVars
<1>3. QED
  BY <1>1, <1>2

(* What holds of the agent holds of it in the simulator.                   *)
THEOREM SimulatorRunsAgent == SimulatorSpec => Spec
  BY SimulatorImpliesParts, PTL DEF SimulatorSpec, Spec

(* Whatever is registered, whatever the scenarios, the attacks and the     *)
(* answers: a run that lost every block is not passed over, the sums taken *)
(* of rollouts agree, and the rates derived from them are divisions by     *)
(* something (chaos/engine.py:205, 282, metrics.py:55-138,                 *)
(* degradation_metrics.py:60, 129).                                        *)
THEOREM TrialsJudgedCorrect == SimulatorSpec => []TrialsJudged
<1>1. SimulatorInit => ChaosInv /\ StressInv
  BY SimulatorImpliesParts, InitChaosInv, InitStressInv
<1>2. ChaosInv /\ StressInv /\ [SimulatorNext]_simulatorVars => ChaosInv' /\ StressInv'
  BY SimulatorImpliesParts, NextChaosInv, NextStressInv
<1>3. ChaosInv /\ StressInv => TrialsJudged
  BY ChaosInvJudges, SumsAccounted, DegradationIsSound DEF TrialsJudged
<1>4. QED
  BY <1>1, <1>2, <1>3, PTL DEF SimulatorSpec

(* However hooks, safeguards, rules and policies are combined: what the    *)
(* default rules block the escalation policy pauses at least, the first    *)
(* rule that matches is the worst, what is called ok was scored by nobody, *)
(* what depends on the order is reported as an override; one more hook,    *)
(* one more safeguard or an adjustment makes no answer laxer, and one more *)
(* policy hides no conflict (api.py:187, composer.py:135,                  *)
(* policy_dsl.py:112, escalation.py:162, post_action.py:134,               *)
(* policy_conflict_detector.py:74).                                        *)
THEOREM GuardsTightenCorrect == SimulatorSpec => GuardsTighten
<1>1. SimulatorInit => GuardInv
  BY InitGuardInv DEF SimulatorInit
<1>2. [SimulatorNext]_simulatorVars => [GuardNext]_guardVars
  BY DEF SimulatorNext, AgentStep, GuardStep, ChaosStep, StressStep, simulatorVars, GuardNext
<1>3. GuardInv /\ [SimulatorNext]_simulatorVars => GuardInv'
  BY <1>2, NextGuardInv
<1>4. GuardInv => StopsArePaused /\ FirstIsWorst /\ AuditHonest /\ OrderingsOverride
  BY StopsArePausedHolds, FirstIsWorstHolds, OrderingsOverrideHolds DEF GuardInv
<1>5. GuardInv /\ [SimulatorNext]_simulatorVars => [NoLaxer /\ ConflictsStay]_guardVars
  BY <1>2, GuardStepsTighten
<1>6. QED
  BY <1>1, <1>3, <1>4, <1>5, PTL DEF SimulatorSpec, GuardsTighten
=============================================================================
