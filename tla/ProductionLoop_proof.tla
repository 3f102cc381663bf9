-------------------------- MODULE ProductionLoop_proof --------------------------
(***************************************************************************)
(* Proofs about the parts of ProductionLoop: neither alerts nor rollbacks  *)
(* come faster than their cooldowns allow, the gate lets through whole     *)
(* batches within their limits, a promotion that clears a debt leaves its  *)
(* evidence, no test is retired soon after its trigger, grades keep the    *)
(* order of what they grade, what hindsight offers would have helped, and  *)
(* the timeline of an incident is never revised.                           *)
(***************************************************************************)
EXTENDS ProductionLoop, SumTheorems, SequenceTheorems, TLAPS

-----------------------------------------------------------------------------
(* The streaming evaluator.                                                *)
LoopPcs == {"new", "top", "found", "claiming", "writing", "sleeping", "done", "dead"}
AlertSet ==
    [metric   : {"violation_rate", "latency", "erosion_slope", "violation_spike", "none"},
     severity : {"critical", "warning", "none"},
     trend    : {"stable", "increasing", "decreasing", "none"}]
LoopSet == [pc : LoopPcs, started : Int, duration : Durations, alert : AlertSet,
            now : Int]
SentSet == [alert : AlertSet, time : Int, by : Nat, written : BOOLEAN]

StreamingType ==
    /\ loops \in Seq(LoopSet)
    /\ alerts \in Seq(SentSet)
    /\ \A key \in DOMAIN lastAlert : lastAlert[key] \in Int
    /\ clock \in Int
    /\ running \in BOOLEAN
    /\ caller \in {"free", "sync", "stopping"}

(* Only the newest loop may be alive; it is the thread that stop() joins,  *)
(* unless it runs in the caller, and none is alive where a stream that is  *)
(* not running may be started.                                             *)
OneLoop ==
    /\ \A l \in DOMAIN loops : Ended(l) \/ l = Len(loops)
    /\ \A l \in DOMAIN loops : Ended(l) \/ caller = "sync" \/ l = thread
    /\ caller = "stopping" => ~running
    /\ caller = "free" /\ ~running => AllEnded

(* The last time of a key is no earlier than any alert of the key, and a   *)
(* loop that is about to take a key has found the cooldown over.           *)
KeysHeld ==
    /\ \A k \in DOMAIN alerts :
          /\ AlertKey(alerts[k].alert) \in DOMAIN lastAlert
          /\ alerts[k].time <= lastAlert[AlertKey(alerts[k].alert)]
    /\ \A l \in DOMAIN loops :
          LET key == AlertKey(loops[l].alert)
          IN  loops[l].pc = "claiming" /\ key \in DOMAIN lastAlert =>
                  loops[l].now - lastAlert[key] >= Cooldown

StreamingInv == StreamingType /\ OneLoop /\ KeysHeld /\ AlertsSpaced

LEMMA StreamingInvInit == StreamingInit => StreamingInv
<1> SUFFICES ASSUME StreamingInit PROVE StreamingInv
  OBVIOUS
<1>1. DOMAIN loops = {} /\ DOMAIN alerts = {} /\ DOMAIN lastAlert = {}
  BY DEF StreamingInit
<1>2. StreamingType
  <2>1. \A S : <<>> \in Seq(S)
    OBVIOUS
  <2>2. loops \in Seq(LoopSet) /\ alerts \in Seq(SentSet)
    BY <2>1 DEF StreamingInit
  <2>3. clock \in Int /\ caller \in {"free", "sync", "stopping"}
    BY DEF StreamingInit
  <2>4. running \in BOOLEAN
    BY Zenon DEF StreamingInit
  <2> QED
    BY <1>1, <2>2, <2>3, <2>4 DEF StreamingType
<1>3. OneLoop /\ KeysHeld /\ AlertsSpaced
  BY <1>1 DEF StreamingInit, OneLoop, KeysHeld, AlertsSpaced, AllEnded
<1> QED
  BY <1>2, <1>3 DEF StreamingInv

(* An alert that the drift monitor finds is one.                           *)
LEMMA FoundIsAlert ==
  ASSUME NEW h, NEW c, NEW a \in DriftAlerts(h, c)
  PROVE  a \in AlertSet
<1>1. \A s : ComputeTrend(s) \in {"stable", "increasing", "decreasing"}
  BY Zenon DEF ComputeTrend
<1>3. \/ a = DriftAlert("violation_rate", "critical", ComputeTrend(h.violation))
      \/ a = DriftAlert("violation_rate", "warning", ComputeTrend(h.violation))
      \/ a = DriftAlert("latency", "warning", ComputeTrend(h.latency))
      \/ a = DriftAlert("erosion_slope", "warning", "decreasing")
      \/ a = DriftAlert("violation_spike", "warning", "increasing")
  BY Zenon DEF DriftAlerts
<1> QED
  BY <1>1, <1>3 DEF DriftAlert, AlertSet

(* A loop that is alive goes on to another record; if that waits to take a *)
(* key, the cooldown of the key is over.                                   *)
LEMMA LoopMoves ==
  ASSUME StreamingType, OneLoop, KeysHeld,
         NEW l \in DOMAIN loops, ~Ended(l), NEW r \in LoopSet,
         loops' = [loops EXCEPT ![l] = r],
         UNCHANGED <<running, thread, caller, alerts, lastAlert>>,
         LET key == AlertKey(r.alert)
         IN  r.pc = "claiming" /\ key \in DOMAIN lastAlert =>
                 r.now - lastAlert[key] >= Cooldown
  PROVE  loops' \in Seq(LoopSet) /\ OneLoop' /\ KeysHeld'
<1>1. /\ loops' \in Seq(LoopSet) /\ Len(loops') = Len(loops)
      /\ DOMAIN loops' = DOMAIN loops /\ loops'[l] = r
      /\ \A k \in DOMAIN loops : k # l => loops'[k] = loops[k]
  BY DEF StreamingType
<1>2. OneLoop'
  BY <1>1 DEF OneLoop, AllEnded, Ended
<1>3. KeysHeld'
  BY <1>1 DEF KeysHeld, AlertKey
<1> QED
  BY <1>1, <1>2, <1>3

LEMMA LoopStepKeeps ==
  ASSUME StreamingInv, NEW l, LoopStep(l), UNCHANGED clock
  PROVE  StreamingInv'
<1> USE DEF StreamingInv
<1>1. l \in DOMAIN loops /\ ~Ended(l) /\ loops[l] \in LoopSet
  BY DEF LoopStep, BeginLoop, EndLoop, EvaluateScenario, Dispatch, Claim, WriteAlert,
         WriteFails, Wake, At, Ended, StreamingType
<1>2. ASSUME NEW r \in LoopSet, r.pc # "claiming", loops' = [loops EXCEPT ![l] = r],
             UNCHANGED <<running, thread, caller, alerts, lastAlert>>
      PROVE  StreamingInv'
  <2>1. loops' \in Seq(LoopSet) /\ OneLoop' /\ KeysHeld'
    BY <1>1, <1>2, LoopMoves
  <2> QED
    BY <1>2, <2>1 DEF StreamingType, AlertsSpaced
<1>3. ASSUME NEW pc \in LoopPcs \ {"claiming"}, Goto(l, pc),
             UNCHANGED <<running, thread, caller, alerts, lastAlert>>
      PROVE  StreamingInv'
  <2> DEFINE r == [loops[l] EXCEPT !.pc = pc]
  <2>1. r \in LoopSet /\ r.pc # "claiming"
    BY <1>1 DEF LoopSet
  <2>2. loops' = [loops EXCEPT ![l] = r]
    BY <1>1, <1>3 DEF Goto
  <2> HIDE DEF r
  <2> QED
    BY <1>2, <1>3, <2>1, <2>2
<1>5. CASE BeginLoop(l)
  <2> DEFINE r == [loops[l] EXCEPT !.pc = "top", !.started = clock]
  <2>1. r \in LoopSet /\ r.pc # "claiming"
    BY <1>1 DEF LoopSet, LoopPcs, StreamingType
  <2>2. loops' = [loops EXCEPT ![l] = r]
    BY <1>1, <1>5 DEF BeginLoop
  <2> HIDE DEF r
  <2> QED
    BY <1>2, <1>5, <2>1, <2>2 DEF BeginLoop
<1>6. CASE EndLoop(l)
  BY <1>3, <1>6 DEF EndLoop, LoopPcs
<1>7. CASE EvaluateScenario(l)
  <2>1. CASE Goto(l, "sleeping")
    BY <1>3, <1>7, <2>1 DEF EvaluateScenario, LoopPcs
  <2>2. ASSUME NEW a \in AlertSet,
               loops' = [loops EXCEPT ![l].pc = "found", ![l].alert = a]
        PROVE  StreamingInv'
    <3> DEFINE r == [loops[l] EXCEPT !.pc = "found", !.alert = a]
    <3>1. r \in LoopSet /\ r.pc # "claiming"
      BY <1>1 DEF LoopSet, LoopPcs
    <3>2. loops' = [loops EXCEPT ![l] = r]
      BY <1>1, <2>2
    <3> HIDE DEF r
    <3> QED
      BY <1>2, <1>7, <3>1, <3>2 DEF EvaluateScenario
  <2>3. \/ Goto(l, "sleeping")
        \/ \E h, c : \E a \in DriftAlerts(h, c) :
              loops' = [loops EXCEPT ![l].pc = "found", ![l].alert = a]
    BY <1>7, Zenon DEF EvaluateScenario
  <2> QED
    BY <2>1, <2>2, <2>3, FoundIsAlert
<1>8. CASE Dispatch(l)
  <2> DEFINE r == [loops[l] EXCEPT !.pc = IF Suppressed(AlertKey(loops[l].alert))
                                          THEN "sleeping" ELSE "claiming",
                                   !.now = clock]
  <2>1. /\ r \in LoopSet /\ r.alert = loops[l].alert /\ r.now = clock
        /\ r.pc = "claiming" => ~Suppressed(AlertKey(loops[l].alert))
    BY <1>1 DEF LoopSet, LoopPcs, StreamingType
  <2>2. loops' = [loops EXCEPT ![l] = r]
    BY <1>1, <1>8 DEF Dispatch
  <2> HIDE DEF r
  <2>3. LET key == AlertKey(r.alert)
        IN  r.pc = "claiming" /\ key \in DOMAIN lastAlert =>
                r.now - lastAlert[key] >= Cooldown
    BY <2>1, StreamingAssumption DEF Suppressed, StreamingType
  <2>4. loops' \in Seq(LoopSet) /\ OneLoop' /\ KeysHeld'
    BY <1>1, <1>8, <2>1, <2>2, <2>3, LoopMoves DEF Dispatch
  <2> QED
    BY <1>8, <2>4 DEF Dispatch, StreamingType, AlertsSpaced
<1>9. CASE Claim(l)
  <2> DEFINE r == [loops[l] EXCEPT !.pc = "writing"]
             key == AlertKey(loops[l].alert)
             sent == [alert |-> loops[l].alert, time |-> loops[l].now, by |-> l,
                      written |-> FALSE]
  <2>1. r \in LoopSet /\ r.pc = "writing" /\ r.alert = loops[l].alert
    BY <1>1 DEF LoopSet, LoopPcs
  <2>2. /\ loops' = [loops EXCEPT ![l] = r]
        /\ UNCHANGED <<running, thread, caller>>
        /\ loops[l].pc = "claiming"
    BY <1>1, <1>9 DEF Claim, Goto, At
  <2>3. sent \in SentSet
    BY <1>1 DEF SentSet, LoopSet, StreamingType
  <2>4. /\ DOMAIN lastAlert' = DOMAIN lastAlert \cup {key}
        /\ lastAlert'[key] = loops[l].now
        /\ \A k \in DOMAIN lastAlert : k # key => lastAlert'[k] = lastAlert[k]
    BY <1>9 DEF Claim
  <2>5. alerts' = Append(alerts, sent)
    BY <1>9 DEF Claim
  <2>6. /\ sent.alert = loops[l].alert /\ sent.time = loops[l].now
        /\ loops[l].now \in Int
    BY <1>1 DEF LoopSet
  <2>7. key \in DOMAIN lastAlert => loops[l].now - lastAlert[key] >= Cooldown
    BY <1>1, <2>2 DEF KeysHeld
  <2> HIDE DEF r, sent
  <2>8. /\ alerts' \in Seq(SentSet) /\ Len(alerts') = Len(alerts) + 1
        /\ alerts'[Len(alerts) + 1] = sent
        /\ \A k \in DOMAIN alerts : alerts'[k] = alerts[k]
        /\ DOMAIN alerts' = DOMAIN alerts \cup {Len(alerts) + 1}
        /\ DOMAIN alerts = 1..Len(alerts) /\ Len(alerts) \in Nat
    BY <2>3, <2>5 DEF StreamingType
  <2>9. /\ loops' \in Seq(LoopSet) /\ DOMAIN loops' = DOMAIN loops
        /\ Len(loops') = Len(loops) /\ loops'[l] = r
        /\ \A k \in DOMAIN loops : k # l => loops'[k] = loops[k]
    BY <1>1, <2>1, <2>2 DEF StreamingType
  <2>10. OneLoop'
    BY <1>1, <2>1, <2>2, <2>9 DEF OneLoop, AllEnded, Ended
  <2>11. \A k \in DOMAIN lastAlert' : lastAlert'[k] \in Int
    BY <2>4, <2>6 DEF StreamingType
  <2>12. ASSUME NEW k \in DOMAIN alerts, AlertKey(alerts[k].alert) = key
         PROVE  loops[l].now - alerts[k].time >= Cooldown
    <3>1. alerts[k] \in SentSet
      BY DEF StreamingType
    <3>2. key \in DOMAIN lastAlert /\ alerts[k].time <= lastAlert[key]
      BY <2>12 DEF KeysHeld
    <3>3. lastAlert[key] \in Int /\ alerts[k].time \in Int
      BY <3>1, <3>2 DEF SentSet, StreamingType
    <3> QED
      BY <2>6, <2>7, <3>2, <3>3, StreamingAssumption
  <2>13. KeysHeld'
    <3>1. ASSUME NEW k \in DOMAIN alerts
          PROVE  /\ AlertKey(alerts[k].alert) \in DOMAIN lastAlert'
                 /\ alerts[k].time <= lastAlert'[AlertKey(alerts[k].alert)]
      <4>1. CASE AlertKey(alerts[k].alert) = key
        <5>1. alerts[k] \in SentSet
          BY DEF StreamingType
        <5>2. alerts[k].time \in Int
          BY <5>1 DEF SentSet
        <5> QED
          BY <2>4, <2>6, <2>12, <4>1, <5>2, StreamingAssumption
      <4>2. CASE AlertKey(alerts[k].alert) # key
        BY <2>4, <4>2 DEF KeysHeld
      <4> QED
        BY <4>1, <4>2
    <3>2. /\ AlertKey(sent.alert) \in DOMAIN lastAlert'
          /\ sent.time <= lastAlert'[AlertKey(sent.alert)]
      BY <2>4, <2>6
    <3>3. \A k \in DOMAIN loops' : loops'[k].pc # "claiming"
      BY <1>1, <2>1, <2>2, <2>9 DEF OneLoop, Ended
    <3> QED
      BY <2>8, <3>1, <3>2, <3>3 DEF KeysHeld, AlertKey
  <2>14. AlertsSpaced'
    <3> SUFFICES ASSUME NEW j \in DOMAIN alerts', NEW k \in DOMAIN alerts', j < k,
                        AlertKey(alerts'[j].alert) = AlertKey(alerts'[k].alert)
                 PROVE  alerts'[k].time - alerts'[j].time >= Cooldown
      BY DEF AlertsSpaced, AlertKey
    <3>1. CASE k = Len(alerts) + 1
      BY <2>6, <2>8, <2>12, <3>1
    <3>2. CASE k # Len(alerts) + 1
      BY <2>8, <3>2 DEF AlertsSpaced
    <3> QED
      BY <3>1, <3>2
  <2>15. StreamingType'
    BY <1>9, <2>8, <2>9, <2>11 DEF StreamingType, Claim
  <2> QED
    BY <2>10, <2>13, <2>14, <2>15
<1>10. CASE WriteAlert(l)
  <2> DEFINE r == [loops[l] EXCEPT !.pc = "sleeping"]
  <2>1. r \in LoopSet /\ r.pc = "sleeping"
    BY <1>1 DEF LoopSet, LoopPcs
  <2>2. /\ loops' = [loops EXCEPT ![l] = r]
        /\ UNCHANGED <<running, thread, caller, lastAlert>>
    BY <1>1, <1>10 DEF WriteAlert, Goto
  <2>3. /\ alerts' \in Seq(SentSet) /\ DOMAIN alerts' = DOMAIN alerts
        /\ \A k \in DOMAIN alerts : /\ alerts'[k].alert = alerts[k].alert
                                    /\ alerts'[k].time = alerts[k].time
    <3>1. \A k \in DOMAIN alerts : alerts[k] \in SentSet
      BY DEF StreamingType
    <3>2. \A k \in DOMAIN alerts :
             LET b == [alerts[k] EXCEPT !.written = TRUE]
             IN  b \in SentSet /\ b.alert = alerts[k].alert /\ b.time = alerts[k].time
      BY <3>1 DEF SentSet
    <3>3. DOMAIN alerts' = 1..Len(alerts) /\ Len(alerts) \in Nat
      BY <1>10 DEF WriteAlert, StreamingType
    <3>4. \A k \in DOMAIN alerts :
             alerts'[k] = IF alerts[k].by = l THEN [alerts[k] EXCEPT !.written = TRUE]
                          ELSE alerts[k]
      BY <1>10 DEF WriteAlert
    <3>5. DOMAIN alerts = 1..Len(alerts)
      BY DEF StreamingType
    <3>6. ASSUME NEW k \in DOMAIN alerts
          PROVE  /\ alerts'[k] \in SentSet /\ alerts'[k].alert = alerts[k].alert
                 /\ alerts'[k].time = alerts[k].time
      <4>1. CASE alerts[k].by = l
        BY <3>2, <3>4, <4>1
      <4>2. CASE alerts[k].by # l
        BY <3>1, <3>4, <4>2
      <4> QED
        BY <4>1, <4>2
    <3>7. alerts' = [k \in 1..Len(alerts) |-> alerts'[k]]
      BY <1>10, <3>5 DEF WriteAlert
    <3>8. alerts' \in Seq(SentSet)
      BY <3>3, <3>5, <3>6, <3>7
    <3> QED
      BY <3>3, <3>5, <3>6, <3>8
  <2> HIDE DEF r
  <2>4. /\ loops' \in Seq(LoopSet) /\ DOMAIN loops' = DOMAIN loops
        /\ Len(loops') = Len(loops) /\ loops'[l] = r
        /\ \A k \in DOMAIN loops : k # l => loops'[k] = loops[k]
    BY <1>1, <2>1, <2>2 DEF StreamingType
  <2>5. OneLoop'
    BY <1>1, <2>1, <2>2, <2>4 DEF OneLoop, AllEnded, Ended
  <2>6. KeysHeld'
    BY <2>1, <2>2, <2>3, <2>4 DEF KeysHeld, AlertKey
  <2>7. AlertsSpaced'
    BY <2>3 DEF AlertsSpaced, AlertKey
  <2> QED
    BY <1>10, <2>2, <2>3, <2>4, <2>5, <2>6, <2>7 DEF StreamingType, WriteAlert
<1>11. CASE WriteFails(l)
  BY <1>3, <1>11 DEF WriteFails, LoopPcs
<1>12. CASE Wake(l)
  BY <1>3, <1>12 DEF Wake, LoopPcs
<1> QED
  BY <1>5, <1>6, <1>7, <1>8, <1>9, <1>10, <1>11, <1>12 DEF LoopStep

(* A stream is started only where no loop is alive, so that the new loop   *)
(* is the one that may be.                                                 *)
LEMMA NewLoopFact ==
  ASSUME StreamingInv, NEW d \in Durations, MayStart,
         loops' = Append(loops, NewLoop(d)), running' = TRUE,
         \/ caller' = "sync"
         \/ caller' = "free" /\ thread' = Len(loops'),
         UNCHANGED <<alerts, lastAlert, clock>>
  PROVE  StreamingInv'
<1> USE DEF StreamingInv
<1>1. AllEnded
  BY DEF MayStart, OneLoop
<1> DEFINE r == NewLoop(d)
<1>2. r \in LoopSet /\ r.pc = "new"
  BY DEF NewLoop, NoAlert, DriftAlert, LoopSet, LoopPcs, AlertSet
<1> HIDE DEF r
<1>3. /\ loops' \in Seq(LoopSet) /\ Len(loops') = Len(loops) + 1
      /\ DOMAIN loops' = DOMAIN loops \cup {Len(loops')}
      /\ loops'[Len(loops')] = r
      /\ \A l \in DOMAIN loops : loops'[l] = loops[l] /\ l # Len(loops')
  <2>1. loops' = Append(loops, r)
    BY DEF r
  <2> QED
    BY <1>2, <2>1 DEF StreamingType
<1>4. OneLoop'
  <2>1. \A l \in DOMAIN loops' : Ended(l)' \/ l = Len(loops')
    BY <1>1, <1>3 DEF AllEnded, Ended
  <2>2. caller' # "stopping" /\ running'
    OBVIOUS
  <2> QED
    BY <2>1, <2>2 DEF OneLoop
<1>5. KeysHeld'
  BY <1>2, <1>3 DEF KeysHeld, AlertKey
<1>6. AlertsSpaced'
  BY DEF AlertsSpaced
<1>7. StreamingType'
  BY <1>3 DEF StreamingType
<1> QED
  BY <1>4, <1>5, <1>6, <1>7

(* The caller's other steps leave the loops alone, or end the newest.      *)
LEMMA CallerKeeps ==
  ASSUME StreamingInv, UNCHANGED <<alerts, lastAlert, clock, thread>>,
         SyncReturns \/ Interrupt \/ Stop \/ StopReturns
  PROVE  StreamingInv'
<1> USE DEF StreamingInv
<1>1. CASE SyncReturns
  <2>1. OneLoop'
    BY <1>1 DEF SyncReturns, OneLoop, AllEnded, Ended
  <2> QED
    BY <1>1, <2>1 DEF SyncReturns, StreamingType, KeysHeld, AlertsSpaced
<1>2. CASE Stop
  <2>1. OneLoop'
    BY <1>2 DEF Stop, OneLoop, AllEnded, Ended
  <2> QED
    BY <1>2, <2>1 DEF Stop, StreamingType, KeysHeld, AlertsSpaced
<1>3. CASE StopReturns
  <2>1. AllEnded
    BY <1>3 DEF StopReturns, Joined, OneLoop, AllEnded
  <2>2. OneLoop'
    BY <1>3, <2>1 DEF StopReturns, OneLoop, AllEnded, Ended
  <2> QED
    BY <1>3, <2>2 DEF StopReturns, StreamingType, KeysHeld, AlertsSpaced
<1>4. CASE Interrupt
  <2> DEFINE n == Len(loops)
             r == [loops[n] EXCEPT !.pc = "dead"]
  <2>1. n \in DOMAIN loops /\ loops[n] \in LoopSet
    BY <1>4 DEF Interrupt, AllEnded, OneLoop, StreamingType
  <2>2. r \in LoopSet /\ r.pc = "dead"
    BY <2>1 DEF LoopSet, LoopPcs
  <2>3. loops' = [loops EXCEPT ![n] = r]
    BY <1>4, <2>1 DEF Interrupt, Goto
  <2> HIDE DEF r
  <2>4. /\ loops' \in Seq(LoopSet) /\ DOMAIN loops' = DOMAIN loops /\ loops'[n] = r
        /\ Len(loops') = n /\ \A l \in DOMAIN loops : l # n => loops'[l] = loops[l]
    BY <2>1, <2>2, <2>3 DEF StreamingType
  <2>5. \A l \in DOMAIN loops' : Ended(l)'
    BY <2>2, <2>4 DEF OneLoop, Ended
  <2>6. OneLoop'
    BY <1>4, <2>5 DEF OneLoop, AllEnded, Interrupt
  <2>7. KeysHeld'
    BY <1>4, <2>2, <2>4 DEF KeysHeld, AlertKey, Interrupt
  <2> QED
    BY <1>4, <2>4, <2>6, <2>7 DEF Interrupt, StreamingType, AlertsSpaced
<1> QED
  BY <1>1, <1>2, <1>3, <1>4

LEMMA StreamingInvNext == StreamingInv /\ [StreamingNext]_streamingVars => StreamingInv'
<1> SUFFICES ASSUME StreamingInv, [StreamingNext]_streamingVars PROVE StreamingInv'
  OBVIOUS
<1>1. CASE UNCHANGED streamingVars
  BY <1>1 DEF streamingVars, evaluatorVars, StreamingInv, StreamingType, OneLoop,
              AllEnded, Ended, KeysHeld, AlertsSpaced, AlertKey
<1>2. CASE Tick /\ UNCHANGED evaluatorVars
  BY <1>2 DEF Tick, evaluatorVars, StreamingInv, StreamingType, OneLoop,
              AllEnded, Ended, KeysHeld, AlertsSpaced, AlertKey
<1>3. CASE EvaluatorStep /\ UNCHANGED clock
  <2>1. ASSUME NEW d \in Durations, Start(d)
        PROVE  StreamingInv'
    <3>1. caller' = "free"
      BY <2>1 DEF Start, MayStart
    <3> QED
      BY <1>3, <2>1, <3>1, NewLoopFact DEF Start
  <2>2. ASSUME NEW d \in Durations, RunSync(d)
        PROVE  StreamingInv'
    BY <1>3, <2>2, NewLoopFact DEF RunSync
  <2>3. CASE SyncReturns \/ Interrupt \/ Stop \/ StopReturns
    <3>1. UNCHANGED <<alerts, lastAlert, clock, thread>>
      BY <1>3, <2>3 DEF SyncReturns, Interrupt, Stop, StopReturns
    <3> QED
      BY <2>3, <3>1, CallerKeeps
  <2>4. ASSUME NEW l \in 1..MaxStreams, LoopStep(l)
        PROVE  StreamingInv'
    BY <1>3, <2>4, LoopStepKeeps
  <2> QED
    BY <1>3, <2>1, <2>2, <2>3, <2>4 DEF EvaluatorStep
<1> QED
  BY <1>1, <1>2, <1>3 DEF StreamingNext

-----------------------------------------------------------------------------
(* The rollback policy: the time it remembers is that of the last event.   *)
EventSet ==
    [time : Int, trigger : DOMAIN ActionOf, action : DOMAIN RecoveryTime, eta : Int,
     resolved : BOOLEAN]

RollbackInv ==
    /\ minute \in Int
    /\ rollbacks \in Seq(EventSet)
    /\ lastRollback = IF rollbacks = <<>> THEN {} ELSE {rollbacks[Len(rollbacks)].time}
    /\ RollbacksSpaced

LEMMA EventsTyped ==
  ASSUME NEW t \in DOMAIN ActionOf, NEW now \in Int
  PROVE  [time |-> now, trigger |-> t, action |-> ActionOf[t],
          eta |-> now + RecoveryTime[ActionOf[t]], resolved |-> FALSE] \in EventSet
<1>1. ActionOf[t] \in DOMAIN RecoveryTime /\ RecoveryTime[ActionOf[t]] \in Int
  BY DEF ActionOf, RecoveryTime
<1> QED
  BY <1>1 DEF EventSet

LEMMA CheckTriggerKeeps ==
  ASSUME RollbackInv, UNCHANGED minute, NEW t \in DOMAIN ActionOf,
         CheckTrigger(t, minute)
  PROVE  RollbackInv'
<1> DEFINE e == [time |-> minute, trigger |-> t, action |-> ActionOf[t],
                 eta |-> minute + RecoveryTime[ActionOf[t]], resolved |-> FALSE]
           n == Len(rollbacks)
<1>1. e \in EventSet /\ e.time = minute /\ minute \in Int
  BY EventsTyped DEF RollbackInv
<1>2. rollbacks' = Append(rollbacks, e)
  BY DEF CheckTrigger
<1> HIDE DEF e
<1>3. /\ rollbacks' \in Seq(EventSet) /\ Len(rollbacks') = n + 1 /\ rollbacks'[n + 1] = e
      /\ DOMAIN rollbacks' = 1..(n + 1) /\ DOMAIN rollbacks = 1..n /\ n \in Nat
      /\ \A k \in DOMAIN rollbacks : rollbacks'[k] = rollbacks[k]
  BY <1>1, <1>2 DEF RollbackInv
<1>4. lastRollback' = {minute} /\ rollbacks' # <<>>
  BY <1>3 DEF CheckTrigger
<1>5. ASSUME NEW j \in 1..n
      PROVE  minute >= rollbacks[j].time + RollbackCooldown
  <2>1. rollbacks[j] \in EventSet /\ rollbacks[n] \in EventSet
    BY <1>3, <1>5 DEF RollbackInv
  <2>2. rollbacks[j].time \in Int /\ rollbacks[n].time \in Int
    BY <2>1 DEF EventSet
  <2>3. rollbacks[n].time \in lastRollback
    BY <1>3, <1>5 DEF RollbackInv
  <2>4. minute >= rollbacks[n].time + RollbackCooldown
    BY <1>1, <2>2, <2>3, RollbackAssumption DEF CheckTrigger, CoolingDown
  <2>5. j < n => rollbacks[n].time >= rollbacks[j].time + RollbackCooldown
    BY <1>3, <1>5 DEF RollbackInv, RollbacksSpaced
  <2> QED
    BY <1>1, <1>3, <1>5, <2>2, <2>4, <2>5, RollbackAssumption
<1>6. RollbacksSpaced'
  <2> SUFFICES ASSUME NEW j \in 1..(n + 1), NEW k \in 1..(n + 1), j < k
               PROVE  rollbacks'[k].time >= rollbacks'[j].time + RollbackCooldown
    BY <1>3 DEF RollbacksSpaced
  <2>1. CASE k = n + 1
    BY <1>1, <1>3, <1>5, <2>1
  <2>2. CASE k # n + 1
    BY <1>3, <2>2 DEF RollbackInv, RollbacksSpaced
  <2> QED
    BY <2>1, <2>2
<1> QED
  BY <1>1, <1>3, <1>4, <1>6 DEF RollbackInv

LEMMA ResolveKeeps ==
  ASSUME RollbackInv, UNCHANGED minute, NEW i, ResolveEvent(i)
  PROVE  RollbackInv'
<1> DEFINE e == [rollbacks[i] EXCEPT !.resolved = TRUE]
<1>1. i \in DOMAIN rollbacks /\ rollbacks[i] \in EventSet
  BY DEF ResolveEvent, RollbackInv
<1>2. e \in EventSet /\ e.time = rollbacks[i].time
  BY <1>1 DEF EventSet
<1>3. rollbacks' = [rollbacks EXCEPT ![i] = e]
  BY <1>1 DEF ResolveEvent
<1> HIDE DEF e
<1>4. /\ rollbacks' \in Seq(EventSet) /\ Len(rollbacks') = Len(rollbacks)
      /\ DOMAIN rollbacks' = DOMAIN rollbacks
      /\ \A k \in DOMAIN rollbacks : rollbacks'[k].time = rollbacks[k].time
      /\ DOMAIN rollbacks = 1..Len(rollbacks) /\ Len(rollbacks) \in Nat
  BY <1>1, <1>2, <1>3 DEF RollbackInv
<1>5. rollbacks # <<>> /\ rollbacks' # <<>> /\ Len(rollbacks) \in DOMAIN rollbacks
  BY <1>1, <1>4
<1> QED
  BY <1>4, <1>5 DEF RollbackInv, RollbacksSpaced, ResolveEvent

LEMMA TriggersNamed ==
  ASSUME NEW m, NEW t \in Triggers(m)
  PROVE  t \in DOMAIN ActionOf
BY DEF Triggers, ActionOf

LEMMA RollbackStepKeeps == RollbackInv /\ RollbackStep => RollbackInv'
<1> SUFFICES ASSUME RollbackInv, RollbackStep PROVE RollbackInv'
  OBVIOUS
<1>1. ASSUME NEW m \in Moments, minute' = m, UNCHANGED rollbackVars
      PROVE  RollbackInv'
  BY <1>1, LoopAssumption DEF RollbackInv, RollbacksSpaced, rollbackVars
<1>2. CASE RollbackNext(minute, Measured) /\ UNCHANGED minute
  BY <1>2, CheckTriggerKeeps, ResolveKeeps, TriggersNamed DEF RollbackNext
<1> QED
  BY <1>1, <1>2 DEF RollbackStep

-----------------------------------------------------------------------------
(* The theorem about both.                                                 *)
CooldownInv == StreamingInv /\ RollbackInv

(* Neither two alerts of a metric and severity nor two rollbacks are       *)
(* closer than their cooldowns, for every cooldown, number of streams and  *)
(* time: over stops, restarts, dead loops and interrupts                   *)
(* (alerts.py:79, rollback_policy.py:111).                                 *)
THEOREM CooldownsHoldCorrect == Spec => []CooldownsHold
<1>1. Init => CooldownInv
  <2> SUFFICES ASSUME Init PROVE CooldownInv
    OBVIOUS
  <2>1. StreamingInv
    BY StreamingInvInit DEF Init
  <2>2. DOMAIN rollbacks = {} /\ rollbacks \in Seq(EventSet)
    BY DEF Init, RollbackInit
  <2>3. RollbackInv
    BY <2>2 DEF Init, RollbackInit, RollbackInv, RollbacksSpaced
  <2> QED
    BY <2>1, <2>3 DEF CooldownInv
<1>2. CooldownInv /\ [Next]_loopVars => CooldownInv'
  <2> SUFFICES ASSUME CooldownInv, [Next]_loopVars PROVE CooldownInv'
    OBVIOUS
  <2>1. [StreamingNext]_streamingVars
    BY DEF Next, loopVars, StreamingStep, RollbackStep, GateStep, LabStep, ReplayStep,
           LifecycleStep
  <2>2. RollbackStep \/ UNCHANGED <<minute, rollbackVars>>
    BY DEF Next, loopVars, StreamingStep, GateStep, LabStep, ReplayStep, LifecycleStep
  <2>3. UNCHANGED <<minute, rollbackVars>> /\ RollbackInv => RollbackInv'
    BY DEF rollbackVars, RollbackInv, RollbacksSpaced
  <2> QED
    BY <2>1, <2>2, <2>3, StreamingInvNext, RollbackStepKeeps DEF CooldownInv
<1>3. CooldownInv => CooldownsHold
  BY DEF CooldownInv, StreamingInv, RollbackInv, CooldownsHold
<1> QED
  BY <1>1, <1>2, <1>3, PTL DEF Spec

-----------------------------------------------------------------------------
(* The release gate.  What is on disk and called written are the results   *)
(* of a batch that ended; what is not written has no results; and a        *)
(* verdict that let a release through keeps what GateAllows says of it.    *)
Results == WorkerResults(TurnCounts)
BatchPcs == {"running", "saving", "results", "done", "crashed"}
BatchSet == [pc : BatchPcs, id : Nat, results : Seq(Results)]
FileSet == [written : BOOLEAN, results : Seq(Results)]

Finished(results) == \E b \in Evaluations : batch[b].pc = "done" /\ batch[b].results = results

AllowedFor(v) ==
    v.exit = 0 =>
        IF v.judged = <<>> THEN backend = "parquet"
        ELSE /\ Finished(v.judged)
             /\ 100 * Violations(v.judged) <= 8 * Len(v.judged)
             /\ BudgetStatus(Thousandths(Violations(v.judged), Len(v.judged)), 0)
                    # "CRITICAL"
             /\ ~BurnsOver(v.past, 20)
             /\ IsNumber(AverageFailure(v.judged)) => AverageFailure(v.judged) >= 3500

GateInv ==
    /\ backend \in {"parquet", "json"}
    /\ second \in Nat
    /\ batch \in [Evaluations -> BatchSet]
    /\ \A b \in Evaluations :
          batch[b].pc \in {"saving", "results", "done"} => batch[b].results # <<>>
    /\ \A id \in DOMAIN disk :
          /\ disk[id] \in FileSet
          /\ disk[id].written => disk[id].results # <<>> /\ Finished(disk[id].results)
          /\ ~disk[id].written => disk[id].results = <<>>
    /\ verdicts \in Seq([run : Int, baseline : SUBSET Int, judged : Seq(Results),
                         past : Histories, exit : Int])
    /\ \A k \in DOMAIN verdicts : AllowedFor(verdicts[k])

LEMMA LeastOfSome ==
  ASSUME NEW N \in SUBSET Nat, N # {}
  PROVE  Min(N) \in N
<1>1. \E n \in N : \A m \in N : n <= m
  BY LeastNatural
<1> QED
  BY <1>1 DEF Min

(* A failure comes in a turn, or not at all.                               *)
LEMMA ResultTypes ==
  ASSUME NEW r \in Results
  PROVE  r.failureTurn \in Int
<1>1. PICK a : r = EvaluateTurns(a)
  BY DEF Results, WorkerResults
<1> DEFINE seen == 1..Min({Len(a), MaxTurns})
           fails == {i \in seen : Detect(a[i]) = "violation"}
<1>2. fails \in SUBSET Nat
  OBVIOUS
<1>3. fails # {} => Min(fails) \in Nat
  BY <1>2, LeastOfSome
<1>4. r.failureTurn = IF fails = {} THEN 0 ELSE Min(fails)
  BY <1>1 DEF EvaluateTurns
<1> HIDE DEF fails
<1> QED
  BY <1>3, <1>4

LEMMA IndicesFinite ==
  ASSUME NEW S, NEW s \in Seq(S), NEW T \in SUBSET DOMAIN s
  PROVE  IsFiniteSet(T) /\ Cardinality(T) \in Nat /\ (T # {} => Cardinality(T) # 0)
<1>1. DOMAIN s = 1..Len(s) /\ Len(s) \in Nat
  OBVIOUS
<1>2. IsFiniteSet(1..Len(s))
  BY <1>1, FS_Interval
<1>3. IsFiniteSet(T)
  BY <1>1, <1>2, FS_Subset
<1> QED
  BY <1>3, FS_CardinalityType, FS_EmptySet

(* Rounding up keeps "above 80 thousandths".                               *)
LEMMA RateWithin ==
  ASSUME NEW v \in Nat, NEW l \in Nat, l # 0, ~(ThousandthsUp(v, l) > 80)
  PROVE  /\ 100 * v <= 8 * l
         /\ ~(Thousandths(v, l) >= 100)
<1> DEFINE q == ThousandthsUp(v, l)
           p == Thousandths(v, l)
<1>1. q \in Int /\ l * q >= 1000 * v
  BY DEF ThousandthsUp
<1>2. q <= 80
  BY <1>1
<1>3. l * q <= l * 80
  BY <1>1, <1>2
<1>4. 100 * v <= 8 * l
  BY <1>1, <1>3
<1>5. p \in Int /\ l * p <= 1000 * v
  BY DEF Thousandths
<1>6. ASSUME p >= 100 PROVE FALSE
  <2>1. l * p >= l * 100
    BY <1>5, <1>6
  <2> QED
    BY <2>1, <1>4, <1>5
<1> QED
  BY <1>4, <1>6

LEMMA AverageTypes ==
  ASSUME NEW results \in Seq(Results)
  PROVE  AverageFailure(results) \in Int
<1> DEFINE failing == Failing(results)
           turn == [k \in failing |-> results[k].failureTurn]
           total == SumFunctionOnSet(turn, failing)
<1>1. failing \in SUBSET DOMAIN results
  BY DEF Failing
<1>2. IsFiniteSet(failing) /\ Cardinality(failing) \in Nat
      /\ (failing # {} => Cardinality(failing) # 0)
  BY <1>1, IndicesFinite
<1>3. \A k \in failing : turn[k] \in Int
  BY <1>1, ResultTypes
<1>4. total \in Int
  BY <1>2, <1>3, SumTypes DEF IntValued
<1>5. failing # {} => Thousandths(total, Cardinality(failing)) \in Int
  <2> HIDE DEF total, failing
  <2> QED
    BY <1>2, <1>4 DEF Thousandths
<1>6. NoTurn \in Int /\ NotANumber \in Int
  BY DEF NoTurn, NotANumber
<1>7. AverageFailure(results) =
          IF failing = {} THEN NoTurn
          ELSE IF backend = "parquet" /\ failing # DOMAIN results THEN NotANumber
          ELSE Thousandths(total, Cardinality(failing))
  BY DEF AverageFailure
<1> HIDE DEF total, failing
<1> QED
  BY <1>5, <1>6, <1>7

(* What an exit of 0 says of the results that were judged.                 *)
LEMMA ExitAllows ==
  ASSUME GateInv, NEW id, NEW baseline, NEW past, GateExit(id, baseline, past) = 0
  PROVE  /\ CanLoad(id)
         /\ ~BurnsOver(past, 20)
         /\ Loaded(id) # <<>> =>
               /\ 100 * Violations(Loaded(id)) <= 8 * Len(Loaded(id))
               /\ BudgetStatus(Thousandths(Violations(Loaded(id)), Len(Loaded(id))), 0)
                      # "CRITICAL"
               /\ IsNumber(AverageFailure(Loaded(id))) => AverageFailure(Loaded(id)) >= 3500
<1> DEFINE results == Loaded(id)
           cand == SummaryMetrics(results)
           Said(severity) == GateDecision(cand, severity, past)
<1>1. CanLoad(id)
  BY DEF GateExit
<1>2. \E severity : ExitCode[Said(severity)] = 0
  BY <1>1 DEF GateExit
<1>3. PICK severity : Said(severity) = "OK"
  BY <1>2 DEF ExitCode, GateDecision
<1>4. Reasons(cand, "warn") = {} /\ ~BurnsOver(past, 20)
  BY <1>3 DEF GateDecision
<1>5. results \in Seq(Results)
  BY <1>1 DEF GateInv, CanLoad, Loaded, FileSet
<1>6. ASSUME results # <<>>
      PROVE  /\ 100 * Violations(results) <= 8 * Len(results)
             /\ BudgetStatus(Thousandths(Violations(results), Len(results)), 0) # "CRITICAL"
             /\ IsNumber(AverageFailure(results)) => AverageFailure(results) >= 3500
  <2>1. /\ cand.failure_rate = ThousandthsUp(Violations(results), Len(results))
        /\ cand.avg_first_failure = AverageFailure(results)
    BY <1>6 DEF SummaryMetrics
  <2>2. /\ DOMAIN GateLimits = {"failure_rate", "avg_first_failure"}
        /\ GateLimits["failure_rate"]["warn"] = 80
        /\ GateLimits["avg_first_failure"]["warn"] = 3500
    BY DEF GateLimits
  <2>3. \A metric \in {"failure_rate", "avg_first_failure"} :
            IsNumber(cand[metric]) =>
                ~ExceedsThreshold(metric, cand[metric], GateLimits[metric]["warn"])
    BY <1>4, <2>2 DEF Reasons
  <2>4. IsNumber(cand["failure_rate"]) => ~(cand["failure_rate"] > 80)
    BY <2>2, <2>3 DEF ExceedsThreshold
  <2>5. IsNumber(cand["avg_first_failure"]) => ~(cand["avg_first_failure"] < 3500)
    BY <2>2, <2>3 DEF ExceedsThreshold
  <2>6. AverageFailure(results) \in Int
    BY <1>5, AverageTypes
  <2>7. IsNumber(AverageFailure(results)) => AverageFailure(results) >= 3500
    <3> DEFINE average == AverageFailure(results)
    <3>1. average \in Int /\ (IsNumber(average) => ~(average < 3500))
      BY <2>1, <2>5, <2>6
    <3> HIDE DEF average
    <3>2. IsNumber(average) => average >= 3500
      BY <3>1
    <3> QED
      BY <3>2 DEF average
  <2> DEFINE v == Violations(results)
             l == Len(results)
  <2>8. v \in Nat /\ l \in Nat /\ l # 0
    <3>1. l \in Nat /\ l # 0
      BY <1>5, <1>6
    <3>2. {k \in DOMAIN results : results[k].status = "violation"} \in SUBSET DOMAIN results
      OBVIOUS
    <3>3. v \in Nat
      BY <1>5, <3>2, IndicesFinite DEF Violations
    <3> QED
      BY <3>1, <3>3
  <2>9. cand["failure_rate"] = ThousandthsUp(v, l)
    BY <2>1
  <2> HIDE DEF v, l, cand
  <2>10. ThousandthsUp(v, l) \in Int /\ ThousandthsUp(v, l) >= 0
    BY <2>8 DEF ThousandthsUp
  <2>11. ~(ThousandthsUp(v, l) > 80)
    BY <2>4, <2>9, <2>10 DEF IsNumber
  <2>12. 100 * v <= 8 * l /\ ~(Thousandths(v, l) >= 100)
    BY <2>8, <2>11, RateWithin
  <2>13. BudgetStatus(Thousandths(v, l), 0) # "CRITICAL"
    BY <2>12 DEF BudgetStatus
  <2> QED
    BY <2>7, <2>12, <2>13 DEF v, l
<1> QED
  BY <1>1, <1>4, <1>6

LEMMA WorkloadTypes == \A w \in Workload : w \in Seq(Results)
BY GateAssumption DEF Results

LEMMA EmptyTyped == <<>> \in Seq(Results)
OBVIOUS

LEMMA GateInvInit == GateInit => GateInv
<1> SUFFICES ASSUME GateInit PROVE GateInv
  OBVIOUS
<1>1. DOMAIN disk = {} /\ DOMAIN verdicts = {}
  BY DEF GateInit
<1>2. batch \in [Evaluations -> BatchSet]
  BY EmptyTyped DEF GateInit, BatchSet, BatchPcs
<1>3. \A b \in Evaluations : batch[b].pc = "running"
  BY DEF GateInit
<1>4. \A S : <<>> \in Seq(S)
  OBVIOUS
<1>5. verdicts \in Seq([run : Int, baseline : SUBSET Int, judged : Seq(Results),
                        past : Histories, exit : Int])
  BY <1>4 DEF GateInit
<1> QED
  BY <1>1, <1>2, <1>3, <1>5 DEF GateInit, GateInv

(* A step of a batch that keeps the batches that are done, the backend and *)
(* the verdicts keeps what was let through.                                *)
LEMMA AllowedStays ==
  ASSUME GateInv, UNCHANGED <<backend, verdicts>>,
         \A b \in Evaluations : batch[b].pc = "done" =>
             batch'[b].pc = "done" /\ batch'[b].results = batch[b].results
  PROVE  /\ \A k \in DOMAIN verdicts' : AllowedFor(verdicts[k])'
         /\ \A results : Finished(results) => Finished(results)'
<1>1. \A results : Finished(results) => Finished(results)'
  BY DEF Finished
<1>2. ASSUME NEW k \in DOMAIN verdicts PROVE AllowedFor(verdicts[k])'
  <2> DEFINE v == verdicts[k]
  <2>1. AllowedFor(v) /\ verdicts'[k] = v
    BY DEF GateInv
  <2>2. AverageFailure(v.judged)' = AverageFailure(v.judged)
    BY <2>1 DEF AverageFailure
  <2> QED
    BY <1>1, <2>1, <2>2 DEF AllowedFor
<1> QED
  BY <1>1, <1>2

LEMMA CollectKeeps ==
  ASSUME GateInv, NEW b \in Evaluations, Collect(b)
  PROVE  GateInv'
<1>1. PICK w \in Workload :
          batch' = [batch EXCEPT ![b] = [pc |-> IF w = <<>> THEN "crashed" ELSE "saving",
                                         id |-> second, results |-> w]]
  BY DEF Collect
<1> DEFINE r == [pc |-> IF w = <<>> THEN "crashed" ELSE "saving",
                 id |-> second, results |-> w]
<1>2. r \in BatchSet /\ (r.pc \in {"saving", "results", "done"} => r.results # <<>>)
  BY WorkloadTypes DEF GateInv, BatchSet, BatchPcs
<1>3. batch' = [batch EXCEPT ![b] = r]
  BY <1>1
<1> HIDE DEF r
<1>4. batch' \in [Evaluations -> BatchSet]
  BY <1>2, <1>3 DEF GateInv
<1>5. \A x \in Evaluations : batch'[x] = IF x = b THEN r ELSE batch[x]
  BY <1>3 DEF GateInv
<1>6. \A x \in Evaluations :
          batch'[x].pc \in {"saving", "results", "done"} => batch'[x].results # <<>>
  BY <1>2, <1>5 DEF GateInv
<1>7. /\ \A k \in DOMAIN verdicts' : AllowedFor(verdicts[k])'
      /\ \A results : Finished(results) => Finished(results)'
  BY <1>5, AllowedStays DEF Collect
<1> QED
  BY <1>4, <1>6, <1>7 DEF GateInv, Collect

(* A batch moves on: its results stay.                                     *)
LEMMA BatchMoves ==
  ASSUME GateInv, NEW b \in Evaluations, NEW pc \in BatchPcs,
         batch[b].pc \in {"saving", "results"}, batch' = [batch EXCEPT ![b].pc = pc]
  PROVE  /\ batch' \in [Evaluations -> BatchSet]
         /\ \A x \in Evaluations : batch'[x].results = batch[x].results
         /\ \A x \in Evaluations : batch'[x].pc = IF x = b THEN pc ELSE batch[x].pc
         /\ \A x \in Evaluations :
               batch'[x].pc \in {"saving", "results", "done"} => batch'[x].results # <<>>
<1> DEFINE r == [batch[b] EXCEPT !.pc = pc]
<1>1. batch[b] \in BatchSet
  BY DEF GateInv
<1>2. r \in BatchSet /\ r.pc = pc /\ r.results = batch[b].results
  BY <1>1 DEF BatchSet
<1>3. batch' = [batch EXCEPT ![b] = r]
  OBVIOUS
<1> HIDE DEF r
<1>4. batch' \in [Evaluations -> BatchSet]
  BY <1>2, <1>3 DEF GateInv
<1>5. \A x \in Evaluations : batch'[x] = IF x = b THEN r ELSE batch[x]
  BY <1>3 DEF GateInv
<1>6. batch[b].results # <<>>
  BY DEF GateInv
<1> QED
  BY <1>2, <1>4, <1>5, <1>6 DEF GateInv

LEMMA SaveMetadataKeeps ==
  ASSUME GateInv, NEW b \in Evaluations, SaveMetadata(b)
  PROVE  GateInv'
<1>1. /\ batch' \in [Evaluations -> BatchSet]
      /\ \A x \in Evaluations : batch'[x].results = batch[x].results
      /\ \A x \in Evaluations : batch'[x].pc = IF x = b THEN "results" ELSE batch[x].pc
      /\ \A x \in Evaluations :
            batch'[x].pc \in {"saving", "results", "done"} => batch'[x].results # <<>>
  BY BatchMoves DEF SaveMetadata, BatchPcs
<1>2. /\ \A k \in DOMAIN verdicts' : AllowedFor(verdicts[k])'
      /\ \A results : Finished(results) => Finished(results)'
  BY <1>1, AllowedStays DEF SaveMetadata
<1>3. NoFile \in FileSet /\ NoFile.results = <<>> /\ ~NoFile.written
  BY EmptyTyped DEF NoFile, FileSet
<1>4. \A id \in DOMAIN disk' : disk'[id] = IF id \in DOMAIN disk THEN disk[id] ELSE NoFile
  BY DEF SaveMetadata
<1>5. \A id \in DOMAIN disk' :
          /\ disk'[id] \in FileSet
          /\ disk'[id].written => disk'[id].results # <<>> /\ Finished(disk[id].results)'
          /\ ~disk'[id].written => disk'[id].results = <<>>
  BY <1>2, <1>3, <1>4 DEF GateInv
<1> QED
  BY <1>1, <1>2, <1>5 DEF GateInv, SaveMetadata

LEMMA SaveResultsKeeps ==
  ASSUME GateInv, NEW b \in Evaluations, SaveResults(b)
  PROVE  GateInv'
<1>1. /\ batch' \in [Evaluations -> BatchSet]
      /\ \A x \in Evaluations : batch'[x].results = batch[x].results
      /\ \A x \in Evaluations : batch'[x].pc = IF x = b THEN "done" ELSE batch[x].pc
      /\ \A x \in Evaluations :
            batch'[x].pc \in {"saving", "results", "done"} => batch'[x].results # <<>>
  BY BatchMoves DEF SaveResults, BatchPcs
<1>2. /\ \A k \in DOMAIN verdicts' : AllowedFor(verdicts[k])'
      /\ \A results : Finished(results) => Finished(results)'
  BY <1>1, AllowedStays DEF SaveResults
<1> DEFINE file == [written |-> TRUE, results |-> batch[b].results]
<1>3. batch[b] \in BatchSet /\ batch[b].results # <<>>
  BY DEF GateInv, SaveResults
<1>4. file \in FileSet /\ file.written /\ file.results = batch[b].results
  BY <1>3 DEF FileSet, BatchSet
<1>5. Finished(batch[b].results)'
  BY <1>1 DEF Finished
<1>6. disk' = [disk EXCEPT ![batch[b].id] = file]
  BY DEF SaveResults
<1> HIDE DEF file
<1>7. DOMAIN disk' = DOMAIN disk
  BY <1>6
<1>8. \A id \in DOMAIN disk : disk'[id] = IF id = batch[b].id THEN file ELSE disk[id]
  BY <1>6
<1>9. ASSUME NEW id \in DOMAIN disk'
      PROVE  /\ disk'[id] \in FileSet
             /\ disk'[id].written => disk'[id].results # <<>> /\ Finished(disk[id].results)'
             /\ ~disk'[id].written => disk'[id].results = <<>>
  <2>1. CASE disk'[id] = file
    <3>1. Finished(disk[id].results)'
      BY <1>1, <1>4, <2>1 DEF Finished
    <3> QED
      BY <1>3, <1>4, <2>1, <3>1
  <2>2. CASE disk'[id] = disk[id]
    <3>1. disk[id].written => Finished(disk[id].results)'
      BY <1>1, <1>2, <1>7, <2>2 DEF GateInv, Finished
    <3> QED
      BY <1>7, <2>2, <3>1 DEF GateInv
  <2> QED
    BY <1>7, <1>8, <2>1, <2>2
<1> QED
  BY <1>1, <1>2, <1>9 DEF GateInv, SaveResults

LEMMA GateCrashKeeps ==
  ASSUME GateInv, NEW b \in Evaluations, Crash(b)
  PROVE  GateInv'
<1>1. /\ batch' \in [Evaluations -> BatchSet]
      /\ \A x \in Evaluations : batch'[x].results = batch[x].results
      /\ \A x \in Evaluations : batch'[x].pc = IF x = b THEN "crashed" ELSE batch[x].pc
      /\ \A x \in Evaluations :
            batch'[x].pc \in {"saving", "results", "done"} => batch'[x].results # <<>>
  BY BatchMoves DEF Crash, BatchPcs
<1>2. /\ \A k \in DOMAIN verdicts' : AllowedFor(verdicts[k])'
      /\ \A results : Finished(results) => Finished(results)'
  BY <1>1, AllowedStays DEF Crash
<1> QED
  BY <1>1, <1>2 DEF GateInv, Crash

LEMMA NextSecondKeeps == GateInv /\ NextSecond => GateInv'
<1> SUFFICES ASSUME GateInv, NextSecond PROVE GateInv'
  OBVIOUS
<1>1. /\ \A k \in DOMAIN verdicts' : AllowedFor(verdicts[k])'
      /\ \A results : Finished(results) => Finished(results)'
  BY AllowedStays DEF NextSecond
<1>2. second' \in Nat
  BY DEF GateInv, NextSecond
<1> QED
  BY <1>1, <1>2 DEF GateInv, NextSecond

LEMMA RunGateKeeps ==
  ASSUME GateInv, NEW id \in Int, NEW baseline \in SUBSET Int, NEW past \in Histories,
         RunGate(id, baseline, past)
  PROVE  GateInv'
<1> DEFINE v == [run |-> id, baseline |-> baseline,
                 judged |-> IF CanLoad(id) THEN Loaded(id) ELSE <<>>,
                 past |-> past, exit |-> GateExit(id, baseline, past)]
           VerdictSet == [run : Int, baseline : SUBSET Int, judged : Seq(Results),
                          past : Histories, exit : Int]
<1>1. verdicts' = Append(verdicts, v) /\ UNCHANGED <<backend, disk, batch, second>>
  BY DEF RunGate
<1>2. v.judged \in Seq(Results)
  BY EmptyTyped DEF GateInv, CanLoad, Loaded, FileSet
<1>3. v.exit \in Int
  <2>1. \A severity : GateDecision(SummaryMetrics(Loaded(id)), severity, past)
                          \in {"OK", "WARN", "BLOCK"}
    BY DEF GateDecision
  <2> QED
    BY <2>1 DEF GateExit, ExitCode
<1>4. v \in VerdictSet
  BY <1>2, <1>3
<1>5. AllowedFor(v)
  <2> SUFFICES ASSUME GateExit(id, baseline, past) = 0 PROVE AllowedFor(v)
    BY DEF AllowedFor
  <2>1. CanLoad(id) /\ v.judged = Loaded(id) /\ v.past = past
    BY ExitAllows
  <2>2. CASE Loaded(id) = <<>>
    <3>1. backend = "parquet"
      BY <2>1, <2>2 DEF CanLoad, Loaded, GateInv
    <3> QED
      BY <2>1, <2>2, <3>1 DEF AllowedFor
  <2>3. CASE Loaded(id) # <<>>
    <3>1. Finished(Loaded(id))
      BY <2>1, <2>3 DEF CanLoad, Loaded, GateInv
    <3> QED
      BY <2>1, <2>3, <3>1, ExitAllows DEF AllowedFor
  <2> QED
    BY <2>2, <2>3
<1>6. verdicts \in Seq(VerdictSet)
  BY DEF GateInv
<1> HIDE DEF v, VerdictSet
<1>7. verdicts' \in Seq(VerdictSet)
  BY <1>1, <1>4, <1>6
<1>8. \A k \in DOMAIN verdicts' :
          \/ verdicts'[k] = v
          \/ k \in DOMAIN verdicts /\ verdicts'[k] = verdicts[k]
  BY <1>1, <1>4, <1>6
<1>9. ASSUME NEW k \in DOMAIN verdicts' PROVE AllowedFor(verdicts[k])'
  <2>1. AllowedFor(verdicts'[k])
    BY <1>5, <1>8 DEF GateInv
  <2>2. AverageFailure(verdicts[k].judged)' = AverageFailure(verdicts'[k].judged)
    BY <1>1 DEF AverageFailure
  <2>3. Finished(verdicts[k].judged)' <=> Finished(verdicts'[k].judged)
    BY <1>1 DEF Finished
  <2> QED
    BY <1>1, <2>1, <2>2, <2>3 DEF AllowedFor
<1>10. \A results : Finished(results)' <=> Finished(results)
  BY <1>1 DEF Finished
<1> QED
  BY <1>1, <1>7, <1>9, <1>10 DEF GateInv, VerdictSet

LEMMA GateInvNext == GateInv /\ [GateNext]_gateVars => GateInv'
<1> SUFFICES ASSUME GateInv, [GateNext]_gateVars PROVE GateInv'
  OBVIOUS
<1>1. CASE UNCHANGED gateVars
  <2>1. \A k \in DOMAIN verdicts' : AllowedFor(verdicts[k])'
    BY <1>1, AllowedStays DEF gateVars
  <2> QED
    BY <1>1, <2>1 DEF gateVars, GateInv, Finished
<1>2. CASE GateNext
  <2>1. 0..MaxSeconds \subseteq Int
    OBVIOUS
  <2> QED
    BY <1>2, <2>1, CollectKeeps, SaveMetadataKeeps, SaveResultsKeeps, GateCrashKeeps,
       NextSecondKeeps, RunGateKeeps DEF GateNext
<1> QED
  BY <1>1, <1>2

(* A release that the gate lets through without a word is one whose whole  *)
(* batch is within the warning, or was never written to parquet, for every *)
(* workload, history and order of batches, crashes and gates               *)
(* (metrics_store.py:152, run_release_gate.py:59).                         *)
THEOREM GateAllowsCorrect == Spec => []GateAllows
<1>1. Init => GateInv
  BY GateInvInit DEF Init
<1>2. GateInv /\ [Next]_loopVars => GateInv'
  <2> SUFFICES ASSUME GateInv, [Next]_loopVars PROVE GateInv'
    OBVIOUS
  <2>1. [GateNext]_gateVars
    BY DEF Next, loopVars, StreamingStep, RollbackStep, GateStep, LabStep, ReplayStep,
           LifecycleStep
  <2> QED
    BY <2>1, GateInvNext
<1>3. GateInv => GateAllows
  BY DEF GateInv, GateAllows, AllowedFor, Finished
<1> QED
  BY <1>1, <1>2, <1>3, PTL DEF Spec

-----------------------------------------------------------------------------
(* The incident lab.  A promotion that has not cleared its debt yet left   *)
(* the whole case of its incident on the disk.                             *)
PromotedCase(f) ==
    /\ pipeline = [file |-> f, stage |-> "promoted"]
    /\ tests[Incidents[f].id] = [left |-> "whole", case |-> RegressionCase(f)]

LabInv ==
    /\ DOMAIN tests = Ids
    /\ debts \in Seq(DebtEntries)
    /\ pipeline = Idle \/ \E f \in Files : PromotedCase(f)

(* An entry that was not mitigated becomes so; the evidence is added to    *)
(* what it has, if it has a field for it.                                  *)
OneMitigated(before, after, evidence) ==
    \E k \in DOMAIN before :
       /\ \A i \in DOMAIN before : i # k => after[i] = before[i]
       /\ before[k].status # "mitigated" /\ after[k].status = "mitigated"
       /\ before[k].evidence \subseteq after[k].evidence
       /\ before[k].listed => evidence \subseteq after[k].evidence

LEMMA MitigatedFact ==
  ASSUME debts \in Seq(DebtEntries), NEW f \in Files, NEW evidence \in SUBSET TestNames,
         NEW after, after = Mitigated(f, evidence)
  PROVE  /\ after \in Seq(DebtEntries)
         /\ after # debts => OneMitigated(debts, after, evidence)
<1> DEFINE due == {k \in DOMAIN debts :
                     Matches(debts[k], f) /\ debts[k].status # "mitigated"}
           n == Min(due)
           entry == Cleared(debts[n], evidence)
<1>1. CASE due = {}
  BY <1>1 DEF Mitigated
<1>2. CASE due # {}
  <2>1. after = [debts EXCEPT ![n] = entry]
    BY <1>2 DEF Mitigated
  <2>2. due \in SUBSET Nat
    OBVIOUS
  <2>3. n \in due
    <3> HIDE DEF due
    <3> QED
      BY <1>2, <2>2, LeastOfSome
  <2>4. n \in DOMAIN debts /\ debts[n] \in DebtEntries /\ debts[n].status # "mitigated"
    BY <2>3
  <2> HIDE DEF n, due
  <2>5. /\ entry \in DebtEntries /\ entry.status = "mitigated"
        /\ debts[n].evidence \subseteq entry.evidence
        /\ debts[n].listed => evidence \subseteq entry.evidence
    BY <2>4 DEF DebtEntries, Cleared
  <2> HIDE DEF entry
  <2>6. after \in Seq(DebtEntries)
    BY <2>1, <2>4, <2>5
  <2>7. after[n] = entry /\ \A i \in DOMAIN debts : i # n => after[i] = debts[i]
    BY <2>1, <2>4
  <2> QED
    BY <2>4, <2>5, <2>6, <2>7 DEF OneMitigated
<1> QED
  BY <1>1, <1>2

LEMMA LabInvNext == LabInv /\ [LabNext \/ GradingNext]_labVars => LabInv'
<1> SUFFICES ASSUME LabInv, [LabNext \/ GradingNext]_labVars PROVE LabInv'
  OBVIOUS
<1>1. ASSUME NEW f \in Files, PromoteToClear(f) PROVE LabInv'
  <2>1. Incidents[f].id \in Ids
    BY DEF Ids
  <2>2. PromotedCase(f)'
    BY <1>1, <2>1 DEF PromoteToClear, Promote, LabInv, PromotedCase, RegressionCase
  <2> QED
    BY <1>1, <2>2 DEF PromoteToClear, Promote, LabInv
<1>2. ASSUME NEW f \in Files, PromoteOnly(f) PROVE LabInv'
  BY <1>2 DEF PromoteOnly, Promote, LabInv
<1>3. ASSUME NEW f \in Files, PromotionFails(f) PROVE LabInv'
  BY <1>3 DEF PromotionFails, LabInv
<1>4. ASSUME NEW f \in Files, NEW e \in GivenEvidence \cup {{Incidents[f].id}},
             ClearDebtOnly(f, e)
      PROVE  LabInv'
  <2>1. e \in SUBSET TestNames
    BY IncidentAssumption DEF Ids
  <2>2. debts' \in Seq(DebtEntries)
    BY <1>4, <2>1, MitigatedFact DEF ClearDebtOnly, LabInv
  <2> QED
    BY <1>4, <2>2 DEF ClearDebtOnly, LabInv
<1>5. ASSUME NEW f \in Files, FullAnalysis(f) \/ GenerateRegression(f) PROVE LabInv'
  BY <1>5 DEF FullAnalysis, GenerateRegression, LabInv
<1>6. CASE ClearPromoted
  <2>1. pipeline.file \in Files /\ {Incidents[pipeline.file].id} \in SUBSET TestNames
    <3>1. PICK g \in Files : PromotedCase(g)
      BY <1>6 DEF LabInv, ClearPromoted, Idle
    <3>2. pipeline.file = g /\ Incidents[g].id \in Ids
      BY <3>1 DEF PromotedCase, Ids
    <3> QED
      BY <3>2, IncidentAssumption
  <2>2. debts' \in Seq(DebtEntries)
    BY <1>6, <2>1, MitigatedFact DEF ClearPromoted, LabInv
  <2> QED
    BY <1>6, <2>2 DEF ClearPromoted, LabInv
<1>7. CASE ClearingFails
  BY <1>7 DEF ClearingFails, LabInv
<1>8. CASE GradingNext
  BY <1>8 DEF GradingNext, AssessPair, GradePair, LabInv, PromotedCase
<1>9. CASE UNCHANGED labVars
  BY <1>9 DEF labVars, LabInv, PromotedCase
<1> QED
  BY <1>1, <1>2, <1>3, <1>4, <1>5, <1>6, <1>7, <1>8, <1>9 DEF LabNext

(* A step of the ledger, as ClosedLoop states it.                          *)
ClosedStep ==
    debts' # debts =>
        \E k \in DOMAIN debts :
           /\ \A i \in DOMAIN debts : i # k => debts'[i] = debts[i]
           /\ debts[k].status # "mitigated" /\ debts'[k].status = "mitigated"
           /\ debts[k].evidence \subseteq debts'[k].evidence
           /\ pipeline.stage = "promoted" =>
                 LET incident == Incidents[pipeline.file]
                 IN  /\ tests'[incident.id].left = "whole"
                     /\ debts[k].listed => incident.id \in debts'[k].evidence
                     /\ Verification'.answer # "error"
                     /\ incident.type \notin Verification'.gaps

LEMMA ClearingClosed == LabInv /\ ClearPromoted => ClosedStep
<1> SUFFICES ASSUME LabInv, ClearPromoted PROVE ClosedStep
  OBVIOUS
<1>1. PICK g \in Files : PromotedCase(g)
  BY DEF LabInv, ClearPromoted, Idle
<1> DEFINE id == Incidents[g].id
<1>2. /\ tests'[id].left = "whole" /\ tests'[id].case.type = Incidents[g].type
      /\ id \in Ids /\ pipeline.file = g
  BY <1>1 DEF PromotedCase, ClearPromoted, RegressionCase, Ids
<1>3. Verification'.answer # "error" /\ Incidents[g].type \notin Verification'.gaps
  <2>1. ~(\A i \in Ids : tests'[i].left = "absent")
    BY <1>2
  <2>2. Incidents[g].type \in {tests'[i].case.type : i \in {j \in Ids : tests'[j].left = "whole"}}
    BY <1>2
  <2> QED
    BY <2>1, <2>2 DEF Verification, Whole
<1>4. debts' # debts => OneMitigated(debts, debts', {id})
  <2>1. {id} \in SUBSET TestNames /\ debts' = Mitigated(g, {id})
    BY <1>2, IncidentAssumption DEF ClearPromoted
  <2> QED
    BY <2>1, MitigatedFact DEF LabInv
<1> QED
  BY <1>2, <1>3, <1>4 DEF ClosedStep, OneMitigated

LEMMA ByHandOpen ==
  ASSUME LabInv, NEW g \in Files, NEW e \in GivenEvidence \cup {{Incidents[g].id}},
         ClearDebtOnly(g, e)
  PROVE  ClosedStep
<1>1. e \in SUBSET TestNames
  BY IncidentAssumption DEF Ids
<1>2. debts' # debts => OneMitigated(debts, debts', e)
  BY <1>1, MitigatedFact DEF ClearDebtOnly, LabInv
<1>3. pipeline.stage # "promoted"
  BY DEF ClearDebtOnly, Idle
<1> QED
  BY <1>2, <1>3 DEF ClosedStep, OneMitigated

(* The ledger loses neither entries nor evidence, one entry is cleared at  *)
(* a time and none twice; and what a promotion clears has a whole test     *)
(* that the entry names and the coverage counts: for any incidents,        *)
(* ledgers and evidence given by hand, and however often the programs are  *)
(* cut short (pipeline.py:132, debt_clearing.py:126).                      *)
THEOREM ClosedLoopCorrect == Spec => ClosedLoop
<1>1. Init => LabInv
  BY IncidentAssumption DEF Init, LabInit, LabInv
<1>2. ASSUME LabInv, [Next]_loopVars PROVE LabInv' /\ [ClosedStep]_labVars
  <2>1. [LabNext \/ GradingNext]_labVars
    BY <1>2 DEF Next, loopVars, StreamingStep, RollbackStep, GateStep, LabStep, ReplayStep,
                LifecycleStep
  <2>2. debts' # debts =>
           \/ ClearPromoted
           \/ \E f \in Files : \E e \in GivenEvidence \cup {{Incidents[f].id}} :
                 ClearDebtOnly(f, e)
    BY <2>1 DEF labVars, LabNext, GradingNext, PromoteToClear, PromoteOnly, Promote,
                PromotionFails, FullAnalysis, GenerateRegression, ClearingFails,
                AssessPair, GradePair
  <2>3. ClosedStep
    BY <1>2, <2>2, ClearingClosed, ByHandOpen DEF ClosedStep
  <2> QED
    BY <1>2, <2>1, <2>3, LabInvNext
<1>3. Spec => [][ClosedStep]_labVars
  BY <1>1, <1>2, PTL DEF Spec
<1> QED
  BY <1>3 DEF ClosedLoop, ClosedStep

-----------------------------------------------------------------------------
(* The lifecycle of the tests.  A test is dated by what it was made and    *)
(* triggered last, never in the future.                                    *)
SoundTest(test) ==
    /\ test.created \in 0..day
    /\ test.triggered = {} \/ \E t \in test.created..day : test.triggered = {t}
    /\ test.count \in Nat
    /\ test.severity \in {"critical", "high", "medium", "low"}
    /\ test.source \in {"incident", "near_miss", "red_team", "manual"}

TestFields == {"source", "severity", "mode", "created", "triggered", "count", "relevance",
               "retired"}

LifecycleInv ==
    /\ day \in Nat
    /\ \A id \in DOMAIN registry : DOMAIN registry[id] = TestFields /\ SoundTest(registry[id])

LEMMA MaxOfTwo ==
  ASSUME NEW a \in Nat, NEW b \in Nat, a <= b
  PROVE  Max({b} \cup {a}) = b /\ Max({b}) = b
<1>1. \A S : (b \in S /\ \A y \in S : y \in Nat /\ y <= b) => Max(S) = b
  <2> SUFFICES ASSUME NEW S, b \in S, \A y \in S : y \in Nat /\ y <= b PROVE Max(S) = b
    OBVIOUS
  <2>1. \E x \in S : \A y \in S : x >= y
    OBVIOUS
  <2>2. Max(S) \in S /\ \A y \in S : Max(S) >= y
    BY <2>1 DEF Max
  <2>3. Max(S) \in Nat /\ Max(S) <= b /\ Max(S) >= b
    BY <2>2
  <2> QED
    BY <2>3
<1> QED
  BY <1>1

LEMMA SeenReference ==
  ASSUME NEW test, day \in Nat, SoundTest(test)
  PROVE  LastSeen(test) = ReferenceDate(test) /\ LastSeen(test) \in 0..day
<1>1. test.created \in Nat /\ test.created <= day
  BY DEF SoundTest
<1>2. CASE test.triggered = {}
  <2>1. test.triggered \cup {test.created} = {test.created} \cup {test.created}
    BY <1>2
  <2>2. Max({test.created} \cup {test.created}) = test.created
    BY <1>1, MaxOfTwo
  <2> QED
    BY <1>1, <1>2, <2>1, <2>2 DEF LastSeen, ReferenceDate
<1>3. CASE test.triggered # {}
  <2>1. PICK t \in test.created..day : test.triggered = {t}
    BY <1>3 DEF SoundTest
  <2>2. t \in Nat /\ test.created <= t /\ t <= day
    BY <1>1, <2>1
  <2>3. Max({t} \cup {test.created}) = t /\ Max({t}) = t
    BY <1>1, <2>2, MaxOfTwo
  <2> QED
    BY <1>3, <2>1, <2>2, <2>3 DEF LastSeen, ReferenceDate
<1> QED
  BY <1>2, <1>3

LEMMA MinOfTwo ==
  ASSUME NEW a \in Int, NEW b \in Int
  PROVE  Min({a, b}) = IF a <= b THEN a ELSE b
<1>1. Min({a, b}) \in {a, b} /\ \A y \in {a, b} : Min({a, b}) <= y
  <2>1. \E x \in {a, b} : \A y \in {a, b} : x <= y
    OBVIOUS
  <2> QED
    BY <2>1 DEF Min
<1> QED
  BY <1>1

(* Until a half-life has passed, relevance is far above the threshold.     *)
LEMMA FreshRelevance ==
  ASSUME NEW test, day \in Nat, SoundTest(test), ~(day - LastSeen(test) > 1)
  PROVE  ~(ComputeRelevance(test) < RetirementThreshold)
<1> DEFINE n == day - ReferenceDate(test)
           sf == SeverityFactor[test.severity]
           of == SourceFactor[test.source]
           bonus == Min({100 * test.count, 300})
           faded == (10 * sf * of) \div 2^n
<1>1. n \in Int /\ (n = 0 \/ n = 1)
  BY SeenReference
<1>2. sf \in 8..15 /\ of \in 9..13
  BY DEF SoundTest, SeverityFactor, SourceFactor
<1>3. bonus \in Int /\ bonus >= 0
  <2>1. 100 * test.count \in Int /\ 100 * test.count >= 0
    BY DEF SoundTest
  <2> QED
    BY <2>1, MinOfTwo
<1>4. 10 * sf * of \in Int /\ 10 * sf * of >= 720
  <2> HIDE DEF sf, of
  <2>1. sf \in Int /\ of \in Int /\ sf >= 8 /\ of >= 9
    BY <1>2
  <2>2. sf * of >= 8 * of
    BY <2>1
  <2>3. 8 * of >= 72 /\ sf * of \in Int
    BY <2>1
  <2> QED
    BY <2>1, <2>2, <2>3
<1>5. faded \in Int /\ faded >= 360
  <2> DEFINE k == 10 * sf * of
  <2>1. k \in Int /\ k >= 720
    BY <1>4
  <2> HIDE DEF k, n
  <2>2. n = 0 => k \div 2^n = k
    BY <2>1
  <2>3. n = 1 => k \div 2^n = k \div 2
    BY <2>1
  <2>4. k \div 2 \in Int /\ k \div 2 >= 360
    BY <2>1
  <2>5. k \div 2^n \in Int /\ k \div 2^n >= 360
    BY <1>1, <2>1, <2>2, <2>3, <2>4
  <2> QED
    BY <2>5 DEF k
<1>6. ComputeRelevance(test) = Min({1000, faded + bonus})
  BY DEF ComputeRelevance
<1> HIDE DEF faded, bonus
<1>7. ComputeRelevance(test) \in Int /\ ComputeRelevance(test) >= 360
  BY <1>3, <1>5, <1>6, MinOfTwo
<1> QED
  BY <1>7, LifecycleAssumption

LEMMA NewTestSound ==
  ASSUME day \in Nat, NEW t, t.severity \in {"critical", "high", "medium", "low"},
         t.source \in {"incident", "near_miss", "red_team", "manual"}
  PROVE  DOMAIN NewTest(t) = TestFields /\ SoundTest(NewTest(t))
BY DEF NewTest, TestFields, SoundTest

LEMMA RegisteredKeeps ==
  ASSUME LifecycleInv, UNCHANGED day, NEW t, Registered(t),
         t.severity \in {"critical", "high", "medium", "low"},
         t.source \in {"incident", "near_miss", "red_team", "manual"}
  PROVE  LifecycleInv'
<1>1. DOMAIN NewTest(t) = TestFields /\ SoundTest(NewTest(t))
  BY NewTestSound DEF LifecycleInv
<1>2. \A id \in DOMAIN registry' :
          registry'[id] = NewTest(t) \/ (id \in DOMAIN registry /\ registry'[id] = registry[id])
  BY DEF Registered
<1>3. \A id \in DOMAIN registry' :
          DOMAIN registry'[id] = TestFields /\ SoundTest(registry'[id])
  BY <1>1, <1>2 DEF LifecycleInv
<1> QED
  BY <1>3 DEF LifecycleInv, SoundTest

(* Scores, retirements and revalidations leave what dates a test.          *)
Dated(new, old) ==
    /\ DOMAIN new = DOMAIN old
    /\ new.created = old.created /\ new.triggered = old.triggered
    /\ new.count = old.count /\ new.severity = old.severity /\ new.source = old.source

LEMMA ChangesDated ==
  ASSUME NEW test, DOMAIN test = TestFields, NEW relevance, NEW retired
  PROVE  /\ Dated([test EXCEPT !.relevance = relevance], test)
         /\ Dated([test EXCEPT !.retired = retired], test)
         /\ Dated([test EXCEPT !.retired = retired, !.relevance = relevance], test)
<1> DEFINE a == [test EXCEPT !.relevance = relevance]
           b == [test EXCEPT !.retired = retired]
           c == [test EXCEPT !.retired = retired, !.relevance = relevance]
<1>1. Dated(a, test)
  BY DEF TestFields, Dated
<1>2. Dated(b, test)
  BY DEF TestFields, Dated
<1>3. Dated(c, test)
  BY DEF TestFields, Dated
<1> QED
  BY <1>1, <1>2, <1>3

LEMMA DatesStay ==
  ASSUME LifecycleInv, UNCHANGED day, DOMAIN registry' = DOMAIN registry,
         \A id \in DOMAIN registry : Dated(registry'[id], registry[id])
  PROVE  LifecycleInv'
<1>1. ASSUME NEW id \in DOMAIN registry
      PROVE  DOMAIN registry'[id] = TestFields /\ SoundTest(registry'[id])
  <2>1. DOMAIN registry[id] = TestFields /\ SoundTest(registry[id])
    BY DEF LifecycleInv
  <2>2. Dated(registry'[id], registry[id])
    OBVIOUS
  <2> QED
    BY <2>1, <2>2 DEF SoundTest, Dated
<1> QED
  BY <1>1 DEF LifecycleInv, SoundTest

(* The scores of an update, and what dates its tests.                      *)
LEMMA ScoresDated ==
  ASSUME LifecycleInv
  PROVE  /\ DOMAIN UpdateRelevanceScores(registry) = DOMAIN registry
         /\ \A id \in DOMAIN registry :
               /\ DOMAIN UpdateRelevanceScores(registry)[id] = TestFields
               /\ Dated(UpdateRelevanceScores(registry)[id], registry[id])
<1> DEFINE current == UpdateRelevanceScores(registry)
<1>1. DOMAIN current = DOMAIN registry
  BY DEF UpdateRelevanceScores
<1>2. ASSUME NEW id \in DOMAIN registry
      PROVE  DOMAIN current[id] = TestFields /\ Dated(current[id], registry[id])
  <2> DEFINE relevance == ComputeRelevance(registry[id])
             scored == [registry[id] EXCEPT !.relevance = relevance]
  <2>1. DOMAIN registry[id] = TestFields
    BY DEF LifecycleInv
  <2>2. current[id] = IF registry[id].retired THEN registry[id] ELSE scored
    BY DEF UpdateRelevanceScores
  <2> HIDE DEF relevance
  <2>3. Dated(scored, registry[id]) /\ Dated(registry[id], registry[id])
    BY <2>1, ChangesDated DEF Dated
  <2>4. Dated(current[id], registry[id])
    BY <2>2, <2>3
  <2> QED
    BY <2>1, <2>4 DEF Dated
<1> QED
  BY <1>1, <1>2

LEMMA TriggerKeeps ==
  ASSUME LifecycleInv, NEW id \in DOMAIN registry, TriggerTest(id)
  PROVE  LifecycleInv'
<1> DEFINE old == registry[id]
           new == [old EXCEPT !.triggered = {day}, !.count = @ + 1]
<1>1. registry' = [registry EXCEPT ![id] = new]
  BY DEF TriggerTest
<1>2. DOMAIN old = TestFields /\ SoundTest(old)
  BY DEF LifecycleInv
<1>3. /\ DOMAIN new = TestFields /\ new.created = old.created /\ new.triggered = {day}
      /\ new.count = old.count + 1 /\ new.severity = old.severity
      /\ new.source = old.source
  BY <1>2 DEF TestFields
<1> HIDE DEF new
<1>4. DOMAIN registry' = DOMAIN registry
  BY <1>1
<1>5. \A i \in DOMAIN registry : registry'[i] = IF i = id THEN new ELSE registry[i]
  BY <1>1
<1>6. SoundTest(new)
  <2> HIDE DEF old
  <2>1. day \in old.created..day /\ day \in Nat
    BY <1>2 DEF LifecycleInv, SoundTest
  <2> QED
    BY <1>2, <1>3, <2>1 DEF SoundTest
<1>7. \A i \in DOMAIN registry' :
          DOMAIN registry'[i] = TestFields /\ SoundTest(registry'[i])
  BY <1>3, <1>4, <1>5, <1>6 DEF LifecycleInv
<1> QED
  BY <1>7 DEF LifecycleInv, TriggerTest, SoundTest

LEMMA HarmNamed == \A c : HarmSeverity(c) \in {"critical", "high", "medium", "low"}
BY DEF HarmSeverity

LEMMA NearMissNamed ==
  ASSUME NEW c, NEW nm \in DetectNearMiss(c)
  PROVE  nm.severity \in {"critical", "high", "medium", "low"}
<1>1. \E type, margin, before : nm = NearMiss(c, type, margin, before)
  BY DEF DetectNearMiss
<1> QED
  BY <1>1, HarmNamed DEF NearMiss

LEMMA LifecycleInvNext == LifecycleInv /\ [LifecycleNext]_lifecycleVars => LifecycleInv'
<1> SUFFICES ASSUME LifecycleInv, [LifecycleNext]_lifecycleVars PROVE LifecycleInv'
  OBVIOUS
<1>1. ASSUME NEW c \in Conversations, AddNearMiss(c) PROVE LifecycleInv'
  <2>1. PICK nm \in DetectNearMiss(c) : Registered(NearMissTest(Len(nearMisses), nm))
    BY <1>1 DEF AddNearMiss
  <2> DEFINE t == NearMissTest(Len(nearMisses), nm)
  <2>2. t.severity \in {"critical", "high", "medium", "low"} /\ t.source = "near_miss"
    BY NearMissNamed DEF NearMissTest
  <2> QED
    BY <1>1, <2>1, <2>2, RegisteredKeeps DEF AddNearMiss
<1>2. ASSUME NEW t \in NewTests, AddTest(t) PROVE LifecycleInv'
  BY <1>2, LifecycleAssumption, RegisteredKeeps DEF AddTest
<1>3. ASSUME NEW id \in DOMAIN registry, TriggerTest(id) PROVE LifecycleInv'
  BY <1>3, TriggerKeeps
<1>4. CASE UpdateScores
  BY <1>4, ScoresDated, DatesStay DEF UpdateScores
<1>5. CASE AutoRetirementPolicy
  <2> DEFINE current == UpdateRelevanceScores(registry)
             Gone(id) == id \in RetirementCandidates(current)
  <2>1. /\ DOMAIN current = DOMAIN registry
        /\ \A id \in DOMAIN registry :
              DOMAIN current[id] = TestFields /\ Dated(current[id], registry[id])
    BY ScoresDated
  <2>2. registry' = [id \in DOMAIN current |->
                        [current[id] EXCEPT !.retired = @ \/ Gone(id)]]
    BY <1>5 DEF AutoRetirementPolicy
  <2> HIDE DEF current, Gone
  <2>3. DOMAIN registry' = DOMAIN registry
    BY <2>1, <2>2
  <2>4. ASSUME NEW id \in DOMAIN registry PROVE Dated(registry'[id], registry[id])
    <3> DEFINE retired == current[id].retired \/ Gone(id)
    <3>1. registry'[id] = [current[id] EXCEPT !.retired = retired]
      BY <2>1, <2>2
    <3> HIDE DEF retired
    <3>2. DOMAIN current[id] = TestFields /\ Dated(current[id], registry[id])
      BY <2>1
    <3>3. Dated([current[id] EXCEPT !.retired = retired], current[id])
      BY <3>2, ChangesDated
    <3> QED
      BY <3>1, <3>2, <3>3 DEF Dated
  <2> QED
    BY <1>5, <2>3, <2>4, DatesStay DEF AutoRetirementPolicy
<1>6. CASE NextHalfLife
  <2>1. day' = day + 1 /\ day \in Nat /\ UNCHANGED registry
    BY <1>6 DEF NextHalfLife, LifecycleInv
  <2>2. ASSUME NEW test, SoundTest(test)
        PROVE  /\ test.created \in 0..day'
               /\ test.triggered = {} \/ \E t \in test.created..day' : test.triggered = {t}
    BY <2>1, <2>2 DEF SoundTest
  <2>3. \A id \in DOMAIN registry' : SoundTest(registry[id])'
    BY <2>1, <2>2 DEF SoundTest, LifecycleInv
  <2> QED
    BY <2>1, <2>3 DEF LifecycleInv
<1>7. ASSUME NEW ids \in SUBSET DOMAIN registry, Revalidate(ids) PROVE LifecycleInv'
  <2>1. DOMAIN registry' = DOMAIN registry
    BY <1>7 DEF Revalidate
  <2>2. ASSUME NEW id \in DOMAIN registry PROVE Dated(registry'[id], registry[id])
    <3>1. DOMAIN registry[id] = TestFields
      BY DEF LifecycleInv
    <3>2. CASE id \in ids
      <4>1. registry'[id] = [registry[id] EXCEPT !.retired = FALSE, !.relevance = 500]
        BY <1>7, <3>2 DEF Revalidate
      <4>2. Dated([registry[id] EXCEPT !.retired = FALSE, !.relevance = 500], registry[id])
        BY <3>1, ChangesDated
      <4> QED
        BY <4>1, <4>2
    <3>3. CASE id \notin ids
      BY <1>7, <3>3 DEF Revalidate, Dated
    <3> QED
      BY <3>2, <3>3
  <2> QED
    BY <1>7, <2>1, <2>2, DatesStay DEF Revalidate
<1>8. CASE UNCHANGED lifecycleVars
  BY <1>8 DEF lifecycleVars, LifecycleInv, SoundTest
<1> QED
  BY <1>1, <1>2, <1>3, <1>4, <1>5, <1>6, <1>7, <1>8 DEF LifecycleNext

(* A step that retires a test.                                             *)
FadedStep ==
    registry' # registry =>
        \A id \in DOMAIN registry :
            (~registry[id].retired /\ registry'[id].retired) =>
                day - LastSeen(registry[id]) > 1

LEMMA RetiredFaded == LifecycleInv /\ AutoRetirementPolicy => FadedStep
<1> SUFFICES ASSUME LifecycleInv, AutoRetirementPolicy,
                    NEW id \in DOMAIN registry, ~registry[id].retired, registry'[id].retired
             PROVE  day - LastSeen(registry[id]) > 1
  BY DEF FadedStep
<1> DEFINE current == UpdateRelevanceScores(registry)
           Gone(i) == i \in RetirementCandidates(current)
           test == registry[id]
<1>1. current[id] = [test EXCEPT !.relevance = ComputeRelevance(test)]
      /\ DOMAIN current = DOMAIN registry
  BY DEF UpdateRelevanceScores
<1>2. DOMAIN test = TestFields /\ SoundTest(test) /\ day \in Nat
  BY DEF LifecycleInv
<1>3. ~current[id].retired /\ current[id].relevance = ComputeRelevance(test)
      /\ "retired" \in DOMAIN current[id]
  BY <1>1, <1>2 DEF TestFields
<1>4. registry' = [i \in DOMAIN current |->
                      [current[i] EXCEPT !.retired = @ \/ Gone(i)]]
  BY DEF AutoRetirementPolicy
<1> HIDE DEF Gone, current
<1>5. registry'[id].retired = (current[id].retired \/ Gone(id))
  BY <1>1, <1>3, <1>4
<1>6. Gone(id)
  BY <1>3, <1>5
<1>7. current[id].relevance < RetirementThreshold
  BY <1>6 DEF Gone, RetirementCandidates
<1> QED
  BY <1>2, <1>3, <1>7, FreshRelevance

LEMMA OthersRetireNone ==
  ASSUME LifecycleInv, [LifecycleNext]_lifecycleVars, ~AutoRetirementPolicy,
         NEW id \in DOMAIN registry, ~registry[id].retired
  PROVE  ~registry'[id].retired
<1>0. DOMAIN registry[id] = TestFields
  BY DEF LifecycleInv
<1>1. ASSUME NEW t, Registered(t) PROVE ~registry'[id].retired
  BY <1>1 DEF Registered, NewTest
<1>2. ASSUME NEW c, AddNearMiss(c) PROVE ~registry'[id].retired
  BY <1>1, <1>2 DEF AddNearMiss
<1>3. ASSUME NEW t, AddTest(t) PROVE ~registry'[id].retired
  BY <1>1, <1>3 DEF AddTest
<1>4. ASSUME NEW i, TriggerTest(i) PROVE ~registry'[id].retired
  <2>1. registry' = [registry EXCEPT ![i] = [registry[i] EXCEPT !.triggered = {day},
                                                                !.count = @ + 1]]
    BY <1>4 DEF TriggerTest
  <2> QED
    BY <2>1
<1>5. CASE UpdateScores
  BY <1>5 DEF UpdateScores, UpdateRelevanceScores
<1>6. CASE NextHalfLife
  BY <1>6 DEF NextHalfLife
<1>7. ASSUME NEW ids, Revalidate(ids) PROVE ~registry'[id].retired
  BY <1>0, <1>7 DEF Revalidate, TestFields
<1>8. CASE UNCHANGED lifecycleVars
  BY <1>8 DEF lifecycleVars
<1> QED
  BY <1>2, <1>3, <1>4, <1>5, <1>6, <1>7, <1>8 DEF LifecycleNext

(* No test is retired within a half-life of its last trigger, or of its    *)
(* making, for every retirement threshold up to 360 thousandths and any    *)
(* history of triggers, updates and revalidations (decay.py:140).          *)
THEOREM RecentlyTriggeredKeptCorrect == Spec => RecentlyTriggeredKept
<1>1. Init => LifecycleInv
  <2> SUFFICES ASSUME Init PROVE LifecycleInv
    OBVIOUS
  <2>1. DOMAIN registry = {} /\ day = 0
    BY DEF Init, LifecycleInit
  <2> QED
    BY <2>1 DEF LifecycleInv
<1>2. ASSUME LifecycleInv, [Next]_loopVars PROVE LifecycleInv' /\ [FadedStep]_lifecycleVars
  <2>1. [LifecycleNext]_lifecycleVars
    BY <1>2 DEF Next, loopVars, StreamingStep, RollbackStep, GateStep, LabStep, ReplayStep,
                LifecycleStep
  <2>2. FadedStep
    BY <1>2, <2>1, RetiredFaded, OthersRetireNone DEF FadedStep
  <2> QED
    BY <1>2, <2>1, <2>2, LifecycleInvNext
<1>3. Spec => [][FadedStep]_lifecycleVars
  BY <1>1, <1>2, PTL DEF Spec
<1> QED
  BY <1>3 DEF RecentlyTriggeredKept, FadedStep

-----------------------------------------------------------------------------
(* The grades.  Whatever is graded are two of the impacts, or radii, of    *)
(* which the second is the graver.                                         *)
GradingInv ==
    \/ grading = Nothing
    \/ \E i, j \in Impacts :
          ImpactGrows(i, j) /\ grading = [kind |-> "impact", before |-> i, after |-> j]
    \/ \E r, s \in Radii :
          RadiusGrows(r, s) /\ grading = [kind |-> "radius", before |-> r, after |-> s]

LEMMA GradingInvNext == GradingInv /\ [LabNext \/ GradingNext]_labVars => GradingInv'
<1> SUFFICES ASSUME GradingInv, [LabNext \/ GradingNext]_labVars PROVE GradingInv'
  OBVIOUS
<1>1. CASE UNCHANGED grading
  BY <1>1 DEF GradingInv
<1>2. ASSUME NEW i \in Impacts, NEW j \in Impacts, AssessPair(i, j) PROVE GradingInv'
  BY <1>2 DEF AssessPair, GradingInv
<1>3. ASSUME NEW r \in Radii, NEW s \in Radii, GradePair(r, s) PROVE GradingInv'
  BY <1>3 DEF GradePair, GradingInv
<1>4. UNCHANGED grading \/ GradingNext
  BY DEF labVars, LabNext, PromoteToClear, PromoteOnly, Promote, PromotionFails,
         ClearDebtOnly, FullAnalysis, GenerateRegression, ClearPromoted, ClearingFails
<1> QED
  BY <1>1, <1>2, <1>3, <1>4 DEF GradingNext

LEMMA RankOf ==
  ASSUME NEW seq, NEW k \in DOMAIN seq, \A i \in DOMAIN seq : seq[i] = seq[k] => i = k
  PROVE  Rank(seq, seq[k]) = k
BY DEF Rank

LEMMA LevelRanks ==
  /\ Rank(Levels, "low") = 1
  /\ Rank(Levels, "medium") = 2
  /\ Rank(Levels, "high") = 3
  /\ Rank(Levels, "critical") = 4
<1> DEFINE seq == Levels
<1>1. /\ DOMAIN seq = 1..4 /\ seq[1] = "low" /\ seq[2] = "medium" /\ seq[3] = "high"
      /\ seq[4] = "critical"
  BY DEF Levels
<1> HIDE DEF seq
<1>2. \A i \in DOMAIN seq : i = 1 \/ i = 2 \/ i = 3 \/ i = 4
  BY <1>1
<1>3. Rank(seq, seq[1]) = 1 /\ Rank(seq, seq[2]) = 2
  BY <1>1, <1>2, RankOf
<1>4. Rank(seq, seq[3]) = 3 /\ Rank(seq, seq[4]) = 4
  BY <1>1, <1>2, RankOf
<1> QED
  BY <1>1, <1>3, <1>4 DEF seq

LEMMA ActionRanks ==
  /\ Rank(Actions, "no_action") = 1
  /\ Rank(Actions, "track_for_next_release") = 2
  /\ Rank(Actions, "warn_with_review") = 3
  /\ Rank(Actions, "immediate_block") = 4
<1> DEFINE seq == Actions
<1>1. /\ DOMAIN seq = 1..4 /\ seq[1] = "no_action" /\ seq[2] = "track_for_next_release"
      /\ seq[3] = "warn_with_review" /\ seq[4] = "immediate_block"
  BY DEF Actions
<1> HIDE DEF seq
<1>2. \A i \in DOMAIN seq : i = 1 \/ i = 2 \/ i = 3 \/ i = 4
  BY <1>1
<1>3. Rank(seq, seq[1]) = 1 /\ Rank(seq, seq[2]) = 2
  BY <1>1, <1>2, RankOf
<1>4. Rank(seq, seq[3]) = 3 /\ Rank(seq, seq[4]) = 4
  BY <1>1, <1>2, RankOf
<1> QED
  BY <1>1, <1>3, <1>4 DEF seq

LEMMA GradeRanks ==
  Rank(Grades, "OK") = 1 /\ Rank(Grades, "WARN") = 2 /\ Rank(Grades, "BLOCK") = 3
<1> DEFINE seq == Grades
<1>1. DOMAIN seq = 1..3 /\ seq[1] = "OK" /\ seq[2] = "WARN" /\ seq[3] = "BLOCK"
  BY DEF Grades
<1> HIDE DEF seq
<1>2. \A i \in DOMAIN seq : i = 1 \/ i = 2 \/ i = 3
  BY <1>1
<1>3. Rank(seq, seq[1]) = 1 /\ Rank(seq, seq[2]) = 2 /\ Rank(seq, seq[3]) = 3
  BY <1>1, <1>2, RankOf
<1> QED
  BY <1>1, <1>3 DEF seq

LEMMA ImpactsOrdered ==
  ASSUME NEW i \in Impacts, NEW j \in Impacts, ImpactGrows(i, j),
         i.technical = j.technical \/ ~Overlooked(j)
  PROVE  /\ SeverityMatrix(j) <= SeverityMatrix(i)
         /\ Rank(Actions, ReleaseAction(i)) <= Rank(Actions, ReleaseAction(j))
<1> DEFINE High(x) == x.reputation \in {"high", "critical"}
<1>1. /\ i.reputation \in {"low", "medium", "high", "critical"}
      /\ j.reputation \in {"low", "medium", "high", "critical"}
      /\ i.technical \in {"low", "medium", "high", "critical"}
      /\ j.technical \in {"low", "medium", "high", "critical"}
      /\ i.users \in Nat /\ j.users \in Nat
      /\ i.slo \in BOOLEAN /\ j.slo \in BOOLEAN
      /\ i.regulatory \in BOOLEAN /\ j.regulatory \in BOOLEAN
  BY GradingAssumption
<1>2. High(i) => High(j)
  BY <1>1, LevelRanks DEF ImpactGrows
<1>3. /\ i.users <= j.users
      /\ (i.slo => j.slo) /\ (i.regulatory => j.regulatory)
  BY DEF ImpactGrows
<1>4. /\ i.technical = "critical" => j.technical = "critical"
      /\ i.technical = "high" => j.technical \in {"high", "critical"}
      /\ i.technical = "medium" => j.technical \in {"medium", "high", "critical"}
  BY <1>1, LevelRanks DEF ImpactGrows
<1>5. SeverityMatrix(i) \in 0..3 /\ SeverityMatrix(j) \in 0..3
  BY DEF SeverityMatrix
<1>6. SeverityMatrix(j) <= SeverityMatrix(i)
  <2>1. CASE i.technical = j.technical
    BY <1>1, <1>2, <1>3, <2>1 DEF SeverityMatrix
  <2>2. CASE ~Overlooked(j)
    BY <1>1, <1>2, <1>3, <1>4, <2>2 DEF SeverityMatrix, Overlooked
  <2> QED
    BY <2>1, <2>2
<1>7. Rank(Actions, ReleaseAction(i)) <= Rank(Actions, ReleaseAction(j))
  BY <1>3, <1>5, <1>6, ActionRanks DEF ReleaseAction
<1> QED
  BY <1>6, <1>7

LEMMA GreatestDelta ==
  ASSUME NEW x \in Radii
  PROVE  /\ MaxCategoryDelta(x) \in Int
         /\ MaxCategoryDelta(x) \in {0} \cup {x.categories[c] : c \in DOMAIN x.categories}
         /\ 0 <= MaxCategoryDelta(x)
         /\ \A c \in DOMAIN x.categories : x.categories[c] <= MaxCategoryDelta(x)
<1> DEFINE f == x.categories
           S == DOMAIN x.categories
           Deltas == {0} \cup {f[c] : c \in S}
<1>1. IsFiniteSet(S) /\ \A c \in S : f[c] \in Int
  BY GradingAssumption
<1>2. Deltas \in SUBSET Int
  BY <1>1
<1>3. \E b \in Deltas : 0 <= b /\ \A c \in S : f[c] <= b
  BY <1>1, GreatestValue DEF IntValued
<1>4. \E b \in Deltas : \A y \in Deltas : b >= y
  BY <1>2, <1>3
<1>5. Max(Deltas) \in Deltas /\ \A y \in Deltas : Max(Deltas) >= y
  BY <1>4 DEF Max
<1>6. MaxCategoryDelta(x) = Max(Deltas)
  BY DEF MaxCategoryDelta
<1> QED
  BY <1>1, <1>2, <1>5, <1>6

LEMMA RadiiOrdered ==
  ASSUME NEW r \in Radii, NEW s \in Radii, RadiusGrows(r, s)
  PROVE  Rank(Grades, GradeRisk(r)) <= Rank(Grades, GradeRisk(s))
<1> DEFINE Affected(x) == {c \in DOMAIN x.categories : x.categories[c] > 5}
           p == MaxCategoryDelta(r)
           q == MaxCategoryDelta(s)
           m == AffectedCategories(r)
           n == AffectedCategories(s)
<1>1. /\ r.erosion \in Int /\ s.erosion \in Int /\ r.delayed \in Int /\ s.delayed \in Int
      /\ r.regression \in BOOLEAN /\ s.regression \in BOOLEAN
      /\ \A c \in DOMAIN r.categories : r.categories[c] \in Int
      /\ \A c \in DOMAIN s.categories : s.categories[c] \in Int
      /\ IsFiniteSet(DOMAIN s.categories)
  BY GradingAssumption
<1>2. \A c \in DOMAIN r.categories :
          c \in DOMAIN s.categories /\ r.categories[c] <= s.categories[c]
  BY DEF RadiusGrows
<1>3. p \in Int /\ q \in Int /\ p <= q
  <2>1. /\ p \in Int /\ q \in Int /\ 0 <= q
        /\ p \in {0} \cup {r.categories[c] : c \in DOMAIN r.categories}
        /\ \A c \in DOMAIN s.categories : s.categories[c] <= q
    BY GreatestDelta
  <2> HIDE DEF p, q
  <2>2. \A c \in DOMAIN r.categories : r.categories[c] <= q
    BY <1>1, <1>2, <2>1
  <2> QED
    BY <2>1, <2>2
<1>4. Affected(r) \in SUBSET Affected(s)
  BY <1>1, <1>2
<1>5. IsFiniteSet(Affected(s))
  BY <1>1, FS_Subset
<1>6. m \in Nat /\ n \in Nat /\ m <= n
  BY <1>4, <1>5, FS_Subset, FS_CardinalityType DEF AffectedCategories
<1>7. /\ r.erosion <= s.erosion /\ r.delayed <= s.delayed
      /\ (r.regression => s.regression)
  BY DEF RadiusGrows
<1>8. ASSUME NEW x
      PROVE  GradeRisk(x) = IF x.regression /\ \/ x.erosion > 15 \/ x.delayed > 15
                                               \/ MaxCategoryDelta(x) > 20
                            THEN "BLOCK"
                            ELSE IF \/ x.erosion > 8 \/ x.delayed > 8
                                    \/ MaxCategoryDelta(x) > 10
                                    \/ AffectedCategories(x) >= 3
                            THEN "WARN" ELSE "OK"
  BY DEF GradeRisk
<1> HIDE DEF p, q, m, n
<1>9. GradeRisk(r) = "BLOCK" => GradeRisk(s) = "BLOCK"
  BY <1>1, <1>3, <1>7, <1>8 DEF p, q
<1>10. GradeRisk(r) = "WARN" => GradeRisk(s) \in {"WARN", "BLOCK"}
  BY <1>1, <1>3, <1>6, <1>7, <1>8 DEF p, q, m, n
<1>11. \A x : GradeRisk(x) \in {"OK", "WARN", "BLOCK"}
  BY <1>8
<1> QED
  BY <1>9, <1>10, <1>11, GradeRanks

(* The grades keep the order of what they grade, for every impact and      *)
(* every set of categories: an impact at least as bad in every respect is  *)
(* at least as grave, and the action as strict, except where the matrix    *)
(* forgets a technical severity that grew; a regression of larger deltas   *)
(* has no better grade (severity_scoring.py:114, risk_grading.py:74).      *)
THEOREM GradesOrderedCorrect == Spec => []GradesOrdered
<1>1. Init => GradingInv
  BY DEF Init, LabInit, GradingInv
<1>2. GradingInv /\ [Next]_loopVars => GradingInv'
  <2> SUFFICES ASSUME GradingInv, [Next]_loopVars PROVE GradingInv'
    OBVIOUS
  <2>1. [LabNext \/ GradingNext]_labVars
    BY DEF Next, loopVars, StreamingStep, RollbackStep, GateStep, LabStep, ReplayStep,
           LifecycleStep
  <2> QED
    BY <2>1, GradingInvNext
<1>3. GradingInv => GradesOrdered
  <2> SUFFICES ASSUME GradingInv PROVE GradesOrdered
    OBVIOUS
  <2>1. CASE grading = Nothing
    BY <2>1 DEF Nothing, GradesOrdered
  <2>2. ASSUME NEW i \in Impacts, NEW j \in Impacts, ImpactGrows(i, j),
               grading = [kind |-> "impact", before |-> i, after |-> j]
        PROVE  GradesOrdered
    BY <2>2, ImpactsOrdered DEF GradesOrdered
  <2>3. ASSUME NEW r \in Radii, NEW s \in Radii, RadiusGrows(r, s),
               grading = [kind |-> "radius", before |-> r, after |-> s]
        PROVE  GradesOrdered
    BY <2>3, RadiiOrdered DEF GradesOrdered
  <2> QED
    BY <2>1, <2>2, <2>3 DEF GradingInv
<1> QED
  BY <1>1, <1>2, <1>3, PTL DEF Spec

-----------------------------------------------------------------------------
(***************************************************************************)
(* The replay of an incident (IncidentReplay): the sweep of thresholds,    *)
(* the ranking of mitigations and the causal chain.                        *)
(***************************************************************************)
ReplayInv == trajectory \in Seq(Turns) /\ PreventionFirst

(* With how much impact a result can stand in a list: what prevents ranks  *)
(* above everything else of its own kind and, unless it is a stricter      *)
(* policy, above everything of another kind.                               *)
Weighs(type, outcome, confidence, impact) ==
    /\ impact \in Nat /\ confidence \in Nat
    /\ outcome = "prevented" => impact = confidence * 10
    /\ outcome # "prevented" => impact <= confidence * 7
    /\ type = "stricter_policy" /\ outcome = "prevented" => impact >= 500
    /\ type = "stricter_policy" /\ outcome # "prevented" => impact <= 630
    /\ type # "stricter_policy" /\ outcome = "prevented" => impact >= 750
    /\ type # "stricter_policy" /\ outcome # "prevented" => impact <= 425

Weighed(r) == Weighs(r.type, r.outcome, r.confidence, ImpactScore(r))

LEMMA ResultFields ==
  ASSUME NEW type, NEW outcome, NEW turn, NEW confidence
  PROVE  LET r == Result(type, outcome, turn, confidence)
         IN  /\ r.type = type /\ r.outcome = outcome /\ r.turn = turn
             /\ r.confidence = confidence
             /\ outcome = "prevented" => ImpactScore(r) = confidence * 10
             /\ outcome = "mitigated" => ImpactScore(r) = confidence * 7
             /\ outcome = "detected_earlier" => ImpactScore(r) = confidence * 5
             /\ outcome \notin Helpful => ImpactScore(r) = confidence * 0
<1> DEFINE r == Result(type, outcome, turn, confidence)
<1>1. r.type = type /\ r.outcome = outcome /\ r.turn = turn /\ r.confidence = confidence
  BY DEF Result
<1> HIDE DEF r
<1> QED
  BY <1>1 DEF ImpactScore, Helpful, r

LEMMA StricterWeighed ==
  ASSUME NEW t, NEW delta, NEW layer
  PROVE  /\ Weighed(StricterPolicy(t, delta, layer))
         /\ StricterPolicy(t, delta, layer).type = "stricter_policy"
<1> DEFINE points == NearMisses(t, delta, layer)
           analysis == AnalyzeStricterPolicy(points, FailureTurn(t))
           confidence == StricterConfidence(t, points, delta)
           r == StricterPolicy(t, delta, layer)
<1>1. r = Result("stricter_policy", analysis.outcome, analysis.turn, confidence)
  BY DEF StricterPolicy
<1>2. /\ confidence \in {40, 50, 60, 75, 90}
      /\ analysis.outcome \in {"no_effect", "prevented", "mitigated", "detected_earlier"}
  BY DEF StricterConfidence, AnalyzeStricterPolicy
<1> HIDE DEF points, analysis, confidence
<1>3. /\ r.type = "stricter_policy" /\ r.outcome = analysis.outcome
      /\ r.confidence = confidence
      /\ r.outcome = "prevented" => ImpactScore(r) = confidence * 10
      /\ r.outcome = "mitigated" => ImpactScore(r) = confidence * 7
      /\ r.outcome = "detected_earlier" => ImpactScore(r) = confidence * 5
      /\ r.outcome \notin Helpful => ImpactScore(r) = confidence * 0
  BY <1>1, ResultFields
<1>4. r.outcome = "no_effect" => r.outcome \notin Helpful
  BY DEF Helpful
<1>5. analysis.outcome = "prevented" => confidence # 40
  <2>1. points = {} => analysis.outcome = "no_effect"
    BY DEF AnalyzeStricterPolicy, analysis
  <2>2. points # {} => confidence \in {50, 60, 75, 90}
    BY Zenon DEF StricterConfidence, confidence
  <2> QED
    BY <2>1, <2>2
<1> DEFINE outcome == analysis.outcome
           impact == ImpactScore(r)
<1>6. /\ outcome \in {"no_effect", "prevented", "mitigated", "detected_earlier"}
      /\ outcome = "prevented" => impact = confidence * 10 /\ confidence # 40
      /\ outcome = "mitigated" => impact = confidence * 7
      /\ outcome = "detected_earlier" => impact = confidence * 5
      /\ outcome = "no_effect" => impact = confidence * 0
  BY <1>2, <1>3, <1>4, <1>5
<1> HIDE DEF r, outcome, impact
<1>7. Weighs("stricter_policy", outcome, confidence, impact)
  BY <1>2, <1>6 DEF Weighs
<1> QED
  BY <1>3, <1>7 DEF Weighed, r, outcome, impact

(* Results of the other kinds, by their outcomes and confidences.          *)
LEMMA OtherWeighed ==
  ASSUME NEW type, type # "stricter_policy", NEW outcome, NEW turn, NEW confidence \in Nat,
         \/ outcome = "prevented" /\ confidence >= 75
         \/ outcome = "mitigated" /\ confidence <= 60
         \/ outcome = "detected_earlier" /\ confidence <= 85
         \/ outcome \notin Helpful
  PROVE  /\ Weighed(Result(type, outcome, turn, confidence))
         /\ Result(type, outcome, turn, confidence).type = type
<1> DEFINE r == Result(type, outcome, turn, confidence)
<1>1. /\ r.type = type /\ r.outcome = outcome /\ r.confidence = confidence
      /\ outcome = "prevented" => ImpactScore(r) = confidence * 10
      /\ outcome = "mitigated" => ImpactScore(r) = confidence * 7
      /\ outcome = "detected_earlier" => ImpactScore(r) = confidence * 5
      /\ outcome \notin Helpful => ImpactScore(r) = confidence * 0
  BY ResultFields
<1> DEFINE impact == ImpactScore(r)
<1> HIDE DEF r
<1>2. /\ outcome = "prevented" => impact = confidence * 10
      /\ outcome = "mitigated" => impact = confidence * 7
      /\ outcome = "detected_earlier" => impact = confidence * 5
      /\ outcome \notin Helpful => impact = confidence * 0
  BY <1>1
<1> HIDE DEF impact
<1>3. Weighs(type, outcome, confidence, impact)
  <2>1. "prevented" \in Helpful
    BY DEF Helpful
  <2> QED
    BY <1>2, <2>1 DEF Weighs
<1> QED
  BY <1>1, <1>3 DEF Weighed, r, impact

LEMMA RemovalWeighed ==
  ASSUME NEW t, NEW cause, NEW layer
  PROVE  /\ Weighed(RemoveSafeguard(t, cause, layer))
         /\ RemoveSafeguard(t, cause, layer).type = "remove_safeguard"
<1> DEFINE outcome == AnalyzeRemoval(t, cause, layer)
           earliest == IF Signalled(t) = {} THEN FailureTurn(t) ELSE FirstTurn(Signalled(t))
           turn == IF outcome = "made_worse" THEN Max({1, earliest - 1}) ELSE FailureTurn(t)
           confidence == IF Signalled(t) = {} THEN 30
                         ELSE IF layer = cause.layer THEN 85 ELSE 60
<1>1. RemoveSafeguard(t, cause, layer) = Result("remove_safeguard", outcome, turn, confidence)
  BY DEF RemoveSafeguard
<1>2. /\ confidence \in Nat /\ confidence <= 85
      /\ layer # cause.layer => confidence <= 60
  OBVIOUS
<1>3. /\ layer = cause.layer => outcome \in {"detected_earlier", "no_effect", "made_worse"}
      /\ layer # cause.layer => outcome \in {"mitigated", "no_effect"}
  BY DEF AnalyzeRemoval
<1> HIDE DEF outcome, confidence, turn
<1>4. \/ outcome = "mitigated" /\ confidence <= 60
      \/ outcome = "detected_earlier" /\ confidence <= 85
      \/ outcome \notin Helpful
  BY <1>2, <1>3 DEF Helpful
<1> QED
  BY <1>1, <1>2, <1>4, OtherWeighed

LEMMA RoutedWeighed ==
  ASSUME NEW outcome, NEW turn, NEW confidence \in Nat,
         \/ outcome = "prevented" /\ confidence >= 75
         \/ outcome = "mitigated" /\ confidence <= 60
         \/ outcome = "detected_earlier" /\ confidence <= 85
         \/ outcome \notin Helpful
  PROVE  /\ Weighed(Routed(outcome, turn, confidence))
         /\ Routed(outcome, turn, confidence).type = "alternative_routing"
BY OtherWeighed DEF Routed

LEMMA RoutingWeighed ==
  ASSUME NEW t, NEW cause, NEW routing
  PROVE  /\ Weighed(AlternativeRouting(t, cause, routing))
         /\ AlternativeRouting(t, cause, routing).type = "alternative_routing"
<1> DEFINE Good(r) == Weighed(r) /\ r.type = "alternative_routing"
<1>1. \A outcome, turn, confidence :
         (/\ confidence \in Nat
          /\ \/ outcome = "prevented" /\ confidence >= 75
             \/ outcome = "mitigated" /\ confidence <= 60
             \/ outcome = "detected_earlier" /\ confidence <= 85
             \/ outcome \notin Helpful)
         => Good(Routed(outcome, turn, confidence))
  BY RoutedWeighed
<1>2. /\ "no_effect" \notin Helpful /\ "raises" \notin Helpful
      /\ "inconclusive" \notin Helpful
  BY DEF Helpful
<1> HIDE DEF Good
<1>3. \A turn : /\ Good(Routed("prevented", turn, 75)) /\ Good(Routed("prevented", turn, 80))
                /\ Good(Routed("prevented", turn, 85)) /\ Good(Routed("prevented", turn, 90))
                /\ Good(Routed("mitigated", turn, 50)) /\ Good(Routed("mitigated", turn, 60))
                /\ Good(Routed("detected_earlier", turn, 65))
                /\ Good(Routed("detected_earlier", turn, 60))
                /\ Good(Routed("no_effect", turn, 50)) /\ Good(Routed("no_effect", turn, 70))
                /\ Good(Routed("raises", turn, 0)) /\ Good(Routed("inconclusive", turn, 30))
  BY <1>1, <1>2
<1>4. Good(HumanInLoop(t, cause))
  BY <1>3 DEF HumanInLoop
<1>5. Good(ConservativeModel(t, cause))
  BY <1>3 DEF ConservativeModel
<1>6. Good(DoubleCheck(t))
  BY <1>3 DEF DoubleCheck
<1>7. Good(ReorderSafeguards(t, cause))
  BY <1>3 DEF ReorderSafeguards
<1>8. Good(CapabilityRestriction(t))
  BY <1>3 DEF CapabilityRestriction
<1>9. Good(AlternativeRouting(t, cause, routing))
  BY <1>3, <1>4, <1>5, <1>6, <1>7, <1>8 DEF AlternativeRouting
<1> QED
  BY <1>9 DEF Good

(* Of two mitigations the one that is ranked first has no less impact.     *)
LEMMA HelpedRanked ==
  ASSUME NEW S, NEW results \in Seq(S), \A k \in DOMAIN results : Weighed(results[k]),
         NEW i \in DOMAIN Summarize(results).helped,
         NEW j \in DOMAIN Summarize(results).helped, i < j
  PROVE  \E p, q \in DOMAIN results :
            /\ p # q
            /\ Summarize(results).helped[i] = results[p]
            /\ Summarize(results).helped[j] = results[q]
            /\ ImpactScore(results[p]) >= ImpactScore(results[q])
<1> DEFINE helpful == {k \in DOMAIN results : WouldHaveHelped(results[k])}
           key == [k \in helpful |-> -ImpactScore(results[k])]
           order == ByKey(key)
           helped == Summarize(results).helped
<1>1. helped = [k \in DOMAIN order |-> results[order[k]]]
  BY DEF Summarize, Sorted
<1>2. IsFiniteSet(helpful) /\ helpful \subseteq Int /\ helpful \subseteq DOMAIN results
  <2>1. DOMAIN results = 1..Len(results) /\ Len(results) \in Nat
    OBVIOUS
  <2>2. 1 \in Int /\ Len(results) \in Int
    BY <2>1
  <2>3. IsFiniteSet(1..Len(results))
    BY <2>2, FS_Interval
  <2>4. helpful \subseteq DOMAIN results
    OBVIOUS
  <2> HIDE DEF helpful
  <2> QED
    BY <2>1, <2>3, <2>4, FS_Subset
<1>3. DOMAIN key = helpful /\ \A k \in helpful : key[k] = -ImpactScore(results[k])
  OBVIOUS
<1>4. \A k \in helpful : ImpactScore(results[k]) \in Nat
  BY <1>2 DEF Weighed, Weighs
<1> HIDE DEF helpful, key, order, helped
<1>5. \A k \in DOMAIN key : key[k] \in Int
  BY <1>3, <1>4
<1>6. /\ order \in [1..Cardinality(helpful) -> helpful]
      /\ \A k, l \in 1..Cardinality(helpful) : k < l <=>
            \/ key[order[k]] < key[order[l]]
            \/ key[order[k]] = key[order[l]] /\ order[k] < order[l]
  <2>1. /\ ByKey(key) \in [1..Cardinality(DOMAIN key) -> DOMAIN key]
        /\ \A k, l \in 1..Cardinality(DOMAIN key) : k < l <=>
              \/ key[ByKey(key)[k]] < key[ByKey(key)[l]]
              \/ key[ByKey(key)[k]] = key[ByKey(key)[l]] /\ ByKey(key)[k] < ByKey(key)[l]
    BY <1>2, <1>3, <1>5, ByKeySorts, Zenon
  <2> QED
    BY <1>3, <2>1 DEF order
<1> DEFINE p == order[i]
           q == order[j]
<1>7. /\ i \in 1..Cardinality(helpful) /\ j \in 1..Cardinality(helpful)
      /\ p \in helpful /\ q \in helpful
      /\ helped[i] = results[p] /\ helped[j] = results[q]
  BY <1>1, <1>6 DEF helped
<1>8. p # q
  <2>1. \A k \in 1..Cardinality(helpful) : order[k] \in Int
    BY <1>2, <1>6
  <2>2. \/ key[order[i]] < key[order[j]]
        \/ key[order[i]] = key[order[j]] /\ order[i] < order[j]
    BY <1>6, <1>7
  <2> SUFFICES ASSUME order[i] = order[j] PROVE FALSE
    OBVIOUS
  <2>3. order[i] \in Int /\ key[order[i]] \in Int
    BY <1>3, <1>5, <1>7, <2>1
  <2> QED
    BY <2>2, <2>3
<1> HIDE DEF p, q
<1>9. key[p] <= key[q]
  <2>1. key[p] < key[q] \/ key[p] = key[q]
    BY <1>6, <1>7 DEF p, q
  <2> QED
    BY <1>3, <1>5, <1>7, <2>1
<1>10. ImpactScore(results[p]) >= ImpactScore(results[q])
  BY <1>3, <1>4, <1>7, <1>9
<1> QED
  BY <1>2, <1>7, <1>8, <1>10 DEF helped

(* At most one result of a list is of a stricter policy.                   *)
LEMMA PreventionLeads ==
  ASSUME NEW S, NEW results \in Seq(S), \A k \in DOMAIN results : Weighed(results[k]),
         \A i, j \in DOMAIN results :
            /\ results[i].type = "stricter_policy" /\ results[j].type = "stricter_policy"
            => i = j
  PROVE  PreventsFirst(Summarize(results).helped)
<1> DEFINE helped == Summarize(results).helped
<1> SUFFICES ASSUME NEW i \in DOMAIN helped, NEW j \in DOMAIN helped,
                    i < j, helped[j].outcome = "prevented"
             PROVE  helped[i].outcome = "prevented"
  BY DEF PreventsFirst
<1>1. PICK p, q \in DOMAIN results :
         /\ p # q /\ helped[i] = results[p] /\ helped[j] = results[q]
         /\ ImpactScore(results[p]) >= ImpactScore(results[q])
  BY HelpedRanked
<1>2. Weighed(results[p]) /\ Weighed(results[q])
  OBVIOUS
<1>3. ~(results[p].type = "stricter_policy" /\ results[q].type = "stricter_policy")
  BY <1>1
<1> HIDE DEF helped
<1> QED
  BY <1>1, <1>2, <1>3 DEF Weighed, Weighs

(* Whatever the list, prevention weighs more than the rest at the same     *)
(* confidence.                                                             *)
LEMMA SurerLeads ==
  ASSUME NEW S, NEW results \in Seq(S), \A k \in DOMAIN results : Weighed(results[k])
  PROVE  PreventsUnlessSurer(Summarize(results).helped)
<1> DEFINE helped == Summarize(results).helped
<1> SUFFICES ASSUME NEW i \in DOMAIN helped, NEW j \in DOMAIN helped,
                    i < j, helped[j].outcome = "prevented", helped[i].outcome # "prevented"
             PROVE  helped[i].confidence > helped[j].confidence
  BY DEF PreventsUnlessSurer
<1>1. PICK p, q \in DOMAIN results :
         /\ p # q /\ helped[i] = results[p] /\ helped[j] = results[q]
         /\ ImpactScore(results[p]) >= ImpactScore(results[q])
  BY HelpedRanked
<1>2. Weighed(results[p]) /\ Weighed(results[q])
  OBVIOUS
<1> HIDE DEF helped
<1> QED
  BY <1>1, <1>2 DEF Weighed, Weighs

LEMMA NothingRanked == DOMAIN Summarize(<<>>).helped = {}
<1>1. DOMAIN ByKey([k \in {} |-> -ImpactScore(<<>>[k])]) = {}
  <2> DEFINE key == [k \in {} |-> -ImpactScore(<<>>[k])]
  <2>1. DOMAIN key = {} /\ Cardinality({}) = 0
    BY FS_EmptySet
  <2> HIDE DEF key
  <2>2. DOMAIN ByKey(key) = 1..0
    BY <2>1 DEF ByKey, InOrder
  <2> QED
    BY <2>2 DEF key
<1>2. Summarize(<<>>).helped = [k \in {} |-> <<>>[ByKey([l \in {} |-> -ImpactScore(<<>>[l])])[k]]]
  <2>1. {k \in DOMAIN <<>> : WouldHaveHelped(<<>>[k])} = {}
    OBVIOUS
  <2> QED
    BY <1>1, <2>1 DEF Summarize, Sorted
<1> QED
  BY <1>2

LEMMA DefaultsPrevent ==
  ASSUME NEW t, NEW cause
  PROVE  LET results == AnalyzeAll(t, cause)
         IN  PreventsFirst(Summarize(results).helped) /\ PreventsUnlessSurer(Summarize(results).helped)
<1> DEFINE a == RemoveSafeguard(t, cause, "mid_trajectory")
           b == StricterPolicy(t, -10, "all")
           c == AlternativeRouting(t, cause, "human_in_loop")
           results == <<a, b, c>>
<1>1. AnalyzeAll(t, cause) = results
  BY DEF AnalyzeAll
<1>2. /\ Weighed(a) /\ a.type = "remove_safeguard"
      /\ Weighed(b) /\ b.type = "stricter_policy"
      /\ Weighed(c) /\ c.type = "alternative_routing"
  BY RemovalWeighed, StricterWeighed, RoutingWeighed
<1> HIDE DEF a, b, c
<1>3. /\ results \in Seq({a, b, c}) /\ DOMAIN results = 1..3
      /\ results[1] = a /\ results[2] = b /\ results[3] = c
  OBVIOUS
<1> HIDE DEF results
<1>4. \A k \in DOMAIN results : Weighed(results[k])
  BY <1>2, <1>3
<1>5. \A i, j \in DOMAIN results :
         results[i].type = "stricter_policy" /\ results[j].type = "stricter_policy"
           => i = j
  BY <1>2, <1>3
<1> QED
  BY <1>1, <1>3, <1>4, <1>5, PreventionLeads, SurerLeads

LEMMA AskedSurer ==
  ASSUME NEW specs \in SeqOf(Specs, MaxSpecs), NEW t, NEW cause
  PROVE  PreventsUnlessSurer(Summarize(Analyze(t, cause, specs)).helped)
<1> DEFINE results == Analyze(t, cause, specs)
<1>1. PICK n \in 0..MaxSpecs : specs \in [1..n -> Specs]
  BY DEF SeqOf
<1>2. ASSUME NEW spec \in Specs PROVE Weighed(Apply(t, cause, spec))
  BY <1>2, ReplayAssumption, RemovalWeighed, StricterWeighed, RoutingWeighed DEF Apply
<1>3. /\ DOMAIN results = 1..n /\ results = [k \in 1..n |-> Apply(t, cause, specs[k])]
      /\ \A k \in DOMAIN results : Weighed(results[k])
  BY <1>1, <1>2 DEF Analyze
<1>4. results \in Seq({results[k] : k \in 1..n})
  BY <1>1, <1>3
<1> HIDE DEF results
<1>5. PreventsUnlessSurer(Summarize(results).helped)
  BY <1>3, <1>4, SurerLeads
<1> QED
  BY <1>5 DEF results

LEMMA PreventionKept == [ReplayNext]_replayVars /\ PreventionFirst => PreventionFirst'
<1> SUFFICES ASSUME [ReplayNext]_replayVars, PreventionFirst PROVE PreventionFirst'
  OBVIOUS
<1>1. PreventsFirst(Summarize(AnalyzeAll(trajectory', root')).helped)
  BY DefaultsPrevent
<1>2. ASSUME NEW turn \in Turns, AddTurn(turn) PROVE PreventsUnlessSurer(mitigations'.helped)
  <2>1. mitigations' = Summarize(<<>>)
    BY <1>2 DEF AddTurn
  <2>2. DOMAIN (mitigations').helped = {}
    BY <2>1, NothingRanked
  <2> QED
    BY <2>2 DEF PreventsUnlessSurer
<1>3. ASSUME RunAnalyzeAll PROVE PreventsUnlessSurer(mitigations'.helped)
  <2>1. mitigations' = Summarize(AnalyzeAll(trajectory, root))
    BY <1>3 DEF RunAnalyzeAll
  <2>2. PreventsUnlessSurer(Summarize(AnalyzeAll(trajectory, root)).helped)
    BY DefaultsPrevent
  <2> QED
    BY <2>1, <2>2
<1>4. ASSUME NEW specs \in SeqOf(Specs, MaxSpecs), RunAnalyze(specs)
      PROVE  PreventsUnlessSurer(mitigations'.helped)
  BY <1>4, AskedSurer DEF RunAnalyze
<1>5. CASE UNCHANGED replayVars
  BY <1>5 DEF replayVars, PreventionFirst
<1> QED
  BY <1>1, <1>2, <1>3, <1>4, <1>5 DEF ReplayNext, PreventionFirst

-----------------------------------------------------------------------------
(* A stricter threshold catches no less, and no later.                     *)
LEMMA LeastBelow ==
  ASSUME NEW N \in SUBSET Nat, NEW n \in N
  PROVE  Min(N) \in N /\ Min(N) <= n /\ Min(N) \in Nat
<1>1. \E k \in N : \A m \in N : k <= m
  BY LeastNatural
<1> QED
  BY <1>1 DEF Min

LEMMA FailureTypes ==
  ASSUME NEW t \in Seq(Turns), t # <<>>
  PROVE  FailureTurn(t) \in Nat /\ FailureTurn(t) >= 1
<1> DEFINE unsafe == {k \in DOMAIN t : "violation" \in t[k].marks}
<1>1. Len(t) \in Nat /\ Len(t) >= 1 /\ DOMAIN t = 1..Len(t)
  OBVIOUS
<1>2. unsafe \in SUBSET Nat /\ unsafe \subseteq 1..Len(t)
  BY <1>1
<1>3. FailureTurn(t) = IF unsafe = {} THEN Len(t) ELSE Min(unsafe)
  BY DEF FailureTurn
<1> HIDE DEF unsafe
<1>4. unsafe # {} => Min(unsafe) \in unsafe
  BY <1>2, LeastOfSome
<1>5. CASE unsafe = {}
  BY <1>1, <1>3, <1>5
<1>6. CASE unsafe # {}
  <2>1. Min(unsafe) \in 1..Len(t) /\ FailureTurn(t) = Min(unsafe)
    BY <1>2, <1>3, <1>4, <1>6
  <2> HIDE DEF unsafe
  <2>2. \A k \in 1..Len(t) : k \in Nat /\ k >= 1
    BY <1>1
  <2> QED
    BY <2>1, <2>2
<1> QED
  BY <1>5, <1>6

LEMMA MissesGrow ==
  ASSUME NEW t \in Seq(Turns), NEW d \in Int, NEW e \in Int, d <= e
  PROVE  /\ NearMisses(t, e, "all") \subseteq NearMisses(t, d, "all")
         /\ NearMisses(t, d, "all") \subseteq (DOMAIN t) \X Layers
<1>1. ASSUME NEW p \in Signalled(t)
      PROVE  SignalAt(t, p).value \in Int /\ SignalAt(t, p).threshold \in Int
  <2>1. p[1] \in DOMAIN t /\ p[2] \in DOMAIN t[p[1]].signals
    BY DEF Signalled
  <2>2. t[p[1]] \in Turns
    BY <2>1
  <2> QED
    BY <2>1, <2>2, ReplayAssumption DEF ReplayAssumption, SignalAt
<1>2. Signalled(t) \subseteq (DOMAIN t) \X Layers
  BY DEF Signalled
<1>3. ASSUME NEW p \in NearMisses(t, e, "all") PROVE p \in NearMisses(t, d, "all")
  <2> DEFINE v == SignalAt(t, p).value
             h == SignalAt(t, p).threshold
  <2>1. p \in Signalled(t) /\ ~SignalAt(t, p).triggered /\ v >= h + e
    BY DEF NearMisses
  <2>2. v \in Int /\ h \in Int
    BY <1>1, <2>1
  <2>3. v >= h + d
    <3> HIDE DEF v, h
    <3> QED
      BY <2>1, <2>2
  <2> QED
    BY <2>1, <2>3 DEF NearMisses
<1>4. NearMisses(t, d, "all") \subseteq Signalled(t)
  BY DEF NearMisses
<1> QED
  BY <1>2, <1>3, <1>4

LEMMA CatchesEarlier ==
  ASSUME NEW t \in Seq(Turns), NEW points \in SUBSET ((DOMAIN t) \X Layers),
         NEW more \in SUBSET ((DOMAIN t) \X Layers), points # {}, points \subseteq more
  PROVE  /\ EarliestCatch(points) \in Nat /\ EarliestCatch(more) \in Nat
         /\ EarliestCatch(more) <= EarliestCatch(points)
<1> DEFINE A == {p[1] : p \in points}
           B == {p[1] : p \in more}
<1>1. DOMAIN t \subseteq Nat
  OBVIOUS
<1>2. A \in SUBSET Nat /\ B \in SUBSET Nat /\ A \subseteq B /\ A # {}
  BY <1>1
<1>3. EarliestCatch(points) = Min(A) /\ EarliestCatch(more) = Min(B)
  BY DEF EarliestCatch, FirstTurn
<1> HIDE DEF A, B
<1>4. Min(A) \in A /\ Min(A) \in Nat
  BY <1>2, LeastBelow
<1>5. Min(B) \in Nat /\ Min(B) <= Min(A)
  BY <1>2, <1>4, LeastBelow
<1> QED
  BY <1>3, <1>4, <1>5

LEMMA AnalysisOrdered ==
  ASSUME NEW t \in Seq(Turns), NEW points \in SUBSET ((DOMAIN t) \X Layers),
         NEW more \in SUBSET ((DOMAIN t) \X Layers), points \subseteq more,
         NEW failure \in Nat, failure >= 1
  PROVE  LET lax == AnalyzeStricterPolicy(points, failure)
             strict == AnalyzeStricterPolicy(more, failure)
         IN  /\ OutcomeRank[strict.outcome] >= OutcomeRank[lax.outcome]
             /\ OutcomeRank[strict.outcome] \in Nat /\ OutcomeRank[lax.outcome] \in Nat
             /\ strict.turn <= lax.turn
<1> DEFINE lax == AnalyzeStricterPolicy(points, failure)
           strict == AnalyzeStricterPolicy(more, failure)
           n == EarliestCatch(points)
           m == EarliestCatch(more)
<1>1. /\ points = {} => lax.outcome = "no_effect" /\ lax.turn = failure
      /\ points # {} /\ n <= failure - 2 => lax.outcome = "prevented" /\ lax.turn = 0
      /\ points # {} /\ ~(n <= failure - 2) /\ n = failure - 1
            => lax.outcome = "detected_earlier" /\ lax.turn = failure - 1
      /\ points # {} /\ ~(n <= failure - 2) /\ n # failure - 1
            => lax.outcome = "mitigated" /\ lax.turn = failure
  BY DEF AnalyzeStricterPolicy
<1>2. /\ more = {} => strict.outcome = "no_effect" /\ strict.turn = failure
      /\ more # {} /\ m <= failure - 2 => strict.outcome = "prevented" /\ strict.turn = 0
      /\ more # {} /\ ~(m <= failure - 2) /\ m = failure - 1
            => strict.outcome = "detected_earlier" /\ strict.turn = failure - 1
      /\ more # {} /\ ~(m <= failure - 2) /\ m # failure - 1
            => strict.outcome = "mitigated" /\ strict.turn = failure
  BY DEF AnalyzeStricterPolicy
<1>3. points # {} => n \in Nat /\ m \in Nat /\ m <= n /\ more # {}
  BY CatchesEarlier
<1>4. more # {} => m \in Nat
  BY CatchesEarlier
<1>5. /\ OutcomeRank["no_effect"] = 0 /\ OutcomeRank["mitigated"] = 1
      /\ OutcomeRank["detected_earlier"] = 2 /\ OutcomeRank["prevented"] = 3
  BY DEF OutcomeRank
<1> DEFINE low == OutcomeRank[lax.outcome]
           high == OutcomeRank[strict.outcome]
           late == lax.turn
           early == strict.turn
<1> HIDE DEF lax, strict, n, m
<1>6. /\ points = {} => low = 0 /\ late = failure
      /\ points # {} /\ n <= failure - 2 => low = 3 /\ late = 0
      /\ points # {} /\ ~(n <= failure - 2) /\ n = failure - 1
            => low = 2 /\ late = failure - 1
      /\ points # {} /\ ~(n <= failure - 2) /\ n # failure - 1
            => low = 1 /\ late = failure
  BY <1>1, <1>5, Zenon
<1>7. /\ more = {} => high = 0 /\ early = failure
      /\ more # {} /\ m <= failure - 2 => high = 3 /\ early = 0
      /\ more # {} /\ ~(m <= failure - 2) /\ m = failure - 1
            => high = 2 /\ early = failure - 1
      /\ more # {} /\ ~(m <= failure - 2) /\ m # failure - 1
            => high = 1 /\ early = failure
  BY <1>2, <1>5, Zenon
<1> HIDE DEF low, high, late, early
<1>8. high >= low /\ high \in Nat /\ low \in Nat /\ early <= late
  <2>1. CASE points = {} /\ more = {}
    BY <1>6, <1>7, <2>1
  <2>2. CASE points = {} /\ more # {}
    BY <1>4, <1>6, <1>7, <2>2
  <2>3. CASE points # {} /\ n <= failure - 2
    <3>1. m \in Nat /\ m <= failure - 2 /\ n \in Nat /\ more # {}
      BY <1>3, <2>3
    <3>2. low = 3 /\ late = 0 /\ high = 3 /\ early = 0
      BY <1>6, <1>7, <2>3, <3>1, Zenon
    <3> QED
      BY <3>2
  <2>4. CASE points # {} /\ ~(n <= failure - 2) /\ n = failure - 1
    <3>1. m \in Nat /\ more # {} /\ (m <= failure - 2 \/ (~(m <= failure - 2) /\ m = failure - 1))
      BY <1>3, <2>4
    <3>2. low = 2 /\ late = failure - 1
      BY <1>6, <2>4, Zenon
    <3>3. (high = 3 /\ early = 0) \/ (high = 2 /\ early = failure - 1)
      BY <1>7, <3>1, Zenon
    <3> QED
      BY <3>2, <3>3
  <2>5. CASE points # {} /\ ~(n <= failure - 2) /\ n # failure - 1
    <3>1. more # {}
      BY <1>3, <2>5
    <3>2. low = 1 /\ late = failure
      BY <1>6, <2>5, Zenon
    <3>3. \/ high = 3 /\ early = 0
          \/ high = 2 /\ early = failure - 1
          \/ high = 1 /\ early = failure
      BY <1>7, <3>1, Zenon
    <3> QED
      BY <3>2, <3>3
  <2> QED
    BY <2>1, <2>2, <2>3, <2>4, <2>5
<1> QED
  BY <1>8 DEF lax, strict, low, high, late, early

LEMMA SweepSound ==
  ASSUME trajectory \in Seq(Turns), trajectory # <<>>
  PROVE  SweepMonotone
<1> DEFINE sweep == Sweep(trajectory, Thresholds)
           within == {x \in Thresholds : EstimateFpr(x) <= MaxFpr}
           catching == {x \in DOMAIN sweep :
                           WouldHaveHelped(sweep[x]) /\ EstimateFpr(x) <= MaxFpr}
           Rank1(x) == OutcomeRank[sweep[x].outcome]
           failure == FailureTurn(trajectory)
           Analysis(x) == AnalyzeStricterPolicy(NearMisses(trajectory, x - 50, "all"), failure)
<1>1. failure \in Nat /\ failure >= 1
  BY FailureTypes
<1>2. DOMAIN sweep = Thresholds /\ Thresholds \subseteq Nat
  BY ReplayAssumption DEF Sweep, ReplayAssumption
<1>3. \A x \in Thresholds : /\ sweep[x].outcome = Analysis(x).outcome
                            /\ sweep[x].turn = Analysis(x).turn
  <2> TAKE x \in Thresholds
  <2> DEFINE points == NearMisses(trajectory, x - 50, "all")
             confidence == StricterConfidence(trajectory, points, x - 50)
  <2>1. sweep[x] = Result("stricter_policy", Analysis(x).outcome, Analysis(x).turn, confidence)
    BY DEF Sweep, StricterPolicy
  <2> HIDE DEF confidence, sweep, Analysis
  <2> QED
    BY <2>1, ResultFields
<1>4. ASSUME NEW x \in Thresholds, NEW y \in Thresholds, x <= y
      PROVE  /\ Rank1(x) >= Rank1(y) /\ Rank1(x) \in Nat /\ Rank1(y) \in Nat
             /\ sweep[x].turn <= sweep[y].turn
  <2> DEFINE more == NearMisses(trajectory, x - 50, "all")
             points == NearMisses(trajectory, y - 50, "all")
  <2>1. x \in Int /\ y \in Int
    BY <1>2
  <2>2. x - 50 \in Int /\ y - 50 \in Int /\ x - 50 <= y - 50
    BY <1>4, <2>1
  <2>3. /\ points \subseteq more /\ more \subseteq (DOMAIN trajectory) \X Layers
        /\ points \subseteq (DOMAIN trajectory) \X Layers
    BY <2>2, MissesGrow
  <2> HIDE DEF more, points, failure, sweep
  <2> DEFINE lax == AnalyzeStricterPolicy(points, failure)
             strict == AnalyzeStricterPolicy(more, failure)
  <2>4. /\ OutcomeRank[strict.outcome] >= OutcomeRank[lax.outcome]
        /\ OutcomeRank[strict.outcome] \in Nat /\ OutcomeRank[lax.outcome] \in Nat
        /\ strict.turn <= lax.turn
    BY <1>1, <2>3, AnalysisOrdered
  <2>5. lax = Analysis(y) /\ strict = Analysis(x)
    BY DEF more, points
  <2> HIDE DEF lax, strict, Analysis
  <2> QED
    BY <1>3, <2>4, <2>5
<1>5. \A x \in Thresholds : WouldHaveHelped(sweep[x]) <=> Rank1(x) >= 1
  <2> TAKE x \in Thresholds
  <2>1. Analysis(x).outcome \in {"no_effect", "prevented", "mitigated", "detected_earlier"}
    BY DEF AnalyzeStricterPolicy
  <2>2. sweep[x].outcome \in {"no_effect", "prevented", "mitigated", "detected_earlier"}
    BY <1>3, <2>1
  <2> HIDE DEF sweep, Analysis
  <2>3. /\ OutcomeRank["no_effect"] = 0 /\ OutcomeRank["mitigated"] = 1
        /\ OutcomeRank["detected_earlier"] = 2 /\ OutcomeRank["prevented"] = 3
    BY DEF OutcomeRank
  <2> QED
    BY <2>2, <2>3 DEF WouldHaveHelped, Helpful
<1>6. /\ within \in SUBSET Nat /\ catching \subseteq within
      /\ \A x \in within : WouldHaveHelped(sweep[x]) <=> x \in catching
  BY <1>2
<1> HIDE DEF sweep, within, catching, Rank1
<1>7. FindOptimalThreshold(sweep, MaxFpr) = IF catching = {} THEN 0 ELSE Min(catching)
  BY DEF FindOptimalThreshold, catching
<1>8. within \subseteq Thresholds
  BY DEF within
<1>9. CASE catching = {}
  <2>1. within # {} => ~WouldHaveHelped(sweep[Min(within)])
    BY <1>6, <1>9, LeastOfSome
  <2>2. FindOptimalThreshold(sweep, MaxFpr) =
          IF within # {} /\ WouldHaveHelped(sweep[Min(within)]) THEN Min(within) ELSE 0
    BY <1>7, <1>9, <2>1
  <2> QED
    BY <1>2, <1>4, <2>2 DEF SweepMonotone, Rank1, sweep, within
<1>10. CASE catching # {}
  <2> DEFINE c == Min(catching)
             w == Min(within)
  <2>1. c \in catching /\ c \in Nat
    BY <1>6, <1>10, LeastOfSome
  <2>2. w \in within /\ w <= c /\ w \in Nat
    BY <1>6, <2>1, LeastBelow
  <2>3. w \in catching
    <3>1. Rank1(w) >= Rank1(c) /\ Rank1(w) \in Nat /\ Rank1(c) \in Nat
      BY <1>4, <1>6, <1>8, <2>1, <2>2
    <3>2. Rank1(c) >= 1
      BY <1>5, <1>6, <1>8, <2>1
    <3>3. Rank1(w) >= 1
      BY <3>1, <3>2
    <3> QED
      BY <1>5, <1>6, <1>8, <2>2, <3>3
  <2>4. c <= w
    BY <1>6, <2>3, LeastBelow
  <2>5. c = w
    BY <2>1, <2>2, <2>4
  <2>6. FindOptimalThreshold(sweep, MaxFpr) =
          IF within # {} /\ WouldHaveHelped(sweep[Min(within)]) THEN Min(within) ELSE 0
    BY <1>6, <1>7, <1>10, <2>2, <2>3, <2>5
  <2> QED
    BY <1>2, <1>4, <2>6 DEF SweepMonotone, Rank1, sweep, within
<1> QED
  BY <1>9, <1>10

-----------------------------------------------------------------------------
(* The causal graph: a way from the trigger to the harm, an edge into the  *)
(* trigger if something came before it, and one to the safeguard.          *)
Rises(a) == \A i, j \in DOMAIN a : i < j => a[i] < a[j]
IsAttack(a, m) == m \in Nat \ {0} /\ a \in [1..m -> Nat \ {0}] /\ Len(a) = m /\ Rises(a)

(* The nodes on the way, at least two, and how many come before a link.    *)
WayLength(a) == IF Len(a) = 1 THEN 2 ELSE Len(a)
OnWay(a, k) ==
    IF k = 1 THEN Trigger(a) ELSE IF k = WayLength(a) THEN Harm(a) ELSE Propagation(a, k)
Entry(a) == IF a[1] > 1 THEN 1 ELSE 0

LEMMA FewPlaces ==
  ASSUME NEW s
  PROVE  /\ AtPlaces(s, {}) = <<>>
         /\ \A p \in Int : AtPlaces(s, {p}) = <<s[p]>>
         /\ \A p, q \in Int : p < q => AtPlaces(s, {p, q}) = <<s[p], s[q]>>
<1>1. AtPlaces(s, {}) = <<>>
  <2> DEFINE o == [k \in 1..0 |-> k]
  <2>1. o \in [1..0 -> {}]
    OBVIOUS
  <2> HIDE DEF o
  <2>2. AtPlaces(s, {}) = [k \in 1..0 |-> s[o[k]]]
    BY <2>1, PlacesInOrder
  <2> QED
    BY <2>2
<1>2. ASSUME NEW p \in Int PROVE AtPlaces(s, {p}) = <<s[p]>>
  <2> DEFINE o == <<p>>
  <2>1. o \in [1..1 -> {p}] /\ o[1] = p
    OBVIOUS
  <2> HIDE DEF o
  <2>2. {p} \in SUBSET Int /\ 1 \in Nat
    OBVIOUS
  <2>3. \A x \in {p} : \E k \in 1..1 : o[k] = x
    <3>1. 1 \in 1..1
      OBVIOUS
    <3> QED
      BY <2>1, <3>1
  <2>4. \A i, j \in 1..1 : i < j => o[i] < o[j]
    OBVIOUS
  <2>5. AtPlaces(s, {p}) = [k \in 1..1 |-> s[o[k]]]
    <3> DEFINE P == {p}
               n == 1
    <3>1. /\ P \in SUBSET Int /\ n \in Nat /\ o \in [1..n -> P]
          /\ \A x \in P : \E k \in 1..n : o[k] = x
          /\ \A i, j \in 1..n : i < j => o[i] < o[j]
      BY <2>1, <2>2, <2>3, <2>4
    <3> HIDE DEF P, n
    <3>2. \A t : AtPlaces(t, P) = [k \in 1..n |-> t[o[k]]]
      BY <3>1, PlacesInOrder
    <3> QED
      BY <3>2 DEF P, n
  <2>6. [k \in 1..1 |-> s[o[k]]] = <<s[p]>>
    BY <2>1
  <2> QED
    BY <2>5, <2>6
<1>3. ASSUME NEW p \in Int, NEW q \in Int, p < q PROVE AtPlaces(s, {p, q}) = <<s[p], s[q]>>
  <2> DEFINE o == <<p, q>>
  <2>1. o \in [1..2 -> {p, q}] /\ o[1] = p /\ o[2] = q
    OBVIOUS
  <2> HIDE DEF o
  <2>2. \A i, j \in 1..2 : i < j => o[i] < o[j]
    <3>1. \A i, j \in 1..2 : i < j => i = 1 /\ j = 2
      OBVIOUS
    <3> QED
      BY <1>3, <2>1, <3>1
  <2>3. \A x \in {p, q} : \E k \in 1..2 : o[k] = x
    <3>1. 1 \in 1..2 /\ 2 \in 1..2
      OBVIOUS
    <3> QED
      BY <2>1, <3>1
  <2>4. {p, q} \in SUBSET Int /\ 2 \in Nat
    BY <1>3
  <2>5. AtPlaces(s, {p, q}) = [k \in 1..2 |-> s[o[k]]]
    <3> DEFINE P == {p, q}
               n == 2
    <3>1. /\ P \in SUBSET Int /\ n \in Nat /\ o \in [1..n -> P]
          /\ \A x \in P : \E k \in 1..n : o[k] = x
          /\ \A i, j \in 1..n : i < j => o[i] < o[j]
      BY <2>1, <2>2, <2>3, <2>4
    <3> HIDE DEF P, n
    <3>2. \A t : AtPlaces(t, P) = [k \in 1..n |-> t[o[k]]]
      BY <3>1, PlacesInOrder
    <3> QED
      BY <3>2 DEF P, n
  <2>6. [k \in 1..2 |-> s[o[k]]] = <<s[p], s[q]>>
    BY <2>1
  <2> QED
    BY <2>5, <2>6
<1> QED
  BY <1>1, <1>2, <1>3

LEMMA AttackFacts ==
  ASSUME trajectory \in Seq(Turns)
  PROVE  AttackTurns = <<>> \/ \E m \in Nat : IsAttack(AttackTurns, m)
<1> DEFINE P == {k \in DOMAIN trajectory : "status" \in trajectory[k].marks}
           key == [k \in P |-> k]
           a == AttackTurns
<1>1. DOMAIN trajectory = 1..Len(trajectory) /\ Len(trajectory) \in Nat
  OBVIOUS
<1>2. IsFiniteSet(P) /\ P \subseteq Nat \ {0}
  <2>1. 1 \in Int /\ Len(trajectory) \in Int
    BY <1>1
  <2>2. IsFiniteSet(1..Len(trajectory))
    BY <2>1, FS_Interval
  <2>3. P \subseteq 1..Len(trajectory)
    BY <1>1
  <2> HIDE DEF P
  <2>4. IsFiniteSet(P)
    BY <2>2, <2>3, FS_Subset
  <2>5. \A k \in 1..Len(trajectory) : k \in Nat \ {0}
    BY <1>1
  <2> QED
    BY <2>3, <2>4, <2>5
<1>3. DOMAIN key = P /\ \A k \in P : key[k] = k
  OBVIOUS
<1>4. a = ByKey(key)
  BY DEF AttackTurns
<1> HIDE DEF P, key, a
<1> DEFINE m == Cardinality(P)
<1>5. /\ m \in Nat /\ a \in [1..m -> P]
      /\ \A i, j \in 1..m : i < j =>
            \/ key[a[i]] < key[a[j]]
            \/ key[a[i]] = key[a[j]] /\ a[i] < a[j]
  <2>1. DOMAIN key \subseteq Int /\ \A k \in DOMAIN key : key[k] \in Int
    BY <1>2, <1>3
  <2>2. /\ Cardinality(DOMAIN key) \in Nat
        /\ ByKey(key) \in [1..Cardinality(DOMAIN key) -> DOMAIN key]
        /\ \A i, j \in 1..Cardinality(DOMAIN key) : i < j <=>
              \/ key[ByKey(key)[i]] < key[ByKey(key)[j]]
              \/ key[ByKey(key)[i]] = key[ByKey(key)[j]] /\ ByKey(key)[i] < ByKey(key)[j]
    BY <1>2, <1>3, <2>1, ByKeySorts, Zenon
  <2> QED
    BY <1>3, <1>4, <2>2
<1>6. \A i, j \in 1..m : i < j => a[i] < a[j]
  BY <1>3, <1>5
<1> HIDE DEF m
<1>7. a \in [1..m -> Nat \ {0}] /\ DOMAIN a = 1..m
  BY <1>2, <1>5
<1>8. a \in Seq(Nat \ {0}) /\ Len(a) = m
  BY <1>5, <1>7
<1>9. CASE m = 0
  BY <1>7, <1>8, <1>9 DEF a
<1>10. CASE m # 0
  <2>1. IsAttack(a, m)
    BY <1>5, <1>6, <1>7, <1>8, <1>10 DEF IsAttack, Rises
  <2> QED
    BY <1>5, <2>1 DEF a
<1> QED
  BY <1>9, <1>10

LEMMA NodesApart ==
  ASSUME NEW a, NEW m, IsAttack(a, m)
  PROVE  /\ WayLength(a) \in Nat /\ WayLength(a) >= 2 /\ WayLength(a) >= m
         /\ \A k \in 1..WayLength(a) : OnWay(a, k) # SafeguardGap /\ OnWay(a, k) # Context
         /\ \A i, j \in 1..WayLength(a) : OnWay(a, i) = OnWay(a, j) => i = j
<1> DEFINE M == WayLength(a)
<1>1. M \in Nat /\ M >= 2 /\ M >= m /\ (m >= 2 => M = m)
  BY DEF IsAttack, WayLength
<1>2. \A k \in 1..M :
         /\ k = 1 => OnWay(a, k).kind = "trigger"
         /\ k = M => OnWay(a, k).kind = "harm"
         /\ k # 1 /\ k # M => OnWay(a, k).kind = "propagation" /\ OnWay(a, k).turn = a[k]
  BY <1>1 DEF OnWay, Trigger, Harm, Propagation, Node
<1>3. SafeguardGap.kind = "safeguard" /\ Context.kind = "context"
  BY DEF SafeguardGap, Context, Node
<1>4. \A k \in 1..M : k # 1 /\ k # M => k \in 1..m
  BY <1>1 DEF IsAttack, WayLength
<1>5. \A i, j \in 1..m : a[i] = a[j] => i = j
  <2> SUFFICES ASSUME NEW i \in 1..m, NEW j \in 1..m, a[i] = a[j], i # j PROVE FALSE
    OBVIOUS
  <2>1. m \in Nat /\ DOMAIN a = 1..m /\ a[i] \in Int /\ a[j] \in Int
    BY DEF IsAttack
  <2>2. i < j \/ j < i
    BY <2>1
  <2>3. a[i] < a[j] \/ a[j] < a[i]
    BY <2>1, <2>2 DEF IsAttack, Rises
  <2> QED
    BY <2>1, <2>3
<1> HIDE DEF M
<1>6. \A k \in 1..M : OnWay(a, k) # SafeguardGap /\ OnWay(a, k) # Context
  BY <1>2, <1>3
<1>7. ASSUME NEW i \in 1..M, NEW j \in 1..M, OnWay(a, i) = OnWay(a, j) PROVE i = j
  <2>1. OnWay(a, i).kind = OnWay(a, j).kind /\ OnWay(a, i).turn = OnWay(a, j).turn
    BY <1>7
  <2>2. 1 # M
    BY <1>1
  <2>3. CASE i = 1
    BY <1>2, <2>1, <2>2, <2>3
  <2>4. CASE i = M
    BY <1>2, <2>1, <2>2, <2>4
  <2>5. CASE i # 1 /\ i # M
    <3>1. j # 1 /\ j # M
      BY <1>2, <2>1, <2>5
    <3> QED
      BY <1>2, <1>4, <1>5, <2>1, <2>5, <3>1
  <2> QED
    BY <2>3, <2>4, <2>5
<1> QED
  BY <1>1, <1>6, <1>7 DEF M

LEMMA GreatestIs ==
  ASSUME NEW S \in SUBSET Int, NEW b \in S, \A y \in S : y <= b
  PROVE  Max(S) = b
<1>1. \A x \in S : (\A y \in S : x >= y) => x = b
  <2> SUFFICES ASSUME NEW x \in S, \A y \in S : x >= y PROVE x = b
    OBVIOUS
  <2>1. x \in Int /\ b \in Int /\ x <= b /\ x >= b
    OBVIOUS
  <2> QED
    BY <2>1
<1>2. b \in S /\ \A y \in S : b >= y
  <2>1. \A y \in S : y \in Int /\ b \in Int /\ y <= b
    OBVIOUS
  <2> QED
    BY <2>1
<1> QED
  BY <1>1, <1>2 DEF Max

LEMMA WayLinks ==
  ASSUME NEW a, NEW m, IsAttack(a, m)
  PROVE  /\ LinkCount(a) = WayLength(a) - 1
         /\ \A k \in 1..(WayLength(a) - 1) :
               Link(a, k) = Edge(OnWay(a, k), OnWay(a, k + 1), "causes")
<1> DEFINE M == WayLength(a)
<1>1. m \in Nat /\ m >= 1 /\ Len(a) = m
  BY DEF IsAttack
<1>2. M = (IF m = 1 THEN 2 ELSE m)
  BY <1>1 DEF WayLength
<1>3. LinkCount(a) = M - 1
  <2> DEFINE S == {m - 1, 1}
  <2>1. S \in SUBSET Int /\ M - 1 \in S /\ \A y \in S : y <= M - 1
    BY <1>1, <1>2
  <2>2. LinkCount(a) = Max(S)
    BY <1>1 DEF LinkCount
  <2> HIDE DEF M, S
  <2> QED
    BY <2>1, <2>2, GreatestIs
<1> HIDE DEF M
<1>4. ASSUME NEW k \in 1..(M - 1)
      PROVE  Link(a, k) = Edge(OnWay(a, k), OnWay(a, k + 1), "causes")
  <2>1. k \in Nat /\ k # M /\ k + 1 # 1 /\ (k + 1 = M <=> k = M - 1)
    BY <1>1, <1>2
  <2>2. (IF k = 1 THEN Trigger(a) ELSE Propagation(a, k)) = OnWay(a, k)
    BY <2>1 DEF OnWay, M
  <2>3. (IF k = M - 1 THEN Harm(a) ELSE Propagation(a, k + 1)) = OnWay(a, k + 1)
    BY <2>1 DEF OnWay, M
  <2> QED
    BY <1>3, <2>2, <2>3 DEF Link
<1> QED
  BY <1>3, <1>4 DEF M

LEMMA WayEdges ==
  ASSUME NEW a, NEW m, IsAttack(a, m),
         NEW e, e = BuildCausalGraph(a).edges
  PROVE  /\ DOMAIN e = 1..(Entry(a) + WayLength(a))
         /\ Len(e) = Entry(a) + WayLength(a)
         /\ Entry(a) = 1 => e[1] = Edge(Context, OnWay(a, 1), "enables")
         /\ \A k \in 1..(WayLength(a) - 1) :
               e[Entry(a) + k] = Edge(OnWay(a, k), OnWay(a, k + 1), "causes")
         /\ e[Entry(a) + WayLength(a)] = Edge(OnWay(a, 1), SafeguardGap, "bypasses")
<1> DEFINE M == WayLength(a)
           off == Entry(a)
           enter == IF a[1] > 1 THEN <<Edge(Context, Trigger(a), "enables")>> ELSE <<>>
           Way(i) == Link(a, i)
           links == [i \in 1..LinkCount(a) |-> Way(i)]
           bypass == <<Edge(Trigger(a), SafeguardGap, "bypasses")>>
           E == {enter[i] : i \in DOMAIN enter} \cup {Way(i) : i \in 1..LinkCount(a)}
                  \cup {Edge(Trigger(a), SafeguardGap, "bypasses")}
<1>1. a # <<>>
  BY DEF IsAttack
<1>2. e = (enter \o links) \o bypass
  BY <1>1 DEF BuildCausalGraph
<1>3. M \in Nat /\ M >= 2 /\ LinkCount(a) = M - 1
  BY NodesApart, WayLinks
<1>4. off \in {0, 1} /\ OnWay(a, 1) = Trigger(a)
  BY DEF Entry, OnWay
<1>5. /\ enter \in Seq(E) /\ Len(enter) = off
      /\ off = 1 => enter[1] = Edge(Context, Trigger(a), "enables")
  <2>1. CASE a[1] > 1
    <3>1. enter = <<Edge(Context, Trigger(a), "enables")>> /\ off = 1
      BY <2>1 DEF Entry
    <3>2. DOMAIN enter = {1} /\ Len(enter) = 1
      BY <3>1
    <3>3. enter[1] = Edge(Context, Trigger(a), "enables")
      BY <3>1
    <3>4. enter[1] \in E
      BY <3>2
    <3> DEFINE door == Edge(Context, Trigger(a), "enables")
    <3>5. enter = <<door>> /\ door \in E
      BY <3>1, <3>3, <3>4
    <3> HIDE DEF enter, E, off, door
    <3>6. enter \in Seq(E)
      BY <3>5
    <3> QED
      BY <3>1, <3>2, <3>3, <3>6
  <2>2. CASE ~(a[1] > 1)
    BY <2>2 DEF Entry
  <2> QED
    BY <2>1, <2>2
<1> HIDE DEF Way
<1>6. links \in Seq(E) /\ Len(links) = M - 1 /\ \A i \in 1..(M - 1) : links[i] = Way(i)
  <2>1. links \in [1..(M - 1) -> E]
    BY <1>3
  <2> HIDE DEF E, M
  <2> QED
    BY <1>3, <2>1
<1>7. bypass \in Seq(E) /\ Len(bypass) = 1 /\ bypass[1] = Edge(Trigger(a), SafeguardGap, "bypasses")
  <2>1. Edge(Trigger(a), SafeguardGap, "bypasses") \in E
    OBVIOUS
  <2> HIDE DEF E
  <2> QED
    BY <2>1
<1> HIDE DEF enter, links, bypass, E, M, off
<1>8. /\ enter \o links \in Seq(E) /\ Len(enter \o links) = off + (M - 1)
      /\ \A i \in 1..off : (enter \o links)[i] = enter[i]
      /\ \A k \in 1..(M - 1) : (enter \o links)[off + k] = links[k]
  <2>1. /\ enter \o links \in Seq(E) /\ Len(enter \o links) = off + (M - 1)
        /\ \A i \in 1..(off + (M - 1)) :
              (enter \o links)[i] = IF i <= off THEN enter[i] ELSE links[i - off]
    BY <1>3, <1>4, <1>5, <1>6, ConcatProperties
  <2>2. ASSUME NEW k \in 1..(M - 1) PROVE (enter \o links)[off + k] = links[k]
    <3>1. off + k \in 1..(off + (M - 1)) /\ ~(off + k <= off) /\ (off + k) - off = k
      BY <1>3, <1>4
    <3> QED
      BY <2>1, <3>1
  <2> QED
    BY <1>3, <1>4, <2>1, <2>2
<1> DEFINE first == enter \o links
<1>9. first \in Seq(E) /\ Len(first) = off + (M - 1)
  BY <1>8
<1>10. e = first \o bypass
  BY <1>2
<1> HIDE DEF first
<1>11. /\ Len(e) = off + M /\ DOMAIN e = 1..(off + M)
       /\ \A i \in 1..(off + (M - 1)) : e[i] = first[i]
       /\ e[off + M] = bypass[1]
  <2>1. /\ first \o bypass \in Seq(E) /\ Len(first \o bypass) = (off + (M - 1)) + 1
        /\ \A i \in 1..((off + (M - 1)) + 1) :
              (first \o bypass)[i] = IF i <= off + (M - 1) THEN first[i]
                                     ELSE bypass[i - (off + (M - 1))]
    <3>1. /\ first \o bypass \in Seq(E) /\ Len(first \o bypass) = Len(first) + Len(bypass)
          /\ \A i \in 1..(Len(first) + Len(bypass)) :
                (first \o bypass)[i] = IF i <= Len(first) THEN first[i]
                                       ELSE bypass[i - Len(first)]
      BY <1>7, <1>9, ConcatProperties
    <3> QED
      BY <1>7, <1>9, <3>1
  <2>2. /\ (off + (M - 1)) + 1 = off + M /\ off + M \in Nat /\ off + M \in 1..(off + M)
        /\ ~(off + M <= off + (M - 1)) /\ (off + M) - (off + (M - 1)) = 1
        /\ \A i \in 1..(off + (M - 1)) : i \in 1..(off + M) /\ i <= off + (M - 1)
    BY <1>3, <1>4
  <2>3. /\ e \in Seq(E) /\ Len(e) = off + M
        /\ \A i \in 1..(off + M) : e[i] = IF i <= off + (M - 1) THEN first[i]
                                          ELSE bypass[i - (off + (M - 1))]
    BY <1>10, <2>1, <2>2
  <2>4. DOMAIN e = 1..Len(e)
    BY <2>3
  <2> QED
    BY <2>2, <2>3, <2>4
<1>12. off = 1 => e[1] = Edge(Context, OnWay(a, 1), "enables")
  BY <1>3, <1>4, <1>5, <1>8, <1>11 DEF first
<1>13. ASSUME NEW k \in 1..(M - 1)
       PROVE  e[off + k] = Edge(OnWay(a, k), OnWay(a, k + 1), "causes")
  <2>1. Link(a, k) = Edge(OnWay(a, k), OnWay(a, k + 1), "causes")
    BY WayLinks DEF M
  <2>2. off + k \in 1..(off + (M - 1))
    BY <1>3, <1>4
  <2> QED
    BY <1>6, <1>8, <1>11, <2>1, <2>2 DEF first, Way
<1> QED
  BY <1>4, <1>7, <1>11, <1>12, <1>13 DEF M, off

(* Where an edge goes from each node on the way, and from the safeguard.   *)
LEMMA WaySuccessors ==
  ASSUME NEW a, NEW m, IsAttack(a, m),
         NEW g, g = BuildCausalGraph(a)
  PROVE  /\ Successors(g, OnWay(a, 1)) = <<OnWay(a, 2), SafeguardGap>>
         /\ \A k \in 2..(WayLength(a) - 1) :
               Successors(g, OnWay(a, k)) = <<OnWay(a, k + 1)>>
         /\ Successors(g, OnWay(a, WayLength(a))) = <<>>
         /\ Successors(g, SafeguardGap) = <<>>
<1> DEFINE M == WayLength(a)
           off == Entry(a)
           e == g.edges
           From(n) == {i \in DOMAIN e : e[i].from = n}
<1>1. M \in Nat /\ M >= 2 /\ off \in {0, 1}
  BY NodesApart DEF Entry
<1>2. /\ \A k \in 1..M : OnWay(a, k) # SafeguardGap /\ OnWay(a, k) # Context
      /\ \A i, j \in 1..M : OnWay(a, i) = OnWay(a, j) => i = j
      /\ SafeguardGap # Context
  BY NodesApart DEF SafeguardGap, Context, Node
<1>3. /\ DOMAIN e = 1..(off + M)
      /\ off = 1 => e[1] = Edge(Context, OnWay(a, 1), "enables")
      /\ \A k \in 1..(M - 1) : e[off + k] = Edge(OnWay(a, k), OnWay(a, k + 1), "causes")
      /\ e[off + M] = Edge(OnWay(a, 1), SafeguardGap, "bypasses")
  BY WayEdges
<1>4. /\ off = 1 => e[1].from = Context
      /\ \A k \in 1..(M - 1) : e[off + k].from = OnWay(a, k) /\ e[off + k].to = OnWay(a, k + 1)
      /\ e[off + M].from = OnWay(a, 1) /\ e[off + M].to = SafeguardGap
  <2>1. \A x, y, kind : Edge(x, y, kind).from = x /\ Edge(x, y, kind).to = y
    BY DEF Edge
  <2> HIDE DEF M, off, e
  <2> QED
    BY <1>3, <2>1
<1>5. \A n : Successors(g, n) = [i \in DOMAIN AtPlaces(e, From(n)) |-> AtPlaces(e, From(n))[i].to]
  BY DEF Successors
<1>6. \A i \in DOMAIN e : \/ off = 1 /\ i = 1
                         \/ (\E k \in 1..(M - 1) : i = off + k)
                         \/ i = off + M
  <2> TAKE i \in DOMAIN e
  <2>1. i \in 1..(off + M)
    BY <1>3
  <2> DEFINE d == i - off
  <2>2. (off = 1 /\ i = 1) \/ (d \in 1..(M - 1) /\ i = off + d) \/ i = off + M
    BY <1>1, <2>1
  <2> HIDE DEF M, off, e, d
  <2> QED
    BY <2>2
<1>7. \A k \in 1..M : off + k \in DOMAIN e
  BY <1>1, <1>3
<1> HIDE DEF M, off, e
<1>8. \A n : From(n) \subseteq DOMAIN e /\ \A i \in DOMAIN e : i \in From(n) <=> e[i].from = n
  OBVIOUS
<1> HIDE DEF From
<1>9. From(OnWay(a, 1)) = {off + 1, off + M}
  <2>1. 1 \in 1..M /\ M \in 1..M /\ 1 \in 1..(M - 1)
    BY <1>1
  <2>2. off + 1 \in From(OnWay(a, 1)) /\ off + M \in From(OnWay(a, 1))
    BY <1>4, <1>7, <1>8, <2>1
  <2>3. ASSUME NEW i \in From(OnWay(a, 1)) PROVE i \in {off + 1, off + M}
    <3>1. i \in DOMAIN e /\ e[i].from = OnWay(a, 1)
      BY <1>8
    <3>2. ~(off = 1 /\ i = 1)
      BY <1>2, <1>4, <2>1, <3>1
    <3>3. ASSUME NEW k \in 1..(M - 1), i = off + k PROVE k = 1
      <4>1. OnWay(a, k) = OnWay(a, 1)
        BY <1>4, <3>1, <3>3
      <4>2. k \in 1..M
        BY <1>1
      <4> QED
        BY <1>2, <2>1, <4>1, <4>2
    <3> QED
      BY <1>6, <3>1, <3>2, <3>3
  <2> QED
    BY <2>2, <2>3
<1>10. ASSUME NEW k \in 2..(M - 1) PROVE From(OnWay(a, k)) = {off + k}
  <2>1. k \in 1..M /\ k \in 1..(M - 1) /\ k # 1 /\ 1 \in 1..M
    BY <1>1
  <2>2. off + k \in From(OnWay(a, k))
    BY <1>4, <1>7, <1>8, <2>1
  <2>3. ASSUME NEW i \in From(OnWay(a, k)) PROVE i = off + k
    <3>1. i \in DOMAIN e /\ e[i].from = OnWay(a, k)
      BY <1>8
    <3>2. ~(off = 1 /\ i = 1)
      BY <1>2, <1>4, <2>1, <3>1
    <3>3. i # off + M
      BY <1>2, <1>4, <2>1, <3>1
    <3>4. ASSUME NEW j \in 1..(M - 1), i = off + j PROVE j = k
      <4>1. OnWay(a, j) = OnWay(a, k)
        BY <1>4, <3>1, <3>4
      <4>2. j \in 1..M
        BY <1>1
      <4> QED
        BY <1>2, <2>1, <4>1, <4>2
    <3> QED
      BY <1>6, <3>1, <3>2, <3>3, <3>4
  <2> QED
    BY <2>2, <2>3
<1>11. ASSUME NEW n, n = OnWay(a, M) \/ n = SafeguardGap PROVE From(n) = {}
  <2> SUFFICES ASSUME NEW i \in From(n) PROVE FALSE
    OBVIOUS
  <2>1. i \in DOMAIN e /\ e[i].from = n
    BY <1>8
  <2>2. 1 \in 1..M /\ M \in 1..M /\ 1 # M
    BY <1>1
  <2>3. n # Context /\ n # OnWay(a, 1)
    BY <1>2, <1>11, <2>2
  <2>4. \A k \in 1..(M - 1) : k \in 1..M /\ k # M
    BY <1>1
  <2>5. \A k \in 1..(M - 1) : OnWay(a, k) # n
    BY <1>2, <1>11, <2>2, <2>4
  <2> QED
    BY <1>4, <1>6, <2>1, <2>3, <2>5
<1>12. Successors(g, OnWay(a, 1)) = <<OnWay(a, 2), SafeguardGap>>
  <2> DEFINE out == <<e[off + 1], e[off + M]>>
  <2>1. off + 1 \in Int /\ off + M \in Int /\ off + 1 < off + M /\ 1 \in 1..(M - 1)
    BY <1>1
  <2>2. AtPlaces(e, From(OnWay(a, 1))) = out
    BY <1>9, <2>1, FewPlaces
  <2>3. e[off + 1].to = OnWay(a, 2) /\ e[off + M].to = SafeguardGap
    BY <1>4, <2>1
  <2>4. [i \in DOMAIN out |-> out[i].to] = <<OnWay(a, 2), SafeguardGap>>
    BY <2>3
  <2> HIDE DEF out
  <2> QED
    BY <1>5, <2>2, <2>4
<1>13. ASSUME NEW k \in 2..(M - 1) PROVE Successors(g, OnWay(a, k)) = <<OnWay(a, k + 1)>>
  <2> DEFINE out == <<e[off + k]>>
  <2>1. off + k \in Int /\ k \in 1..(M - 1)
    BY <1>1
  <2>2. AtPlaces(e, From(OnWay(a, k))) = out
    BY <1>10, <2>1, FewPlaces
  <2>3. e[off + k].to = OnWay(a, k + 1)
    BY <1>4, <2>1
  <2>4. [i \in DOMAIN out |-> out[i].to] = <<OnWay(a, k + 1)>>
    BY <2>3
  <2> HIDE DEF out
  <2> QED
    BY <1>5, <2>2, <2>4
<1>14. ASSUME NEW n, n = OnWay(a, M) \/ n = SafeguardGap PROVE Successors(g, n) = <<>>
  <2> DEFINE out == <<>>
  <2>1. AtPlaces(e, From(n)) = out
    BY <1>11, <1>14, FewPlaces
  <2>2. [i \in DOMAIN out |-> out[i].to] = <<>>
    OBVIOUS
  <2> HIDE DEF out
  <2> QED
    BY <1>5, <2>1, <2>2
<1> QED
  BY <1>12, <1>13, <1>14 DEF M

LEMMA WayNodes ==
  ASSUME NEW a, NEW m, IsAttack(a, m),
         NEW g, g = BuildCausalGraph(a)
  PROVE  /\ IsFiniteSet(g.nodes) /\ Cardinality(g.nodes) \in Nat /\ Cardinality(g.nodes) >= 1
         /\ {n \in g.nodes : n.kind = "trigger"} = {OnWay(a, 1)}
<1> DEFINE between == {Propagation(a, i) : i \in 2..(Len(a) - 1)}
           before == IF a[1] > 1 THEN {Context} ELSE {}
<1>1. a # <<>> /\ Len(a) \in Nat
  BY DEF IsAttack
<1>2. g.nodes = {Trigger(a), Harm(a), SafeguardGap} \cup between \cup before
  BY <1>1 DEF BuildCausalGraph
<1>3. IsFiniteSet(between)
  <2> DEFINE Prop(i) == Propagation(a, i)
             S == 2..(Len(a) - 1)
  <2>1. 2 \in Int /\ Len(a) - 1 \in Int
    BY <1>1
  <2>2. IsFiniteSet(S)
    BY <2>1, FS_Interval
  <2> DEFINE f == [i \in S |-> Prop(i)]
  <2> HIDE DEF S, Prop
  <2>3. f \in Surjection(S, {Prop(i) : i \in S})
    BY DEF Surjection
  <2>4. IsFiniteSet({Prop(i) : i \in S})
    BY <2>2, <2>3, FS_Surjection
  <2> QED
    BY <2>4 DEF Prop, S
<1>4. IsFiniteSet({Trigger(a), Harm(a), SafeguardGap})
  <2>1. IsFiniteSet({})
    BY FS_EmptySet
  <2>2. IsFiniteSet({} \cup {SafeguardGap})
    BY <2>1, FS_AddElement
  <2>3. IsFiniteSet(({} \cup {SafeguardGap}) \cup {Harm(a)})
    BY <2>2, FS_AddElement
  <2>4. IsFiniteSet((({} \cup {SafeguardGap}) \cup {Harm(a)}) \cup {Trigger(a)})
    BY <2>3, FS_AddElement
  <2>5. (({} \cup {SafeguardGap}) \cup {Harm(a)}) \cup {Trigger(a)}
           = {Trigger(a), Harm(a), SafeguardGap}
    OBVIOUS
  <2> QED
    BY <2>4, <2>5
<1>5. IsFiniteSet(before)
  <2>1. IsFiniteSet({}) /\ IsFiniteSet({Context})
    BY FS_EmptySet, FS_Singleton
  <2> QED
    BY <2>1
<1>6. \A n \in g.nodes : n = Trigger(a) \/ n.kind # "trigger"
  <2>1. \A n \in between : n.kind = "propagation"
    BY DEF Propagation, Node
  <2>2. /\ Harm(a).kind = "harm" /\ SafeguardGap.kind = "safeguard"
        /\ \A n \in before : n.kind = "context"
    BY DEF Harm, SafeguardGap, Context, Node
  <2> HIDE DEF between, before
  <2> QED
    BY <1>2, <2>1, <2>2
<1>7. Trigger(a).kind = "trigger" /\ OnWay(a, 1) = Trigger(a)
  BY DEF OnWay, Trigger, Node
<1> HIDE DEF between, before
<1>8. IsFiniteSet(g.nodes) /\ Trigger(a) \in g.nodes
  <2>1. IsFiniteSet({Trigger(a), Harm(a), SafeguardGap} \cup between)
    BY <1>3, <1>4, FS_Union
  <2> QED
    BY <1>2, <1>5, <2>1, FS_Union
<1>9. Cardinality(g.nodes) \in Nat /\ Cardinality(g.nodes) # 0
  BY <1>8, FS_CardinalityType, FS_EmptySet
<1> QED
  BY <1>6, <1>7, <1>8, <1>9

LEMMA ShortQueues ==
  ASSUME NEW x, NEW y
  PROVE  /\ <<x>> # <<>> /\ <<x, y>> # <<>>
         /\ Head(<<x>>) = x /\ Head(<<x, y>>) = x
         /\ Tail(<<x>>) = <<>> /\ Tail(<<x, y>>) = <<y>>
         /\ <<>> \o <<>> = <<>> /\ <<>> \o <<x>> = <<x>> /\ <<>> \o <<x, y>> = <<x, y>>
         /\ <<x>> \o <<>> = <<x>> /\ <<x>> \o <<y>> = <<x, y>>
         /\ SetToSeq({x}) = <<x>>
<1>1. <<x>> # <<>> /\ <<x, y>> # <<>>
  OBVIOUS
<1>2. Head(<<x>>) = x /\ Head(<<x, y>>) = x
  OBVIOUS
<1>3. Tail(<<x>>) = <<>> /\ Tail(<<x, y>>) = <<y>>
  OBVIOUS
<1>4. <<>> \o <<>> = <<>> /\ <<>> \o <<x>> = <<x>> /\ <<x>> \o <<>> = <<x>>
  OBVIOUS
<1>5. <<>> \o <<x, y>> = <<x, y>>
  OBVIOUS
<1>6. <<x>> \o <<y>> = <<x, y>>
  <2> DEFINE s == <<x>>
             t == <<y>>
             both == s \o t
  <2>1. /\ s \in Seq({x, y}) /\ Len(s) = 1 /\ s[1] = x
        /\ t \in Seq({x, y}) /\ Len(t) = 1 /\ t[1] = y
    OBVIOUS
  <2> HIDE DEF s, t
  <2>2. /\ both \in Seq({x, y}) /\ Len(both) = Len(s) + Len(t)
        /\ \A i \in 1..(Len(s) + Len(t)) :
              both[i] = IF i <= Len(s) THEN s[i] ELSE t[i - Len(s)]
    BY <2>1, ConcatProperties
  <2> HIDE DEF both
  <2>3. Len(both) = 2 /\ both[1] = x /\ both[2] = y
    BY <2>1, <2>2
  <2>4. both = <<x, y>>
    <3>1. DOMAIN both = 1..2
      BY <2>2, <2>3, LenProperties
    <3>2. both = [i \in DOMAIN both |-> both[i]]
      BY <2>2
    <3>3. [i \in 1..2 |-> both[i]] = <<x, y>>
      BY <2>3
    <3> QED
      BY <3>1, <3>2, <3>3
  <2> QED
    BY <2>4 DEF both, s, t
<1>7. SetToSeq({x}) = <<x>>
  <2>1. Cardinality({x}) = 1
    BY FS_Singleton
  <2>2. <<x>> \in [1..1 -> {x}] /\ IsInjective(<<x>>)
    BY DEF IsInjective
  <2>3. \A f \in [1..1 -> {x}] : f = <<x>>
    OBVIOUS
  <2> QED
    BY <2>1, <2>2, <2>3 DEF SetToSeq
<1> QED
  BY <1>1, <1>2, <1>3, <1>4, <1>5, <1>6, <1>7

(* What the search finds: the way, with the safeguard after its second     *)
(* node, for that edge is listed last but starts at the trigger.           *)
Walk(a) ==
    [i \in 1..(WayLength(a) + 1) |->
        IF i <= 2 THEN OnWay(a, i) ELSE IF i = 3 THEN SafeguardGap ELSE OnWay(a, i - 1)]

LEMMA WalkFacts ==
  ASSUME NEW a, NEW m, IsAttack(a, m),
         NEW g, g = BuildCausalGraph(a),
         NEW M, M = WayLength(a), NEW w, w = Walk(a)
  PROVE  /\ M \in Nat /\ M >= 2 /\ DOMAIN w = 1..(M + 1)
         /\ \A i, j \in 1..(M + 1) : w[i] = w[j] => i = j
         /\ w[1] = OnWay(a, 1)
         /\ Successors(g, w[1]) = <<w[2], w[3]>>
         /\ M = 2 => Successors(g, w[2]) = <<>>
         /\ M > 2 => Successors(g, w[2]) = <<w[4]>>
         /\ Successors(g, w[3]) = <<>>
         /\ \A i \in 4..M : Successors(g, w[i]) = <<w[i + 1]>>
         /\ M > 2 => Successors(g, w[M + 1]) = <<>>
<1>1. M \in Nat /\ M >= 2
  BY NodesApart
<1>2. /\ \A k \in 1..M : OnWay(a, k) # SafeguardGap
      /\ \A i, j \in 1..M : OnWay(a, i) = OnWay(a, j) => i = j
  BY NodesApart
<1>3. /\ Successors(g, OnWay(a, 1)) = <<OnWay(a, 2), SafeguardGap>>
      /\ \A k \in 2..(M - 1) : Successors(g, OnWay(a, k)) = <<OnWay(a, k + 1)>>
      /\ Successors(g, OnWay(a, M)) = <<>>
      /\ Successors(g, SafeguardGap) = <<>>
  BY WaySuccessors
<1>4. /\ DOMAIN w = 1..(M + 1)
      /\ \A i \in 1..(M + 1) :
            w[i] = IF i <= 2 THEN OnWay(a, i) ELSE IF i = 3 THEN SafeguardGap ELSE OnWay(a, i - 1)
  BY DEF Walk
<1>5. /\ w[1] = OnWay(a, 1) /\ w[2] = OnWay(a, 2) /\ w[3] = SafeguardGap
      /\ \A i \in 4..(M + 1) : w[i] = OnWay(a, i - 1)
  <2>1. 1 \in 1..(M + 1) /\ 2 \in 1..(M + 1) /\ 3 \in 1..(M + 1)
    BY <1>1
  <2>2. \A i \in 4..(M + 1) : i \in 1..(M + 1) /\ ~(i <= 2) /\ i # 3
    BY <1>1
  <2> QED
    BY <1>4, <2>1, <2>2
<1>6. ASSUME NEW i \in 1..(M + 1), NEW j \in 1..(M + 1), w[i] = w[j] PROVE i = j
  <2> DEFINE Place(k) == IF k <= 2 THEN k ELSE k - 1
  <2>1. \A k \in 1..(M + 1) : k # 3 => Place(k) \in 1..M /\ w[k] = OnWay(a, Place(k))
    <3> SUFFICES ASSUME NEW k \in 1..(M + 1), k # 3
                 PROVE  Place(k) \in 1..M /\ w[k] = OnWay(a, Place(k))
      OBVIOUS
    <3>1. w[k] = IF k <= 2 THEN OnWay(a, k) ELSE OnWay(a, k - 1)
      BY <1>4
    <3> QED
      BY <1>1, <3>1
  <2>2. \A k, l \in 1..(M + 1) : k # 3 /\ l # 3 /\ Place(k) = Place(l) => k = l
    BY <1>1
  <2> HIDE DEF Place
  <2>3. CASE i # 3 /\ j # 3
    BY <1>2, <1>6, <2>1, <2>2, <2>3
  <2>4. CASE i = 3 \/ j = 3
    BY <1>2, <1>5, <1>6, <2>1, <2>4
  <2> QED
    BY <2>3, <2>4
<1>7. ASSUME NEW i \in 4..M PROVE Successors(g, w[i]) = <<w[i + 1]>>
  <2>1. i \in 4..(M + 1) /\ i + 1 \in 4..(M + 1) /\ i - 1 \in 2..(M - 1)
        /\ (i - 1) + 1 = i /\ (i + 1) - 1 = i
    BY <1>1
  <2>2. w[i] = OnWay(a, i - 1) /\ w[i + 1] = OnWay(a, i)
    BY <1>5, <2>1
  <2>3. Successors(g, OnWay(a, i - 1)) = <<OnWay(a, i)>>
    BY <1>3, <2>1
  <2> QED
    BY <2>2, <2>3
<1>8. M > 2 => Successors(g, w[2]) = <<w[4]>> /\ Successors(g, w[M + 1]) = <<>>
  <2> SUFFICES ASSUME M > 2 PROVE Successors(g, w[2]) = <<w[4]>> /\ Successors(g, w[M + 1]) = <<>>
    OBVIOUS
  <2>1. 2 \in 2..(M - 1) /\ 4 \in 4..(M + 1) /\ M + 1 \in 4..(M + 1)
        /\ 2 + 1 = 3 /\ 4 - 1 = 3 /\ (M + 1) - 1 = M
    BY <1>1
  <2>2. w[4] = OnWay(a, 3) /\ w[M + 1] = OnWay(a, M)
    BY <1>5, <2>1
  <2>3. Successors(g, OnWay(a, 2)) = <<OnWay(a, 3)>>
    BY <1>3, <2>1
  <2> QED
    BY <1>3, <1>5, <2>2, <2>3
<1>9. M = 2 => Successors(g, w[2]) = <<>>
  BY <1>3, <1>5
<1> QED
  BY <1>1, <1>3, <1>4, <1>5, <1>6, <1>7, <1>8, <1>9

LEMMA SearchSolved ==
  ASSUME NEW a, NEW m, IsAttack(a, m),
         NEW g, g = BuildCausalGraph(a)
  PROVE  CausalChain(g) = Walk(a)
<1> DEFINE M == WayLength(a)
           w == Walk(a)
           Reached(i) == IF i <= M + 1 THEN i ELSE M + 1
           Found(i) == [j \in 1..Reached(i) |-> w[j]]
           Waiting(i) == IF i > M THEN <<>>
                         ELSE IF i \in {1, 2} /\ i < M THEN <<w[i + 1], w[i + 2]>>
                         ELSE <<w[i + 1]>>
           State(i) == [queue |-> Waiting(i), chain |-> Found(i)]
           Step(s) == IF s.queue = <<>> THEN s
                      ELSE IF Contains(s.chain, Head(s.queue))
                      THEN [s EXCEPT !.queue = Tail(s.queue)]
                      ELSE [queue |-> Tail(s.queue) \o Successors(g, Head(s.queue)),
                            chain |-> Append(s.chain, Head(s.queue))]
           triggers == {n \in g.nodes : n.kind = "trigger"}
           start == [queue |-> SetToSeq(triggers), chain |-> <<>>]
           pops == Cardinality(g.nodes) + Len(g.edges)
           Next1(f, i) == IF i = 0 THEN start ELSE Step(f[i - 1])
           Solves(f) == f = [i \in 0..pops |-> Next1(f, i)]
           search == CHOOSE f : Solves(f)
           sol == [i \in 0..pops |-> State(i)]
<1>1. CausalChain(g) = search[pops].chain
  BY DEF CausalChain
<1>2. /\ M \in Nat /\ M >= 2 /\ DOMAIN w = 1..(M + 1)
      /\ \A i, j \in 1..(M + 1) : w[i] = w[j] => i = j
      /\ w[1] = OnWay(a, 1)
      /\ Successors(g, w[1]) = <<w[2], w[3]>>
      /\ M = 2 => Successors(g, w[2]) = <<>>
      /\ M > 2 => Successors(g, w[2]) = <<w[4]>>
      /\ Successors(g, w[3]) = <<>>
      /\ \A i \in 4..M : Successors(g, w[i]) = <<w[i + 1]>>
      /\ M > 2 => Successors(g, w[M + 1]) = <<>>
  BY WalkFacts
<1>3. pops \in Nat /\ pops >= M + 1
  <2>1. Cardinality(g.nodes) \in Nat /\ Cardinality(g.nodes) >= 1
    BY WayNodes
  <2>2. Len(g.edges) = Entry(a) + M
    BY WayEdges
  <2>3. Entry(a) \in {0, 1}
    BY DEF Entry
  <2> HIDE DEF M
  <2> QED
    BY <1>2, <2>1, <2>2, <2>3
<1>4. start = State(0)
  <2>1. SetToSeq(triggers) = <<w[1]>>
    BY <1>2, WayNodes, ShortQueues
  <2> HIDE DEF M, w, triggers
  <2>2. Waiting(0) = <<w[1]>>
    BY <1>2
  <2>3. Found(0) = <<>>
    BY <1>2
  <2> QED
    BY <2>1, <2>2, <2>3
<1> HIDE DEF M, w, pops, start
<1>5. ASSUME NEW i \in Nat, i > M PROVE Step(State(i)) = State(i + 1)
  <2>1. Waiting(i) = <<>> /\ Waiting(i + 1) = <<>>
    BY <1>2, <1>5
  <2>2. Reached(i) = M + 1 /\ Reached(i + 1) = M + 1
    BY <1>2, <1>5
  <2>3. Found(i) = Found(i + 1)
    BY <2>2
  <2> HIDE DEF Waiting, Found
  <2> QED
    BY <2>1, <2>3
<1>6. ASSUME NEW i \in 0..M
      PROVE  /\ Waiting(i) # <<>> /\ Head(Waiting(i)) = w[i + 1]
             /\ Tail(Waiting(i)) \o Successors(g, w[i + 1]) = Waiting(i + 1)
  <2>1. CASE i = 0
    <3>1. Waiting(0) = <<w[1]>> /\ Waiting(1) = <<w[2], w[3]>>
      BY <1>2
    <3> HIDE DEF Waiting
    <3>2. /\ <<w[1]>> # <<>> /\ Head(<<w[1]>>) = w[1] /\ Tail(<<w[1]>>) = <<>>
          /\ <<>> \o <<w[2], w[3]>> = <<w[2], w[3]>>
      BY ShortQueues
    <3>3. /\ Waiting(0) # <<>> /\ Head(Waiting(0)) = w[1]
          /\ Tail(Waiting(0)) \o Successors(g, w[1]) = Waiting(1)
      BY <1>2, <3>1, <3>2, Zenon
    <3>4. i = 0 /\ i + 1 = 1
      BY <2>1
    <3> QED
      BY <3>3, <3>4, Zenon
  <2>2. CASE i = 1
    <3>1. Waiting(1) = <<w[2], w[3]>>
      BY <1>2
    <3>2. M = 2 => Waiting(2) = <<w[3]>>
      BY <1>2
    <3>3. M > 2 => Waiting(2) = <<w[3], w[4]>>
      BY <1>2
    <3>4. M = 2 \/ M > 2
      BY <1>2
    <3> HIDE DEF Waiting
    <3>5. Waiting(1) # <<>> /\ Head(Waiting(1)) = w[2] /\ Tail(Waiting(1)) = <<w[3]>>
      <4>1. /\ <<w[2], w[3]>> # <<>> /\ Head(<<w[2], w[3]>>) = w[2]
            /\ Tail(<<w[2], w[3]>>) = <<w[3]>>
        BY ShortQueues
      <4> QED
        BY <3>1, <4>1, Zenon
    <3>6. Tail(Waiting(1)) \o Successors(g, w[2]) = Waiting(2)
      <4>1. <<w[3]>> \o <<>> = <<w[3]>> /\ <<w[3]>> \o <<w[4]>> = <<w[3], w[4]>>
        BY ShortQueues
      <4>2. CASE M = 2
        BY <1>2, <3>2, <3>5, <4>1, <4>2, Zenon
      <4>3. CASE M > 2
        BY <1>2, <3>3, <3>5, <4>1, <4>3, Zenon
      <4> QED
        BY <3>4, <4>2, <4>3
    <3>7. i = 1 /\ i + 1 = 2
      BY <2>2
    <3> QED
      BY <3>5, <3>6, <3>7, Zenon
  <2>3. CASE i = 2
    <3>1. M = 2 => Waiting(2) = <<w[3]>> /\ Waiting(3) = <<>>
      BY <1>2
    <3>2. M > 2 => Waiting(2) = <<w[3], w[4]>> /\ Waiting(3) = <<w[4]>>
      BY <1>2
    <3>3. M = 2 \/ M > 2
      BY <1>2
    <3> HIDE DEF Waiting
    <3>4. /\ <<w[3]>> # <<>> /\ Head(<<w[3]>>) = w[3] /\ Tail(<<w[3]>>) = <<>>
          /\ <<w[3], w[4]>> # <<>> /\ Head(<<w[3], w[4]>>) = w[3]
          /\ Tail(<<w[3], w[4]>>) = <<w[4]>>
          /\ <<>> \o <<>> = <<>> /\ <<w[4]>> \o <<>> = <<w[4]>>
      BY ShortQueues
    <3>5. /\ Waiting(2) # <<>> /\ Head(Waiting(2)) = w[3]
          /\ Tail(Waiting(2)) \o Successors(g, w[3]) = Waiting(3)
      <4>1. CASE M = 2
        BY <1>2, <3>1, <3>4, <4>1, Zenon
      <4>2. CASE M > 2
        BY <1>2, <3>2, <3>4, <4>2, Zenon
      <4> QED
        BY <3>3, <4>1, <4>2
    <3>6. i = 2 /\ i + 1 = 3
      BY <2>3
    <3> QED
      BY <3>5, <3>6, Zenon
  <2>4. CASE i > 2 /\ i < M
    <3>1. i + 1 \in 4..M /\ (i + 1) + 1 = i + 2
      BY <1>2, <2>4
    <3>2. Waiting(i) = <<w[i + 1]>> /\ Waiting(i + 1) = <<w[(i + 1) + 1]>>
      BY <1>2, <2>4
    <3> HIDE DEF Waiting
    <3>3. Successors(g, w[i + 1]) = <<w[(i + 1) + 1]>>
      BY <1>2, <3>1
    <3> QED
      BY <3>2, <3>3, ShortQueues
  <2>5. CASE i > 2 /\ i = M
    <3>1. Waiting(i) = <<w[i + 1]>> /\ Waiting(i + 1) = <<>>
      BY <1>2, <2>5
    <3> HIDE DEF Waiting
    <3>2. Successors(g, w[i + 1]) = <<>>
      BY <1>2, <2>5
    <3> QED
      BY <3>1, <3>2, ShortQueues
  <2>6. i = 0 \/ i = 1 \/ i = 2 \/ (i > 2 /\ i < M) \/ (i > 2 /\ i = M)
    BY <1>2
  <2> QED
    BY <2>1, <2>2, <2>3, <2>4, <2>5, <2>6
<1>7. ASSUME NEW i \in 0..M
      PROVE  /\ ~Contains(Found(i), w[i + 1])
             /\ Append(Found(i), w[i + 1]) = Found(i + 1)
  <2> DEFINE T == {w[j] : j \in 1..(M + 1)}
  <2>1. Reached(i) = i /\ Reached(i + 1) = i + 1 /\ i \in Nat /\ i + 1 \in 1..(M + 1)
    BY <1>2
  <2>2. Found(i) \in Seq(T) /\ Len(Found(i)) = i /\ \A j \in 1..i : Found(i)[j] = w[j]
    <3>1. Found(i) \in [1..i -> T]
      BY <1>2, <2>1
    <3> HIDE DEF T
    <3> QED
      BY <2>1, <3>1
  <2>3. w[i + 1] \in T
    BY <2>1
  <2>4. Found(i + 1) = [j \in 1..(i + 1) |-> w[j]]
    BY <2>1
  <2> HIDE DEF Found, T
  <2>5. ~Contains(Found(i), w[i + 1])
    <3> SUFFICES ASSUME NEW j \in 1..Len(Found(i)), Found(i)[j] = w[i + 1] PROVE FALSE
      BY DEF Contains
    <3>1. j \in 1..i /\ j \in 1..(M + 1) /\ j # i + 1
      BY <1>2, <2>2
    <3> QED
      BY <1>2, <2>1, <2>2, <3>1
  <2>6. Append(Found(i), w[i + 1]) = [j \in 1..(i + 1) |-> w[j]]
    <3> DEFINE longer == Append(Found(i), w[i + 1])
    <3>1. /\ longer \in Seq(T) /\ Len(longer) = i + 1
          /\ \A j \in 1..i : longer[j] = Found(i)[j]
          /\ longer[i + 1] = w[i + 1]
      BY <2>1, <2>2, <2>3, AppendProperties
    <3> HIDE DEF longer
    <3>2. \A j \in 1..(i + 1) : longer[j] = w[j]
      BY <2>1, <2>2, <3>1
    <3>3. longer = [j \in 1..(i + 1) |-> w[j]]
      BY <3>1, <3>2
    <3> QED
      BY <3>3 DEF longer
  <2> QED
    BY <2>4, <2>5, <2>6
<1> HIDE DEF Waiting, Found
<1>8. ASSUME NEW i \in Nat PROVE Step(State(i)) = State(i + 1)
  <2>1. State(i).queue = Waiting(i) /\ State(i).chain = Found(i)
    OBVIOUS
  <2>2. CASE i > M
    BY <1>5, <2>2
  <2>3. CASE ~(i > M)
    <3>1. i \in 0..M
      BY <1>2, <2>3
    <3>2. Step(State(i)) = [queue |-> Tail(Waiting(i)) \o Successors(g, Head(Waiting(i))),
                            chain |-> Append(Found(i), Head(Waiting(i)))]
      BY <1>6, <1>7, <2>1, <3>1
    <3> QED
      BY <1>6, <1>7, <3>1, <3>2
  <2> QED
    BY <2>2, <2>3
<1> HIDE DEF Step, State
<1>9. Solves(sol)
  <2>1. ASSUME NEW i \in 0..pops PROVE State(i) = Next1(sol, i)
    <3>1. CASE i = 0
      BY <1>4, <3>1
    <3>2. CASE i # 0
      <4>1. i - 1 \in Nat /\ i - 1 \in 0..pops /\ (i - 1) + 1 = i
        BY <1>3, <3>2
      <4>2. sol[i - 1] = State(i - 1)
        BY <4>1
      <4>3. Step(State(i - 1)) = State(i)
        BY <1>8, <4>1
      <4> QED
        BY <3>2, <4>2, <4>3
    <3> QED
      BY <3>1, <3>2
  <2> HIDE DEF Next1
  <2> QED
    BY <2>1
<1>10. Solves(search)
  <2> HIDE DEF Solves, sol
  <2> QED
    BY <1>9
<1> HIDE DEF search, sol
<1>11. ASSUME NEW i \in 0..pops PROVE search[i] = Next1(search, i)
  <2> HIDE DEF Next1
  <2> QED
    BY <1>10
<1> HIDE DEF Solves
<1>12. \A i \in 0..pops : search[i] = State(i)
  <2> SUFFICES ASSUME NEW k \in 0..pops, search[k] # State(k) PROVE FALSE
    OBVIOUS
  <2> DEFINE bad == {i \in 0..pops : search[i] # State(i)}
  <2>1. bad \in SUBSET Nat /\ bad # {}
    BY <1>3
  <2>2. \A i \in bad : i \in 0..pops /\ search[i] # State(i)
    OBVIOUS
  <2>3. \A i \in 0..pops : i \notin bad => search[i] = State(i)
    OBVIOUS
  <2> HIDE DEF bad
  <2>4. PICK i \in bad : \A j \in bad : i <= j
    BY <2>1, LeastNatural
  <2>5. i # 0
    BY <1>4, <1>11, <2>2
  <2>6. i - 1 \in Nat /\ i - 1 \in 0..pops /\ (i - 1) + 1 = i /\ ~(i <= i - 1)
    BY <1>3, <2>2, <2>5
  <2>7. search[i - 1] = State(i - 1)
    BY <2>3, <2>4, <2>6
  <2>8. search[i] = Step(State(i - 1))
    BY <1>11, <2>2, <2>5, <2>7
  <2> QED
    BY <1>8, <2>2, <2>6, <2>8
<1>13. search[pops].chain = Found(pops)
  <2>1. pops \in 0..pops
    BY <1>3
  <2>2. search[pops] = State(pops)
    BY <1>12, <2>1
  <2>3. State(pops).chain = Found(pops)
    BY DEF State
  <2> QED
    BY <2>2, <2>3
<1>14. Found(pops) = w
  <2>1. Reached(pops) = M + 1
    BY <1>2, <1>3
  <2>2. w = [j \in 1..(M + 1) |-> w[j]]
    BY <1>2 DEF w, Walk, M
  <2> QED
    BY <2>1, <2>2 DEF Found
<1> QED
  BY <1>1, <1>13, <1>14 DEF w

LEMMA ChainIsWay ==
  ASSUME NEW a, NEW m, IsAttack(a, m),
         NEW walk, walk = CausalChain(BuildCausalGraph(a))
  PROVE  /\ Len(walk) = WayLength(a) + 1 /\ walk[3] = SafeguardGap
         /\ RemoveAt(walk, 3) = [k \in 1..WayLength(a) |-> OnWay(a, k)]
<1> DEFINE M == WayLength(a)
           Node1(k) == OnWay(a, k)
           w == [i \in 1..(M + 1) |->
                   IF i <= 2 THEN Node1(i) ELSE IF i = 3 THEN SafeguardGap ELSE Node1(i - 1)]
           S == {w[i] : i \in 1..(M + 1)}
<1>1. M \in Nat /\ M >= 2
  BY NodesApart
<1>2. walk = w
  BY SearchSolved DEF Walk
<1> HIDE DEF Node1, M
<1>3. w \in Seq(S) /\ Len(w) = M + 1
  <2>1. w \in [1..(M + 1) -> S]
    OBVIOUS
  <2> HIDE DEF w, S
  <2> QED
    BY <1>1, <2>1
<1>4. \A i \in 1..(M + 1) :
         w[i] = IF i <= 2 THEN Node1(i) ELSE IF i = 3 THEN SafeguardGap ELSE Node1(i - 1)
  OBVIOUS
<1> HIDE DEF w, S
<1>5. w[3] = SafeguardGap
  BY <1>1, <1>4
<1> DEFINE front == SubSeq(w, 1, 2)
           back  == SubSeq(w, 4, M + 1)
<1>6. /\ front \in Seq(S) /\ Len(front) = 2 /\ \A k \in 1..2 : front[k] = w[k]
      /\ back \in Seq(S) /\ Len(back) = M - 2 /\ \A k \in 1..(M - 2) : back[k] = w[k + 3]
  BY <1>1, <1>3
<1> DEFINE both == front \o back
<1>7. RemoveAt(w, 3) = both
  BY <1>3 DEF RemoveAt
<1> HIDE DEF front, back
<1>8. /\ both \in Seq(S) /\ Len(both) = M
      /\ \A k \in 1..M : both[k] = IF k <= 2 THEN front[k] ELSE back[k - 2]
  <2>1. /\ both \in Seq(S) /\ Len(both) = Len(front) + Len(back)
        /\ \A k \in 1..(Len(front) + Len(back)) :
              both[k] = IF k <= Len(front) THEN front[k] ELSE back[k - Len(front)]
    BY <1>6, ConcatProperties
  <2>2. Len(front) = 2 /\ Len(front) + Len(back) = M
    BY <1>1, <1>6
  <2> HIDE DEF both
  <2> QED
    BY <2>1, <2>2
<1> HIDE DEF both
<1>9. ASSUME NEW k \in 1..M PROVE both[k] = Node1(k)
  <2>1. CASE k <= 2
    <3>1. both[k] = front[k] /\ front[k] = w[k]
      BY <1>1, <1>6, <1>8, <2>1
    <3>2. w[k] = Node1(k)
      BY <1>1, <1>4, <2>1
    <3> QED
      BY <3>1, <3>2
  <2>2. CASE ~(k <= 2)
    <3>1. both[k] = back[k - 2] /\ k - 2 \in 1..(M - 2)
      BY <1>1, <1>8, <2>2
    <3>2. back[k - 2] = w[(k - 2) + 3] /\ (k - 2) + 3 = k + 1
      BY <1>6, <3>1
    <3>3. k + 1 \in 1..(M + 1) /\ ~(k + 1 <= 2) /\ k + 1 # 3 /\ (k + 1) - 1 = k
      BY <1>1, <2>2
    <3>4. w[k + 1] = Node1(k)
      BY <1>4, <3>3
    <3> QED
      BY <3>1, <3>2, <3>4
  <2> QED
    BY <2>1, <2>2
<1>10. both = [k \in 1..M |-> Node1(k)]
  <2>1. both = [k \in 1..M |-> both[k]]
    BY <1>1, <1>8
  <2> QED
    BY <1>9, <2>1
<1> QED
  BY <1>2, <1>3, <1>5, <1>7, <1>10 DEF M, Node1

LEMMA ChainSound ==
  ASSUME trajectory \in Seq(Turns)
  PROVE  ChainComplete
<1> DEFINE a == AttackTurns
           g == BuildCausalGraph(a)
           walk == CausalChain(g)
           chain == RemoveAt(walk, 3)
           M == WayLength(a)
<1>1. SUFFICES ASSUME a # <<>>
               PROVE  /\ Len(walk) = Max({Len(a), 2}) + 1 /\ walk[3] = SafeguardGap
                      /\ Head(chain) = Trigger(a) /\ Last(chain) = Harm(a)
                      /\ \A i \in DOMAIN a : \E j \in DOMAIN chain : chain[j].turn = a[i]
                      /\ \A i, j \in DOMAIN chain : i < j => chain[i].turn <= chain[j].turn
                      /\ BypassedSafeguards(g) = {SafeguardGap}
  BY DEF ChainComplete
<1>2. PICK m \in Nat : IsAttack(a, m)
  BY <1>1, AttackFacts
<1>3. /\ m >= 1 /\ a \in [1..m -> Nat \ {0}] /\ DOMAIN a = 1..m /\ Len(a) = m
      /\ \A i, j \in 1..m : i < j => a[i] < a[j]
      /\ \A i \in 1..m : a[i] \in Nat
  BY <1>2 DEF IsAttack, Rises
<1>4. M = (IF m = 1 THEN 2 ELSE m) /\ M \in Nat /\ M >= 2
  BY <1>2, <1>3 DEF WayLength
<1>5. /\ Len(walk) = M + 1 /\ walk[3] = SafeguardGap
      /\ chain = [k \in 1..M |-> OnWay(a, k)]
  BY <1>2, ChainIsWay
<1>6. DOMAIN chain = 1..M /\ Len(chain) = M /\ \A k \in 1..M : chain[k] = OnWay(a, k)
  <2> DEFINE Node1(k) == OnWay(a, k)
  <2> HIDE DEF M, chain, walk, Node1
  <2>1. chain = [k \in 1..M |-> Node1(k)]
    BY <1>5 DEF Node1
  <2>2. DOMAIN chain = 1..M /\ Len(chain) = M /\ \A k \in 1..M : chain[k] = Node1(k)
    BY <1>4, <2>1
  <2> QED
    BY <2>2 DEF Node1
<1>7. BypassedSafeguards(g) = {SafeguardGap}
  <2> DEFINE e == g.edges
             off == Entry(a)
  <2>1. /\ DOMAIN e = 1..(off + M)
        /\ off = 1 => e[1] = Edge(Context, OnWay(a, 1), "enables")
        /\ \A k \in 1..(M - 1) : e[off + k] = Edge(OnWay(a, k), OnWay(a, k + 1), "causes")
        /\ e[off + M] = Edge(OnWay(a, 1), SafeguardGap, "bypasses")
    BY <1>2, WayEdges
  <2>2. off \in {0, 1}
    BY DEF Entry
  <2>3. \A x, y, kind : Edge(x, y, kind).kind = kind /\ Edge(x, y, kind).to = y
    BY DEF Edge
  <2>4. BypassedSafeguards(g) = {e[i].to : i \in {j \in DOMAIN e : e[j].kind = "bypasses"}}
    BY DEF BypassedSafeguards
  <2> HIDE DEF e, off, M, g
  <2>5. ASSUME NEW i \in DOMAIN e, i # off + M PROVE e[i].kind # "bypasses"
    <3> DEFINE d == i - off
    <3>1. (off = 1 /\ i = 1) \/ (d \in 1..(M - 1) /\ i = off + d)
      BY <1>4, <2>1, <2>2, <2>5
    <3> HIDE DEF d
    <3> QED
      BY <2>1, <2>3, <3>1
  <2>6. e[off + M].kind = "bypasses" /\ e[off + M].to = SafeguardGap /\ off + M \in DOMAIN e
    BY <1>4, <2>1, <2>2, <2>3
  <2> QED
    BY <2>4, <2>5, <2>6
<1>8. \A k \in 1..M : OnWay(a, k).turn = IF k <= m THEN a[k] ELSE a[m]
  <2> TAKE k \in 1..M
  <2>1. Last(a) = a[m]
    BY <1>3 DEF Last
  <2>2. /\ Trigger(a).turn = a[1] /\ Harm(a).turn = Last(a)
        /\ Propagation(a, k).turn = a[k]
    BY DEF Trigger, Harm, Propagation, Node
  <2>3. OnWay(a, k) = IF k = 1 THEN Trigger(a) ELSE IF k = M THEN Harm(a) ELSE Propagation(a, k)
    BY DEF OnWay
  <2> HIDE DEF M, a
  <2> QED
    BY <1>3, <1>4, <2>1, <2>2, <2>3
<1>9. OnWay(a, 1) = Trigger(a) /\ OnWay(a, M) = Harm(a)
  BY <1>4 DEF OnWay
<1> HIDE DEF M, chain, walk, a, g
<1>10. Head(chain) = Trigger(a) /\ Last(chain) = Harm(a)
  <2>1. 1 \in 1..M /\ M \in 1..M
    BY <1>4
  <2>2. chain[1] = Trigger(a) /\ chain[M] = Harm(a)
    BY <1>6, <1>9, <2>1
  <2>3. Last(chain) = chain[M]
    BY <1>6 DEF Last
  <2>4. Head(chain) = chain[1]
    OBVIOUS
  <2> QED
    BY <2>2, <2>3, <2>4
<1>11. Len(walk) = Max({Len(a), 2}) + 1 /\ walk[3] = SafeguardGap
  <2> DEFINE S == {m, 2}
  <2>1. S \in SUBSET Int /\ M \in S /\ \A y \in S : y <= M
    BY <1>3, <1>4
  <2> HIDE DEF S
  <2>2. Max(S) = M
    BY <2>1, GreatestIs
  <2> QED
    BY <1>3, <1>5, <2>2 DEF S
<1>12. ASSUME NEW i \in DOMAIN a PROVE \E j \in DOMAIN chain : chain[j].turn = a[i]
  <2>1. i \in 1..m /\ i \in 1..M /\ i <= m
    BY <1>3, <1>4
  <2>2. chain[i].turn = a[i]
    BY <1>6, <1>8, <2>1
  <2> QED
    BY <1>6, <2>1, <2>2
<1>13. ASSUME NEW i \in DOMAIN chain, NEW j \in DOMAIN chain, i < j
       PROVE  chain[i].turn <= chain[j].turn
  <2> DEFINE Place(k) == IF k <= m THEN k ELSE m
  <2>1. i \in 1..M /\ j \in 1..M
    BY <1>6
  <2>2. Place(i) \in 1..m /\ Place(j) \in 1..m /\ Place(i) <= Place(j)
    BY <1>3, <1>4, <1>13, <2>1
  <2>3. chain[i].turn = a[Place(i)] /\ chain[j].turn = a[Place(j)]
    BY <1>6, <1>8, <2>1
  <2> HIDE DEF Place
  <2>4. Place(i) = Place(j) \/ Place(i) < Place(j)
    BY <2>2
  <2>5. a[Place(i)] <= a[Place(j)]
    <3>1. a[Place(i)] \in Nat /\ a[Place(j)] \in Nat
      BY <1>3, <2>2
    <3> QED
      BY <1>3, <2>2, <2>4, <3>1
  <2> QED
    BY <2>3, <2>5
<1> QED
  BY <1>7, <1>10, <1>11, <1>12, <1>13

LEMMA ReplayInvNext == [ReplayNext]_replayVars /\ ReplayInv => ReplayInv'
<1> SUFFICES ASSUME [ReplayNext]_replayVars, ReplayInv PROVE ReplayInv'
  OBVIOUS
<1>1. PreventionFirst'
  BY PreventionKept DEF ReplayInv
<1>2. trajectory' \in Seq(Turns)
  <2>1. ASSUME NEW turn \in Turns, AddTurn(turn) PROVE trajectory' \in Seq(Turns)
    <3>1. trajectory' = Append(trajectory, turn)
      BY <2>1 DEF AddTurn
    <3> QED
      BY <3>1, AppendProperties DEF ReplayInv
  <2>2. CASE RunAnalyzeAll
    BY <2>2 DEF RunAnalyzeAll, ReplayInv
  <2>3. ASSUME NEW specs, RunAnalyze(specs) PROVE trajectory' \in Seq(Turns)
    BY <2>3 DEF RunAnalyze, ReplayInv
  <2>4. CASE UNCHANGED replayVars
    BY <2>4 DEF replayVars, ReplayInv
  <2> QED
    BY <2>1, <2>2, <2>3, <2>4 DEF ReplayNext
<1> QED
  BY <1>1, <1>2 DEF ReplayInv

LEMMA ReplayInvSound == ReplayInv => HindsightSound
<1> SUFFICES ASSUME ReplayInv, trajectory # <<>>
             PROVE  SweepMonotone /\ PreventionFirst /\ ChainComplete
  BY DEF HindsightSound
<1> QED
  BY SweepSound, ChainSound DEF ReplayInv

(* What is said of an incident with hindsight holds together, however many *)
(* turns it has and thresholds are swept: a lower threshold catches as     *)
(* much and as early, the optimum is the first that catches within the     *)
(* budget; what prevents is ranked first among the analyses that come by   *)
(* default, and behind none but surer ones in any list that is asked for;  *)
(* and the search from the trigger passes the safeguard as its third and   *)
(* else the unsafe turns in order up to the harm                           *)
(* (counterfactuals/engine.py:110, 154, stricter_policy.py:263,            *)
(* causal_graph.py:116).                                                   *)
THEOREM HindsightSoundCorrect == Spec => []HindsightSound
<1>1. Init => ReplayInv
  <2> SUFFICES ASSUME Init PROVE ReplayInv
    OBVIOUS
  <2>1. trajectory = <<>> /\ mitigations = Summarize(<<>>)
    BY DEF Init, ReplayInit
  <2>2. DOMAIN mitigations.helped = {}
    BY <2>1, NothingRanked
  <2>3. PreventionFirst
    BY <2>2, DefaultsPrevent DEF PreventionFirst, PreventsUnlessSurer
  <2>4. trajectory \in Seq(Turns)
    BY <2>1
  <2> QED
    BY <2>3, <2>4 DEF ReplayInv
<1>2. ReplayInv /\ [Next]_loopVars => ReplayInv'
  <2> SUFFICES ASSUME ReplayInv, [Next]_loopVars PROVE ReplayInv'
    OBVIOUS
  <2>1. [ReplayNext]_replayVars
    BY DEF Next, loopVars, StreamingStep, RollbackStep, GateStep, LabStep, ReplayStep,
           LifecycleStep
  <2> QED
    BY <2>1, ReplayInvNext
<1> QED
  BY <1>1, <1>2, ReplayInvSound, PTL DEF Spec

(* What is concluded from an incident can be acted on: the grades keep the *)
(* order of what they grade, and hindsight offers what would have helped.  *)
THEOREM IncidentsJudgedCorrect == Spec => []IncidentsJudged
<1>1. GradesOrdered /\ HindsightSound => IncidentsJudged
  BY DEF IncidentsJudged
<1> QED
  BY <1>1, GradesOrderedCorrect, HindsightSoundCorrect, PTL

-----------------------------------------------------------------------------
(* The timeline: what becomes known later comes later.                     *)
IsList(s, n) == s = [i \in 1..n |-> s[i]]
SameUpTo(s, t, n) == \A i \in 1..n : s[i] = t[i]

LEMMA Extends ==
  ASSUME NEW n \in Nat, NEW k \in Nat, n <= k,
         NEW s, NEW t, IsList(s, n), IsList(t, k), SameUpTo(s, t, n)
  PROVE  IsPrefix(s, t)
<1> DEFINE S == {s[i] : i \in 1..n} \cup {t[i] : i \in 1..k}
<1>1. s \in [1..n -> S] /\ t \in [1..k -> S]
  <2>1. \A i \in 1..n : s[i] \in S
    OBVIOUS
  <2>2. \A i \in 1..k : t[i] \in S
    OBVIOUS
  <2> HIDE DEF S
  <2> QED
    BY <2>1, <2>2 DEF IsList
<1> HIDE DEF S
<1>2. s \in Seq(S) /\ t \in Seq(S) /\ Len(s) = n /\ Len(t) = k
  BY <1>1
<1>3. SubSeq(s, 1, n) = [i \in 1..n |-> s[i]]
  BY <1>2
<1>4. SubSeq(t, 1, n) = [i \in 1..n |-> t[i]]
  BY <1>2
<1> QED
  BY <1>2, <1>3, <1>4 DEF IsPrefix, SameUpTo

(* Q is P and later places.                                                *)
Later(P, Q) ==
    /\ IsFiniteSet(Q) /\ Q \subseteq Int /\ P \subseteq Q
    /\ \A x \in P : \A y \in Q \ P : x < y

LEMMA PlacesExtend ==
  ASSUME NEW P, NEW Q, Later(P, Q),
         NEW s, NEW t, \A x \in P : s[x] = t[x]
  PROVE  IsPrefix(AtPlaces(s, P), AtPlaces(t, Q))
<1> DEFINE first == [i \in P |-> i]
           all == [i \in Q |-> i]
           n == Cardinality(P)
           k == Cardinality(Q)
<1>1. /\ DOMAIN first = P /\ \A i \in P : first[i] = i
      /\ DOMAIN all = Q /\ \A i \in Q : all[i] = i
  OBVIOUS
<1>2. /\ AtPlaces(s, P) = [i \in DOMAIN ByKey(first) |-> s[ByKey(first)[i]]]
      /\ AtPlaces(t, Q) = [i \in DOMAIN ByKey(all) |-> t[ByKey(all)[i]]]
  BY DEF AtPlaces, Sorted
<1> HIDE DEF first, all
<1>3. /\ ByKey(first) = InOrder(P, KeyOrder(first))
      /\ ByKey(all) = InOrder(Q, KeyOrder(all))
  BY <1>1 DEF ByKey, KeyOrder
<1>4. IsFiniteSet(P) /\ IsFiniteSet(Q) /\ P \in SUBSET Q
  BY FS_Subset DEF Later
<1>5. OrdersTotally(KeyOrder(first), P) /\ OrdersTotally(KeyOrder(all), Q)
  <2>1. DOMAIN first \subseteq Int /\ \A i \in DOMAIN first : first[i] \in Int
    BY <1>1 DEF Later
  <2>2. DOMAIN all \subseteq Int /\ \A i \in DOMAIN all : all[i] \in Int
    BY <1>1 DEF Later
  <2>3. OrdersTotally(KeyOrder(first), DOMAIN first)
    BY <2>1, KeyOrderTotal, Zenon
  <2>4. OrdersTotally(KeyOrder(all), DOMAIN all)
    BY <2>2, KeyOrderTotal, Zenon
  <2> QED
    BY <1>1, <2>3, <2>4
<1>6. /\ \A x, y \in P : <<x, y>> \in KeyOrder(first) <=> x < y
      /\ \A x, y \in Q : <<x, y>> \in KeyOrder(all) <=> x < y
  <2>1. \A x, y \in P : <<x, y>> \in KeyOrder(first) <=> x < y
    BY <1>1 DEF KeyOrder
  <2>2. \A x, y \in Q : <<x, y>> \in KeyOrder(all) <=> x < y
    BY <1>1 DEF KeyOrder
  <2> QED
    BY <2>1, <2>2
<1>7. \A x, y \in P : <<x, y>> \in KeyOrder(all) <=> <<x, y>> \in KeyOrder(first)
  BY <1>4, <1>6
<1>8. \A x \in P : \A y \in Q \ P : <<x, y>> \in KeyOrder(all)
  BY <1>6 DEF Later
<1>9. /\ n <= k
      /\ \A i \in 1..n : InOrder(Q, KeyOrder(all))[i] = InOrder(P, KeyOrder(first))[i]
  <2> DEFINE before == KeyOrder(first)
             after == KeyOrder(all)
  <2>1. /\ IsFiniteSet(Q) /\ P \in SUBSET Q
        /\ OrdersTotally(before, P) /\ OrdersTotally(after, Q)
        /\ Continues(after, Q, before, P)
    BY <1>4, <1>5, <1>7, <1>8 DEF Continues
  <2> HIDE DEF before, after
  <2>2. /\ Cardinality(P) <= Cardinality(Q)
        /\ \A i \in 1..Cardinality(P) : InOrder(Q, after)[i] = InOrder(P, before)[i]
    BY <2>1, InOrderPrefix
  <2> QED
    BY <2>2 DEF before, after
<1>10. /\ n \in Nat /\ InOrder(P, KeyOrder(first)) \in [1..n -> P]
       /\ k \in Nat /\ InOrder(Q, KeyOrder(all)) \in [1..k -> Q]
  BY <1>4, <1>5, InOrderSorts
<1> DEFINE p == InOrder(P, KeyOrder(first))
           q == InOrder(Q, KeyOrder(all))
           few == AtPlaces(s, P)
           many == AtPlaces(t, Q)
<1> HIDE DEF n, k, p, q
<1>11. few = [i \in 1..n |-> s[p[i]]] /\ many = [i \in 1..k |-> t[q[i]]]
  <2>1. DOMAIN p = 1..n /\ DOMAIN q = 1..k
    BY <1>10 DEF p, q
  <2>2. few = [i \in DOMAIN p |-> s[p[i]]] /\ many = [i \in DOMAIN q |-> t[q[i]]]
    BY <1>2, <1>3 DEF p, q
  <2> QED
    BY <2>1, <2>2
<1> HIDE DEF few, many
<1>12. /\ few = [i \in 1..n |-> few[i]] /\ many = [i \in 1..k |-> many[i]]
       /\ \A i \in 1..n : few[i] = s[p[i]]
       /\ \A i \in 1..k : many[i] = t[q[i]]
  <2>1. few = [i \in 1..n |-> few[i]] /\ \A i \in 1..n : few[i] = s[p[i]]
    BY <1>11
  <2>2. many = [i \in 1..k |-> many[i]] /\ \A i \in 1..k : many[i] = t[q[i]]
    BY <1>11
  <2> QED
    BY <2>1, <2>2
<1>13. \A i \in 1..n : few[i] = many[i]
  <2> TAKE i \in 1..n
  <2>1. i \in 1..k
    BY <1>9, <1>10 DEF n, k
  <2>2. p[i] \in P /\ q[i] = p[i]
    BY <1>9, <1>10 DEF p, q
  <2> QED
    BY <1>12, <2>1, <2>2
<1>14. IsPrefix(few, many)
  <2>1. n \in Nat /\ k \in Nat /\ n <= k
    BY <1>9, <1>10 DEF n, k
  <2>2. IsList(few, n) /\ IsList(many, k) /\ SameUpTo(few, many, n)
    BY <1>12, <1>13 DEF IsList, SameUpTo
  <2> QED
    BY <2>1, <2>2, Extends
<1> QED
  BY <1>14 DEF few, many

LEMMA FirstKept ==
  ASSUME NEW P, NEW Q, Later(P, Q), Q \subseteq Nat,
         NEW s, NEW t, \A i \in P : s[i] = t[i]
  PROVE  FirstOf(s, P) \subseteq FirstOf(t, Q)
<1>1. CASE P = {}
  BY <1>1 DEF FirstOf
<1>2. CASE P # {}
  <2>1. P \in SUBSET Nat /\ Q \in SUBSET Nat /\ Q # {}
    BY <1>2 DEF Later
  <2> DEFINE p == Min(P)
             q == Min(Q)
  <2>2. p \in P /\ p \in Nat /\ p \in Q
    BY <1>2, <2>1, LeastOfSome DEF Later
  <2>3. q \in Q /\ q \in Nat /\ q <= p
    BY <2>1, <2>2, LeastBelow
  <2>4. q \in P
    <3>1. q \notin P => p < q
      BY <2>2, <2>3 DEF Later
    <3> HIDE DEF p, q
    <3> QED
      BY <2>2, <2>3, <3>1
  <2>5. p <= q
    BY <2>1, <2>4, LeastBelow
  <2>6. p = q
    BY <2>2, <2>3, <2>5
  <2>7. FirstOf(s, P) = {s[p]} /\ FirstOf(t, Q) = {t[q]}
    BY <1>2, <2>1 DEF FirstOf
  <2>8. s[p] = t[p]
    BY <2>2
  <2> HIDE DEF p, q
  <2> QED
    BY <2>6, <2>7, <2>8
<1> QED
  BY <1>1, <1>2

MissedPlaces(events) ==
    {i \in WarningsAmong(events) :
        /\ \A j \in ViolationsAmong(events) : i < j
        /\ events[i].type \notin {"escalation", "human_review"}}

(* A longer list has the same places of each kind, and then later ones.    *)
LEMMA PlacesKept ==
  ASSUME NEW n \in Nat, NEW k \in Nat, n <= k,
         NEW s, NEW t, IsList(s, n), IsList(t, k), SameUpTo(s, t, n)
  PROVE  /\ Later(WarningsAmong(s), WarningsAmong(t)) /\ WarningsAmong(t) \subseteq Nat
         /\ Later(ViolationsAmong(s), ViolationsAmong(t)) /\ ViolationsAmong(t) \subseteq Nat
         /\ Later(MissedPlaces(s), MissedPlaces(t))
         /\ WarningsAmong(s) \cup ViolationsAmong(s) \cup MissedPlaces(s) \subseteq 1..n
<1>1. DOMAIN s = 1..n /\ DOMAIN t = 1..k
  BY DEF IsList
<1>2. IsFiniteSet(1..k)
  <2>1. 1 \in Int /\ k \in Int
    OBVIOUS
  <2> QED
    BY <2>1, FS_Interval
<1>3. \A i \in 1..n : i \in 1..k /\ s[i] = t[i]
  BY DEF SameUpTo
<1> DEFINE W == WarningsAmong(s)
           V == ViolationsAmong(s)
           N == MissedPlaces(s)
           w == WarningsAmong(t)
           v == ViolationsAmong(t)
           m == MissedPlaces(t)
<1>4. /\ W \subseteq 1..n /\ w \subseteq 1..k
      /\ \A i \in 1..n : i \in W <=> i \in w
  <2>1. W \subseteq 1..n /\ w \subseteq 1..k
    BY <1>1 DEF WarningsAmong
  <2>2. \A i \in 1..n : i \in W <=> i \in w
    BY <1>1, <1>3 DEF WarningsAmong
  <2> QED
    BY <2>1, <2>2
<1>5. /\ V \subseteq 1..n /\ v \subseteq 1..k
      /\ \A i \in 1..n : i \in V <=> i \in v
  <2>1. V \subseteq 1..n /\ v \subseteq 1..k
    BY <1>1 DEF ViolationsAmong
  <2>2. \A i \in 1..n : i \in V <=> i \in v
    BY <1>1, <1>3 DEF ViolationsAmong
  <2> QED
    BY <2>1, <2>2
<1>6. /\ N \subseteq 1..n /\ m \subseteq 1..k
      /\ \A i \in 1..n : i \in N <=> i \in m
  <2>1. N \subseteq 1..n /\ m \subseteq 1..k
    BY <1>4 DEF MissedPlaces
  <2>2. ASSUME NEW i \in 1..n PROVE i \in N <=> i \in m
    <3>1. s[i] = t[i] /\ (i \in W <=> i \in w)
      BY <1>3, <1>4
    <3>2. (\A j \in V : i < j) <=> (\A j \in v : i < j)
      <4>1. ASSUME \A j \in V : i < j, NEW j \in v PROVE i < j
        <5>1. j \in 1..k
          BY <1>5
        <5>2. CASE j \in 1..n
          BY <1>5, <4>1, <5>2
        <5>3. CASE j \notin 1..n
          BY <5>1, <5>3
        <5> QED
          BY <5>2, <5>3
      <4>2. ASSUME \A j \in v : i < j, NEW j \in V PROVE i < j
        BY <1>5, <4>2
      <4> QED
        BY <4>1, <4>2
    <3>3. i \in N <=> /\ i \in W /\ (\A j \in V : i < j)
                      /\ s[i].type \notin {"escalation", "human_review"}
      BY DEF MissedPlaces
    <3>4. i \in m <=> /\ i \in w /\ (\A j \in v : i < j)
                      /\ t[i].type \notin {"escalation", "human_review"}
      BY DEF MissedPlaces
    <3> HIDE DEF N, m, W, w, V, v
    <3> QED
      BY <3>1, <3>2, <3>3, <3>4, Zenon
  <2> QED
    BY <2>1, <2>2
<1>7. ASSUME NEW P, NEW Q, P \subseteq 1..n, Q \subseteq 1..k,
             \A i \in 1..n : i \in P <=> i \in Q
      PROVE  Later(P, Q) /\ Q \subseteq Nat
  <2>1. IsFiniteSet(Q)
    BY <1>2, <1>7, FS_Subset
  <2>2. Q \subseteq Int /\ Q \subseteq Nat /\ P \subseteq Q
    BY <1>7
  <2>3. ASSUME NEW x \in P, NEW y \in Q \ P PROVE x < y
    <3>1. x \in 1..n /\ y \in 1..k /\ y \notin 1..n
      BY <1>7
    <3> QED
      BY <3>1
  <2> QED
    BY <2>1, <2>2, <2>3 DEF Later
<1> HIDE DEF W, V, N, w, v, m
<1>8. Later(W, w) /\ w \subseteq Nat /\ Later(V, v) /\ v \subseteq Nat /\ Later(N, m)
  BY <1>4, <1>5, <1>6, <1>7
<1> QED
  BY <1>4, <1>5, <1>6, <1>8 DEF W, V, N, w, v, m

(* What is listed for one turn.                                            *)
TurnKeys(turn, k) ==
    {<<k, 1, 1>>, <<k, 2, 1>>} \cup {<<k, 3, i>> : i \in DOMAIN turn.tools}
      \cup {<<k, 4, i>> : i \in DOMAIN turn.safeguards}

Kept(S) == IsFiniteSet(S) /\ S \subseteq Nat

LEMMA TurnKeysFacts ==
  ASSUME NEW turn \in Turns, NEW k \in Nat
  PROVE  /\ IsFiniteSet(TurnKeys(turn, k))
         /\ \A key \in TurnKeys(turn, k) :
               key[1] = k /\ key[2] \in 1..4 /\ key[3] \in Nat /\ key = <<key[1], key[2], key[3]>>
<1> DEFINE tools == DOMAIN turn.tools
           guards == DOMAIN turn.safeguards
           ToolKeys == {<<k, 3, i>> : i \in tools}
           GuardKeys == {<<k, 4, i>> : i \in guards}
<1>1. Kept(tools) /\ Kept(guards)
  BY ReplayAssumption DEF ReplayAssumption, Kept
<1> HIDE DEF tools, guards
<1>2. ASSUME NEW S, Kept(S), NEW c PROVE IsFiniteSet({<<k, c, i>> : i \in S})
  <2> DEFINE f == [i \in S |-> <<k, c, i>>]
             T == {<<k, c, i>> : i \in S}
  <2>1. f \in Surjection(S, T)
    BY DEF Surjection
  <2> HIDE DEF f, T
  <2>2. IsFiniteSet(T)
    BY <1>2, <2>1, FS_Surjection DEF Kept
  <2> QED
    BY <2>2 DEF T
<1>3. IsFiniteSet(ToolKeys) /\ IsFiniteSet(GuardKeys)
  BY <1>1, <1>2
<1>4. IsFiniteSet({<<k, 1, 1>>, <<k, 2, 1>>})
  <2>1. IsFiniteSet({<<k, 1, 1>>}) /\ IsFiniteSet({<<k, 2, 1>>})
    BY FS_Singleton
  <2>2. {<<k, 1, 1>>} \cup {<<k, 2, 1>>} = {<<k, 1, 1>>, <<k, 2, 1>>}
    OBVIOUS
  <2> QED
    BY <2>1, <2>2, FS_Union
<1>5. TurnKeys(turn, k) = {<<k, 1, 1>>, <<k, 2, 1>>} \cup ToolKeys \cup GuardKeys
  BY DEF TurnKeys, tools, guards
<1>6. ASSUME NEW key \in TurnKeys(turn, k)
      PROVE  key[1] = k /\ key[2] \in 1..4 /\ key[3] \in Nat /\ key = <<key[1], key[2], key[3]>>
  <2>1. \A c, i : /\ <<k, c, i>>[1] = k /\ <<k, c, i>>[2] = c /\ <<k, c, i>>[3] = i
    OBVIOUS
  <2>2. \E c \in 1..4, i \in Nat : key = <<k, c, i>>
    <3>1. CASE key \in {<<k, 1, 1>>, <<k, 2, 1>>}
      BY <3>1
    <3>2. CASE key \in ToolKeys
      BY <1>1, <3>2 DEF Kept
    <3>3. CASE key \in GuardKeys
      BY <1>1, <3>3 DEF Kept
    <3> QED
      BY <1>5, <3>1, <3>2, <3>3
  <2>3. PICK c \in 1..4, i \in Nat : key = <<k, c, i>>
    BY <2>2
  <2>4. key[1] = k /\ key[2] = c /\ key[3] = i
    BY <2>3
  <2> QED
    BY <2>3, <2>4
<1> HIDE DEF ToolKeys, GuardKeys
<1>7. IsFiniteSet({<<k, 1, 1>>, <<k, 2, 1>>} \cup ToolKeys \cup GuardKeys)
  BY <1>3, <1>4, FS_Union
<1> QED
  BY <1>5, <1>6, <1>7

(* The keys of a reconstruction, each with its turn, kind and number.      *)
IsKey(key, n) ==
    key[1] \in 1..n /\ key[2] \in 1..4 /\ key[3] \in Nat /\ key = <<key[1], key[2], key[3]>>

LEMMA EventKeysFacts ==
  ASSUME NEW t \in Seq(Turns)
  PROVE  /\ IsFiniteSet(EventKeys(t))
         /\ \A key : key \in EventKeys(t) <=> \E k \in DOMAIN t : key \in TurnKeys(t[k], k)
         /\ \A key \in EventKeys(t) : IsKey(key, Len(t))
<1> DEFINE Keys(k) == TurnKeys(t[k], k)
           all == {Keys(k) : k \in DOMAIN t}
<1>1. DOMAIN t = 1..Len(t) /\ Len(t) \in Nat /\ \A k \in DOMAIN t : t[k] \in Turns
  OBVIOUS
<1>2. EventKeys(t) = UNION all
  BY DEF EventKeys, TurnKeys
<1> HIDE DEF Keys
<1>3. IsFiniteSet(all)
  <2> DEFINE f == [k \in DOMAIN t |-> Keys(k)]
  <2>1. f \in Surjection(DOMAIN t, all)
    BY DEF Surjection
  <2>2. IsFiniteSet(DOMAIN t)
    <3>1. 1 \in Int /\ Len(t) \in Int
      BY <1>1
    <3>2. IsFiniteSet(1..Len(t))
      BY <3>1, FS_Interval
    <3> QED
      BY <1>1, <3>2
  <2> HIDE DEF f, all
  <2> QED
    BY <2>1, <2>2, FS_Surjection
<1>4. \A k \in DOMAIN t :
         /\ IsFiniteSet(Keys(k))
         /\ \A key \in Keys(k) :
               key[1] = k /\ key[2] \in 1..4 /\ key[3] \in Nat /\ key = <<key[1], key[2], key[3]>>
  <2> TAKE k \in DOMAIN t
  <2>1. t[k] \in Turns /\ k \in Nat
    BY <1>1
  <2> QED
    BY <2>1, TurnKeysFacts DEF Keys
<1>5. \A T \in all : IsFiniteSet(T)
  BY <1>4
<1>6. \A key : key \in EventKeys(t) <=> \E k \in DOMAIN t : key \in Keys(k)
  BY <1>2
<1>7. IsFiniteSet(EventKeys(t))
  <2> HIDE DEF all
  <2> QED
    BY <1>2, <1>3, <1>5, FS_UNION
<1>8. ASSUME NEW key \in EventKeys(t) PROVE IsKey(key, Len(t))
  <2>1. PICK k \in DOMAIN t : key \in Keys(k)
    BY <1>6
  <2>2. key[1] = k /\ key[2] \in 1..4 /\ key[3] \in Nat /\ key = <<key[1], key[2], key[3]>>
    BY <1>4, <2>1
  <2>3. key[1] \in 1..Len(t)
    BY <1>1, <2>2
  <2> QED
    BY <2>2, <2>3 DEF IsKey
<1> QED
  BY <1>6, <1>7, <1>8 DEF Keys

(* By time, and then as listed, is an order of all the events.             *)
LEMMA EventOrderTotal ==
  ASSUME NEW n \in Nat, NEW S, \A key \in S : IsKey(key, n)
  PROVE  /\ OrdersTotally(EventOrder(S), S)
         /\ \A x, y \in S : <<x, y>> \in EventOrder(S) <=>
               \/ EventTime(x) < EventTime(y)
               \/ EventTime(x) = EventTime(y) /\ ListedBefore(x, y)
<1> DEFINE Comes(x, y) == \/ EventTime(x) < EventTime(y)
                          \/ EventTime(x) = EventTime(y) /\ ListedBefore(x, y)
<1>1. \A x, y \in S : <<x, y>> \in EventOrder(S) <=> Comes(x, y)
  BY DEF EventOrder
<1>2. \A x \in S : /\ x[1] \in Int /\ x[2] \in Int /\ x[3] \in Int
                   /\ x = <<x[1], x[2], x[3]>> /\ EventTime(x) \in Int
  <2> TAKE x \in S
  <2>1. x[1] \in Int /\ x[2] \in Int /\ x[3] \in Int /\ x = <<x[1], x[2], x[3]>>
    BY DEF IsKey
  <2> QED
    BY <2>1 DEF EventTime, TurnTime
<1>3. \A x \in S : ~Comes(x, x)
  BY <1>2 DEF ListedBefore
<1>4. ASSUME NEW x \in S, NEW y \in S, x # y PROVE Comes(x, y) \/ Comes(y, x)
  <2>1. x[1] # y[1] \/ x[2] # y[2] \/ x[3] # y[3]
    BY <1>2, <1>4
  <2>2. ListedBefore(x, y) \/ ListedBefore(y, x)
    BY <1>2, <2>1 DEF ListedBefore
  <2> QED
    BY <1>2, <2>2
<1>5. ASSUME NEW x \in S, NEW y \in S, NEW z \in S, Comes(x, y), Comes(y, z) PROVE Comes(x, z)
  <2>1. ListedBefore(x, y) /\ ListedBefore(y, z) => ListedBefore(x, z)
    BY <1>2 DEF ListedBefore
  <2>2. EventTime(x) \in Int /\ EventTime(y) \in Int /\ EventTime(z) \in Int
    BY <1>2
  <2> QED
    BY <1>5, <2>1, <2>2
<1> HIDE DEF Comes
<1>6. OrdersTotally(EventOrder(S), S)
  BY <1>1, <1>3, <1>4, <1>5 DEF OrdersTotally
<1> QED
  BY <1>1, <1>6 DEF Comes

(* A list of the events at the keys in order.                              *)
LEMMA SortedIsList ==
  ASSUME NEW t \in Seq(Turns)
  PROVE  /\ Cardinality(EventKeys(t)) \in Nat
         /\ InOrder(EventKeys(t), EventOrder(EventKeys(t)))
               \in [1..Cardinality(EventKeys(t)) -> EventKeys(t)]
         /\ IsList(SortedByTime(t), Cardinality(EventKeys(t)))
         /\ \A i \in 1..Cardinality(EventKeys(t)) :
               LET key == InOrder(EventKeys(t), EventOrder(EventKeys(t)))[i]
               IN  SortedByTime(t)[i] = EventAt(t[key[1]], key)
<1> DEFINE S == EventKeys(t)
           before == EventOrder(S)
           order == InOrder(S, before)
           Place(i) == EventAt(t[order[i][1]], order[i])
           events == SortedByTime(t)
<1>1. IsFiniteSet(S) /\ OrdersTotally(before, S)
  <2>1. IsFiniteSet(S) /\ \A key \in S : IsKey(key, Len(t))
    BY EventKeysFacts
  <2>2. Len(t) \in Nat
    OBVIOUS
  <2> HIDE DEF S
  <2> QED
    BY <2>1, <2>2, EventOrderTotal
<1> HIDE DEF S, before
<1>2. Cardinality(S) \in Nat /\ order \in [1..Cardinality(S) -> S]
  BY <1>1, InOrderSorts
<1>3. events = [i \in DOMAIN order |-> Place(i)]
  BY DEF SortedByTime, S, before
<1>4. DOMAIN order = 1..Cardinality(S)
  BY <1>2
<1> HIDE DEF order, Place, events
<1>5. events = [i \in 1..Cardinality(S) |-> Place(i)]
  BY <1>3, <1>4
<1>6. /\ events = [i \in 1..Cardinality(S) |-> events[i]]
      /\ \A i \in 1..Cardinality(S) : events[i] = Place(i)
  BY <1>5
<1>7. IsList(events, Cardinality(S))
  BY <1>6 DEF IsList
<1> QED
  BY <1>2, <1>6, <1>7 DEF S, before, order, Place, events

LEMMA EventsExtend ==
  ASSUME NEW t \in Seq(Turns), NEW turn \in Turns,
         NEW r, r = Append(t, turn)
  PROVE  /\ Cardinality(EventKeys(t)) <= Cardinality(EventKeys(r))
         /\ SameUpTo(SortedByTime(t), SortedByTime(r), Cardinality(EventKeys(t)))
<1> DEFINE S == EventKeys(t)
           T == EventKeys(r)
           n == Len(t)
           before == EventOrder(S)
           after == EventOrder(T)
           p == InOrder(S, before)
           q == InOrder(T, after)
<1>1. /\ n \in Nat /\ r \in Seq(Turns) /\ Len(r) = n + 1
      /\ DOMAIN t = 1..n /\ DOMAIN r = 1..(n + 1)
      /\ \A k \in 1..n : r[k] = t[k]
  <2>1. /\ n \in Nat /\ r \in Seq(Turns) /\ Len(r) = n + 1
        /\ \A k \in 1..n : r[k] = t[k]
    BY AppendProperties
  <2> QED
    BY <2>1, LenProperties
<1>2. /\ IsFiniteSet(S) /\ IsFiniteSet(T)
      /\ \A key : key \in S <=> \E k \in 1..n : key \in TurnKeys(t[k], k)
      /\ \A key : key \in T <=> \E k \in 1..(n + 1) : key \in TurnKeys(r[k], k)
      /\ \A key \in S : IsKey(key, n)
      /\ \A key \in T : IsKey(key, n + 1)
  <2>1. /\ IsFiniteSet(S) /\ \A key : key \in S <=> \E k \in DOMAIN t : key \in TurnKeys(t[k], k)
    BY EventKeysFacts
  <2>2. \A key \in S : IsKey(key, Len(t))
    BY EventKeysFacts
  <2>3. /\ IsFiniteSet(T) /\ \A key : key \in T <=> \E k \in DOMAIN r : key \in TurnKeys(r[k], k)
    BY <1>1, EventKeysFacts
  <2>4. \A key \in T : IsKey(key, Len(r))
    BY <1>1, EventKeysFacts
  <2> HIDE DEF S, T, n
  <2> QED
    BY <1>1, <2>1, <2>2, <2>3, <2>4 DEF n
<1> HIDE DEF S, T, n
<1>3. S \in SUBSET T
  <2> SUFFICES ASSUME NEW key \in S PROVE key \in T
    OBVIOUS
  <2>1. PICK k \in 1..n : key \in TurnKeys(t[k], k)
    BY <1>2
  <2>2. k \in 1..(n + 1) /\ r[k] = t[k]
    BY <1>1
  <2> QED
    BY <1>2, <2>1, <2>2
<1>4. ASSUME NEW key \in T \ S PROVE key[1] = n + 1
  <2>1. PICK k \in 1..(n + 1) : key \in TurnKeys(r[k], k)
    BY <1>2
  <2>2. k = n + 1
    <3>1. k \notin 1..n
      BY <1>1, <1>2, <2>1
    <3> QED
      BY <1>1, <3>1
  <2>3. r[k] \in Turns /\ k \in Nat
    BY <1>1
  <2> QED
    BY <2>1, <2>2, <2>3, TurnKeysFacts
<1>5. /\ OrdersTotally(before, S) /\ OrdersTotally(after, T)
      /\ \A x, y \in S : <<x, y>> \in before <=>
            \/ EventTime(x) < EventTime(y)
            \/ EventTime(x) = EventTime(y) /\ ListedBefore(x, y)
      /\ \A x, y \in T : <<x, y>> \in after <=>
            \/ EventTime(x) < EventTime(y)
            \/ EventTime(x) = EventTime(y) /\ ListedBefore(x, y)
  <2>1. /\ OrdersTotally(before, S)
        /\ \A x, y \in S : <<x, y>> \in before <=>
              \/ EventTime(x) < EventTime(y)
              \/ EventTime(x) = EventTime(y) /\ ListedBefore(x, y)
    BY <1>1, <1>2, EventOrderTotal
  <2>2. n + 1 \in Nat
    BY <1>1
  <2>3. /\ OrdersTotally(after, T)
        /\ \A x, y \in T : <<x, y>> \in after <=>
              \/ EventTime(x) < EventTime(y)
              \/ EventTime(x) = EventTime(y) /\ ListedBefore(x, y)
    BY <1>2, <2>2, EventOrderTotal
  <2> QED
    BY <2>1, <2>3
<1> HIDE DEF before, after
<1>6. ASSUME NEW x \in S, NEW y \in T \ S PROVE EventTime(x) < EventTime(y)
  <2>1. x[1] \in 1..n /\ x[2] \in 1..4 /\ y[1] = n + 1 /\ y[2] \in 1..4
    BY <1>2, <1>4 DEF IsKey
  <2> DEFINE a == x[1]
             b == x[2]
             c == y[1]
             d == y[2]
  <2>2. EventTime(x) = 30 * (a - 1) + 5 * (b - 1) /\ EventTime(y) = 30 * (c - 1) + 5 * (d - 1)
    BY DEF EventTime, TurnTime
  <2>3. a \in 1..n /\ b \in 1..4 /\ c = n + 1 /\ d \in 1..4 /\ n \in Nat
    BY <1>1, <2>1
  <2> HIDE DEF a, b, c, d
  <2>4. 30 * (a - 1) + 5 * (b - 1) < 30 * (c - 1) + 5 * (d - 1)
    BY <2>3
  <2> QED
    BY <2>2, <2>4
<1>7. Continues(after, T, before, S)
  <2>1. \A x, y \in S : <<x, y>> \in after <=> <<x, y>> \in before
    BY <1>3, <1>5
  <2>2. \A x \in S : \A y \in T \ S : <<x, y>> \in after
    BY <1>3, <1>5, <1>6
  <2> QED
    BY <2>1, <2>2 DEF Continues
<1>8. /\ Cardinality(S) <= Cardinality(T)
      /\ \A k \in 1..Cardinality(S) : q[k] = p[k]
  BY <1>2, <1>3, <1>5, <1>7, InOrderPrefix
<1>9. /\ Cardinality(S) \in Nat /\ p \in [1..Cardinality(S) -> S]
      /\ \A i \in 1..Cardinality(S) : SortedByTime(t)[i] = EventAt(t[p[i][1]], p[i])
  BY SortedIsList DEF S, before
<1>10. /\ Cardinality(T) \in Nat
       /\ \A i \in 1..Cardinality(T) : SortedByTime(r)[i] = EventAt(r[q[i][1]], q[i])
  BY <1>1, SortedIsList DEF T, after
<1> HIDE DEF p, q
<1>11. ASSUME NEW i \in 1..Cardinality(S) PROVE SortedByTime(t)[i] = SortedByTime(r)[i]
  <2>1. i \in 1..Cardinality(T) /\ q[i] = p[i] /\ p[i] \in S
    BY <1>8, <1>9, <1>10
  <2>2. r[p[i][1]] = t[p[i][1]]
    BY <1>1, <1>2, <2>1 DEF IsKey
  <2> QED
    BY <1>9, <1>10, <2>1, <2>2
<1>12. SameUpTo(SortedByTime(t), SortedByTime(r), Cardinality(S))
  BY <1>11 DEF SameUpTo
<1> QED
  BY <1>8, <1>12 DEF S, T

(* What was reconstructed of fewer turns begins what is of one more.       *)
LEMMA ReconstructionExtends ==
  ASSUME NEW t \in Seq(Turns), NEW turn \in Turns,
         NEW old, old = Reconstruct(t), NEW new, new = Reconstruct(Append(t, turn))
  PROVE  /\ IsPrefix(old.events, new.events)
         /\ old.firstWarning \subseteq new.firstWarning
         /\ old.firstViolation \subseteq new.firstViolation
         /\ IsPrefix(old.missed, new.missed)
<1> DEFINE r == Append(t, turn)
           few == SortedByTime(t)
           many == SortedByTime(r)
           n == Cardinality(EventKeys(t))
           k == Cardinality(EventKeys(r))
<1>1. r \in Seq(Turns)
  BY AppendProperties
<1>2. n \in Nat /\ IsList(few, n)
  BY SortedIsList
<1>3. k \in Nat /\ IsList(many, k)
  BY <1>1, SortedIsList
<1>4. n <= k /\ SameUpTo(few, many, n)
  BY EventsExtend
<1>5. /\ old.events = few /\ old.missed = AtPlaces(few, MissedPlaces(few))
      /\ old.firstWarning = FirstOf(few, WarningsAmong(few))
      /\ old.firstViolation = FirstOf(few, ViolationsAmong(few))
  BY DEF Reconstruct, MissedInterventions, MissedPlaces
<1>6. /\ new.events = many /\ new.missed = AtPlaces(many, MissedPlaces(many))
      /\ new.firstWarning = FirstOf(many, WarningsAmong(many))
      /\ new.firstViolation = FirstOf(many, ViolationsAmong(many))
  BY DEF Reconstruct, MissedInterventions, MissedPlaces
<1> HIDE DEF few, many, n, k
<1>7. /\ Later(WarningsAmong(few), WarningsAmong(many)) /\ WarningsAmong(many) \subseteq Nat
      /\ Later(ViolationsAmong(few), ViolationsAmong(many)) /\ ViolationsAmong(many) \subseteq Nat
      /\ Later(MissedPlaces(few), MissedPlaces(many))
      /\ WarningsAmong(few) \cup ViolationsAmong(few) \cup MissedPlaces(few) \subseteq 1..n
  BY <1>2, <1>3, <1>4, PlacesKept
<1>8. \A i \in WarningsAmong(few) \cup ViolationsAmong(few) \cup MissedPlaces(few) :
         few[i] = many[i]
  BY <1>4, <1>7 DEF SameUpTo
<1>9. IsPrefix(few, many)
  BY <1>2, <1>3, <1>4, Extends
<1>10. FirstOf(few, WarningsAmong(few)) \subseteq FirstOf(many, WarningsAmong(many))
  <2>1. \A i \in WarningsAmong(few) : few[i] = many[i]
    BY <1>8
  <2> QED
    BY <1>7, <2>1, FirstKept
<1>11. FirstOf(few, ViolationsAmong(few)) \subseteq FirstOf(many, ViolationsAmong(many))
  <2>1. \A i \in ViolationsAmong(few) : few[i] = many[i]
    BY <1>8
  <2> QED
    BY <1>7, <2>1, FirstKept
<1>12. IsPrefix(AtPlaces(few, MissedPlaces(few)), AtPlaces(many, MissedPlaces(many)))
  <2>1. \A i \in MissedPlaces(few) : few[i] = many[i]
    BY <1>8
  <2> QED
    BY <1>7, <2>1, PlacesExtend
<1> QED
  BY <1>5, <1>6, <1>9, <1>10, <1>11, <1>12

(* The timeline is always that of the turns known so far.                  *)
TimelineInv == trajectory \in Seq(Turns) /\ timeline = Reconstruct(trajectory)

LEMMA TimelineInvNext == [ReplayNext]_replayVars /\ TimelineInv => TimelineInv'
<1> SUFFICES ASSUME [ReplayNext]_replayVars, TimelineInv PROVE TimelineInv'
  OBVIOUS
<1>1. ASSUME NEW turn \in Turns, AddTurn(turn) PROVE TimelineInv'
  <2>1. /\ trajectory' = Append(trajectory, turn)
        /\ timeline' = Reconstruct(Append(trajectory, turn))
    BY <1>1 DEF AddTurn
  <2>2. trajectory' \in Seq(Turns)
    BY <2>1, AppendProperties DEF TimelineInv
  <2>3. timeline' = Reconstruct(trajectory')
    BY <2>1
  <2> QED
    BY <2>2, <2>3 DEF TimelineInv
<1>2. ASSUME UNCHANGED <<trajectory, timeline>> PROVE TimelineInv'
  <2>1. trajectory' = trajectory /\ timeline' = timeline
    BY <1>2
  <2> QED
    BY <2>1 DEF TimelineInv
<1>3. CASE RunAnalyzeAll
  BY <1>2, <1>3 DEF RunAnalyzeAll
<1>4. ASSUME NEW specs, RunAnalyze(specs) PROVE TimelineInv'
  BY <1>2, <1>4 DEF RunAnalyze
<1>5. CASE UNCHANGED replayVars
  BY <1>2, <1>5 DEF replayVars
<1> QED
  BY <1>1, <1>3, <1>4, <1>5 DEF ReplayNext

(* A turn that becomes known later adds to the timeline and revises none   *)
(* of it, for any turns with any calls and safeguards, since turns lie     *)
(* further apart than their events (timeline_reconstructor.py:147).        *)
THEOREM TimelineSteadyCorrect == Spec => TimelineSteady
<1> DEFINE Step ==
       trajectory' # trajectory =>
          /\ IsPrefix(timeline.events, timeline'.events)
          /\ timeline.firstWarning \subseteq timeline'.firstWarning
          /\ timeline.firstViolation \subseteq timeline'.firstViolation
          /\ IsPrefix(timeline.missed, timeline'.missed)
<1>1. Init => TimelineInv
  <2> SUFFICES ASSUME Init PROVE TimelineInv
    OBVIOUS
  <2>1. trajectory = <<>> /\ timeline = Reconstruct(<<>>)
    BY DEF Init, ReplayInit
  <2> QED
    BY <2>1 DEF TimelineInv
<1>2. TimelineInv /\ [Next]_loopVars => TimelineInv' /\ [Step]_replayVars
  <2> SUFFICES ASSUME TimelineInv, [Next]_loopVars PROVE TimelineInv' /\ [Step]_replayVars
    OBVIOUS
  <2>1. [ReplayNext]_replayVars
    BY DEF Next, loopVars, StreamingStep, RollbackStep, GateStep, LabStep, ReplayStep,
           LifecycleStep
  <2>2. TimelineInv'
    BY <2>1, TimelineInvNext
  <2>3. ASSUME NEW turn \in Turns, AddTurn(turn) PROVE Step
    <3>1. timeline' = Reconstruct(Append(trajectory, turn))
      BY <2>3 DEF AddTurn
    <3>2. trajectory \in Seq(Turns) /\ timeline = Reconstruct(trajectory)
      BY DEF TimelineInv
    <3> DEFINE later == Reconstruct(Append(trajectory, turn))
    <3>3. /\ IsPrefix(timeline.events, later.events)
          /\ timeline.firstWarning \subseteq later.firstWarning
          /\ timeline.firstViolation \subseteq later.firstViolation
          /\ IsPrefix(timeline.missed, later.missed)
      BY <3>2, ReconstructionExtends
    <3>4. timeline' = later
      BY <3>1
    <3> HIDE DEF later
    <3> QED
      BY <3>3, <3>4
  <2>4. ASSUME RunAnalyzeAll PROVE Step
    BY <2>4 DEF RunAnalyzeAll
  <2>5. ASSUME NEW specs, RunAnalyze(specs) PROVE Step
    BY <2>5 DEF RunAnalyze
  <2>6. CASE UNCHANGED replayVars
    BY <2>2, <2>6
  <2> HIDE DEF Step
  <2> QED
    BY <2>1, <2>2, <2>3, <2>4, <2>5, <2>6 DEF ReplayNext
<1> QED
  BY <1>1, <1>2, PTL DEF Spec, TimelineSteady
=============================================================================
