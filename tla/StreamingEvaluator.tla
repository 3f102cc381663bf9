------------------------- MODULE StreamingEvaluator -------------------------
(***************************************************************************)
(* Streaming evaluation (streaming/online_eval.py): a loop, in a thread of *)
(* its own or in the caller's, evaluates scenarios, asks the drift monitor *)
(* and dispatches its alerts (monitoring/alerts.py), while the caller      *)
(* starts and stops it.  What it measures (online_eval.py:17) and how the  *)
(* monitor judges it (monitoring/drift.py) comes first: rates are percents *)
(* and averages of turns are hundredths, both rounded down.                *)
(***************************************************************************)
EXTENDS Integers, Sequences, FiniteSetsExt, SequencesExt

CONSTANTS WindowSize,    (* results kept for the rates (100)               *)
          HistorySize,   (* measurements kept for trends (20)              *)
          ViolationThreshold,  (* the rate that is too high, in percent    *)
          LatencyThreshold,    (* the average latency that is too high     *)
          ErosionThreshold,    (* hundredths of a turn per measurement     *)
          Cooldown,      (* seconds between two alerts of a kind (300)     *)
          Outcomes,      (* results the n-th evaluation may have           *)
          Durations,     (* durations asked for; 0: until it is stopped    *)
          MaxStreams,    (* bound on the streams that are started          *)
          MaxRequests,   (* bound on the evaluations                       *)
          MaxTime        (* bound on the clock                             *)

ASSUME DriftAssumption ==
    /\ {WindowSize, HistorySize} \subseteq Nat \ {0}
    /\ {ViolationThreshold, LatencyThreshold, ErosionThreshold} \subseteq Nat

ASSUME StreamingAssumption == Cooldown \in Nat

VARIABLES stream,        (* self.metrics: the rolling windows              *)
          driftHistory,  (* self.drift_monitor                             *)
          requests,      (* self.metrics.total_requests                    *)
          running,       (* self._running                                  *)
          loops,         (* the loops, oldest first: where each is         *)
          thread,        (* self._thread: the loop to join, 0 for none     *)
          lastAlert,     (* self._last_alert_time of each key              *)
          alerts,        (* the alerts numbered so far, and if written     *)
          caller,        (* free, in stop() or in run_sync()               *)
          clock          (* the time                                       *)

evaluatorVars == <<stream, driftHistory, requests, running, loops, thread,
                   lastAlert, alerts, caller>>
streamingVars == <<evaluatorVars, clock>>

-----------------------------------------------------------------------------
Newest(s, n) == SubSeq(s, Max({1, Len(s) - n + 1}), Len(s))
Pushed(s, x, n) == Newest(Append(s, x), n)

-----------------------------------------------------------------------------
(* The rolling windows of StreamMetrics.  A result has a final status, a   *)
(* first failure turn (0: none) and a latency.                             *)
StreamInit == [statuses |-> <<>>, latencies |-> <<>>, failureTurns |-> <<>>]

RecordResult(m, r) ==
    [statuses     |-> Pushed(m.statuses, r.status, WindowSize),
     latencies    |-> Pushed(m.latencies, r.latency, WindowSize),
     failureTurns |-> IF r.failureTurn = 0 THEN m.failureTurns
                      ELSE Pushed(m.failureTurns, r.failureTurn, WindowSize)]

Average(s, scale) == IF s = <<>> THEN 0 ELSE (scale * SumFunction(s)) \div Len(s)

CurrentMetrics(m) ==
    [rate |-> Average([i \in DOMAIN m.statuses |->
                          IF m.statuses[i] = "violation" THEN 1 ELSE 0], 100),
     latency     |-> Average(m.latencies, 1),
     failureTurn |-> Average(m.failureTurns, 100)]

-----------------------------------------------------------------------------
(* The history of the monitor; every check adds to it before it tests.     *)
DriftInit == [violation |-> <<>>, latency |-> <<>>, failureTurn |-> <<>>]

Remembered(h, c) ==
    [violation   |-> Pushed(h.violation, c.rate, HistorySize),
     latency     |-> Pushed(h.latency, c.latency, HistorySize),
     failureTurn |-> IF c.failureTurn = 0 THEN h.failureTurn
                     ELSE Pushed(h.failureTurn, c.failureTurn, HistorySize)]

(* The last three measurements against those before them, by a tenth.      *)
ComputeTrend(s) ==
    LET recent == Newest(s, 3)
        older  == IF Len(s) > 3 THEN SubSeq(s, 1, Len(s) - 3) ELSE recent
        now    == 10 * SumFunction(recent) * Len(older)
        before == SumFunction(older) * Len(recent)
    IN  IF Len(s) < 3 THEN "stable"
        ELSE IF now > 11 * before THEN "increasing"
        ELSE IF now < 9 * before THEN "decreasing" ELSE "stable"

(* The least-squares slope over the positions 0, 1, ... is num / den.      *)
SlopeNum(s) ==
    LET n == Len(s)
    IN  n * SumFunction([i \in 1..n |-> (i - 1) * s[i]])
          - SumFunction([i \in 1..n |-> i - 1]) * SumFunction(s)
SlopeDen(s) ==
    LET n == Len(s)
    IN  n * SumFunction([i \in 1..n |-> (i - 1) * (i - 1)])
          - SumFunction([i \in 1..n |-> i - 1]) * SumFunction([i \in 1..n |-> i - 1])

Eroding(s) == Len(s) >= 5 /\ SlopeNum(s) < -(ErosionThreshold * SlopeDen(s))

(* Three measurements half above the whole history, and above 5 percent.   *)
Spiking(s) ==
    LET recent == SumFunction(Newest(s, 3))
    IN  Len(s) >= 3 /\ 2 * Len(s) * recent > 9 * SumFunction(s) /\ recent > 15

DriftAlert(metric, severity, trend) ==
    [metric |-> metric, severity |-> severity, trend |-> trend]

(* The alerts of a check of c with history h, c included: none, or the     *)
(* first that applies.                                                     *)
DriftAlerts(h, c) ==
    IF c.rate > ViolationThreshold
    THEN {DriftAlert("violation_rate",
                     IF 2 * c.rate > 3 * ViolationThreshold
                     THEN "critical" ELSE "warning",
                     ComputeTrend(h.violation))}
    ELSE IF c.latency > LatencyThreshold
    THEN {DriftAlert("latency", "warning", ComputeTrend(h.latency))}
    ELSE IF Eroding(h.failureTurn)
    THEN {DriftAlert("erosion_slope", "warning", "decreasing")}
    ELSE IF Spiking(h.violation)
    THEN {DriftAlert("violation_spike", "warning", "increasing")}
    ELSE {}

-----------------------------------------------------------------------------
NoAlert == DriftAlert("none", "none", "none")
NewLoop(d) == [pc |-> "new", started |-> 0, duration |-> d, alert |-> NoAlert,
               now |-> 0]

StreamingInit ==
    /\ stream = StreamInit
    /\ driftHistory = DriftInit
    /\ requests = 0
    /\ running = FALSE
    /\ loops = <<>>
    /\ thread = 0
    /\ lastAlert = <<>>
    /\ alerts = <<>>
    /\ caller = "free"
    /\ clock = 0

Ended(l) == loops[l].pc \in {"done", "dead"}
AllEnded == \A l \in DOMAIN loops : Ended(l)
At(l, pc) == l \in DOMAIN loops /\ loops[l].pc = pc
Goto(l, pc) == loops' = [loops EXCEPT ![l].pc = pc]

-----------------------------------------------------------------------------
(* The loop.                                                               *)
BeginLoop(l) ==
    /\ At(l, "new")
    /\ loops' = [loops EXCEPT ![l].pc = "top", ![l].started = clock]
    /\ UNCHANGED <<stream, driftHistory, requests, running, thread, lastAlert,
                   alerts, caller>>

TimeIsUp(l) ==
    loops[l].duration > 0 /\ clock - loops[l].started >= loops[l].duration

(* A slip: the flag is read once, before the loop.                         *)
GoesOn_DurationOnly(l) == ~TimeIsUp(l)

GoesOn(l) == running /\ ~TimeIsUp(l)

EndLoop(l) ==
    /\ At(l, "top") /\ ~GoesOn(l)
    /\ Goto(l, "done")
    /\ UNCHANGED <<stream, driftHistory, requests, running, thread, lastAlert,
                   alerts, caller>>

(* One evaluation, recorded and checked for drift.                         *)
EvaluateScenario(l) ==
    /\ At(l, "top") /\ GoesOn(l)
    /\ requests < MaxRequests
    /\ requests' = requests + 1
    /\ \E r \in Outcomes[requests'] : stream' = RecordResult(stream, r)
    /\ LET c     == CurrentMetrics(stream')
           found == DriftAlerts(driftHistory', c)
       IN  /\ driftHistory' = Remembered(driftHistory, c)
           /\ IF found = {}
              THEN Goto(l, "sleeping")
              ELSE \E a \in found :
                      loops' = [loops EXCEPT ![l].pc = "found", ![l].alert = a]
    /\ UNCHANGED <<running, thread, lastAlert, alerts, caller>>

(* A slip: one key for all the severities of a metric.                     *)
AlertKey_NoSeverity(a) == <<a.metric>>

AlertKey(a) == <<a.metric, a.severity>>

Suppressed(key) ==
    key \in DOMAIN lastAlert /\ clock - lastAlert[key] < Cooldown

(* dispatch: the time is read and compared with the last alert of the key, *)
Dispatch(l) ==
    /\ At(l, "found")
    /\ loops' = [loops EXCEPT
                    ![l].pc = IF Suppressed(AlertKey(loops[l].alert))
                              THEN "sleeping" ELSE "claiming",
                    ![l].now = clock]
    /\ UNCHANGED <<stream, driftHistory, requests, running, thread, lastAlert,
                   alerts, caller>>

(* then the key is taken and the alert numbered, before it is written.     *)
Claim(l) ==
    /\ At(l, "claiming")
    /\ Goto(l, "writing")
    /\ LET taken == AlertKey(loops[l].alert)
       IN  lastAlert' = [key \in DOMAIN lastAlert \cup {taken} |->
                            IF key = taken THEN loops[l].now ELSE lastAlert[key]]
    /\ alerts' = Append(alerts, [alert |-> loops[l].alert, time |-> loops[l].now,
                                 by |-> l, written |-> FALSE])
    /\ UNCHANGED <<stream, driftHistory, requests, running, thread, caller>>

WriteAlert(l) ==
    /\ At(l, "writing")
    /\ Goto(l, "sleeping")
    /\ alerts' = [k \in DOMAIN alerts |->
                     IF alerts[k].by = l THEN [alerts[k] EXCEPT !.written = TRUE]
                     ELSE alerts[k]]
    /\ UNCHANGED <<stream, driftHistory, requests, running, thread, lastAlert,
                   caller>>

(* The file cannot be written; nothing catches it, and the loop is over    *)
(* with the stream still marked as running.                                *)
WriteFails(l) ==
    /\ At(l, "writing")
    /\ Goto(l, "dead")
    /\ UNCHANGED <<stream, driftHistory, requests, running, thread, lastAlert,
                   alerts, caller>>

Wake(l) ==
    /\ At(l, "sleeping")
    /\ Goto(l, "top")
    /\ UNCHANGED <<stream, driftHistory, requests, running, thread, lastAlert,
                   alerts, caller>>

LoopStep(l) ==
    \/ BeginLoop(l) \/ EndLoop(l) \/ EvaluateScenario(l) \/ Dispatch(l)
    \/ Claim(l) \/ WriteAlert(l) \/ WriteFails(l) \/ Wake(l)

(* get_recent_alerts and get_alert_summary read what was written.          *)
Written == SelectSeq(alerts, LAMBDA a : a.written)
GetRecentAlerts(limit) == Newest(Written, limit)
AlertSummary ==
    [s \in {Written[k].alert.severity : k \in DOMAIN Written} |->
        Cardinality({k \in DOMAIN Written : Written[k].alert.severity = s})]

-----------------------------------------------------------------------------
(* The caller.  It starts a stream when the last was stopped or has ended. *)
MayStart == caller = "free" /\ (running => AllEnded) /\ Len(loops) < MaxStreams

Start(d) ==
    /\ MayStart
    /\ running' = TRUE
    /\ loops' = Append(loops, NewLoop(d))
    /\ thread' = Len(loops')
    /\ UNCHANGED <<stream, driftHistory, requests, lastAlert, alerts, caller>>

RunSync(d) ==
    /\ MayStart
    /\ running' = TRUE
    /\ loops' = Append(loops, NewLoop(d))
    /\ caller' = "sync"
    /\ UNCHANGED <<stream, driftHistory, requests, thread, lastAlert, alerts>>

SyncReturns ==
    /\ caller = "sync" /\ AllEnded
    /\ caller' = "free"
    /\ UNCHANGED <<stream, driftHistory, requests, running, loops, thread,
                   lastAlert, alerts>>

(* Ctrl-C in run_sync, wherever the loop is: run_streaming calls stop().   *)
Interrupt ==
    /\ caller = "sync" /\ ~AllEnded
    /\ Goto(Len(loops), "dead")
    /\ running' = FALSE
    /\ caller' = "stopping"
    /\ UNCHANGED <<stream, driftHistory, requests, thread, lastAlert, alerts>>

Stop ==
    /\ caller = "free"
    /\ running' = FALSE
    /\ caller' = "stopping"
    /\ UNCHANGED <<stream, driftHistory, requests, loops, thread, lastAlert, alerts>>

(* A slip: stop() that does not wait for the thread.                       *)
Joined_Never == TRUE

Joined == \A l \in {thread} \cap DOMAIN loops : Ended(l)

StopReturns ==
    /\ caller = "stopping" /\ Joined
    /\ caller' = "free"
    /\ UNCHANGED <<stream, driftHistory, requests, running, loops, thread,
                   lastAlert, alerts>>

EvaluatorStep ==
    \/ \E d \in Durations : Start(d) \/ RunSync(d)
    \/ SyncReturns \/ Interrupt \/ Stop \/ StopReturns
    \/ \E l \in 1..MaxStreams : LoopStep(l)

Tick == clock < MaxTime /\ clock' = clock + 1

StreamingNext ==
    \/ EvaluatorStep /\ UNCHANGED clock
    \/ Tick /\ UNCHANGED evaluatorVars

-----------------------------------------------------------------------------
(* At most one loop is alive, so no two alerts of a metric and severity    *)
(* are dispatched within the cooldown, over stops, restarts, crashes of    *)
(* the loop and interrupts (alerts.py:79).                                 *)
AlertsSpaced ==
    \A j, k \in DOMAIN alerts :
        (j < k /\ AlertKey(alerts[j].alert) = AlertKey(alerts[k].alert)) =>
            alerts[k].time - alerts[j].time >= Cooldown

(* stop() returns: the loop looks at _running after every evaluation       *)
(* (online_eval.py:130,183).                                               *)
StopEnds == caller = "stopping" ~> caller = "free"
=============================================================================
