---------------------------- MODULE IncidentReplay ----------------------------
(***************************************************************************)
(* What is reconstructed of an incident as its turns become known: the     *)
(* causal graph (analysis/causal_graph.py), the timeline                   *)
(* (replay/timeline_reconstructor.py) and the counterfactuals.             *)
(***************************************************************************)
EXTENDS Counterfactuals

CONSTANTS Turns,         (* the turns an incident may have                 *)
          Roots,         (* its root cause: [layer, category]              *)
          Specs,         (* the analyses that may be asked for             *)
          MaxSpecs,      (* bound on how many are asked for at once        *)
          Thresholds,    (* the thresholds that are swept                  *)
          MaxFpr,        (* the false positives allowed, in percent        *)
          MaxKnown      (* bound on the turns of an incident              *)

ASSUME ReplayAssumption ==
    /\ Thresholds \subseteq Nat /\ MaxFpr \in Nat
    /\ \A spec \in Specs :
          /\ spec.type \in {"remove_safeguard", "stricter_policy", "alternative_routing"}
          /\ spec.type = "stricter_policy" => spec.delta \in Int
    /\ \A turn \in Turns :
          /\ \A l \in DOMAIN turn.signals :
                turn.signals[l].value \in Int /\ turn.signals[l].threshold \in Int
          /\ \A list \in {DOMAIN turn.tools, DOMAIN turn.safeguards} :
                IsFiniteSet(list) /\ list \subseteq Nat

VARIABLES trajectory,    (* the turns known so far                         *)
          timeline,      (* what is reconstructed of them                  *)
          root,          (* incident["root_cause"]                         *)
          mitigations    (* what the engine said last                      *)

replayVars == <<trajectory, timeline, root, mitigations>>

-----------------------------------------------------------------------------
(* The causal graph.  A node has a kind and a turn, an edge a kind.  The   *)
(* program that builds it looks for other marks than the counterfactuals.  *)
AttackTurns ==
    ByKey([k \in {k \in DOMAIN trajectory : "status" \in trajectory[k].marks} |-> k])

Node(kind, turn) == [kind |-> kind, turn |-> turn]
Edge(from, to, kind) == [from |-> from, to |-> to, kind |-> kind]

Context == Node("context", 0)
Trigger(a) == Node("trigger", a[1])
Propagation(a, i) == Node("propagation", a[i])
Harm(a) == Node("harm", Last(a))
SafeguardGap == Node("safeguard", 0)

(* A slip: the range of the links ends one too early.                      *)
LinkCount_Short(a) == Max({Len(a) - 2, 1})

(* The chain has one more link than nodes between the trigger and the      *)
(* harm; a single unsafe turn is both the trigger and the harm.            *)
LinkCount(a) == Max({Len(a) - 1, 1})
Link(a, i) ==
    Edge(IF i = 1 THEN Trigger(a) ELSE Propagation(a, i),
         IF i = LinkCount(a) THEN Harm(a) ELSE Propagation(a, i + 1), "causes")

BuildCausalGraph(a) ==
    IF a = <<>> THEN [nodes |-> {Node("context", -1)}, edges |-> <<>>]
    ELSE [nodes |-> {Trigger(a), Harm(a), SafeguardGap}
                      \cup {Propagation(a, i) : i \in 2..(Len(a) - 1)}
                      \cup (IF a[1] > 1 THEN {Context} ELSE {}),
          edges |-> (IF a[1] > 1 THEN <<Edge(Context, Trigger(a), "enables")>> ELSE <<>>)
                      \o [i \in 1..LinkCount(a) |-> Link(a, i)]
                      \o <<Edge(Trigger(a), SafeguardGap, "bypasses")>>]

(* get_causal_chain: the nodes reached from the trigger, nearest first,    *)
(* along edges of every kind.                                              *)
Successors(g, n) ==
    LET out == AtPlaces(g.edges, {i \in DOMAIN g.edges : g.edges[i].from = n})
    IN  [i \in DOMAIN out |-> out[i].to]

CausalChain(g) ==
    LET triggers == {n \in g.nodes : n.kind = "trigger"}
        pops     == Cardinality(g.nodes) + Len(g.edges)
        search[i \in 0..pops] ==
            IF i = 0 THEN [queue |-> SetToSeq(triggers), chain |-> <<>>]
            ELSE LET s == search[i - 1]
                 IN  IF s.queue = <<>> THEN s
                     ELSE IF Contains(s.chain, Head(s.queue))
                     THEN [s EXCEPT !.queue = Tail(s.queue)]
                     ELSE [queue |-> Tail(s.queue) \o Successors(g, Head(s.queue)),
                           chain |-> Append(s.chain, Head(s.queue))]
    IN  search[pops].chain

BypassedSafeguards(g) ==
    {g.edges[i].to : i \in {j \in DOMAIN g.edges : g.edges[j].kind = "bypasses"}}

(* compute_attribution_scores, in hundredths: every edge has strength 1.   *)
TypeWeights ==
    [trigger |-> 100, propagation |-> 70, harm |-> 0, safeguard |-> 80, context |-> 30]
AttributionScores(g) == [n \in g.nodes |-> (80 * TypeWeights[n.kind]) \div 100]

-----------------------------------------------------------------------------
(* A slip: turns that are closer than what happens in them.                *)
TurnTime_TenSeconds(k) == 10 * (k - 1)

(* The timeline: two events and its tools' and safeguards' for each turn,  *)
(* half a minute apart, sorted by time.                                    *)
TurnTime(k) == 30 * (k - 1)
Event(time, type, severity, turn) ==
    [time |-> time, type |-> type, severity |-> severity, turn |-> turn]

ResponseSeverity(turn) ==
    IF "is_violation" \in turn.marks THEN "critical"
    ELSE IF turn.drift > 50 THEN "warning" ELSE "info"

(* Events are told apart by turn, kind and number, in the order in which   *)
(* the code lists them.                                                    *)
EventKeys(t) ==
    UNION {{<<k, 1, 1>>, <<k, 2, 1>>}
             \cup {<<k, 3, i>> : i \in DOMAIN t[k].tools}
             \cup {<<k, 4, i>> : i \in DOMAIN t[k].safeguards} : k \in DOMAIN t}

ListedBefore(a, b) ==
    \/ a[1] < b[1]
    \/ a[1] = b[1] /\ a[2] < b[2]
    \/ a[1] = b[1] /\ a[2] = b[2] /\ a[3] < b[3]

EventTime(key) == TurnTime(key[1]) + 5 * (key[2] - 1)

EventAt(turn, key) ==
    LET Said(type, severity) == Event(EventTime(key), type, severity, key[1])
    IN  CASE key[2] = 1 -> Said("user_message", "info")
          [] key[2] = 2 -> Said("agent_response", ResponseSeverity(turn))
          [] key[2] = 3 -> Said("tool_call", IF turn.tools[key[3]] = "risky"
                                             THEN "warning" ELSE "info")
          [] key[2] = 4 -> Said(turn.safeguards[key[3]].type,
                                turn.safeguards[key[3]].severity)

(* Sorting keeps the order of events of the same time.                     *)
EventOrder(keys) ==
    {p \in keys \X keys :
        \/ EventTime(p[1]) < EventTime(p[2])
        \/ EventTime(p[1]) = EventTime(p[2]) /\ ListedBefore(p[1], p[2])}

SortedByTime(t) ==
    LET order == InOrder(EventKeys(t), EventOrder(EventKeys(t)))
    IN  [i \in DOMAIN order |-> EventAt(t[order[i][1]], order[i])]

WarningsAmong(events) == {i \in DOMAIN events : events[i].severity = "warning"}
ViolationsAmong(events) == {i \in DOMAIN events : events[i].type = "policy_violation"}

FirstOf(events, places) == IF places = {} THEN {} ELSE {events[Min(places)]}

(* Warnings before any violation that are not already an intervention.     *)
MissedInterventions(events) ==
    AtPlaces(events, {i \in WarningsAmong(events) :
                         /\ \A j \in ViolationsAmong(events) : i < j
                         /\ events[i].type \notin {"escalation", "human_review"}})

Reconstruct(t) ==
    LET events == SortedByTime(t)
    IN  [events         |-> events,
         firstWarning   |-> FirstOf(events, WarningsAmong(events)),
         firstViolation |-> FirstOf(events, ViolationsAmong(events)),
         missed         |-> MissedInterventions(events)]

-----------------------------------------------------------------------------
ReplayInit ==
    /\ trajectory = <<>>
    /\ timeline = Reconstruct(<<>>)
    /\ root \in Roots
    /\ mitigations = Summarize(<<>>)

(* Another turn is found in the logs; what was said without it is moot.    *)
AddTurn(turn) ==
    /\ Len(trajectory) < MaxKnown
    /\ LET t == Append(trajectory, turn)
       IN  /\ trajectory' = t
           /\ timeline' = Reconstruct(t)
    /\ mitigations' = Summarize(<<>>)
    /\ UNCHANGED root

RunAnalyzeAll ==
    /\ mitigations' = Summarize(AnalyzeAll(trajectory, root))
    /\ UNCHANGED <<trajectory, timeline, root>>

(* Analyses that are asked for; one that raises leaves nothing.            *)
RunAnalyze(specs) ==
    LET results == Analyze(trajectory, root, specs)
    IN  /\ \A k \in DOMAIN results : results[k].outcome # "raises"
        /\ mitigations' = Summarize(results)
        /\ UNCHANGED <<trajectory, timeline, root>>

ReplayNext ==
    \/ \E turn \in Turns : AddTurn(turn)
    \/ RunAnalyzeAll
    \/ \E specs \in SeqOf(Specs, MaxSpecs) : RunAnalyze(specs)

-----------------------------------------------------------------------------
OutcomeRank ==
    [no_effect |-> 0, mitigated |-> 1, detected_earlier |-> 2, prevented |-> 3]

(* A lower threshold catches whatever a higher one does, as well and as    *)
(* early; so the optimum of a sweep is the first threshold within the      *)
(* budget at which anything is caught (stricter_policy.py:263).            *)
SweepMonotone ==
    LET sweep  == Sweep(trajectory, Thresholds)
        within == {x \in Thresholds : EstimateFpr(x) <= MaxFpr}
    IN  /\ \A x, y \in Thresholds : x <= y =>
              /\ OutcomeRank[sweep[x].outcome] >= OutcomeRank[sweep[y].outcome]
              /\ sweep[x].turn <= sweep[y].turn
        /\ FindOptimalThreshold(sweep, MaxFpr) =
              IF within # {} /\ WouldHaveHelped(sweep[Min(within)]) THEN Min(within) ELSE 0

(* Before what would have prevented the incident: nothing that would not   *)
(* have, or only what is surer.                                            *)
PreventsFirst(helped) ==
    \A i, j \in DOMAIN helped :
       (i < j /\ helped[j].outcome = "prevented") => helped[i].outcome = "prevented"

PreventsUnlessSurer(helped) ==
    \A i, j \in DOMAIN helped :
       (i < j /\ helped[j].outcome = "prevented") =>
           \/ helped[i].outcome = "prevented"
           \/ helped[i].confidence > helped[j].confidence

(* Of the analyses that come by default, one that would have prevented the *)
(* incident is ranked before whatever would only have softened it.  Among  *)
(* those that are asked for, a softening one goes before only by being the *)
(* surer of the two (engine.py:152, 172).                                  *)
PreventionFirst ==
    /\ PreventsFirst(Summarize(AnalyzeAll(trajectory, root)).helped)
    /\ PreventsUnlessSurer(mitigations.helped)

(* The causal chain starts at the first unsafe turn and passes every other *)
(* in order up to the harm.  The one safeguard that was bypassed comes     *)
(* third, whatever else is in the chain (causal_graph.py:150).             *)
ChainComplete ==
    LET a    == AttackTurns
        g    == BuildCausalGraph(a)
        walk == CausalChain(g)
        way  == RemoveAt(walk, 3)
    IN  a # <<>> =>
           /\ Len(walk) = Max({Len(a), 2}) + 1 /\ walk[3] = SafeguardGap
           /\ Head(way) = Trigger(a) /\ Last(way) = Harm(a)
           /\ \A i \in DOMAIN a : \E j \in DOMAIN way : way[j].turn = a[i]
           /\ \A i, j \in DOMAIN way : i < j => way[i].turn <= way[j].turn
           /\ BypassedSafeguards(g) = {SafeguardGap}

(* What is said of an incident with hindsight holds together: the sweep,   *)
(* the ranking of the mitigations and the causal chain.                    *)
HindsightSound ==
    trajectory # <<>> => SweepMonotone /\ PreventionFirst /\ ChainComplete

(* A turn that becomes known later adds to the timeline and revises none   *)
(* of it: not the order of the events, not the first warning or violation, *)
(* not an intervention that was missed (timeline_reconstructor.py:147).    *)
TimelineSteady ==
    [][trajectory' # trajectory =>
          /\ IsPrefix(timeline.events, timeline'.events)
          /\ timeline.firstWarning \subseteq timeline'.firstWarning
          /\ timeline.firstViolation \subseteq timeline'.firstViolation
          /\ IsPrefix(timeline.missed, timeline'.missed)]_replayVars
=============================================================================
