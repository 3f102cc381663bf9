----------------------------- MODULE TestLifecycle -----------------------------
(***************************************************************************)
(* Where regression tests come from and when they end                      *)
(* (incident-lab/core/near_miss.py, core/decay.py): what was nearly missed *)
(* becomes a test, relevance halves with every half-life since the test    *)
(* last triggered, and the retirement policy drops what has become         *)
(* irrelevant.  Scores of a safeguard are percents, relevance thousandths; *)
(* time is counted in half-lives (90 days).                                *)
(***************************************************************************)
EXTENDS Integers, Sequences, FiniteSetsExt, SequencesExt

CONSTANTS RetirementThreshold,   (* the relevance below which one retires  *)
          MinTriggers,           (* how often it must have triggered       *)
          Conversations,         (* what the safeguards said, turn by turn *)
          NewTests,              (* tests from elsewhere: [id, source,     *)
                                 (* severity, mode]                        *)
          MaxNearMisses,         (* bound on the near misses               *)
          MaxTriggers,           (* bound on the times a test triggers     *)
          MaxHalfLives           (* bound on the clock                     *)

(* The threshold of the code is 100; above 360 the policy would drop a     *)
(* test a half-life after it triggered.  Severities and sources without a  *)
(* factor of their own, which count as 1, are left out.                    *)
ASSUME LifecycleAssumption ==
    /\ RetirementThreshold \in 0..360
    /\ \A t \in NewTests : /\ t.severity \in {"critical", "high", "medium", "low"}
                           /\ t.source \in {"incident", "near_miss", "red_team", "manual"}

VARIABLES nearMisses,            (* NearMissAnalyzer.near_misses           *)
          registry,              (* RegressionDecayManager.tests, by id    *)
          day                    (* the time                               *)

lifecycleVars == <<nearMisses, registry, day>>

-----------------------------------------------------------------------------
(* detect_near_miss, on results [kind, action, score, threshold]: late,    *)
(* or close to the threshold, or seen by the human reviewer only.          *)
BlockingTurns(c) == {k \in DOMAIN c : c[k].action \in {"block", "escalate"}}
Close(c) == {k \in DOMAIN c : c[k].score \in (c[k].threshold - 10)..c[k].threshold}
OnlyHuman(c) ==
    /\ \A k \in DOMAIN c : c[k].kind # "human_review" => c[k].action = "allow"
    /\ \E k \in DOMAIN c : c[k].kind = "human_review" /\ c[k].action = "block"

HarmSeverity(c) ==
    LET lowest == Min({c[k].score : k \in DOMAIN c})
    IN  IF lowest < 20 THEN "critical" ELSE IF lowest < 40 THEN "high"
        ELSE IF lowest < 60 THEN "medium" ELSE "low"

Precursors(c, before) == {k \in before : c[k].score < 70}

NearMiss(c, type, margin, before) ==
    [type |-> type, severity |-> HarmSeverity(c), margin |-> margin,
     precursors |-> {<<c[k].kind, k>> : k \in Precursors(c, before)}]

DetectNearMiss(c) ==
    LET blocked == Min(BlockingTurns(c))
        close   == Min(Close(c))
    IN  IF c = <<>> THEN {}
        ELSE IF BlockingTurns(c) # {} /\ blocked >= 5
        THEN {NearMiss(c, "late_detection", 100 - (100 * blocked) \div Len(c),
                       1..(blocked - 1))}
        ELSE IF Close(c) # {}
        THEN {NearMiss(c, "threshold_margin",
                       10 * (c[close].threshold - c[close].score), 1..(close - 1))}
        ELSE IF OnlyHuman(c)
        THEN {NearMiss(c, "human_catch", 10,
                       {k \in DOMAIN c : c[k].kind # "human_review"})}
        ELSE {}

(* generate_early_warning_rules: the kinds that came before three of them. *)
PrecursorCount(kind) ==
    MapThenSumSet(LAMBDA i : Cardinality({p \in nearMisses[i].precursors : p[1] = kind}),
                  DOMAIN nearMisses)
EarlyWarningRules ==
    {kind \in UNION {{p[1] : p \in nearMisses[i].precursors} : i \in DOMAIN nearMisses} :
        PrecursorCount(kind) >= 3}

-----------------------------------------------------------------------------
(* The registry.  A test that never triggered is dated by its creation.    *)
NewTest(t) ==
    [source |-> t.source, severity |-> t.severity, mode |-> t.mode, created |-> day,
     triggered |-> {}, count |-> 0, relevance |-> 1000, retired |-> FALSE]

NearMissTest(i, nm) ==
    [id |-> <<"nm_regress", i>>, source |-> "near_miss", severity |-> nm.severity,
     mode |-> nm.type]

SeverityFactor == [critical |-> 15, high |-> 12, medium |-> 10, low |-> 8]
SourceFactor == [incident |-> 13, near_miss |-> 12, red_team |-> 10, manual |-> 9]

(* A slip: a test ages from its creation.                                  *)
ReferenceDate_Created(test) == test.created

ReferenceDate(test) == IF test.triggered = {} THEN test.created ELSE Max(test.triggered)

ComputeRelevance(test) ==
    Min({1000, (10 * SeverityFactor[test.severity] * SourceFactor[test.source])
                  \div 2^(day - ReferenceDate(test))
               + Min({100 * test.count, 300})})

Active(tests) == {id \in DOMAIN tests : ~tests[id].retired}

UpdateRelevanceScores(tests) ==
    [id \in DOMAIN tests |->
        IF tests[id].retired THEN tests[id]
        ELSE [tests[id] EXCEPT !.relevance = ComputeRelevance(tests[id])]]

RetirementCandidates(tests) ==
    {id \in Active(tests) : /\ tests[id].relevance < RetirementThreshold
                            /\ tests[id].count >= MinTriggers}

(* get_coverage_health: the modes whose active tests are too few or, on    *)
(* average, too faint.  A mode without active tests is not looked at.      *)
WeakAreas(tests) ==
    LET of(mode) == {id \in Active(tests) : tests[id].mode = mode}
    IN  {mode \in {tests[id].mode : id \in Active(tests)} :
            \/ Cardinality(of(mode)) < 2
            \/ MapThenSumSet(LAMBDA id : tests[id].relevance, of(mode))
                 < 300 * Cardinality(of(mode))}

-----------------------------------------------------------------------------
LifecycleInit ==
    /\ nearMisses = <<>>
    /\ registry = <<>>
    /\ day = 0

Registered(t) ==
    registry' = [id \in DOMAIN registry \cup {t.id} |->
                    IF id = t.id THEN NewTest(t) ELSE registry[id]]

(* A near miss is added to the analyzer and becomes a regression test.     *)
AddNearMiss(c) ==
    /\ Len(nearMisses) < MaxNearMisses
    /\ \E nm \in DetectNearMiss(c) :
          /\ nearMisses' = Append(nearMisses, nm)
          /\ Registered(NearMissTest(Len(nearMisses), nm))
    /\ UNCHANGED day

AddTest(t) ==
    /\ t.id \notin DOMAIN registry
    /\ Registered(t)
    /\ UNCHANGED <<nearMisses, day>>

(* The suite runs an active test and it triggers; only the last date is    *)
(* kept.                                                                   *)
TriggerTest(id) ==
    /\ id \in Active(registry)
    /\ registry[id].count < MaxTriggers
    /\ registry' = [registry EXCEPT ![id].triggered = {day}, ![id].count = @ + 1]
    /\ UNCHANGED <<nearMisses, day>>

(* update_relevance_scores, and get_metrics through the candidates.        *)
UpdateScores ==
    /\ registry' = UpdateRelevanceScores(registry)
    /\ UNCHANGED <<nearMisses, day>>

(* A slip: the scores are those of the last time.                          *)
AutoRetirementPolicy_Stale ==
    /\ registry' = [id \in DOMAIN registry |->
                       [registry[id] EXCEPT
                           !.retired = @ \/ id \in RetirementCandidates(registry)]]
    /\ UNCHANGED <<nearMisses, day>>

AutoRetirementPolicy ==
    /\ LET current == UpdateRelevanceScores(registry)
       IN  registry' = [id \in DOMAIN current |->
                           [current[id] EXCEPT
                               !.retired = @ \/ id \in RetirementCandidates(current)]]
    /\ UNCHANGED <<nearMisses, day>>

(* quarterly_revalidation: traffic shows that a retired test matters.      *)
Revalidate(ids) ==
    /\ ids # {} /\ ids \subseteq DOMAIN registry \ Active(registry)
    /\ registry' = [id \in DOMAIN registry |->
                       IF id \in ids
                       THEN [registry[id] EXCEPT !.retired = FALSE, !.relevance = 500]
                       ELSE registry[id]]
    /\ UNCHANGED <<nearMisses, day>>

NextHalfLife ==
    /\ day < MaxHalfLives
    /\ day' = day + 1
    /\ UNCHANGED <<nearMisses, registry>>

LifecycleNext ==
    \/ \E c \in Conversations : AddNearMiss(c)
    \/ \E t \in NewTests : AddTest(t)
    \/ \E id \in DOMAIN registry : TriggerTest(id)
    \/ UpdateScores \/ AutoRetirementPolicy \/ NextHalfLife
    \/ \E ids \in SUBSET DOMAIN registry : Revalidate(ids)

-----------------------------------------------------------------------------
LastSeen(test) == Max(test.triggered \cup {test.created})

(* Only a test that has faded is dropped: more than a half-life lies       *)
(* between its retirement and the last time it triggered, or was made,     *)
(* however old the score it has and however often it was revalidated       *)
(* (decay.py:140).                                                         *)
RecentlyTriggeredKept ==
    [][registry' # registry =>
         \A id \in DOMAIN registry :
            (~registry[id].retired /\ registry'[id].retired) =>
               day - LastSeen(registry[id]) > 1]_lifecycleVars
=============================================================================
