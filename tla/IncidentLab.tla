---------------------------- MODULE IncidentLab ----------------------------
(***************************************************************************)
(* The programs of the incident lab (pipeline.py, run_incident.py): they   *)
(* promote an incident to a regression test, clear the alignment debt it   *)
(* left, and run the whole analysis.  One program runs at a time; it may   *)
(* be cut short between any two files it writes.                           *)
(***************************************************************************)
EXTENDS IncidentAnalysis

CONSTANTS Incidents,     (* the incident files, by stem: their contents    *)
          Ledgers,       (* what the alignment debt ledger may hold        *)
          TestNames,     (* the tests that evidence may name               *)
          GivenEvidence, (* evidence that may be given by hand             *)
          Impacts,       (* business impacts that are assessed             *)
          Radii          (* regression metrics that are graded             *)

Files == DOMAIN Incidents

Ids == {Incidents[f].id : f \in Files}

(* An entry of the ledger: the incidents its id contains, its status, the  *)
(* tests in its evidence, and whether it has a field for evidence at all.  *)
DebtEntries ==
    [of       : SUBSET Files,
     status   : {"open", "in_progress", "partial", "planned", "accepted", "mitigated"},
     evidence : SUBSET TestNames,
     listed   : BOOLEAN]

(* An incident's id is the stem of its file, as in those that come with    *)
(* the lab, and its test is named after it.                                *)
ASSUME IncidentAssumption ==
    /\ \A f, g \in Files : Incidents[f].id = Incidents[g].id => f = g
    /\ Ids \subseteq TestNames /\ GivenEvidence \subseteq SUBSET TestNames
    /\ Ledgers \subseteq Seq(DebtEntries)

ASSUME GradingAssumption ==
    /\ Impacts \subseteq
          [technical : {"low", "medium", "high", "critical"}, users : Nat, slo : BOOLEAN,
           reputation : {"low", "medium", "high", "critical"}, regulatory : BOOLEAN]
    /\ \A r \in Radii :
          /\ {r.erosion, r.delayed} \subseteq Int /\ r.regression \in BOOLEAN
          /\ IsFiniteSet(DOMAIN r.categories)
          /\ \A c \in DOMAIN r.categories : r.categories[c] \in Int

VARIABLES tests,         (* test cases: absent, whole or cut short, by id  *)
          generated,     (* of run_incident: the .yaml tests, by id        *)
          debts,         (* the alignment debt ledger: its entries         *)
          pipeline,      (* the program that runs                          *)
          grading        (* what was assessed and graded last              *)

labVars == <<tests, generated, debts, pipeline, grading>>

Idle == [file |-> "none", stage |-> "idle"]
Nothing == [kind |-> "none"]

(* A test file: whole, with its case, or not.                              *)
NoCase(left) == [left |-> left, case |-> Nothing]
Whole(i) == tests[i].left = "whole"

LabInit ==
    /\ tests = [i \in Ids |-> NoCase("absent")]
    /\ generated = {}
    /\ debts \in Ledgers
    /\ pipeline = Idle
    /\ grading = Nothing

-----------------------------------------------------------------------------
(* promote_incident_to_regression: the case names the first turn to block  *)
(* and how.                                                                *)
RegressionCase(f) ==
    LET incident == Incidents[f]
    IN  [type      |-> incident.type,
         weight    |-> MaxWeight(incident.type),
         blockBy   |-> IF UnsafeTurns(incident) = {} THEN 0
                       ELSE Min(UnsafeTurns(incident)),
         action    |-> IF MaxWeight(incident.type) >= 15 THEN "HARD_STOP"
                       ELSE "SOFT_STOP"]

Promote(f) ==
    /\ pipeline = Idle
    /\ tests' = [tests EXCEPT ![Incidents[f].id] =
                   [left |-> "whole", case |-> RegressionCase(f)]]
    /\ UNCHANGED <<generated, debts, grading>>

(* The first half of promote_and_clear_debt, or --incident alone.          *)
PromoteToClear(f) ==
    /\ Promote(f)
    /\ pipeline' = [file |-> f, stage |-> "promoted"]

PromoteOnly(f) == Promote(f) /\ UNCHANGED pipeline

(* A slip: the result of the promotion is not looked at.                   *)
PromotionFails_GoOn(f) ==
    /\ pipeline = Idle
    /\ \E left \in {tests[Incidents[f].id], NoCase("cut")} :
          tests' = [tests EXCEPT ![Incidents[f].id] = left]
    /\ pipeline' = [file |-> f, stage |-> "promoted"]
    /\ UNCHANGED <<generated, debts, grading>>

(* The incident cannot be read, or the case cannot be written to its end;  *)
(* promote_and_clear_debt returns without touching the debt.               *)
PromotionFails(f) ==
    /\ pipeline = Idle
    /\ \E left \in {tests[Incidents[f].id], NoCase("cut")} :
          tests' = [tests EXCEPT ![Incidents[f].id] = left]
    /\ UNCHANGED <<generated, debts, pipeline, grading>>

(* mark_mitigated: the first entry whose id or evidence names the incident *)
(* and that is not mitigated yet; without a field for it no evidence is    *)
(* kept.  Nothing asks how the tests fared.                                *)
Matches(entry, f) == f \in entry.of \/ Incidents[f].id \in entry.evidence

Cleared(entry, evidence) ==
    [entry EXCEPT !.status = "mitigated",
                  !.evidence = IF entry.listed THEN @ \cup evidence ELSE @]

Mitigated(f, evidence) ==
    LET due == {k \in DOMAIN debts : Matches(debts[k], f) /\ debts[k].status # "mitigated"}
    IN  IF due = {} THEN debts
        ELSE [debts EXCEPT ![Min(due)] = Cleared(@, evidence)]

ClearPromoted ==
    /\ pipeline.stage = "promoted"
    /\ debts' = Mitigated(pipeline.file, {Incidents[pipeline.file].id})
    /\ pipeline' = Idle
    /\ UNCHANGED <<tests, generated, grading>>

(* The ledger cannot be read or written, or the program is interrupted.    *)
ClearingFails ==
    /\ pipeline.stage = "promoted"
    /\ pipeline' = Idle
    /\ UNCHANGED <<tests, generated, debts, grading>>

(* clear_debt_only looks at no test: without evidence it names the one     *)
(* that a promotion would have written.                                    *)
ClearDebtOnly(f, evidence) ==
    /\ pipeline = Idle
    /\ debts' = Mitigated(f, evidence)
    /\ UNCHANGED <<tests, generated, pipeline, grading>>

(* verify_regression_coverage: the expected types without a case; one case *)
(* that was cut short raises, and no case at all is an error.              *)
ExpectedTypes ==
    {"prompt_injection", "policy_erosion", "tool_hallucination",
     "coordinated_misuse", "escalation_delay"}

Verification ==
    IF \A i \in Ids : tests[i].left = "absent" THEN [answer |-> "error", gaps |-> {}]
    ELSE IF \E i \in Ids : tests[i].left = "cut" THEN [answer |-> "raises", gaps |-> {}]
    ELSE [answer |-> "gaps",
          gaps   |-> ExpectedTypes \ {tests[i].case.type : i \in {j \in Ids : Whole(j)}}]

(* run_incident full: replay, causes, blast radius, test.  The blast       *)
(* radius of a type no hook detects ends it, before the test is generated. *)
FullAnalysis(f) ==
    /\ pipeline = Idle
    /\ generated' = IF HasCounterfactual(Incidents[f])
                    THEN generated \cup {Incidents[f].id} ELSE generated
    /\ UNCHANGED <<tests, debts, pipeline, grading>>

GenerateRegression(f) ==
    /\ pipeline = Idle
    /\ generated' = generated \cup {Incidents[f].id}
    /\ UNCHANGED <<tests, debts, pipeline, grading>>

(* What is known of an incident or of a regression only grows while it is  *)
(* looked into.                                                            *)
Levels == <<"low", "medium", "high", "critical">>
Rank(seq, x) == CHOOSE k \in DOMAIN seq : seq[k] = x

ImpactGrows(i, j) ==
    /\ Rank(Levels, i.technical) <= Rank(Levels, j.technical)
    /\ i.users <= j.users
    /\ (i.slo => j.slo) /\ (i.regulatory => j.regulatory)
    /\ Rank(Levels, i.reputation) <= Rank(Levels, j.reputation)

RadiusGrows(r, s) ==
    /\ r.erosion <= s.erosion /\ r.delayed <= s.delayed
    /\ (r.regression => s.regression)
    /\ \A c \in DOMAIN r.categories :
          c \in DOMAIN s.categories /\ r.categories[c] <= s.categories[c]

AssessPair(i, j) ==
    /\ grading = Nothing /\ ImpactGrows(i, j)
    /\ grading' = [kind |-> "impact", before |-> i, after |-> j]
    /\ UNCHANGED <<tests, generated, debts, pipeline>>

GradePair(r, s) ==
    /\ grading = Nothing /\ RadiusGrows(r, s)
    /\ grading' = [kind |-> "radius", before |-> r, after |-> s]
    /\ UNCHANGED <<tests, generated, debts, pipeline>>

LabNext ==
    \/ \E f \in Files :
          \/ PromoteToClear(f) \/ PromoteOnly(f) \/ PromotionFails(f)
          \/ \E e \in GivenEvidence \cup {{Incidents[f].id}} : ClearDebtOnly(f, e)
          \/ FullAnalysis(f) \/ GenerateRegression(f)
    \/ ClearPromoted \/ ClearingFails

GradingNext ==
    \/ \E i, j \in Impacts : AssessPair(i, j)
    \/ \E r, s \in Radii : GradePair(r, s)

-----------------------------------------------------------------------------
(* A step changes one entry of the ledger at most: one that was not        *)
(* mitigated becomes so and loses no evidence.  If a promotion does it,    *)
(* the test of its incident is whole on the disk, is in the evidence the   *)
(* entry keeps, and the incident's type is then no gap in the coverage     *)
(* (pipeline.py:132, debt_clearing.py:126).                                *)
ClosedLoop ==
    [][debts' # debts =>
         \E k \in DOMAIN debts :
            /\ \A i \in DOMAIN debts : i # k => debts'[i] = debts[i]
            /\ debts[k].status # "mitigated" /\ debts'[k].status = "mitigated"
            /\ debts[k].evidence \subseteq debts'[k].evidence
            /\ pipeline.stage = "promoted" =>
                  LET incident == Incidents[pipeline.file]
                  IN  /\ tests'[incident.id].left = "whole"
                      /\ debts[k].listed => incident.id \in debts'[k].evidence
                      /\ Verification'.answer # "error"
                      /\ incident.type \notin Verification'.gaps]_labVars

Actions == <<"no_action", "track_for_next_release", "warn_with_review", "immediate_block">>
Grades == <<"OK", "WARN", "BLOCK">>

(* Where the matrix forgets the technical severity: few users make a high  *)
(* or critical incident no graver than a low one, while a medium one stays *)
(* SEV2; and a critical one with hundreds of users is less than a high one *)
(* (severity_scoring.py:137, 157, 174).                                    *)
Overlooked(i) ==
    /\ SeverityMatrix(i) \in {2, 3}
    /\ \/ i.technical \in {"high", "critical"} /\ i.users <= 10
       \/ i.technical = "critical" /\ i.users > 100

(* An impact that is at least as bad in every respect is at least as grave *)
(* and so is the action, unless a technical severity that grew is one the  *)
(* matrix forgets; and deltas that are at least as large never grade       *)
(* better (severity_scoring.py:114, risk_grading.py:74).                   *)
GradesOrdered ==
    /\ (/\ grading.kind = "impact"
        /\ grading.before.technical = grading.after.technical \/ ~Overlooked(grading.after)) =>
          /\ SeverityMatrix(grading.after) <= SeverityMatrix(grading.before)
          /\ Rank(Actions, ReleaseAction(grading.before))
               <= Rank(Actions, ReleaseAction(grading.after))
    /\ grading.kind = "radius" =>
          Rank(Grades, GradeRisk(grading.before)) <= Rank(Grades, GradeRisk(grading.after))
=============================================================================
