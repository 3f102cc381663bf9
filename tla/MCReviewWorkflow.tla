-------------------------- MODULE MCReviewWorkflow --------------------------
(* Small instances of ReviewWorkflow: candidates of every tier and one     *)
(* that needs no review; the hours are scaled down.                        *)
EXTENDS ReviewWorkflow

MCHours == [tier_1 |-> 0, tier_2 |-> 1, tier_3 |-> 2]

MCCandidate(verdict, lowPower) ==
    [verdict |-> verdict, critical |-> TRUE, override |-> TRUE,
     lowPower |-> lowPower]

MCCandidates ==
    {MCCandidate("OK", FALSE), MCCandidate("OK", TRUE),
     MCCandidate("WARN", FALSE), MCCandidate("BLOCK", TRUE)}
=============================================================================
