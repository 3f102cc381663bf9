CONSTANTS
    Requests = {q1, q2}
    Releases = {r1, r2}
    Candidates <- MCCandidates
    Hours <- MCHours
    MaxDecisions = 3
    MaxHour = 3
SPECIFICATION Spec
INVARIANTS
    RulingIsLast
    HeldUntilRuled
    EscalatedOnce
PROPERTIES
    LateIsEscalated
CHECK_DEADLOCK FALSE
