-------------------------- MODULE MCReleaseFreeze --------------------------
(* Small instances of ReleaseFreeze: two debts, of a critical and a medium *)
(* gap about two principles, a critical and a high violation, one          *)
(* exception; the days are scaled down.                                    *)
EXTENDS ReleaseFreeze

MCPrincipleOf ==
    [s \in Debts \cup Violations |-> IF s \in {"d1", "v1"} THEN "c1" ELSE "c2"]

MCSeverityOf ==
    [s \in Debts \cup Violations |->
        CASE s \in {"d1", "v1"} -> "critical"
          [] s = "v2"           -> "high"
          [] OTHER              -> "medium"]

MCMaxTtl == [r \in {"Head_of_Safety"} |-> 2]

MCSloDays ==
    [critical |-> 1, high |-> 2, medium |-> 3, low |-> 4]

MCWeight == [critical |-> 12, high |-> 4, medium |-> 2, low |-> 1]
=============================================================================
