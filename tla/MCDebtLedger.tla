---------------------------- MODULE MCDebtLedger ----------------------------
(* Small instances of DebtLedger: a high and a medium incident and a high  *)
(* violation, about one principle.                                         *)
EXTENDS DebtLedger, TLC

MCOnePrinciple == [s \in Sources |-> "c1"]
MCSeverityOf == [s \in Sources |-> IF s = "i2" THEN "medium" ELSE "high"]
MCMentions == [i \in Incidents |-> {i}]
MCBlockDays == [severity \in Severities |-> 1]

Symmetry == Permutations(Procs)
=============================================================================
