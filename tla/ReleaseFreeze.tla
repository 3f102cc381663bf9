--------------------------- MODULE ReleaseFreeze ---------------------------
(***************************************************************************)
(* The release freeze of the regression suite:                             *)
(*   scripts/check_freeze_playbook.py       decides OK, WARN or BLOCK      *)
(*   scripts/check_alignment_debt_slo.py    notes each debt's age          *)
(*   scripts/check_safety_exceptions.py     says which exceptions hold     *)
(*   scripts/check_alignment_error_budget.py   counts the budget           *)
(* The scripts read each other's files: the debts (written by the          *)
(* programs of DebtLedger), the exceptions and the audit's violations      *)
(* (both written by hand or by other programs).  Time is a count of days.  *)
(***************************************************************************)
EXTENDS Integers, FiniteSets, FiniteSetsExt

CONSTANTS Debts,           (* the debts that may be introduced             *)
          Violations,      (* the violations an audit may report           *)
          Exceptions,      (* the exceptions                               *)
          Principles,      (* the constitutional principles                *)
          PrincipleOf,     (* of a debt or a violation                     *)
          SeverityOf,      (* of a debt or a violation                     *)
          Roles,           (* who may sign an exception                    *)
          MaxTtl,          (* max_ttl_days of the roles that may approve  *)
          Ttls,            (* the lifetimes exceptions are written with    *)
          SloDays,         (* slo.by_severity                              *)
          MaxOpenDays,     (* slo.max_open_days                            *)
          MaxBudget,       (* error_budget.max_new_alignment_debts         *)
          Weight,          (* error_budget.severity_weights, in quarters   *)
          HighThreshold,   (* DEFAULT_HIGH_THRESHOLD                       *)
          MaxRenewals,     (* exception_rules.max_consecutive_renewals     *)
          OwnLimits,       (* renewals.max_allowed an exception may state  *)
          DaysPerQuarter,  (* length of a budget's window                  *)
          MaxDay           (* bound: days                                  *)

Severities == {"critical", "high", "medium", "low"}

ASSUME FreezeAssumption ==
    /\ IsFiniteSet(Debts)
    /\ IsFiniteSet(Violations)
    /\ PrincipleOf \in [Debts \cup Violations -> Principles]
    /\ SeverityOf \in [Debts \cup Violations -> Severities]
    /\ Roles # {}
    /\ DOMAIN MaxTtl \subseteq Roles
    /\ MaxTtl \in [DOMAIN MaxTtl -> Nat \ {0}]
    /\ Ttls \subseteq Nat
    /\ SloDays \in [Severities -> Nat]
    /\ MaxOpenDays \in Nat
    /\ MaxBudget \in Nat
    /\ Weight \in [Severities -> Nat]
    /\ HighThreshold \in Nat
    /\ MaxRenewals \in Nat
    /\ OwnLimits \subseteq Nat
    /\ DaysPerQuarter \in Nat \ {0}
    /\ MaxDay \in Nat

VARIABLES today,           (* the day, counted from 0                      *)
          debt,            (* the debts of alignment_debt.yaml             *)
          exception,       (* the exceptions of safety_exceptions.yaml     *)
          audit            (* the violations of gate_constitution_audit    *)

vars == <<today, debt, exception, audit>>

(* age is the annotation age_days; a debt without one counts as new.       *)
DebtRecord == [status : {"none", "open", "planned", "mitigated", "accepted"},
               born : 0..MaxDay, age : 0..MaxDay]

ExceptionRecord == [status : {"none", "active", "revoked"},
                    covers : SUBSET Principles, role : Roles,
                    approved : 0..MaxDay, expires : Nat,
                    renewals : 0..MaxRenewals + 1,
                    limit : OwnLimits \cup {MaxRenewals}]

TypeOK ==
    /\ today \in 0..MaxDay
    /\ debt \in [Debts -> DebtRecord]
    /\ exception \in [Exceptions -> ExceptionRecord]
    /\ audit \subseteq Violations

NoException ==
    [status |-> "none", covers |-> {}, role |-> CHOOSE r \in Roles : TRUE,
     approved |-> 0, expires |-> 0, renewals |-> 0, limit |-> MaxRenewals]

Init ==
    /\ today = 0
    /\ debt = [d \in Debts |-> [status |-> "none", born |-> 0, age |-> 0]]
    /\ exception = [x \in Exceptions |-> NoException]
    /\ audit = {}

----------------------------------------------------------------------------
(* The decision. *)

Active(d) == debt[d].status \in {"open", "planned"}

(* check_debt_slo of the playbook, which reads the annotation. *)
DebtBlocks(d) == Active(d) /\ debt[d].age > MaxOpenDays

DebtSloBlocked == \E d \in Debts : DebtBlocks(d)

(* check_error_budget of the playbook: planned debts do not count. *)
BudgetBlocked ==
    Cardinality({d \in Debts : debt[d].status = "open"}) > MaxBudget

Count(found, severity) ==
    Cardinality({v \in found : SeverityOf[v] = severity})

(* check_constitution_violations, and the same test of coverage. *)
TooMany(found) ==
    Count(found, "critical") > 0 \/ Count(found, "high") > HighThreshold

ActiveExceptions == {x \in Exceptions : exception[x].status = "active"}

Covered == UNION {exception[x].covers : x \in ActiveExceptions}

(* Mutant: only the coverage of the audit is looked at.                    *)
StillBlocked_Audit ==
    TooMany({v \in audit : PrincipleOf[v] \notin Covered})

(* check_exception_coverage *)
StillBlocked ==
    \/ ActiveExceptions = {}
    \/ TooMany({v \in audit : PrincipleOf[v] \notin Covered})

Alarm == DebtSloBlocked \/ BudgetBlocked \/ TooMany(audit)

(* generate_freeze_report *)
Decision ==
    IF ~Alarm THEN "OK" ELSE IF StillBlocked THEN "BLOCK" ELSE "WARN"

Frozen == Decision = "BLOCK"

(* Mutant: the operands of a comparison swapped.                           *)
Valid_Swapped(x) ==
    LET e == exception[x]
    IN  /\ e.status = "active"
        /\ e.role \in DOMAIN MaxTtl
        /\ e.expires <= today
        /\ e.renewals <= e.limit
        /\ e.expires - e.approved <= MaxTtl[e.role]

(* validate_exception *)
Valid(x) ==
    LET e == exception[x]
    IN  /\ e.status = "active"
        /\ e.role \in DOMAIN MaxTtl
        /\ e.expires >= today
        /\ e.renewals <= e.limit
        /\ e.expires - e.approved <= MaxTtl[e.role]

(* check_debt_slo of the SLO check, from the date of the debt. *)
Breached(d) ==
    /\ Active(d)
    /\ today - debt[d].born > SloDays[SeverityOf[d]]

Quarter(day) == day \div DaysPerQuarter

(* check_error_budget of the budget check, in quarters of a debt. *)
BudgetUsed ==
    MapThenSumSet(LAMBDA d : Weight[SeverityOf[d]],
                  {d \in Debts : /\ debt[d].status # "none"
                                 /\ Quarter(debt[d].born) = Quarter(today)})

BudgetExceeded == BudgetUsed > 4 * MaxBudget

----------------------------------------------------------------------------

(* A debt enters the ledger ... *)
Introduce(d) ==
    /\ debt[d].status = "none"
    /\ debt' = [debt EXCEPT ![d] =
                   [status |-> "open", born |-> today, age |-> 0]]
    /\ UNCHANGED <<today, exception, audit>>

(* ... its resolution is planned, by hand ... *)
Plan(d) ==
    /\ debt[d].status = "open"
    /\ debt' = [debt EXCEPT ![d].status = "planned"]
    /\ UNCHANGED <<today, exception, audit>>

(* ... and it is cleared. *)
Clear(d, how) ==
    /\ Active(d)
    /\ debt' = [debt EXCEPT ![d].status = how]
    /\ UNCHANGED <<today, exception, audit>>

(* Mutant: the days that remain instead of the days that passed.           *)
CheckSlo_Remaining ==
    /\ \E d \in Debts : debt[d].status # "none"
    /\ debt' = [d \in Debts |->
                   IF /\ Active(d)
                      /\ today - debt[d].born <= SloDays[SeverityOf[d]]
                   THEN [debt[d] EXCEPT !.age =
                            SloDays[SeverityOf[d]] - (today - debt[d].born)]
                   ELSE debt[d]]
    /\ UNCHANGED <<today, exception, audit>>

(* Mutant: the operands of the difference swapped.                         *)
CheckSlo_Swapped ==
    /\ \E d \in Debts : debt[d].status # "none"
    /\ debt' = [d \in Debts |->
                   IF Active(d)
                   THEN [debt[d] EXCEPT !.age = debt[d].born - today]
                   ELSE debt[d]]
    /\ UNCHANGED <<today, exception, audit>>

(* The SLO check notes the age of every active debt. *)
CheckSlo ==
    /\ \E d \in Debts : debt[d].status # "none"
    /\ debt' = [d \in Debts |->
                   IF Active(d)
                   THEN [debt[d] EXCEPT !.age = today - debt[d].born]
                   ELSE debt[d]]
    /\ UNCHANGED <<today, exception, audit>>

(* An exception is written, *)
Grant(x, covers, role, ttl, limit) ==
    /\ exception[x].status = "none"
    /\ exception' = [exception EXCEPT ![x] =
                        [status |-> "active", covers |-> covers,
                         role |-> role, approved |-> today,
                         expires |-> today + ttl, renewals |-> 0,
                         limit |-> limit]]
    /\ UNCHANGED <<today, debt, audit>>

(* renewed *)
Renew(x, ttl) ==
    /\ exception[x].status = "active"
    /\ exception[x].renewals <= MaxRenewals
    /\ exception' = [exception EXCEPT ![x].approved = today,
                                      ![x].expires = today + ttl,
                                      ![x].renewals = @ + 1]
    /\ UNCHANGED <<today, debt, audit>>

(* or revoked.  Nothing revokes it when it expires. *)
Revoke(x) ==
    /\ exception[x].status = "active"
    /\ exception' = [exception EXCEPT ![x].status = "revoked"]
    /\ UNCHANGED <<today, debt, audit>>

(* An audit reports. *)
Report(found) ==
    /\ audit' = found
    /\ UNCHANGED <<today, debt, exception>>

NextDay ==
    /\ today < MaxDay
    /\ today' = today + 1
    /\ UNCHANGED <<debt, exception, audit>>

Edit(x) ==
    \/ \E covers \in SUBSET Principles, role \in Roles, ttl \in Ttls,
          limit \in OwnLimits \cup {MaxRenewals} :
             Grant(x, covers, role, ttl, limit)
    \/ \E ttl \in Ttls : Renew(x, ttl)
    \/ Revoke(x)

Next ==
    \/ \E d \in Debts :
          \/ Introduce(d)
          \/ Plan(d)
          \/ \E how \in {"mitigated", "accepted"} : Clear(d, how)
    \/ CheckSlo
    \/ \E x \in Exceptions : Edit(x)
    \/ \E found \in SUBSET Violations : Report(found)
    \/ NextDay

Spec == Init /\ [][Next]_vars

----------------------------------------------------------------------------
(* What holds. *)

(* The freeze is not arbitrary: whatever the age notes say, and whenever   *)
(* they were written, a frozen release has a debt that really is older     *)
(* than max_open_days, more open debts than the budget, or too many        *)
(* violations (check_freeze_playbook.py:60-118).                            *)
FrozenForCause ==
    Frozen => \/ \E d \in Debts :
                    Active(d) /\ today - debt[d].born > MaxOpenDays
              \/ BudgetBlocked
              \/ TooMany(audit)

(* A freeze does not go away by itself, by the passing of days or by a     *)
(* check that is run again: somebody plans or clears a debt, grants an     *)
(* exception, or an audit finds other violations.                          *)
ThawsByDecision ==
    [][Frozen /\ ~Frozen' =>
          \/ \E d \in Debts : debt'[d].status # debt[d].status
          \/ \E x \in Exceptions : x \in ActiveExceptions' \ ActiveExceptions
          \/ audit' # audit]_vars

(* Once the SLO check has run, a debt older than max_open_days freezes the *)
(* release from that day on until it is cleared, unless there is an active *)
(* exception: later notes do not make it younger                           *)
(* (check_alignment_debt_slo.py:102-104, check_freeze_playbook.py:67-74).  *)
OldDebtsFreeze ==
    [][CheckSlo =>
          \A d \in Debts :
              Active(d) /\ today - debt[d].born > MaxOpenDays =>
                  Frozen' \/ ActiveExceptions # {}]_vars

(* An exception that no longer holds does not come to hold again by the    *)
(* passing of days: its entry must be changed, by a renewal                *)
(* (check_safety_exceptions.py:88-118).                                    *)
LapseIsFinal ==
    [][\A x \in Exceptions :
          exception[x].status = "active" /\ ~Valid(x) /\ Valid(x)' =>
              exception'[x] # exception[x]]_vars

----------------------------------------------------------------------------

(* "Unified release freeze decision. Aggregates all freeze signals"        *)
(* (check_freeze_playbook.py:3-9): when one of the checks blocks the       *)
(* release and no exception is valid, the playbook freezes it.             *)
AggregatesSignals ==
    /\ \/ \E d \in Debts : Breached(d)
       \/ BudgetExceeded
       \/ TooMany(audit)
    /\ \A x \in Exceptions : ~Valid(x)
    => Frozen
=============================================================================
