------------------------ MODULE ReleaseFreeze_proof ------------------------
(***************************************************************************)
(* Proofs about ReleaseFreeze: its types, that a freeze has a cause, that  *)
(* only a decision ends it, and that old debts freeze once the SLO check   *)
(* has run.  All rest on one fact: the age noted for a debt is never more  *)
(* than its age.                                                           *)
(***************************************************************************)
EXTENDS ReleaseFreeze, FiniteSetTheorems, TLAPS

(* A debt in the ledger was not introduced in the future, and the note of  *)
(* its age is at most its age.                                             *)
NotesBehind ==
    \A d \in Debts : debt[d].born <= today /\ debt[d].age <= today - debt[d].born

IInv == TypeOK /\ NotesBehind

LEMMA InitIInv == Init => IInv
  <1> SUFFICES ASSUME Init PROVE IInv
    OBVIOUS
  <1>1. NoException \in ExceptionRecord
    BY FreezeAssumption DEF FreezeAssumption, NoException, ExceptionRecord
  <1> QED
    BY <1>1, FreezeAssumption
       DEF FreezeAssumption, Init, IInv, TypeOK, NotesBehind, DebtRecord

(* A step that changes the exceptions or the audit only. *)
LEMMA OtherFiles ==
    ASSUME IInv, UNCHANGED <<today, debt>>,
           exception' \in [Exceptions -> ExceptionRecord],
           audit' \subseteq Violations
    PROVE  IInv'
  BY DEF IInv, TypeOK, NotesBehind, DebtRecord

(* A step that changes one debt and leaves its date and age as they were.  *)
LEMMA StatusChange ==
    ASSUME IInv, NEW d \in Debts,
           NEW how \in {"none", "open", "planned", "mitigated", "accepted"},
           debt' = [debt EXCEPT ![d].status = how],
           UNCHANGED <<today, exception, audit>>
    PROVE  IInv'
  BY DEF IInv, TypeOK, NotesBehind, DebtRecord

LEMMA NextIInv == IInv /\ [Next]_vars => IInv'
  <1> SUFFICES ASSUME IInv, [Next]_vars PROVE IInv'
    OBVIOUS
  <1>1. ASSUME NEW d \in Debts, Introduce(d)
        PROVE  IInv'
    BY <1>1, FreezeAssumption
       DEF FreezeAssumption, Introduce, IInv, TypeOK, NotesBehind, DebtRecord
  <1>2. ASSUME NEW d \in Debts, Plan(d)
        PROVE  IInv'
    BY <1>2, StatusChange DEF Plan
  <1>3. ASSUME NEW d \in Debts, NEW how \in {"mitigated", "accepted"},
               Clear(d, how)
        PROVE  IInv'
    BY <1>3, StatusChange DEF Clear
  <1>4. CASE CheckSlo
    <2>1. \A d \in Debts : /\ debt[d] \in DebtRecord
                           /\ today - debt[d].born \in 0..MaxDay
      BY FreezeAssumption
         DEF FreezeAssumption, IInv, TypeOK, NotesBehind, DebtRecord
    <2>2. \A d \in Debts : \/ debt'[d] = debt[d]
                           \/ debt'[d] = [debt[d] EXCEPT !.age =
                                             today - debt[d].born]
      BY <1>4 DEF CheckSlo
    <2>3. \A d \in Debts : /\ debt'[d] \in DebtRecord
                           /\ debt'[d].born = debt[d].born
                           /\ \/ debt'[d].age = debt[d].age
                              \/ debt'[d].age = today - debt[d].born
      BY <2>1, <2>2 DEF DebtRecord
    <2>4. debt' \in [Debts -> DebtRecord]
      BY <1>4, <2>3 DEF CheckSlo
    <2> QED
      BY <1>4, <2>1, <2>3, <2>4 DEF CheckSlo, IInv, TypeOK, NotesBehind, DebtRecord
  <1>5. ASSUME NEW x \in Exceptions, Edit(x)
        PROVE  IInv'
    <2>1. CASE \E covers \in SUBSET Principles, role \in Roles, ttl \in Ttls,
                  limit \in OwnLimits \cup {MaxRenewals} :
                     Grant(x, covers, role, ttl, limit)
      <3>1. PICK covers \in SUBSET Principles, role \in Roles, ttl \in Ttls,
                 limit \in OwnLimits \cup {MaxRenewals} :
                     Grant(x, covers, role, ttl, limit)
        BY <2>1
      <3>2. today + ttl \in Nat
        BY FreezeAssumption DEF FreezeAssumption, IInv, TypeOK
      <3>3. [status |-> "active", covers |-> covers, role |-> role,
             approved |-> today, expires |-> today + ttl, renewals |-> 0,
             limit |-> limit] \in ExceptionRecord
        BY <3>2, FreezeAssumption
           DEF FreezeAssumption, ExceptionRecord, IInv, TypeOK
      <3>4. exception' \in [Exceptions -> ExceptionRecord]
        BY <3>1, <3>3 DEF Grant, IInv, TypeOK
      <3> QED
        BY <3>1, <3>4, OtherFiles DEF Grant, IInv, TypeOK
    <2>2. ASSUME NEW ttl \in Ttls, Renew(x, ttl)
          PROVE  IInv'
      <3>1. today + ttl \in Nat
        BY FreezeAssumption DEF FreezeAssumption, IInv, TypeOK
      <3>2. /\ exception[x].renewals + 1 \in 0..MaxRenewals + 1
            /\ exception[x] \in ExceptionRecord /\ today \in 0..MaxDay
        BY <2>2, FreezeAssumption
           DEF FreezeAssumption, Renew, IInv, TypeOK, ExceptionRecord
      <3>3. [exception[x] EXCEPT !.approved = today, !.expires = today + ttl,
                                 !.renewals = @ + 1] \in ExceptionRecord
        BY <3>1, <3>2 DEF ExceptionRecord
      <3>4. exception' \in [Exceptions -> ExceptionRecord]
        BY <2>2, <3>3 DEF Renew, IInv, TypeOK
      <3> QED
        BY <2>2, <3>4, OtherFiles DEF Renew, IInv, TypeOK
    <2>3. CASE Revoke(x)
      <3>1. exception' \in [Exceptions -> ExceptionRecord]
        BY <2>3 DEF Revoke, IInv, TypeOK, ExceptionRecord
      <3> QED
        BY <2>3, <3>1, OtherFiles DEF Revoke, IInv, TypeOK
    <2> QED
      BY <1>5, <2>1, <2>2, <2>3 DEF Edit
  <1>6. ASSUME NEW found \in SUBSET Violations, Report(found)
        PROVE  IInv'
    BY <1>6, OtherFiles DEF Report, IInv, TypeOK
  <1>7. CASE NextDay
    BY <1>7, FreezeAssumption
       DEF FreezeAssumption, NextDay, IInv, TypeOK, NotesBehind, DebtRecord
  <1>8. CASE UNCHANGED vars
    BY <1>8, OtherFiles DEF vars, IInv, TypeOK
  <1> QED
    BY <1>1, <1>2, <1>3, <1>4, <1>5, <1>6, <1>7, <1>8 DEF Next

THEOREM Inductive == Spec => []IInv
  BY InitIInv, NextIInv, PTL DEF Spec

(* The variables of the freeze keep their types. *)
THEOREM TypeCorrect == Spec => []TypeOK
  <1>1. IInv => TypeOK
    BY DEF IInv
  <1> QED
    BY <1>1, Inductive, PTL

----------------------------------------------------------------------------

(* A frozen release has a debt that really is older than max_open_days,    *)
(* more open debts than the budget, or too many violations.                *)
THEOREM FrozenForCauseCorrect == Spec => []FrozenForCause
  <1>1. ASSUME IInv, Frozen
        PROVE  \/ \E d \in Debts :
                     Active(d) /\ today - debt[d].born > MaxOpenDays
               \/ BudgetBlocked
               \/ TooMany(audit)
    <2>1. Alarm
      BY <1>1 DEF Frozen, Decision
    <2>2. ASSUME NEW d \in Debts, DebtBlocks(d)
          PROVE  Active(d) /\ today - debt[d].born > MaxOpenDays
      BY <1>1, <2>2, FreezeAssumption
         DEF FreezeAssumption, DebtBlocks, IInv, TypeOK, NotesBehind, DebtRecord
    <2> QED
      BY <2>1, <2>2 DEF Alarm, DebtSloBlocked
  <1>2. IInv => FrozenForCause
    BY <1>1 DEF FrozenForCause
  <1> QED
    BY <1>2, Inductive, PTL

(* What the notes of a check add: no debt grows younger. *)
LEMMA NotesGrow ==
    ASSUME IInv, CheckSlo, NEW d \in Debts
    PROVE  /\ debt'[d].status = debt[d].status
           /\ debt'[d].age \in Nat /\ debt[d].age \in Nat
           /\ debt'[d].age >= debt[d].age
           /\ Active(d) => debt'[d].age = today - debt[d].born
  BY FreezeAssumption
     DEF FreezeAssumption, CheckSlo, Active, IInv, TypeOK, NotesBehind, DebtRecord

(* More violations are still too many. *)
LEMMA TooManyGrows ==
    ASSUME NEW few \in SUBSET Violations, NEW many \in SUBSET Violations,
           few \subseteq many, TooMany(few)
    PROVE  TooMany(many)
  <1> DEFINE Of(found, severity) == {v \in found : SeverityOf[v] = severity}
  <1>1. ASSUME NEW severity
        PROVE  /\ Count(few, severity) \in Nat /\ Count(many, severity) \in Nat
               /\ Count(few, severity) <= Count(many, severity)
    <2>1. Of(few, severity) \subseteq Of(many, severity)
      OBVIOUS
    <2>2. IsFiniteSet(Of(many, severity))
      <3>1. Of(many, severity) \subseteq Violations
        OBVIOUS
      <3> QED
        BY <3>1, FS_Subset, FreezeAssumption DEF FreezeAssumption
    <2>3. /\ IsFiniteSet(Of(few, severity))
          /\ Cardinality(Of(few, severity)) <= Cardinality(Of(many, severity))
      BY <2>1, <2>2, FS_Subset
    <2> QED
      BY <2>2, <2>3, FS_CardinalityType DEF Count
  <1> QED
    BY <1>1, FreezeAssumption DEF FreezeAssumption, TooMany

(* A debt that has lost no status blocks on: its note only grows. *)
LEMMA BlocksOn ==
    ASSUME IInv, [Next]_vars, NEW d \in Debts, DebtBlocks(d),
           \A e \in Debts : debt'[e].status = debt[e].status
    PROVE  DebtBlocks(d)'
  <1>1. CASE CheckSlo
    BY <1>1, NotesGrow, FreezeAssumption DEF FreezeAssumption, DebtBlocks, Active
  <1>2. ASSUME NEW e \in Debts, Introduce(e)
        PROVE  FALSE
    BY <1>2 DEF Introduce, IInv, TypeOK
  <1>3. ASSUME NEW e \in Debts, Plan(e)
        PROVE  FALSE
    BY <1>3 DEF Plan, IInv, TypeOK, DebtRecord
  <1>4. ASSUME NEW e \in Debts, NEW how \in {"mitigated", "accepted"},
               Clear(e, how)
        PROVE  FALSE
    BY <1>4 DEF Clear, Active, IInv, TypeOK, DebtRecord
  <1>5. CASE debt' = debt
    BY <1>5 DEF DebtBlocks, Active
  <1> QED
    BY <1>1, <1>2, <1>3, <1>4, <1>5
       DEF Next, Edit, Grant, Renew, Revoke, Report, NextDay, vars

(* What the exceptions that remain active cover does not change. *)
LEMMA CoverageStays ==
    ASSUME IInv, [Next]_vars, ActiveExceptions' \subseteq ActiveExceptions,
           NEW x \in ActiveExceptions'
    PROVE  exception'[x].covers = exception[x].covers
  <1>1. x \in Exceptions /\ exception \in [Exceptions -> ExceptionRecord]
    BY DEF ActiveExceptions, IInv, TypeOK
  <1>2. ASSUME NEW y \in Exceptions, NEW covers, NEW role, NEW ttl, NEW limit,
               Grant(y, covers, role, ttl, limit)
        PROVE  FALSE
    <2>1. exception'[y].status = "active" /\ exception[y].status = "none"
      BY <1>1, <1>2 DEF Grant
    <2> QED
      BY <2>1 DEF ActiveExceptions
  <1>3. ASSUME NEW y \in Exceptions, NEW ttl, Renew(y, ttl)
        PROVE  exception'[x].covers = exception[x].covers
    BY <1>1, <1>3 DEF Renew, ExceptionRecord
  <1>4. ASSUME NEW y \in Exceptions, Revoke(y)
        PROVE  exception'[x].covers = exception[x].covers
    BY <1>1, <1>4 DEF Revoke, ExceptionRecord
  <1>5. CASE exception' = exception
    BY <1>5
  <1> QED
    BY <1>2, <1>3, <1>4, <1>5
       DEF Next, Edit, Introduce, Plan, Clear, CheckSlo, Report, NextDay, vars

(* A freeze ends only when somebody plans or clears a debt, grants an      *)
(* exception, or an audit finds other violations.                          *)
THEOREM ThawsByDecisionCorrect == Spec => ThawsByDecision
  <1> DEFINE Decided ==
          \/ \E d \in Debts : debt'[d].status # debt[d].status
          \/ \E x \in Exceptions : x \in ActiveExceptions' \ ActiveExceptions
          \/ audit' # audit
  <1>1. ASSUME IInv, [Next]_vars, Frozen, ~Decided
        PROVE  Frozen'
    <2>1. /\ \A d \in Debts : debt'[d].status = debt[d].status
          /\ audit' = audit
      BY <1>1
    <2>2. ActiveExceptions' \subseteq ActiveExceptions
      BY <1>1 DEF ActiveExceptions
    <2>3. ASSUME NEW d \in Debts, DebtBlocks(d)
          PROVE  DebtBlocks(d)'
      BY <1>1, <2>1, <2>3, BlocksOn
    <2>4. BudgetBlocked => BudgetBlocked'
      <3>1. {d \in Debts : debt'[d].status = "open"} =
            {d \in Debts : debt[d].status = "open"}
        BY <2>1
      <3> QED
        BY <3>1 DEF BudgetBlocked
    <2>5. TooMany(audit)' <=> TooMany(audit)
      BY <2>1 DEF TooMany, Count
    <2>6. StillBlocked => StillBlocked'
      <3> DEFINE Open == {v \in audit : PrincipleOf[v] \notin Covered}
      <3>1. Covered' \subseteq Covered
        BY <1>1, <2>2, CoverageStays DEF Covered
      <3>2. Open \subseteq Open' /\ Open \subseteq Violations
                                 /\ Open' \subseteq Violations
        BY <1>1, <2>1, <3>1 DEF IInv, TypeOK
      <3>3. TooMany(Open) => TooMany(Open')
        BY <3>2, TooManyGrows
      <3>4. TooMany(Open') => TooMany(Open)'
        BY DEF TooMany, Count
      <3>5. ActiveExceptions = {} => ActiveExceptions' = {}
        BY <2>2
      <3> QED
        BY <3>3, <3>4, <3>5 DEF StillBlocked
    <2> QED
      BY <1>1, <2>3, <2>4, <2>5, <2>6 DEF Frozen, Decision, Alarm, DebtSloBlocked
  <1> QED
    BY <1>1, Inductive, PTL DEF Spec, ThawsByDecision

(* Once the SLO check has run, a debt older than max_open_days freezes the *)
(* release, unless there is an active exception.                           *)
THEOREM OldDebtsFreezeCorrect == Spec => OldDebtsFreeze
  <1>1. ASSUME IInv, CheckSlo, ActiveExceptions = {}, NEW d \in Debts,
               Active(d), today - debt[d].born > MaxOpenDays
        PROVE  Frozen'
    <2>1. DebtBlocks(d)'
      BY <1>1, NotesGrow DEF DebtBlocks, Active
    <2>2. ActiveExceptions' = {}
      BY <1>1 DEF CheckSlo, ActiveExceptions
    <2> QED
      BY <2>1, <2>2 DEF Frozen, Decision, Alarm, DebtSloBlocked, StillBlocked
  <1>2. ASSUME IInv, CheckSlo
        PROVE  \A d \in Debts :
                   Active(d) /\ today - debt[d].born > MaxOpenDays =>
                       Frozen' \/ ActiveExceptions # {}
    BY <1>1, <1>2
  <1>3. IInv =>
          [CheckSlo =>
              \A d \in Debts :
                  Active(d) /\ today - debt[d].born > MaxOpenDays =>
                      Frozen' \/ ActiveExceptions # {}]_vars
    BY <1>2
  <1> QED
    BY <1>3, Inductive, PTL DEF OldDebtsFreeze

(* An exception that no longer holds comes to hold again only when its     *)
(* entry is changed.                                                       *)
THEOREM LapseIsFinalCorrect == Spec => LapseIsFinal
  <1>1. ASSUME IInv, [Next]_vars, NEW x \in Exceptions, ~Valid(x), Valid(x)',
               exception'[x] = exception[x]
        PROVE  FALSE
    <2>1. /\ today \in Nat /\ today' \in Nat /\ today <= today'
      <3>1. today' = today \/ today' = today + 1
        BY <1>1
           DEF Next, Introduce, Plan, Clear, CheckSlo, Edit, Grant, Renew, Revoke,
               Report, NextDay, vars
      <3> QED
        BY <1>1, <3>1, FreezeAssumption DEF FreezeAssumption, IInv, TypeOK
    <2>2. exception[x].expires \in Nat
      BY <1>1 DEF IInv, TypeOK, ExceptionRecord
    <2> QED
      BY <1>1, <2>1, <2>2 DEF Valid
  <1>2. IInv /\ [Next]_vars =>
          [\A x \in Exceptions :
              exception[x].status = "active" /\ ~Valid(x) /\ Valid(x)' =>
                  exception'[x] # exception[x]]_vars
    BY <1>1
  <1> QED
    BY <1>2, Inductive, PTL DEF Spec, LapseIsFinal
=============================================================================
