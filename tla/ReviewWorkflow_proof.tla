------------------------ MODULE ReviewWorkflow_proof ------------------------
(***************************************************************************)
(* Proofs about ReviewWorkflow: its types, that a ruling is the last word  *)
(* on a request, that a release is held until its requests are ruled, and  *)
(* that the checks escalate a late request once.                           *)
(***************************************************************************)
EXTENDS ReviewWorkflow, SequenceTheorems, FiniteSetTheorems, TLAPS

(* What the invariant says of one request.  To the properties it adds that *)
(* nothing was recorded for a request that is not open, that a pending one *)
(* is waiting or escalated, and that one that waits was not escalated by a *)
(* check.                                                                  *)
Fits(q) ==
    /\ \A i \in DOMAIN completed[q] :
          completed[q][i] \in Rulings =>
              /\ i = Len(completed[q])
              /\ request[q].status = Ruling[completed[q][i]]
    /\ q \in pending <=>
          /\ request[q].status # "unborn"
          /\ \A i \in DOMAIN completed[q] : completed[q][i] \notin Rulings
    /\ request[q].status = "unborn" => completed[q] = <<>>
    /\ q \in pending => request[q].status \in {"pending", "escalated"}
    /\ request[q].status = "pending" =>
          request[q].escalations = Cardinality(Recorded(q, "escalate"))
    /\ \/ request[q].escalations = Cardinality(Recorded(q, "escalate"))
       \/ /\ request[q].escalations = Cardinality(Recorded(q, "escalate")) + 1
          /\ now > request[q].deadline

IInv == TypeOK /\ \A q \in Requests : Fits(q)

(* How often a decision occurs, and after one more is recorded.            *)
Times(s, e) == Cardinality({i \in DOMAIN s : s[i] = e})

LEMMA OneMore ==
    ASSUME NEW s \in Seq(Decisions), NEW d \in Decisions, NEW e \in Decisions
    PROVE  /\ Times(s, e) \in Nat
           /\ Times(Append(s, d), e) = Times(s, e) + (IF d = e THEN 1 ELSE 0)
  <1> DEFINE At(t) == {i \in DOMAIN t : t[i] = e}
  <1>1. /\ Len(s) \in Nat /\ DOMAIN s = 1..Len(s)
        /\ Append(s, d) \in Seq(Decisions)
        /\ DOMAIN Append(s, d) = 1..Len(s) + 1
        /\ \A i \in 1..Len(s) : Append(s, d)[i] = s[i]
        /\ Append(s, d)[Len(s) + 1] = d
    OBVIOUS
  <1>2. IsFiniteSet(At(s)) /\ Cardinality(At(s)) \in Nat
    <2>1. IsFiniteSet(1..Len(s))
      BY <1>1, FS_Interval
    <2> QED
      BY <1>1, <2>1, FS_Subset, FS_CardinalityType
  <1>3. CASE d = e
    <2>1. At(Append(s, d)) = At(s) \cup {Len(s) + 1} /\ Len(s) + 1 \notin At(s)
      BY <1>1, <1>3
    <2> QED
      BY <1>2, <1>3, <2>1, FS_AddElement DEF Times
  <1>4. CASE d # e
    <2>1. At(Append(s, d)) = At(s)
      BY <1>1, <1>4
    <2>2. Times(Append(s, d), e) = Times(s, e) /\ Times(s, e) \in Nat
      BY <1>2, <2>1 DEF Times
    <2> QED
      BY <1>4, <2>2
  <1> QED
    BY <1>3, <1>4

LEMMA EscalatedRequest ==
    ASSUME NEW object \in Request
    PROVE  /\ Escalated(object) \in Request
           /\ Escalated(object).status = "escalated"
           /\ Escalated(object).escalations = object.escalations + 1
           /\ Escalated(object).deadline = object.deadline
  <1>1. /\ object.escalations \in Nat /\ object.escalations + 1 \in Nat
        /\ "escalated" \in Statuses
    BY DEF Request, Statuses
  <1> QED
    BY <1>1 DEF Escalated, Request

LEMMA InitIInv == Init => IInv
  <1> SUFFICES ASSUME Init PROVE IInv
    OBVIOUS
  <1>1. Unborn \in Request
    BY ReviewAssumption DEF ReviewAssumption, Unborn, Request, Statuses, Tiers
  <1>2. \A q \in Requests : /\ request[q] = Unborn /\ completed[q] = <<>>
                            /\ q \notin pending
                            /\ request[q].status = "unborn"
                            /\ request[q].escalations = 0
    BY DEF Init, Unborn
  <1>3. \A q \in Requests : Recorded(q, "escalate") = {}
    BY <1>2 DEF Recorded
  <1>4. TypeOK
    BY <1>1, ReviewAssumption DEF ReviewAssumption, Init, TypeOK
  <1>5. Cardinality({}) = 0
    BY FS_EmptySet
  <1>6. DOMAIN << >> = {}
    OBVIOUS
  <1>7. ASSUME NEW q \in Requests PROVE Fits(q)
    BY <1>2, <1>3, <1>5, <1>6 DEF Fits
  <1> QED
    BY <1>4, <1>7 DEF IInv

(* A request that a step leaves alone fits as before. *)
LEMMA LeftAlone ==
    ASSUME IInv, NEW q \in Requests, request'[q] = request[q],
           completed'[q] = completed[q], q \in pending' <=> q \in pending,
           now' \in Nat, now' >= now
    PROVE  Fits(q)'
  <1>1. Fits(q)
    BY DEF IInv
  <1>2. now \in Nat /\ request[q].deadline \in Nat
    BY ReviewAssumption DEF ReviewAssumption, IInv, TypeOK, Request
  <1> QED
    BY <1>1, <1>2 DEF Fits, Recorded

LEMMA CreateKeeps ==
    ASSUME IInv, NEW q \in Requests, NEW r \in Releases, Create(q, r)
    PROVE  IInv'
  <1>1. PICK tier \in Tiers :
            request' = [request EXCEPT ![q] =
                           [status |-> "pending", release |-> r, tier |-> tier,
                            deadline |-> now + Hours[tier], escalations |-> 0]]
    BY DEF Create, Required, Tiers
  <1>2. now + Hours[tier] \in Nat /\ now \in Nat
    BY ReviewAssumption DEF ReviewAssumption, IInv, TypeOK
  <1>3. [status |-> "pending", release |-> r, tier |-> tier,
         deadline |-> now + Hours[tier], escalations |-> 0] \in Request
    BY <1>2 DEF Request, Statuses
  <1>4. TypeOK'
    BY <1>1, <1>3 DEF Create, IInv, TypeOK
  <1>5. ASSUME NEW p \in Requests PROVE Fits(p)'
    <2>1. CASE p # q
      <3>1. /\ request'[p] = request[p] /\ completed'[p] = completed[p]
            /\ p \in pending' <=> p \in pending
            /\ now' = now
        BY <1>1, <2>1 DEF Create, IInv, TypeOK
      <3> QED
        BY <1>2, <3>1, LeftAlone
    <2>2. CASE p = q
      <3>1. completed'[q] = <<>> /\ q \in pending'
        BY DEF Create, IInv, Fits
      <3>2. request'[q].status = "pending" /\ request'[q].escalations = 0
        BY <1>1 DEF IInv, TypeOK
      <3>3. Recorded(q, "escalate")' = {}
        BY <3>1 DEF Recorded
      <3>4. Cardinality(Recorded(q, "escalate"))' = 0 /\ DOMAIN << >> = {}
        BY <3>3, FS_EmptySet
      <3> QED
        BY <2>2, <3>1, <3>2, <3>3, <3>4 DEF Fits
    <2> QED
      BY <2>1, <2>2
  <1> QED
    BY <1>4, <1>5 DEF IInv

LEMMA RecordDecisionKeeps ==
    ASSUME IInv, NEW q \in Requests, NEW d \in Decisions, RecordDecision(q, d)
    PROVE  IInv'
  <1>1. /\ q \in pending /\ request[q] \in Request
        /\ completed[q] \in Seq(Decisions) /\ now \in Nat
    BY ReviewAssumption
       DEF ReviewAssumption, RecordDecision, IInv, TypeOK
  <1>2. /\ request' = [request EXCEPT ![q] = Ruled(request[q], d)]
        /\ completed' = [completed EXCEPT ![q] = Append(completed[q], d)]
        /\ pending' = IF Ruled(request[q], d).status \in Terminal
                      THEN pending \ {q} ELSE pending
        /\ UNCHANGED <<now, candidate>>
    BY DEF RecordDecision
  <1>3. /\ Ruled(request[q], d) \in Request
        /\ d = "approve" => Ruled(request[q], d).status = "approved"
        /\ d = "reject" => Ruled(request[q], d).status = "rejected"
        /\ d = "escalate" => Ruled(request[q], d).status = "escalated"
        /\ d = "defer" => Ruled(request[q], d).status = request[q].status
        /\ Ruled(request[q], d).deadline = request[q].deadline
        /\ Ruled(request[q], d).escalations =
              request[q].escalations + (IF d = "escalate" THEN 1 ELSE 0)
    <2>1. CASE d \in {"approve", "reject"}
      BY <1>1, <2>1 DEF Ruled, Request, Statuses
    <2>2. CASE d = "escalate"
      BY <1>1, <2>2, EscalatedRequest DEF Ruled
    <2>3. CASE d = "defer"
      BY <1>1, <2>3 DEF Ruled, Request
    <2> QED
      BY <2>1, <2>2, <2>3 DEF Decisions
  <1>4. TypeOK'
    BY <1>1, <1>2, <1>3 DEF IInv, TypeOK
  <1>5. ASSUME NEW p \in Requests PROVE Fits(p)'
    <2>1. CASE p # q
      BY <1>1, <1>2, <2>1, LeftAlone DEF IInv, TypeOK
    <2>2. CASE p = q
      <3> DEFINE s == completed[q]
      <3>1. /\ request[q].status \in {"pending", "escalated"}
            /\ \A i \in DOMAIN s : s[i] \notin Rulings
            /\ Fits(q)
        BY <1>1 DEF Fits, IInv
      <3>2. /\ completed'[q] = Append(s, d) /\ request'[q] = Ruled(request[q], d)
        BY <1>2 DEF IInv, TypeOK
      <3>3. /\ Len(Append(s, d)) = Len(s) + 1 /\ Len(s) \in Nat
            /\ DOMAIN Append(s, d) = 1..Len(s) + 1 /\ DOMAIN s = 1..Len(s)
            /\ \A i \in 1..Len(s) : Append(s, d)[i] = s[i]
            /\ Append(s, d)[Len(s) + 1] = d
        BY <1>1
      <3>4. /\ Cardinality(Recorded(q, "escalate")) \in Nat
            /\ Cardinality(Recorded(q, "escalate"))' =
                  Cardinality(Recorded(q, "escalate"))
                      + (IF d = "escalate" THEN 1 ELSE 0)
        <4>1. /\ Times(completed[q], "escalate") \in Nat
              /\ Times(Append(completed[q], d), "escalate") =
                    Times(completed[q], "escalate")
                        + (IF d = "escalate" THEN 1 ELSE 0)
          BY <1>1, OneMore DEF Decisions
        <4>2. /\ Cardinality(Recorded(q, "escalate")) =
                    Times(completed[q], "escalate")
              /\ Cardinality(Recorded(q, "escalate"))' =
                    Times(completed'[q], "escalate")
          BY DEF Recorded, Times
        <4> QED
          BY <3>2, <4>1, <4>2
      <3>5. \A i \in DOMAIN Append(s, d) :
                Append(s, d)[i] \in Rulings => i = Len(s) + 1
        BY <3>1, <3>3
      <3>6. d \in Rulings <=> Ruled(request[q], d).status \in Terminal
        BY <1>3, <3>1 DEF Rulings, Ruling, Terminal, Decisions
      <3>7. q \in pending' <=> d \notin Rulings
        BY <1>1, <1>2, <3>6
      <3>8. d \in Rulings => Ruled(request[q], d).status = Ruling[d]
        BY <1>3 DEF Rulings, Ruling
      <3>9. /\ request[q].escalations \in Nat /\ request[q].deadline \in Nat
            /\ now' = now
        BY <1>1, <1>2 DEF Request
      <3>10. /\ \A i \in DOMAIN completed'[q] :
                   completed'[q][i] \in Rulings =>
                       /\ i = Len(completed'[q])
                       /\ request'[q].status = Ruling[completed'[q][i]]
             /\ q \in pending' <=>
                   /\ request'[q].status # "unborn"
                   /\ \A i \in DOMAIN completed'[q] : completed'[q][i] \notin Rulings
        BY <1>3, <3>1, <3>2, <3>3, <3>5, <3>7, <3>8 DEF Decisions
      <3>11. /\ request'[q].status # "unborn"
             /\ q \in pending' => request'[q].status \in {"pending", "escalated"}
        BY <1>3, <3>1, <3>2, <3>7 DEF Rulings, Ruling, Decisions
      <3>12. /\ request'[q].status = "pending" =>
                   request'[q].escalations = Cardinality(Recorded(q, "escalate"))'
             /\ \/ request'[q].escalations = Cardinality(Recorded(q, "escalate"))'
                \/ /\ request'[q].escalations =
                         Cardinality(Recorded(q, "escalate"))' + 1
                   /\ now' > request'[q].deadline
        BY <1>3, <3>1, <3>2, <3>4, <3>9 DEF Fits, Decisions
      <3> QED
        BY <2>2, <3>10, <3>11, <3>12 DEF Fits
    <2> QED
      BY <2>1, <2>2
  <1> QED
    BY <1>4, <1>5 DEF IInv

LEMMA CheckSlaBreachesKeeps ==
    ASSUME IInv, CheckSlaBreaches
    PROVE  IInv'
  <1>1. ASSUME NEW q \in Requests
        PROVE  /\ request[q] \in Request /\ request'[q] \in Request
               /\ request'[q] = IF Late(q) THEN Escalated(request[q])
                                ELSE request[q]
    <2>1. request[q] \in Request
      BY DEF IInv, TypeOK
    <2>2. Escalated(request[q]) \in Request
      BY <2>1, EscalatedRequest
    <2> QED
      BY <2>1, <2>2 DEF CheckSlaBreaches
  <1>2. TypeOK' /\ now \in Nat
    BY <1>1, ReviewAssumption
       DEF ReviewAssumption, CheckSlaBreaches, IInv, TypeOK
  <1>3. ASSUME NEW q \in Requests PROVE Fits(q)'
    <2>1. CASE ~Late(q)
      BY <1>1, <1>2, <2>1, LeftAlone DEF CheckSlaBreaches
    <2>2. CASE Late(q)
      <3>1. /\ q \in pending /\ now > request[q].deadline
            /\ request[q].status = "pending" /\ Fits(q)
        BY <2>2 DEF Late, IInv
      <3>2. /\ request'[q].status = "escalated"
            /\ request'[q].escalations = request[q].escalations + 1
            /\ request'[q].deadline = request[q].deadline
        BY <1>1, <2>2, EscalatedRequest
      <3>3. UNCHANGED <<completed, pending, now>>
        BY DEF CheckSlaBreaches
      <3>4. Recorded(q, "escalate")' = Recorded(q, "escalate")
        BY <3>3 DEF Recorded
      <3> QED
        BY <3>1, <3>2, <3>3, <3>4 DEF Fits
    <2> QED
      BY <2>1, <2>2
  <1> QED
    BY <1>2, <1>3 DEF IInv

LEMMA NextIInv == IInv /\ [Next]_vars => IInv'
  <1> SUFFICES ASSUME IInv, [Next]_vars PROVE IInv'
    OBVIOUS
  <1>1. CASE NextHour \/ UNCHANGED vars
    <2>1. /\ now \in Nat /\ now' \in Nat /\ now' >= now /\ TypeOK'
          /\ UNCHANGED <<pending, request, completed>>
      BY <1>1, ReviewAssumption
         DEF ReviewAssumption, NextHour, vars, IInv, TypeOK
    <2> QED
      BY <2>1, LeftAlone DEF IInv
  <1> QED
    BY <1>1, CreateKeeps, RecordDecisionKeeps, CheckSlaBreachesKeeps DEF Next

THEOREM Inductive == Spec => []IInv
  BY InitIInv, NextIInv, PTL DEF Spec

(* The variables of the workflow keep their types. *)
THEOREM TypeCorrect == Spec => []TypeOK
  <1>1. IInv => TypeOK
    BY DEF IInv
  <1> QED
    BY <1>1, Inductive, PTL

(* Nothing is recorded for a request after its ruling. *)
THEOREM RulingIsLastCorrect == Spec => []RulingIsLast
  <1>1. IInv => RulingIsLast
    BY DEF IInv, Fits, RulingIsLast
  <1> QED
    BY <1>1, Inductive, PTL

(* A release does not proceed while one of its requests has no ruling. *)
THEOREM HeldUntilRuledCorrect == Spec => []HeldUntilRuled
  <1>1. IInv => HeldUntilRuled
    BY DEF IInv, Fits, HeldUntilRuled, CanProceed
  <1> QED
    BY <1>1, Inductive, PTL

(* The checks escalate a request at most once, and only a late one. *)
THEOREM EscalatedOnceCorrect == Spec => []EscalatedOnce
  <1>1. IInv => EscalatedOnce
    BY DEF IInv, Fits, EscalatedOnce
  <1> QED
    BY <1>1, Inductive, PTL

(* After a check every late request that waits for a ruling is escalated. *)
THEOREM LateIsEscalatedCorrect == Spec => LateIsEscalated
  <1>1. ASSUME IInv, CheckSlaBreaches, NEW q \in pending',
               now > request[q].deadline
        PROVE  request'[q].status = "escalated"
    <2>1. /\ q \in pending /\ q \in Requests
          /\ request[q].status \in {"pending", "escalated"}
          /\ request[q] \in Request
      BY <1>1 DEF CheckSlaBreaches, IInv, TypeOK, Fits
    <2> QED
      BY <1>1, <2>1 DEF CheckSlaBreaches, Late, Escalated, Request
  <1>2. IInv =>
          [CheckSlaBreaches =>
              \A q \in pending' : now > request[q].deadline =>
                                     request'[q].status = "escalated"]_vars
    BY <1>1
  <1> QED
    BY <1>2, Inductive, PTL DEF LateIsEscalated
=============================================================================
