-------------------------- MODULE OfferWorkflow_proofs --------------------------
(***************************************************************************)
(* Proofs about OfferWorkflow, for any staff, deals, goroutines, limits    *)
(* and discounts.                                                          *)
(*                                                                         *)
(* Inv, the inductive invariant, says what a goroutine has established     *)
(* when it stands before a statement, what the rows keep, and how the two  *)
(* histories relate to them.  RowStep sums up what one step may do to the  *)
(* rows; every fact about rows is proved from it.                          *)
(***************************************************************************)
EXTENDS OfferWorkflow, FiniteSetTheorems, TLAPS

\* What a goroutine knows of what it carries, by the statement it is about to run.
Knows(r) ==
  /\ r.pc \in {"price", "lookup", "insert", "answer"} =>
       /\ r.actor \in Staff /\ r.deal \in Deals /\ r.request \in RequestIds
       /\ r.selection \in Selections /\ r.discount \in Discounts
  /\ r.pc \in {"lookup", "insert"} => r.base \in Int
  /\ r.pc \in {"answer", "submit", "decide"} => r.offer \in Offers
  /\ r.pc = "decide" => r.actor \in Supervisors /\ r.verdict \in {"approved", "rejected"}

Knowledge == \A p \in Requests : Knows(req[p])

OffersOf(d) == {o \in Offers : offers[o].deal = d}

Within(history, q, d, u) == \E m \in history[d][Role(u)] : q <= m

\* A row that is not there is blank, one that is there is of somebody's deal.
Rows ==
  \A o \in Offers :
    IF Exists(o)
    THEN /\ offers[o].deal \in Deals /\ offers[o].createdBy \in Staff
         /\ offers[o].request \in RequestIds
    ELSE offers[o] = Absent

\* The limit in force is in the history of limits, and what was calculated as
\* in no need of approval is within a limit of that history.
Limited ==
  /\ \A d \in Deals, role \in StaffRoles : limit[d][role] \in inForce[d][role]
  /\ \A p \in Requests :
       req[p].pc \in {"price", "lookup", "insert"} /\ ~req[p].required =>
         Within(inForce, req[p].discount, req[p].deal, req[p].actor)
  /\ \A o \in Offers : Exists(o) =>
       IF offers[o].required
       THEN offers[o].status = "approved" => offers[o].approvedBy \in Supervisors
       ELSE Within(inForce, offers[o].discount, offers[o].deal, offers[o].createdBy)

\* A request id has one offer at most, and who is about to answer, or has
\* answered, names that one.
OnePerRequest ==
  /\ \A o, x \in Offers :
       Exists(o) /\ Exists(x) /\ offers[o].request = offers[x].request => o = x
  /\ \A p \in Requests : req[p].pc = "answer" =>
       Exists(req[p].offer) /\ offers[req[p].offer].request = req[p].request
  /\ \A a \in answers : Exists(a.offer) /\ offers[a.offer].request = a.request

Inv ==
  /\ TypeOK /\ Knowledge /\ Rows
  /\ Limited /\ OnePerRequest /\ VersionsAreConsecutive

--------------------------------------------------------------------------------
(* What one step does to the rows.                                           *)

InsertsRow(r, o) ==
  /\ r.pc = "insert"
  /\ ~Exists(o)
  /\ Of(r.request) = {}
  /\ offers' = [offers EXCEPT ![o] = NewOfferRow(r)]

SubmitsRow(r) ==
  /\ r.pc = "submit"
  /\ offers' = [offers EXCEPT ![r.offer] = MarkPendingApproval(offers[r.offer])]

DecidesRow(r) ==
  /\ r.pc = "decide"
  /\ offers' = [offers EXCEPT ![r.offer] = Decided(offers[r.offer], r.actor, r.verdict)]

RowStep ==
  \/ offers' = offers
  \/ \E p \in Requests :
       (\E o \in Offers : InsertsRow(req[p], o)) \/ SubmitsRow(req[p]) \/ DecidesRow(req[p])

LEMMA StepOfRows == [Next]_vars => RowStep
<1> SUFFICES ASSUME [Next]_vars PROVE RowStep
  OBVIOUS
<1>1. CASE UNCHANGED vars
  BY <1>1 DEF vars, RowStep
<1>2. ASSUME NEW d \in Deals, NEW role \in StaffRoles, LimitChanges(d, role) PROVE RowStep
  BY <1>2 DEF LimitChanges, RowStep
<1>3. ASSUME NEW p \in Requests, RequestStep(p) PROVE RowStep
  <2>1. CASE Insert(p)
    BY <2>1 DEF Insert, RowStep, InsertsRow
  <2>2. CASE Submit(p)
    BY <2>2 DEF Submit, RowStep, SubmitsRow
  <2>3. CASE Decide(p)
    BY <2>3 DEF Decide, RowStep, DecidesRow
  <2>4. CASE StartCreate(p) \/ ReadPrice(p) \/ LookUp(p) \/ Answer(p)
             \/ StartSubmit(p) \/ StartDecide(p) \/ Abandon(p)
    BY <2>4 DEF StartCreate, ReadPrice, LookUp, Answer, StartSubmit, StartDecide,
                Abandon, RowStep
  <2> QED
    BY <1>3, <2>1, <2>2, <2>3, <2>4 DEF RequestStep
<1> QED
  BY <1>1, <1>2, <1>3 DEF Next

\* The number an insert computes, when the versions so far have no gap.
LEMMA NextVersionIs ==
  ASSUME VersionsAreConsecutive, NEW d \in Deals,
         NEW o \in Offers, o \notin OffersOf(d)
  PROVE  /\ IsFiniteSet(OffersOf(d))
         /\ Cardinality(OffersOf(d)) \in Nat
         /\ NextVersion(d) = Cardinality(OffersOf(d)) + 1
<1> DEFINE S == OffersOf(d)
           k == Cardinality(S)
<1>1. S \subseteq Offers /\ S # Offers
  BY DEF OffersOf
<1>2. IsFiniteSet(Offers) /\ IsFiniteSet(S)
  BY <1>1, PoolAssumption, FS_Subset
<1>3. k \in Nat /\ Cardinality(Offers) \in Nat /\ k < Cardinality(Offers)
  BY <1>1, <1>2, FS_CardinalityType, FS_Subset
<1>4. Versions(d) = 1 .. k
  BY DEF VersionsAreConsecutive, OffersOf
<1> HIDE DEF S, k
<1>5. k + 1 \in 1 .. Cardinality(Offers) + 1
  BY <1>3
<1>6. /\ \A v \in Versions(d) : v < k + 1
      /\ k + 1 = 1 \/ k + 1 - 1 \in Versions(d)
  BY <1>3, <1>4
<1>7. ASSUME NEW n \in 1 .. Cardinality(Offers) + 1,
             \A v \in Versions(d) : v < n,
             n = 1 \/ n - 1 \in Versions(d)
      PROVE  n = k + 1
  <2>1. CASE n = 1
    <3>1. k = 0
      <4>1. ASSUME k \in 1 .. k PROVE FALSE
        <5>1. k \in Versions(d)
          BY <4>1, <1>4
        <5>2. k < 1
          BY <5>1, <1>7, <2>1
        <5> QED
          BY <5>2, <4>1, <1>3
      <4> QED
        BY <4>1, <1>3
    <3> QED
      BY <3>1, <2>1
  <2>2. CASE n - 1 \in Versions(d)
    <3>1. n - 1 \in 1 .. k
      BY <2>2, <1>4
    <3>2. k \in 1 .. k
      BY <3>1, <1>3
    <3>3. k < n
      BY <3>2, <1>4, <1>7
    <3> QED
      BY <3>1, <3>3, <1>3
  <2> QED
    BY <1>7, <2>1, <2>2
<1>8. NextVersion(d) = k + 1
  BY <1>5, <1>6, <1>7 DEF NextVersion
<1> QED
  BY <1>2, <1>3, <1>8 DEF S, k

--------------------------------------------------------------------------------
(* Types, and what goroutines know.                                          *)

LEMMA BlankIsTyped == Absent \in OfferRow /\ Idle \in Request
BY NullAssumption DEF Absent, OfferRow, Idle, Request

LEMMA InvInit == Init => Inv
<1> SUFFICES ASSUME Init PROVE Inv
  OBVIOUS
<1>1. TypeOK
  <2>1. offers \in [Offers -> OfferRow] /\ req \in [Requests -> Request]
    BY BlankIsTyped DEF Init
  <2>2. inForce \in [Deals -> [StaffRoles -> SUBSET BasisPoints]]
    BY AmountsAssumption DEF Init
  <2> QED
    BY <2>1, <2>2 DEF Init, TypeOK
<1>2. \A o \in Offers : offers[o] = Absent /\ ~Exists(o)
  BY DEF Init, Absent, Exists
<1>3. \A p \in Requests : req[p].pc = "idle"
  BY DEF Init, Idle
<1>4. Knowledge /\ Rows /\ OnePerRequest
  BY <1>2, <1>3 DEF Knowledge, Knows, Rows, OnePerRequest, Init
<1>5. Limited
  BY <1>2, <1>3 DEF Limited, Init
<1>6. VersionsAreConsecutive
  <2> SUFFICES ASSUME NEW d \in Deals
               PROVE  Versions(d) = 1 .. Cardinality(OffersOf(d))
    BY DEF VersionsAreConsecutive, OffersOf
  <2>1. OffersOf(d) = {}
    BY <1>2, NullAssumption DEF OffersOf, Absent
  <2>2. Versions(d) = {}
    BY <2>1 DEF Versions, OffersOf
  <2> QED
    BY <2>1, <2>2, FS_EmptySet
<1> QED
  BY <1>1, <1>4, <1>5, <1>6 DEF Inv

LEMMA NewRowIsTyped ==
  ASSUME Inv, NEW r \in Request, Knows(r), NEW o \in Offers, InsertsRow(r, o)
  PROVE  /\ NewOfferRow(r) \in OfferRow
         /\ NewOfferRow(r).version = Cardinality(OffersOf(r.deal)) + 1
<1>1. /\ r.actor \in Staff /\ r.deal \in Deals /\ r.request \in RequestIds
      /\ r.selection \in Selections /\ r.discount \in Discounts
      /\ r.base \in Int /\ r.required \in BOOLEAN
  BY DEF Knows, InsertsRow, Request
<1>2. o \notin OffersOf(r.deal)
  BY <1>1, NullAssumption DEF Inv, Rows, InsertsRow, OffersOf, Absent
<1>3. NextVersion(r.deal) = Cardinality(OffersOf(r.deal)) + 1
      /\ NextVersion(r.deal) \in Nat
  BY <1>1, <1>2, NextVersionIs DEF Inv
<1>4. r.discount \in Nat
  <2>1. r.discount \in BasisPoints
    BY <1>1, AmountsAssumption
  <2>2. BasisPoints \subseteq Nat
    BY DEF BasisPoints
  <2> QED
    BY <2>1, <2>2
<1>5. r.base - DiscountAmount(r.base, r.discount) \in Int
  BY <1>1, <1>4 DEF DiscountAmount
<1> QED
  BY <1>1, <1>3, <1>4, <1>5 DEF NewOfferRow, OfferRow, OfferStatus

LEMMA RowsTyped == Inv /\ RowStep => offers' \in [Offers -> OfferRow]
<1> SUFFICES ASSUME Inv, RowStep PROVE offers' \in [Offers -> OfferRow]
  OBVIOUS
<1>0. offers \in [Offers -> OfferRow] /\ req \in [Requests -> Request]
  BY DEF Inv, TypeOK
<1>1. ASSUME NEW p \in Requests, NEW o \in Offers, InsertsRow(req[p], o)
      PROVE  offers' \in [Offers -> OfferRow]
  <2>1. req[p] \in Request /\ Knows(req[p])
    BY <1>0 DEF Inv, Knowledge
  <2>2. NewOfferRow(req[p]) \in OfferRow
    BY <1>1, <2>1, NewRowIsTyped
  <2> QED
    BY <1>0, <1>1, <2>2 DEF InsertsRow
<1>2. ASSUME NEW p \in Requests, SubmitsRow(req[p]) PROVE offers' \in [Offers -> OfferRow]
  <2>1. req[p].offer \in Offers
    BY <1>2 DEF Inv, Knowledge, Knows, SubmitsRow
  <2>2. MarkPendingApproval(offers[req[p].offer]) \in OfferRow
    BY <1>0, <2>1 DEF MarkPendingApproval, OfferRow, OfferStatus
  <2> QED
    BY <1>0, <1>2, <2>2 DEF SubmitsRow
<1>3. ASSUME NEW p \in Requests, DecidesRow(req[p]) PROVE offers' \in [Offers -> OfferRow]
  <2>1. /\ req[p].offer \in Offers /\ req[p].actor \in Supervisors
        /\ req[p].verdict \in {"approved", "rejected"}
    BY <1>3 DEF Inv, Knowledge, Knows, DecidesRow
  <2>2. Decided(offers[req[p].offer], req[p].actor, req[p].verdict) \in OfferRow
    <3> DEFINE row == offers[req[p].offer]
               u == req[p].actor
    <3>1. row \in OfferRow
      BY <1>0, <2>1
    <3>2. /\ [row EXCEPT !.status = "approved", !.approvedBy = u, !.rejectedBy = NULL] \in OfferRow
          /\ [row EXCEPT !.status = "rejected", !.approvedBy = NULL, !.rejectedBy = u] \in OfferRow
      BY <2>1, <3>1 DEF OfferRow, OfferStatus
    <3>3. Decided(row, u, "approved") \in OfferRow
      BY <3>1, <3>2 DEF Decided
    <3>4. Decided(row, u, "rejected") \in OfferRow
      BY <3>1, <3>2 DEF Decided
    <3> QED
      BY <2>1, <3>3, <3>4
  <2> QED
    BY <1>0, <1>3, <2>2 DEF DecidesRow
<1> QED
  BY <1>0, <1>1, <1>2, <1>3 DEF RowStep

\* Each statement leaves its goroutine with a state of its type, and with the
\* knowledge its next statement needs.
LEMMA RequestsTyped ==
  ASSUME TypeOK, Knowledge, NEW p \in Requests, RequestStep(p)
  PROVE  \E r \in Request : Knows(r) /\ req' = [req EXCEPT ![p] = r]
<1>0. req[p] \in Request /\ Knows(req[p])
  BY DEF TypeOK, Knowledge
<1>1. CASE StartCreate(p)
  <2>1. PICK c \in Callers, sel \in Selections, q \in Discounts :
          Become(p, [Idle EXCEPT !.pc = "price", !.actor = c.actor, !.deal = c.deal,
                                 !.request = c.request, !.selection = sel, !.discount = q,
                                 !.required = RequiresApproval(c.actor, c.deal, q)])
    BY <1>1 DEF StartCreate
  <2>2. c.actor \in Staff /\ c.deal \in Deals /\ c.request \in RequestIds
    BY StaffAssumption
  <2>3. RequiresApproval(c.actor, c.deal, q) \in BOOLEAN
    BY DEF RequiresApproval
  <2> QED
    BY <2>1, <2>2, <2>3 DEF Become, Idle, Request, Knows
<1>2. CASE ReadPrice(p)
  BY <1>0, <1>2, AmountsAssumption DEF ReadPrice, Become, Request, Knows
<1>3. CASE LookUp(p)
  BY <1>0, <1>3, BlankIsTyped DEF LookUp, Become, Request, Knows, Of, Idle
<1>4. CASE Insert(p)
  <2>1. PICK o \in Offers : Become(p, [req[p] EXCEPT !.pc = "answer", !.offer = o])
    BY <1>4 DEF Insert, Of
  <2> QED
    BY <1>0, <1>4, <2>1 DEF Insert, Become, Request, Knows
<1>5. CASE Answer(p) \/ Submit(p) \/ Decide(p) \/ Abandon(p)
  BY <1>5, BlankIsTyped DEF Answer, Submit, Decide, Abandon, Become, Idle, Knows
<1>6. CASE StartSubmit(p)
  <2>1. PICK u \in Staff, o \in Offers :
          req' = [req EXCEPT ![p] = [Idle EXCEPT !.pc = "submit", !.actor = u, !.offer = o]]
    BY <1>6 DEF StartSubmit, Become
  <2>2. [Idle EXCEPT !.pc = "submit", !.actor = u, !.offer = o] \in Request
    BY DEF Idle, Request
  <2> QED
    BY <2>1, <2>2 DEF Idle, Knows
<1>7. CASE StartDecide(p)
  <2>1. PICK u \in Supervisors, o \in Offers, v \in {"approved", "rejected"} :
          req' = [req EXCEPT ![p] = [Idle EXCEPT !.pc = "decide", !.actor = u,
                                                 !.offer = o, !.verdict = v]]
    BY <1>7 DEF StartDecide, Become
  <2>2. [Idle EXCEPT !.pc = "decide", !.actor = u, !.offer = o, !.verdict = v] \in Request
    BY DEF Idle, Request, Staff
  <2> QED
    BY <2>1, <2>2 DEF Idle, Knows
<1> QED
  BY <1>1, <1>2, <1>3, <1>4, <1>5, <1>6, <1>7 DEF RequestStep

LEMMA TypesKept == Inv /\ [Next]_vars => TypeOK' /\ Knowledge'
<1> SUFFICES ASSUME Inv, [Next]_vars PROVE TypeOK' /\ Knowledge'
  OBVIOUS
<1>0. TypeOK /\ Knowledge
  BY DEF Inv
<1>1. offers' \in [Offers -> OfferRow]
  BY StepOfRows, RowsTyped
<1>2. req' \in [Requests -> Request] /\ Knowledge'
  <2>1. CASE req' = req
    BY <1>0, <2>1 DEF TypeOK, Knowledge
  <2>2. ASSUME NEW p \in Requests, RequestStep(p)
        PROVE  req' \in [Requests -> Request] /\ Knowledge'
    <3>1. PICK r \in Request : Knows(r) /\ req' = [req EXCEPT ![p] = r]
      BY <1>0, <2>2, RequestsTyped
    <3>2. req \in [Requests -> Request]
      BY <1>0 DEF TypeOK
    <3>3. \A q \in Requests : req'[q] = IF q = p THEN r ELSE req[q]
      BY <3>1, <3>2
    <3>4. \A q \in Requests : Knows(req'[q])
      BY <1>0, <3>1, <3>3 DEF Knowledge
    <3> QED
      BY <3>1, <3>2, <3>4 DEF Knowledge
  <2>3. ASSUME NEW d \in Deals, NEW role \in StaffRoles, LimitChanges(d, role)
        PROVE  req' = req
    BY <2>3 DEF LimitChanges
  <2> QED
    BY <2>1, <2>2, <2>3 DEF Next, vars
<1>3. /\ limit' \in [Deals -> [StaffRoles -> Limits]]
      /\ inForce' \in [Deals -> [StaffRoles -> SUBSET BasisPoints]]
  <2>1. ASSUME NEW d \in Deals, NEW role \in StaffRoles, NEW m \in Limits,
               limit' = [limit EXCEPT ![d][role] = m],
               inForce' = [inForce EXCEPT ![d][role] = @ \cup {m}]
        PROVE  /\ limit' \in [Deals -> [StaffRoles -> Limits]]
               /\ inForce' \in [Deals -> [StaffRoles -> SUBSET BasisPoints]]
    <3>1. m \in BasisPoints
      BY AmountsAssumption
    <3> QED
      BY <1>0, <2>1, <3>1 DEF TypeOK
  <2>2. CASE UNCHANGED <<limit, inForce>>
    BY <1>0, <2>2 DEF TypeOK
  <2> QED
    BY <2>1, <2>2 DEF Next, vars, LimitChanges, RequestStep, StartCreate, ReadPrice,
      LookUp, Insert, Answer, StartSubmit, Submit, StartDecide, Decide, Abandon
<1>4. answers' \subseteq [request : RequestIds, deal : Deals, offer : Offers]
  <2>1. ASSUME NEW p \in Requests, Answer(p)
        PROVE  answers' \subseteq [request : RequestIds, deal : Deals, offer : Offers]
    BY <1>0, <2>1 DEF Answer, TypeOK, Knowledge, Knows
  <2>2. CASE UNCHANGED answers
    BY <1>0, <2>2 DEF TypeOK
  <2> QED
    BY <2>1, <2>2 DEF Next, vars, LimitChanges, RequestStep, StartCreate, ReadPrice,
      LookUp, Insert, StartSubmit, Submit, StartDecide, Decide, Abandon
<1> QED
  BY <1>1, <1>2, <1>3, <1>4 DEF TypeOK

--------------------------------------------------------------------------------
(* The rows: what a decision may change, and what an insert adds.            *)

Keeps(o) ==
  /\ offers'[o].deal = offers[o].deal
  /\ offers'[o].createdBy = offers[o].createdBy
  /\ offers'[o].request = offers[o].request
  /\ offers'[o].version = offers[o].version
  /\ offers'[o].discount = offers[o].discount
  /\ offers'[o].required = offers[o].required
  /\ offers[o].status = "absent" => offers'[o] = offers[o]
  /\ offers[o].status # "absent" => offers'[o].status # "absent"
  /\ offers[o].status # "absent" /\ offers'[o].required /\ offers'[o].status = "approved" =>
       offers'[o].approvedBy \in Supervisors

LEMMA RowEffect ==
  Inv /\ RowStep =>
    \/ \A o \in Offers : Keeps(o)
    \/ \E p \in Requests, o \in Offers : InsertsRow(req[p], o)
<1> SUFFICES ASSUME Inv, RowStep,
                    ~ \E p \in Requests, o \in Offers : InsertsRow(req[p], o),
                    NEW o \in Offers
             PROVE  Keeps(o)
  OBVIOUS
<1>0. /\ offers \in [Offers -> OfferRow]
      /\ Exists(o) /\ offers[o].required /\ offers[o].status = "approved" =>
           offers[o].approvedBy \in Supervisors
  BY DEF Inv, TypeOK, Limited
<1>1. CASE offers'[o] = offers[o]
  BY <1>0, <1>1 DEF Keeps, Exists
<1>2. ASSUME NEW p \in Requests, SubmitsRow(req[p]), o = req[p].offer PROVE Keeps(o)
  <2>1. offers'[o] = MarkPendingApproval(offers[o])
    BY <1>0, <1>2 DEF SubmitsRow
  <2> QED
    BY <1>0, <1>1, <2>1 DEF MarkPendingApproval, OfferRow, Keeps
<1>3. ASSUME NEW p \in Requests, DecidesRow(req[p]), o = req[p].offer PROVE Keeps(o)
  <2> DEFINE row == offers[o]
             u == req[p].actor
  <2>1. offers'[o] = Decided(row, u, req[p].verdict)
    BY <1>0, <1>3 DEF DecidesRow
  <2>2. u \in Supervisors /\ req[p].verdict \in {"approved", "rejected"} /\ row \in OfferRow
    BY <1>0, <1>3 DEF Inv, Knowledge, Knows, DecidesRow
  <2>3. CASE row.status = "pending_approval" /\ row.required /\ req[p].verdict = "approved"
    <3>1. offers'[o] = [row EXCEPT !.status = "approved", !.approvedBy = u, !.rejectedBy = NULL]
      BY <2>1, <2>3 DEF Decided
    <3> QED
      BY <2>2, <2>3, <3>1 DEF OfferRow, Keeps
  <2>4. CASE row.status = "pending_approval" /\ row.required /\ req[p].verdict = "rejected"
    <3>1. offers'[o] = [row EXCEPT !.status = "rejected", !.approvedBy = NULL, !.rejectedBy = u]
      BY <2>1, <2>4 DEF Decided
    <3>2. /\ offers'[o].status = "rejected" /\ offers'[o].deal = row.deal
          /\ offers'[o].createdBy = row.createdBy /\ offers'[o].request = row.request
          /\ offers'[o].version = row.version /\ offers'[o].discount = row.discount
          /\ offers'[o].required = row.required
      BY <2>2, <3>1 DEF OfferRow
    <3> QED
      BY <2>4, <3>2 DEF Keeps
  <2>5. CASE ~(row.status = "pending_approval" /\ row.required)
    BY <1>1, <2>1, <2>5 DEF Decided
  <2> QED
    BY <2>2, <2>3, <2>4, <2>5
<1>4. CASE \E p \in Requests :
             (SubmitsRow(req[p]) \/ DecidesRow(req[p])) /\ o # req[p].offer
  BY <1>0, <1>1, <1>4 DEF SubmitsRow, DecidesRow
<1>5. CASE offers' = offers
  BY <1>1, <1>5
<1> QED
  BY <1>2, <1>3, <1>4, <1>5 DEF RowStep

\* An insert adds one row; the others stay as they are.
LEMMA Inserted ==
  ASSUME Inv, NEW p \in Requests, NEW o \in Offers, InsertsRow(req[p], o)
  PROVE  /\ offers'[o] = NewOfferRow(req[p])
         /\ \A x \in Offers \ {o} : offers'[x] = offers[x]
         /\ req[p] \in Request /\ Knows(req[p])
         /\ offers[o] = Absent
         /\ offers'[o].status = IF req[p].required THEN "draft" ELSE "approved"
         /\ offers'[o].deal = req[p].deal /\ offers'[o].createdBy = req[p].actor
         /\ offers'[o].request = req[p].request /\ offers'[o].discount = req[p].discount
         /\ offers'[o].required = req[p].required
         /\ req[p].deal \in Deals /\ req[p].actor \in Staff /\ req[p].request \in RequestIds
         /\ offers'[o].version = Cardinality(OffersOf(req[p].deal)) + 1
<1>1. /\ offers \in [Offers -> OfferRow] /\ req[p] \in Request
      /\ Knows(req[p]) /\ offers[o] = Absent
  BY DEF Inv, TypeOK, Knowledge, Rows, InsertsRow
<1>2. offers'[o] = NewOfferRow(req[p]) /\ \A x \in Offers \ {o} : offers'[x] = offers[x]
  BY <1>1 DEF InsertsRow
<1>3. NewOfferRow(req[p]).version = Cardinality(OffersOf(req[p].deal)) + 1
  BY <1>1, NewRowIsTyped
<1>4. LET new == NewOfferRow(req[p])
      IN /\ new.status = IF req[p].required THEN "draft" ELSE "approved"
         /\ new.deal = req[p].deal /\ new.createdBy = req[p].actor
         /\ new.request = req[p].request /\ new.discount = req[p].discount
         /\ new.required = req[p].required
  BY DEF NewOfferRow
<1>5. req[p].deal \in Deals /\ req[p].actor \in Staff /\ req[p].request \in RequestIds
  BY <1>1 DEF Knows, InsertsRow
<1> QED
  BY <1>1, <1>2, <1>3, <1>4, <1>5

LEMMA RowsKept == Inv /\ RowStep => Rows'
<1> SUFFICES ASSUME Inv, RowStep, NEW x \in Offers
             PROVE  IF offers'[x].status # "absent"
                    THEN /\ offers'[x].deal \in Deals /\ offers'[x].createdBy \in Staff
                         /\ offers'[x].request \in RequestIds
                    ELSE offers'[x] = Absent
  BY DEF Rows, Exists
<1>0. IF offers[x].status # "absent"
      THEN /\ offers[x].deal \in Deals /\ offers[x].createdBy \in Staff
           /\ offers[x].request \in RequestIds
      ELSE offers[x] = Absent
  BY DEF Inv, Rows, Exists
<1>1. CASE \A o \in Offers : Keeps(o)
  BY <1>0, <1>1 DEF Keeps
<1>2. ASSUME NEW p \in Requests, NEW o \in Offers, InsertsRow(req[p], o)
      PROVE  IF offers'[x].status # "absent"
             THEN /\ offers'[x].deal \in Deals /\ offers'[x].createdBy \in Staff
                  /\ offers'[x].request \in RequestIds
             ELSE offers'[x] = Absent
  <2>1. CASE x = o
    BY <1>2, <2>1, Inserted
  <2>2. CASE x # o
    BY <1>0, <1>2, <2>2, Inserted
  <2> QED
    BY <2>1, <2>2
<1> QED
  BY <1>1, <1>2, RowEffect

\* The versions: an insert adds the number after the last, nothing else adds or
\* changes one.
LEMMA VersionsKept == Inv /\ RowStep => VersionsAreConsecutive'
<1> SUFFICES ASSUME Inv, RowStep, NEW d \in Deals
             PROVE  (Versions(d) = 1 .. Cardinality(OffersOf(d)))'
  BY DEF VersionsAreConsecutive, OffersOf
<1>0. Versions(d) = 1 .. Cardinality(OffersOf(d))
  BY DEF Inv, VersionsAreConsecutive, OffersOf
<1>1. ASSUME \A o \in Offers : offers'[o].deal = d => offers[o].deal = d /\ Keeps(o),
             \A o \in Offers : offers[o].deal = d => offers'[o].deal = d
      PROVE  (Versions(d) = 1 .. Cardinality(OffersOf(d)))'
  <2>1. OffersOf(d)' = OffersOf(d)
    BY <1>1 DEF OffersOf
  <2>2. \A o \in OffersOf(d) : offers'[o].version = offers[o].version
    BY <1>1 DEF OffersOf, Keeps
  <2>3. Versions(d) = {offers[o].version : o \in OffersOf(d)}
    BY DEF Versions, OffersOf
  <2>4. Versions(d)' = {offers'[o].version : o \in OffersOf(d)}
    BY <2>1 DEF Versions, OffersOf
  <2>5. Versions(d)' = Versions(d)
    BY <2>2, <2>3, <2>4
  <2> QED
    BY <1>0, <2>1, <2>5
<1>2. CASE \A o \in Offers : Keeps(o)
  BY <1>1, <1>2 DEF Keeps
<1>3. ASSUME NEW p \in Requests, NEW o \in Offers, InsertsRow(req[p], o)
      PROVE  (Versions(d) = 1 .. Cardinality(OffersOf(d)))'
  <2>1. /\ \A x \in Offers \ {o} : offers'[x] = offers[x]
        /\ offers'[o].deal = req[p].deal /\ offers[o].deal = NULL
        /\ offers'[o].version = Cardinality(OffersOf(req[p].deal)) + 1
    BY <1>3, Inserted DEF Absent
  <2>2. d # NULL
    BY NullAssumption
  <2>3. CASE d # req[p].deal
    <3>1. \A x \in Offers : offers'[x].deal = d => x # o
      BY <2>1, <2>3
    <3>2. \A x \in Offers : offers[x].deal = d => x # o
      BY <2>1, <2>2
    <3>3. OffersOf(d)' = OffersOf(d) /\ o \notin OffersOf(d)
      BY <2>1, <3>1, <3>2 DEF OffersOf
    <3>4. Versions(d) = {offers[x].version : x \in OffersOf(d)}
      BY DEF Versions, OffersOf
    <3>5. Versions(d)' = {offers'[x].version : x \in OffersOf(d)}
      BY <3>3 DEF Versions, OffersOf
    <3>6. Versions(d)' = Versions(d)
      BY <2>1, <3>3, <3>4, <3>5 DEF OffersOf
    <3> QED
      BY <1>0, <3>3, <3>6
  <2>4. CASE d = req[p].deal
    <3> DEFINE k == Cardinality(OffersOf(d))
    <3>1. o \notin OffersOf(d)
      BY <2>1, <2>2 DEF OffersOf
    <3>2. IsFiniteSet(OffersOf(d)) /\ k \in Nat
      BY <3>1, NextVersionIs DEF Inv
    <3>3. OffersOf(d)' = OffersOf(d) \cup {o}
      BY <2>1, <2>4, <3>1 DEF OffersOf
    <3>4. Cardinality(OffersOf(d) \cup {o}) = k + 1
      BY <3>1, <3>2, FS_AddElement
    <3>5. Versions(d) = {offers[x].version : x \in OffersOf(d)}
      BY DEF Versions, OffersOf
    <3>6. Versions(d)' = {offers'[x].version : x \in OffersOf(d) \cup {o}}
      BY <3>3 DEF Versions, OffersOf
    <3>7. Versions(d)' = Versions(d) \cup {k + 1}
      <4>1. Versions(d)' = {offers'[x].version : x \in OffersOf(d)} \cup {offers'[o].version}
        BY <3>6
      <4>2. \A x \in OffersOf(d) : offers'[x].version = offers[x].version
        BY <2>1, <3>1 DEF OffersOf
      <4>3. {offers'[x].version : x \in OffersOf(d)} = {offers[x].version : x \in OffersOf(d)}
        BY <4>2
      <4>4. offers'[o].version = k + 1
        BY <2>1, <2>4
      <4> QED
        BY <3>5, <4>1, <4>3, <4>4
    <3>8. (1 .. k) \cup {k + 1} = 1 .. (k + 1)
      BY <3>2
    <3> QED
      BY <1>0, <3>3, <3>4, <3>7, <3>8
  <2> QED
    BY <2>3, <2>4
<1> QED
  BY <1>2, <1>3, RowEffect

--------------------------------------------------------------------------------
(* The limits.                                                               *)

LEMMA HistoryGrows ==
  TypeOK /\ [Next]_vars =>
    \A d \in Deals, role \in StaffRoles :
      /\ inForce[d][role] \subseteq inForce'[d][role]
      /\ limit[d][role] \in inForce[d][role] => limit'[d][role] \in inForce'[d][role]
<1> SUFFICES ASSUME TypeOK, [Next]_vars, NEW d \in Deals, NEW role \in StaffRoles
             PROVE  /\ inForce[d][role] \subseteq inForce'[d][role]
                    /\ limit[d][role] \in inForce[d][role] =>
                         limit'[d][role] \in inForce'[d][role]
  OBVIOUS
<1>1. CASE UNCHANGED <<limit, inForce>>
  BY <1>1
<1>2. ASSUME NEW e \in Deals, NEW other \in StaffRoles, NEW m \in Limits,
             limit' = [limit EXCEPT ![e][other] = m],
             inForce' = [inForce EXCEPT ![e][other] = @ \cup {m}]
      PROVE  /\ inForce[d][role] \subseteq inForce'[d][role]
             /\ limit[d][role] \in inForce[d][role] =>
                  limit'[d][role] \in inForce'[d][role]
  <2>1. CASE d = e /\ role = other
    BY <1>2, <2>1 DEF TypeOK
  <2>2. CASE ~(d = e /\ role = other)
    BY <1>2, <2>2 DEF TypeOK
  <2> QED
    BY <2>1, <2>2
<1> QED
  BY <1>1, <1>2 DEF Next, vars, LimitChanges, RequestStep, StartCreate, ReadPrice,
    LookUp, Insert, Answer, StartSubmit, Submit, StartDecide, Decide, Abandon

Creating(r) == r.pc \in {"price", "lookup", "insert"}

\* A goroutine that creates carries on what it calculated, or has just calculated
\* it from the limit now in force.
LEMMA CalculationKept ==
  Inv /\ [Next]_vars =>
    \A p \in Requests : Creating(req'[p]) =>
      \/ /\ Creating(req[p])
         /\ req'[p].required = req[p].required /\ req'[p].discount = req[p].discount
         /\ req'[p].deal = req[p].deal /\ req'[p].actor = req[p].actor
      \/ req'[p].required =
           (req'[p].discount > limit[req'[p].deal][Role(req'[p].actor)])
<1> SUFFICES ASSUME Inv, [Next]_vars, NEW p \in Requests, Creating(req'[p])
             PROVE  \/ /\ Creating(req[p])
                       /\ req'[p].required = req[p].required
                       /\ req'[p].discount = req[p].discount
                       /\ req'[p].deal = req[p].deal /\ req'[p].actor = req[p].actor
                    \/ req'[p].required =
                         (req'[p].discount > limit[req'[p].deal][Role(req'[p].actor)])
  OBVIOUS
<1>0. req \in [Requests -> Request]
  BY DEF Inv, TypeOK
<1>1. CASE req'[p] = req[p]
  BY <1>1
<1>2. ASSUME NEW q \in Requests, RequestStep(q), q # p PROVE req'[p] = req[p]
  <2>1. \E r \in Request : req' = [req EXCEPT ![q] = r]
    BY <1>2, RequestsTyped DEF Inv
  <2> QED
    BY <1>0, <1>2, <2>1
<1>3. CASE StartCreate(p)
  <2>1. PICK c \in Callers, sel \in Selections, x \in Discounts :
          req' = [req EXCEPT ![p] =
                   [Idle EXCEPT !.pc = "price", !.actor = c.actor, !.deal = c.deal,
                                !.request = c.request, !.selection = sel, !.discount = x,
                                !.required = RequiresApproval(c.actor, c.deal, x)]]
    BY <1>3 DEF StartCreate, Become
  <2>2. /\ req'[p].required = RequiresApproval(c.actor, c.deal, x)
        /\ req'[p].discount = x /\ req'[p].deal = c.deal /\ req'[p].actor = c.actor
    BY <1>0, <2>1 DEF Idle
  <2> QED
    BY <2>2 DEF RequiresApproval
<1>4. CASE ReadPrice(p)
  <2>1. PICK m \in Prices : req' = [req EXCEPT ![p] = [req[p] EXCEPT !.pc = "lookup", !.base = m]]
    BY <1>4 DEF ReadPrice, Become
  <2> QED
    BY <1>0, <1>4, <2>1 DEF ReadPrice, Creating, Request
<1>5. CASE LookUp(p)
  <2>1. \/ req' = [req EXCEPT ![p] = [req[p] EXCEPT !.pc = "insert"]]
        \/ \E o \in Offers : req' = [req EXCEPT ![p] = [req[p] EXCEPT !.pc = "answer", !.offer = o]]
        \/ req' = [req EXCEPT ![p] = Idle]
    BY <1>5 DEF LookUp, Become, Of
  <2>2. CASE req' = [req EXCEPT ![p] = [req[p] EXCEPT !.pc = "insert"]]
    BY <1>0, <1>5, <2>2 DEF LookUp, Creating, Request
  <2>3. ASSUME NEW o \in Offers,
               req' = [req EXCEPT ![p] = [req[p] EXCEPT !.pc = "answer", !.offer = o]]
        PROVE  FALSE
    <3>1. req'[p].pc = "answer"
      BY <1>0, <2>3 DEF Request
    <3> QED
      BY <3>1 DEF Creating
  <2>4. CASE req' = [req EXCEPT ![p] = Idle]
    BY <1>0, <2>4 DEF Idle, Creating
  <2> QED
    BY <2>1, <2>2, <2>3, <2>4
<1>6. ASSUME Insert(p) PROVE FALSE
  <2>1. PICK o \in Offers : req' = [req EXCEPT ![p] = [req[p] EXCEPT !.pc = "answer", !.offer = o]]
    BY <1>6 DEF Insert, Of, Become
  <2>2. req'[p].pc = "answer"
    BY <1>0, <2>1 DEF Request
  <2> QED
    BY <2>2 DEF Creating
<1>7. ASSUME Answer(p) \/ Submit(p) \/ Decide(p) \/ Abandon(p) PROVE FALSE
  BY <1>0, <1>7 DEF Answer, Submit, Decide, Abandon, Become, Idle, Creating
<1>8. ASSUME StartSubmit(p) \/ StartDecide(p) PROVE FALSE
  <2>1. CASE StartSubmit(p)
    <3>1. PICK u \in Staff, o \in Offers :
            req' = [req EXCEPT ![p] = [Idle EXCEPT !.pc = "submit", !.actor = u, !.offer = o]]
      BY <2>1 DEF StartSubmit, Become
    <3> QED
      BY <1>0, <3>1 DEF Creating, Idle
  <2>2. CASE StartDecide(p)
    <3>1. PICK u \in Supervisors, o \in Offers, v \in {"approved", "rejected"} :
            req' = [req EXCEPT ![p] = [Idle EXCEPT !.pc = "decide", !.actor = u,
                                                   !.offer = o, !.verdict = v]]
      BY <2>2 DEF StartDecide, Become
    <3> QED
      BY <1>0, <3>1 DEF Creating, Idle
  <2> QED
    BY <1>8, <2>1, <2>2
<1>9. CASE \E d \in Deals, role \in StaffRoles : LimitChanges(d, role)
  BY <1>1, <1>9 DEF LimitChanges
<1> QED
  BY <1>1, <1>2, <1>3, <1>4, <1>5, <1>6, <1>7, <1>8, <1>9 DEF Next, vars, RequestStep

LEMMA LimitedKept == Inv /\ [Next]_vars => Limited'
<1> SUFFICES ASSUME Inv, [Next]_vars PROVE Limited'
  OBVIOUS
<1>0. TypeOK /\ Limited /\ TypeOK' /\ Knowledge'
  BY TypesKept DEF Inv
<1>1. \A d \in Deals, role \in StaffRoles :
        inForce[d][role] \subseteq inForce'[d][role] /\ limit'[d][role] \in inForce'[d][role]
  BY <1>0, HistoryGrows DEF Limited
<1>2. \A u \in Staff : Role(u) \in StaffRoles
  BY DEF Role, StaffRoles
<1>4. \A q : \A d \in Deals, u \in Staff : Within(inForce, q, d, u) => Within(inForce', q, d, u)
  BY <1>1, <1>2 DEF Within, Role
<1>5. ASSUME NEW p \in Requests, Creating(req'[p]), ~req'[p].required
      PROVE  Within(inForce', req'[p].discount, req'[p].deal, req'[p].actor)
  <2> DEFINE q == req'[p].discount
             d == req'[p].deal
             u == req'[p].actor
  <2>1. q \in Discounts /\ d \in Deals /\ u \in Staff
    BY <1>0, <1>5 DEF Knowledge, Knows, Creating
  <2>2. Within(inForce, q, d, u)
    <3>1. CASE /\ Creating(req[p])
               /\ req'[p].required = req[p].required /\ req'[p].discount = req[p].discount
               /\ req'[p].deal = req[p].deal /\ req'[p].actor = req[p].actor
      BY <1>0, <1>5, <3>1 DEF Limited, Creating
    <3>2. CASE req'[p].required = (q > limit[d][Role(u)])
      <4>1. limit[d][Role(u)] \in inForce[d][Role(u)] /\ limit[d][Role(u)] \in Limits
        BY <1>0, <1>2, <2>1 DEF Limited, TypeOK
      <4>2. q \in BasisPoints /\ limit[d][Role(u)] \in BasisPoints
        BY <2>1, <4>1, AmountsAssumption
      <4>3. q \in Int /\ limit[d][Role(u)] \in Int
        <5>1. BasisPoints \subseteq Int
          BY DEF BasisPoints
        <5> QED
          BY <4>2, <5>1
      <4>4. q <= limit[d][Role(u)]
        <5>1. ~(q > limit[d][Role(u)])
          BY <1>5, <3>2
        <5> QED
          BY <4>3, <5>1
      <4> QED
        BY <4>1, <4>4 DEF Within
    <3> QED
      BY <1>5, <3>1, <3>2, CalculationKept
  <2> QED
    BY <1>4, <2>1, <2>2
<1>6. ASSUME NEW x \in Offers, offers'[x].status # "absent"
      PROVE  IF offers'[x].required
             THEN offers'[x].status = "approved" => offers'[x].approvedBy \in Supervisors
             ELSE Within(inForce', offers'[x].discount, offers'[x].deal, offers'[x].createdBy)
  <2>1. CASE offers[x].status # "absent" /\ Keeps(x)
    <3>1. offers[x].deal \in Deals /\ offers[x].createdBy \in Staff
      BY <2>1 DEF Inv, Rows, Exists
    <3>2. ~offers[x].required => Within(inForce, offers[x].discount, offers[x].deal, offers[x].createdBy)
      BY <1>0, <2>1 DEF Limited, Exists
    <3> QED
      BY <1>4, <2>1, <3>1, <3>2 DEF Keeps
  <2>2. ASSUME NEW p \in Requests, NEW o \in Offers, InsertsRow(req[p], o)
        PROVE  IF offers'[x].required
               THEN offers'[x].status = "approved" => offers'[x].approvedBy \in Supervisors
               ELSE Within(inForce', offers'[x].discount, offers'[x].deal, offers'[x].createdBy)
    <3>1. CASE x = o
      <4>1. offers'[x].required => offers'[x].status # "approved"
        BY <2>2, <3>1, Inserted
      <4>2. ~offers'[x].required =>
              Within(inForce, offers'[x].discount, offers'[x].deal, offers'[x].createdBy)
        <5>1. ~req[p].required => Within(inForce, req[p].discount, req[p].deal, req[p].actor)
          BY <1>0, <2>2 DEF Limited, InsertsRow
        <5> QED
          BY <2>2, <3>1, <5>1, Inserted
      <4>3. offers'[x].deal \in Deals /\ offers'[x].createdBy \in Staff
        BY <2>2, <3>1, Inserted
      <4> QED
        BY <1>4, <4>1, <4>2, <4>3
    <3>2. CASE x # o
      <4>1. offers'[x] = offers[x]
        BY <2>2, <3>2, Inserted
      <4>2. offers[x].deal \in Deals /\ offers[x].createdBy \in Staff
        BY <1>6, <4>1 DEF Inv, Rows, Exists
      <4>3. IF offers[x].required
            THEN offers[x].status = "approved" => offers[x].approvedBy \in Supervisors
            ELSE Within(inForce, offers[x].discount, offers[x].deal, offers[x].createdBy)
        BY <1>0, <1>6, <4>1 DEF Limited, Exists
      <4> QED
        BY <1>4, <4>1, <4>2, <4>3
    <3> QED
      BY <3>1, <3>2
  <2>3. CASE \A o \in Offers : Keeps(o)
    BY <1>6, <2>1, <2>3 DEF Keeps
  <2> QED
    BY <2>2, <2>3, StepOfRows, RowEffect
<1> QED
  BY <1>1, <1>5, <1>6 DEF Limited, Exists, Creating

--------------------------------------------------------------------------------
(* Request ids.                                                              *)

\* A row that exists goes on to, with its request id.
LEMMA RowsStay ==
  Inv /\ [Next]_vars =>
    \A o \in Offers : Exists(o) =>
      offers'[o].status # "absent" /\ offers'[o].request = offers[o].request
<1> SUFFICES ASSUME Inv, [Next]_vars, NEW x \in Offers, offers[x].status # "absent"
             PROVE  offers'[x].status # "absent" /\ offers'[x].request = offers[x].request
  BY DEF Exists
<1>1. CASE \A o \in Offers : Keeps(o)
  BY <1>1 DEF Keeps
<1>2. ASSUME NEW p \in Requests, NEW o \in Offers, InsertsRow(req[p], o)
      PROVE  offers'[x].status # "absent" /\ offers'[x].request = offers[x].request
  <2>1. x # o
    BY <1>2 DEF InsertsRow, Exists
  <2> QED
    BY <1>2, <2>1, Inserted
<1> QED
  BY <1>1, <1>2, StepOfRows, RowEffect

\* Whoever gets to its answer has found, or inserted, the offer of its request id.
LEMMA FoundOrInserted ==
  Inv /\ [Next]_vars =>
    \A p \in Requests : req'[p].pc = "answer" =>
      offers'[req'[p].offer].status # "absent" /\ offers'[req'[p].offer].request = req'[p].request
<1> SUFFICES ASSUME Inv, [Next]_vars, NEW p \in Requests, req'[p].pc = "answer"
             PROVE  /\ offers'[req'[p].offer].status # "absent"
                    /\ offers'[req'[p].offer].request = req'[p].request
  OBVIOUS
<1>0. req \in [Requests -> Request] /\ offers \in [Offers -> OfferRow]
  BY DEF Inv, TypeOK
<1>1. CASE req'[p] = req[p]
  <2>1. req[p].offer \in Offers /\ Exists(req[p].offer)
        /\ offers[req[p].offer].request = req[p].request
    BY <1>1 DEF Inv, OnePerRequest, Knowledge, Knows
  <2> QED
    BY <1>1, <2>1, RowsStay
<1>2. ASSUME NEW q \in Requests, RequestStep(q), q # p PROVE req'[p] = req[p]
  <2>1. \E r \in Request : req' = [req EXCEPT ![q] = r]
    BY <1>2, RequestsTyped DEF Inv
  <2> QED
    BY <1>0, <1>2, <2>1
<1>3. CASE LookUp(p)
  <2>1. CASE req' = [req EXCEPT ![p] = [req[p] EXCEPT !.pc = "insert"]]
    BY <1>0, <2>1 DEF Request
  <2>2. CASE req' = [req EXCEPT ![p] = Idle]
    BY <1>0, <2>2 DEF Idle
  <2>3. ASSUME NEW o \in Of(req[p].request),
               req' = [req EXCEPT ![p] = [req[p] EXCEPT !.pc = "answer", !.offer = o]]
        PROVE  /\ offers'[req'[p].offer].status # "absent"
               /\ offers'[req'[p].offer].request = req'[p].request
    <3>1. req'[p].offer = o /\ req'[p].request = req[p].request
      BY <1>0, <2>3 DEF Request
    <3>2. o \in Offers /\ offers[o].request = req[p].request
      BY <2>3 DEF Of
    <3>3. req[p].request \in RequestIds
      BY <1>3 DEF Inv, Knowledge, Knows, LookUp
    <3>4. Exists(o)
      BY <3>2, <3>3, NullAssumption DEF Inv, Rows, Absent
    <3> QED
      BY <3>1, <3>2, <3>4, RowsStay
  <2> QED
    BY <1>3, <2>1, <2>2, <2>3 DEF LookUp, Become
<1>4. CASE Insert(p)
  <2>1. ASSUME NEW o \in Offers, InsertsRow(req[p], o),
               req' = [req EXCEPT ![p] = [req[p] EXCEPT !.pc = "answer", !.offer = o]]
        PROVE  /\ offers'[req'[p].offer].status # "absent"
               /\ offers'[req'[p].offer].request = req'[p].request
    <3>1. req'[p].offer = o /\ req'[p].request = req[p].request
      BY <1>0, <2>1 DEF Request
    <3> QED
      BY <2>1, <3>1, Inserted
  <2>2. ASSUME NEW o \in Of(req[p].request),
               req' = [req EXCEPT ![p] = [req[p] EXCEPT !.pc = "answer", !.offer = o]]
        PROVE  /\ offers'[req'[p].offer].status # "absent"
               /\ offers'[req'[p].offer].request = req'[p].request
    <3>1. req'[p].offer = o /\ req'[p].request = req[p].request
      BY <1>0, <2>2 DEF Request
    <3>2. o \in Offers /\ offers[o].request = req[p].request
      BY <2>2 DEF Of
    <3>3. req[p].request \in RequestIds
      BY <1>4 DEF Inv, Knowledge, Knows, Insert
    <3>4. Exists(o)
      BY <3>2, <3>3, NullAssumption DEF Inv, Rows, Absent
    <3> QED
      BY <3>1, <3>2, <3>4, RowsStay
  <2> QED
    BY <1>4, <2>1, <2>2 DEF Insert, InsertsRow, Become
<1>5. ASSUME StartCreate(p) \/ ReadPrice(p) PROVE FALSE
  <2>1. CASE StartCreate(p)
    <3>1. \E r : req' = [req EXCEPT ![p] = r] /\ r.pc = "price"
      BY <2>1 DEF StartCreate, Become, Idle
    <3> QED
      BY <1>0, <3>1
  <2>2. CASE ReadPrice(p)
    <3>1. \E m \in Prices : req' = [req EXCEPT ![p] = [req[p] EXCEPT !.pc = "lookup", !.base = m]]
      BY <2>2 DEF ReadPrice, Become
    <3> QED
      BY <1>0, <3>1 DEF Request
  <2> QED
    BY <1>5, <2>1, <2>2
<1>6. ASSUME Answer(p) \/ Submit(p) \/ Decide(p) \/ Abandon(p) PROVE FALSE
  BY <1>0, <1>6 DEF Answer, Submit, Decide, Abandon, Become, Idle
<1>7. ASSUME StartSubmit(p) \/ StartDecide(p) PROVE FALSE
  <2>1. CASE StartSubmit(p)
    <3>1. PICK u \in Staff, o \in Offers :
            req' = [req EXCEPT ![p] = [Idle EXCEPT !.pc = "submit", !.actor = u, !.offer = o]]
      BY <2>1 DEF StartSubmit, Become
    <3> QED
      BY <1>0, <3>1 DEF Idle
  <2>2. CASE StartDecide(p)
    <3>1. PICK u \in Supervisors, o \in Offers, v \in {"approved", "rejected"} :
            req' = [req EXCEPT ![p] = [Idle EXCEPT !.pc = "decide", !.actor = u,
                                                   !.offer = o, !.verdict = v]]
      BY <2>2 DEF StartDecide, Become
    <3> QED
      BY <1>0, <3>1 DEF Idle
  <2> QED
    BY <1>7, <2>1, <2>2
<1>8. CASE \E d \in Deals, role \in StaffRoles : LimitChanges(d, role)
  BY <1>1, <1>8 DEF LimitChanges
<1> QED
  BY <1>1, <1>2, <1>3, <1>4, <1>5, <1>6, <1>7, <1>8 DEF Next, vars, RequestStep

LEMMA OnePerRequestKept == Inv /\ [Next]_vars => OnePerRequest'
<1> SUFFICES ASSUME Inv, [Next]_vars PROVE OnePerRequest'
  OBVIOUS
<1>0. TypeOK /\ Knowledge /\ OnePerRequest
  BY DEF Inv
<1>1. \A x, y \in Offers :
        offers'[x].status # "absent" /\ offers'[y].status # "absent"
        /\ offers'[x].request = offers'[y].request => x = y
  <2>1. CASE \A o \in Offers : Keeps(o)
    BY <1>0, <2>1 DEF OnePerRequest, Exists, Keeps, Inv, Rows, Absent
  <2>2. ASSUME NEW p \in Requests, NEW o \in Offers, InsertsRow(req[p], o)
        PROVE  \A x, y \in Offers :
                 offers'[x].status # "absent" /\ offers'[y].status # "absent"
                 /\ offers'[x].request = offers'[y].request => x = y
    <3>1. /\ \A x \in Offers \ {o} : offers'[x] = offers[x]
          /\ offers'[o].request = req[p].request
      BY <2>2, Inserted
    <3>2. \A x \in Offers : offers[x].request # req[p].request
      BY <2>2 DEF InsertsRow, Of
    <3> QED
      BY <1>0, <3>1, <3>2 DEF OnePerRequest, Exists
  <2> QED
    BY <2>1, <2>2, StepOfRows, RowEffect
<1>2. ASSUME NEW a \in answers'
      PROVE  offers'[a.offer].status # "absent" /\ offers'[a.offer].request = a.request
  <2>1. CASE a \in answers
    <3>1. a.offer \in Offers /\ Exists(a.offer) /\ offers[a.offer].request = a.request
      BY <1>0, <2>1 DEF OnePerRequest, TypeOK
    <3> QED
      BY <3>1, RowsStay
  <2>2. ASSUME NEW p \in Requests, req[p].pc = "answer",
               a = [request |-> req[p].request, deal |-> req[p].deal, offer |-> req[p].offer]
        PROVE  offers'[a.offer].status # "absent" /\ offers'[a.offer].request = a.request
    <3>1. req[p].offer \in Offers /\ Exists(req[p].offer)
          /\ offers[req[p].offer].request = req[p].request
      BY <1>0, <2>2 DEF OnePerRequest, Knowledge, Knows
    <3>2. a.offer = req[p].offer /\ a.request = req[p].request
      BY <2>2
    <3> QED
      BY <3>1, <3>2, RowsStay
  <2>3. a \in answers \/ \E p \in Requests :
          /\ req[p].pc = "answer"
          /\ a = [request |-> req[p].request, deal |-> req[p].deal, offer |-> req[p].offer]
    <3>1. ASSUME NEW p \in Requests, Answer(p)
          PROVE  a \in answers \/ \E q \in Requests :
            /\ req[q].pc = "answer"
            /\ a = [request |-> req[q].request, deal |-> req[q].deal, offer |-> req[q].offer]
      BY <1>2, <3>1 DEF Answer
    <3>2. CASE UNCHANGED answers
      BY <1>2, <3>2
    <3> QED
      BY <3>1, <3>2 DEF Next, vars, LimitChanges, RequestStep, StartCreate, ReadPrice,
        LookUp, Insert, StartSubmit, Submit, StartDecide, Decide, Abandon
  <2> QED
    BY <2>1, <2>2, <2>3
<1> QED
  BY <1>1, <1>2, FoundOrInserted DEF OnePerRequest, Exists

LEMMA InvNext == Inv /\ [Next]_vars => Inv'
BY TypesKept, StepOfRows, RowsKept, LimitedKept, OnePerRequestKept, VersionsKept DEF Inv

LEMMA InvAlways == Spec => []Inv
BY InvInit, InvNext, PTL DEF Spec

--------------------------------------------------------------------------------
(* Theorems.                                                                 *)

\* Every row and every goroutine of the offer service is of its type.
THEOREM TypeCorrect == Spec => []TypeOK
<1>1. Inv => TypeOK
  BY DEF Inv
<1> QED
  BY <1>1, InvAlways, PTL

\* No interleaving of calculations, inserts, approvals and policy changes puts an
\* offer in force that no limit of its creator's role allowed and no supervisor
\* approved.
THEOREM EntitledAlways == Spec => []EntitledApproval
<1>1. Inv => EntitledApproval
  <2> SUFFICES ASSUME Inv, NEW o \in Offers, offers[o].status = "approved"
               PROVE  \/ \E m \in inForce[offers[o].deal][Role(offers[o].createdBy)] :
                           offers[o].discount <= m
                      \/ offers[o].approvedBy \in Supervisors
    BY DEF EntitledApproval
  <2>1. Exists(o)
    BY DEF Exists
  <2> QED
    BY <2>1 DEF Inv, Limited, Within
<1> QED
  BY <1>1, InvAlways, PTL

\* The versions of a deal's offers have no gap and no repetition, however many
\* offers, goroutines and failed inserts there are.
THEOREM VersionsAlways == Spec => []VersionsAreConsecutive
<1>1. Inv => VersionsAreConsecutive
  BY DEF Inv
<1> QED
  BY <1>1, InvAlways, PTL

\* A creation repeated under its request id is answered with one offer.
THEOREM AnswersAlwaysAgree == Spec => []AnswersAgree
<1>1. Inv => AnswersAgree
  <2> SUFFICES ASSUME Inv, NEW a \in answers, NEW b \in answers, a.request = b.request
               PROVE  a.offer = b.offer /\ Exists(a.offer)
    BY DEF AnswersAgree
  <2>1. a.offer \in Offers /\ b.offer \in Offers
    BY DEF Inv, TypeOK
  <2> QED
    BY <2>1 DEF Inv, OnePerRequest
<1> QED
  BY <1>1, InvAlways, PTL

--------------------------------------------------------------------------------
(* The rows implement OfferLifecycle.                                        *)

StageOf == [o \in Offers |-> offers[o].status]
RequestOf == [o \in Offers |-> offers[o].request]
RequiredOf == [o \in Offers |-> offers[o].required]
DeciderOf ==
  [o \in Offers |-> IF offers[o].approvedBy # NULL
                    THEN offers[o].approvedBy ELSE offers[o].rejectedBy]

LEMMA InitRefines == Init => Life!Init
BY DEF Init, Life!Init, Absent

LEMMA StepRefines == Inv /\ [Next]_vars => [Life!Next]_(Life!vars)
<1> SUFFICES ASSUME Inv, RowStep
             PROVE  Life!Next \/ UNCHANGED <<StageOf, RequestOf, RequiredOf, DeciderOf>>
  BY StepOfRows DEF Life!vars, StageOf, RequestOf, RequiredOf, DeciderOf
<1>0. offers \in [Offers -> OfferRow] /\ req \in [Requests -> Request]
      /\ offers' \in [Offers -> OfferRow]
  BY RowsTyped DEF Inv, TypeOK
<1>1. CASE offers' = offers
  BY <1>1 DEF StageOf, RequestOf, RequiredOf, DeciderOf
<1>2. ASSUME NEW p \in Requests, NEW o \in Offers, InsertsRow(req[p], o)
      PROVE  Life!Next
  <2> DEFINE r == req[p]
             new == NewOfferRow(r)
  <2>1. /\ offers' = [offers EXCEPT ![o] = new] /\ offers[o] = Absent
        /\ r.request \in RequestIds /\ r.required \in BOOLEAN
        /\ \A x \in Offers : offers[x].request # r.request
    BY <1>2, Inserted DEF InsertsRow, Of, Request
  <2>2. /\ new.status = (IF r.required THEN "draft" ELSE "approved")
        /\ new.request = r.request /\ new.required = r.required
        /\ new.approvedBy = NULL /\ new.rejectedBy = NULL
    BY DEF NewOfferRow
  <2> HIDE DEF new
  <2>3. StageOf' = [StageOf EXCEPT ![o] = IF r.required THEN "draft" ELSE "approved"]
    BY <1>0, <2>1, <2>2 DEF StageOf
  <2>4. RequestOf' = [RequestOf EXCEPT ![o] = r.request]
    BY <1>0, <2>1, <2>2 DEF RequestOf
  <2>5. RequiredOf' = [RequiredOf EXCEPT ![o] = r.required]
    BY <1>0, <2>1, <2>2 DEF RequiredOf
  <2>6. DeciderOf' = DeciderOf
    BY <1>0, <2>1, <2>2 DEF DeciderOf, Absent
  <2>7. StageOf[o] = "absent" /\ \A x \in Offers : RequestOf[x] # r.request
    BY <2>1 DEF StageOf, RequestOf, Absent
  <2>8. PICK id \in RequestIds, needed \in BOOLEAN : id = r.request /\ needed = r.required
    BY <2>1
  <2>9. Life!Create(o, id, needed)
    BY <2>3, <2>4, <2>5, <2>6, <2>7, <2>8
      DEF Life!Create, Life!Exists, StageOf, RequestOf, RequiredOf, DeciderOf
  <2> QED
    BY <2>9 DEF Life!Next
<1>3. ASSUME NEW p \in Requests, SubmitsRow(req[p])
      PROVE  Life!Next \/ UNCHANGED <<StageOf, RequestOf, RequiredOf, DeciderOf>>
  <2>1. PICK o \in Offers : o = req[p].offer
    BY <1>3 DEF Inv, Knowledge, Knows, SubmitsRow
  <2> DEFINE row == offers[o]
  <2>0. row \in OfferRow
    BY <1>0
  <2>2. CASE row.status = "draft" /\ row.required
    <3>1. offers' = [offers EXCEPT ![o] = [row EXCEPT !.status = "pending_approval"]]
      BY <1>3, <2>1, <2>2 DEF SubmitsRow, MarkPendingApproval
    <3>2. /\ StageOf' = [StageOf EXCEPT ![o] = "pending_approval"]
          /\ StageOf[o] = "draft"
      BY <1>0, <2>0, <2>2, <3>1 DEF StageOf, OfferRow
    <3>3. RequestOf' = RequestOf /\ RequiredOf' = RequiredOf
      BY <1>0, <2>0, <3>1 DEF RequestOf, RequiredOf, OfferRow
    <3>4. DeciderOf' = DeciderOf
      BY <1>0, <2>0, <3>1 DEF DeciderOf, OfferRow
    <3>5. Life!Submit(o)
      BY <3>2, <3>3, <3>4 DEF Life!Submit, StageOf, RequestOf, RequiredOf, DeciderOf
    <3> QED
      BY <3>5 DEF Life!Next
  <2>3. CASE ~(row.status = "draft" /\ row.required)
    <3>1. offers' = offers
      BY <1>0, <1>3, <2>1, <2>3 DEF SubmitsRow, MarkPendingApproval
    <3> QED
      BY <1>1, <3>1
  <2> QED
    BY <2>2, <2>3
<1>4. ASSUME NEW p \in Requests, DecidesRow(req[p])
      PROVE  Life!Next \/ UNCHANGED <<StageOf, RequestOf, RequiredOf, DeciderOf>>
  <2>0. PICK o \in Offers, u \in Supervisors, v \in {"approved", "rejected"} :
          o = req[p].offer /\ u = req[p].actor /\ v = req[p].verdict
    BY <1>4 DEF Inv, Knowledge, Knows, DecidesRow
  <2> DEFINE row == offers[o]
  <2>1. row \in OfferRow /\ u # NULL
    BY <1>0, NullAssumption DEF Staff
  <2>2. CASE row.status = "pending_approval" /\ row.required
    <3> DEFINE new == [row EXCEPT !.status = v,
                                  !.approvedBy = IF v = "approved" THEN u ELSE NULL,
                                  !.rejectedBy = IF v = "rejected" THEN u ELSE NULL]
    <3>1. offers' = [offers EXCEPT ![o] = new]
      BY <1>4, <2>0, <2>2 DEF DecidesRow, Decided
    <3>2. /\ new.status = v /\ new.request = row.request /\ new.required = row.required
          /\ new.approvedBy = (IF v = "approved" THEN u ELSE NULL)
          /\ new.rejectedBy = (IF v = "rejected" THEN u ELSE NULL)
      BY <2>1 DEF OfferRow
    <3> HIDE DEF new
    <3>3. StageOf' = [StageOf EXCEPT ![o] = v] /\ StageOf[o] = "pending_approval"
      BY <1>0, <2>1, <2>2, <3>1, <3>2 DEF StageOf
    <3>4. RequestOf' = RequestOf /\ RequiredOf' = RequiredOf
      BY <1>0, <2>1, <3>1, <3>2 DEF RequestOf, RequiredOf
    <3>5. (IF new.approvedBy # NULL THEN new.approvedBy ELSE new.rejectedBy) = u
      BY <2>1, <3>2
    <3>6. DeciderOf' = [DeciderOf EXCEPT ![o] = u]
      BY <1>0, <2>1, <3>1, <3>5 DEF DeciderOf
    <3>7. Life!Decide(o, u, v)
      BY <3>3, <3>4, <3>6 DEF Life!Decide, StageOf, RequestOf, RequiredOf, DeciderOf
    <3> QED
      BY <3>7 DEF Life!Next
  <2>3. CASE ~(row.status = "pending_approval" /\ row.required)
    <3>1. offers' = offers
      BY <1>0, <1>4, <2>0, <2>3 DEF DecidesRow, Decided
    <3> QED
      BY <1>1, <3>1
  <2> QED
    BY <2>2, <2>3
<1> QED
  BY <1>1, <1>2, <1>3, <1>4 DEF RowStep

\* The offer service implements the abstract offers: whatever a handler read
\* before its UPDATE, every step of the rows is a step of OfferLifecycle or none.
THEOREM LifecycleKept == Spec => KeepsLifecycle
BY InvAlways, InitRefines, StepRefines, PTL DEF Spec, KeepsLifecycle, Life!Spec
--------------------------------------------------------------------------------
(* Amounts.                                                                  *)

LEMMA ProductGrows ==
  ASSUME NEW a \in Nat, NEW x \in Nat, NEW y \in Nat, x <= y
  PROVE  /\ a * x \in Nat /\ a * y \in Nat
         /\ a * x <= a * y
<1>1. a * x \in Nat /\ a * y \in Nat
  OBVIOUS
<1>2. y - x \in Nat /\ a * (y - x) \in Nat
  OBVIOUS
<1>3. a * (y - x) = a * y - a * x
  OBVIOUS
<1> QED
  BY <1>1, <1>2, <1>3

\* roundedRatio (service/offer.go:466) rounds to the nearest kopeck, halves up: the amount is
\* between nothing and the price, within half a kopeck of the exact one, and no smaller for
\* a larger discount.
THEOREM DiscountIsRounded ==
  ASSUME NEW base \in Nat, NEW q \in BasisPoints, NEW s \in BasisPoints, q <= s
  PROVE  /\ DiscountAmount(base, q) \in 0 .. base
         /\ 10000 * DiscountAmount(base, q) - base * q <= 5000
         /\ base * q - 10000 * DiscountAmount(base, q) < 5000
         /\ DiscountAmount(base, q) <= DiscountAmount(base, s)
<1>1. q \in Nat /\ s \in Nat /\ q <= 10000
  BY DEF BasisPoints
<1>2. /\ base * q \in Nat /\ base * s \in Nat /\ base * q <= base * s
      /\ base * q <= base * 10000
  BY <1>1, ProductGrows
<1>3. PICK x \in Nat : x = base * q
  BY <1>2
<1>4. PICK y \in Nat : y = base * s
  BY <1>2
<1>5. x <= y /\ x <= 10000 * base
  BY <1>2, <1>3, <1>4
<1>6. PICK d \in Int : d = (x + 5000) \div 10000
  OBVIOUS
<1>7. PICK e \in Int : e = (y + 5000) \div 10000
  OBVIOUS
<1>8. d \in 0 .. base /\ d <= e
  BY <1>5, <1>6, <1>7
<1>9. 10000 * d - x <= 5000 /\ x - 10000 * d < 5000
  BY <1>6
<1>10. DiscountAmount(base, q) = d /\ DiscountAmount(base, s) = e
  BY <1>3, <1>4, <1>6, <1>7 DEF DiscountAmount
<1> QED
  BY <1>3, <1>8, <1>9, <1>10

\* An offer asks for its price without the discount, which is rounded to the kopeck.
WellPriced(row) ==
  /\ row.base > 0 /\ row.discount \in BasisPoints
  /\ row.final = row.base - DiscountAmount(row.base, row.discount)

\* A price is looked up once, and is not free.
PricesRead ==
  \A p \in Requests : req[p].pc \in {"lookup", "insert"} => req[p].base > 0

Priced == PricesRead /\ \A o \in Offers : Exists(o) => WellPriced(offers[o])

LEMMA PricesReadKept ==
  ASSUME Inv, PricesRead, [Next]_vars
  PROVE  PricesRead'
<1>1. ASSUME NEW p \in Requests, NEW r, Become(p, r), r.pc \in {"lookup", "insert"} => r.base > 0
      PROVE  PricesRead'
  BY <1>1 DEF Become, PricesRead, Inv, TypeOK
<1>2. Idle.pc = "idle"
  BY DEF Idle
<1>3. ASSUME NEW d \in Deals, NEW role \in StaffRoles, LimitChanges(d, role) PROVE PricesRead'
  BY <1>3 DEF LimitChanges, PricesRead
<1>4. ASSUME NEW p \in Requests, RequestStep(p) PROVE PricesRead'
  <2>1. req[p] \in Request
    BY DEF Inv, TypeOK
  <2>2. CASE StartCreate(p)
    <3>1. PICK c \in Callers, sel \in Selections, q \in Discounts :
            Become(p, [Idle EXCEPT !.pc = "price", !.actor = c.actor, !.deal = c.deal,
                                   !.request = c.request, !.selection = sel, !.discount = q,
                                   !.required = RequiresApproval(c.actor, c.deal, q)])
      BY <2>2 DEF StartCreate
    <3> DEFINE new == [Idle EXCEPT !.pc = "price", !.actor = c.actor, !.deal = c.deal,
                                   !.request = c.request, !.selection = sel, !.discount = q,
                                   !.required = RequiresApproval(c.actor, c.deal, q)]
    <3>2. new.pc = "price"
      BY DEF Idle
    <3>3. Become(p, new)
      BY <3>1
    <3> HIDE DEF new
    <3> QED
      BY <3>2, <3>3, <1>1
  <2>3. CASE ReadPrice(p)
    <3>1. PICK m \in Prices : m > 0 /\ Become(p, [req[p] EXCEPT !.pc = "lookup", !.base = m])
      BY <2>3 DEF ReadPrice
    <3> DEFINE new == [req[p] EXCEPT !.pc = "lookup", !.base = m]
    <3>2. new.base = m
      BY <2>1 DEF Request
    <3>3. Become(p, new)
      BY <3>1
    <3> HIDE DEF new
    <3> QED
      BY <3>1, <3>2, <3>3, <1>1
  <2>4. CASE LookUp(p)
    <3>1. req[p].base > 0
      BY <2>4 DEF LookUp, PricesRead
    <3>2. ASSUME NEW o \in Offers, Become(p, [req[p] EXCEPT !.pc = "answer", !.offer = o])
          PROVE  PricesRead'
      <4> DEFINE new == [req[p] EXCEPT !.pc = "answer", !.offer = o]
      <4>1. new.pc = "answer"
        BY <2>1 DEF Request
      <4>2. Become(p, new)
        BY <3>2
      <4> HIDE DEF new
      <4> QED
        BY <4>1, <4>2, <1>1
    <3>3. CASE Become(p, [req[p] EXCEPT !.pc = "insert"])
      <4> DEFINE new == [req[p] EXCEPT !.pc = "insert"]
      <4>1. new.base = req[p].base
        BY <2>1 DEF Request
      <4>2. Become(p, new)
        BY <3>3
      <4> HIDE DEF new
      <4> QED
        BY <3>1, <4>1, <4>2, <1>1
    <3>4. CASE Become(p, Idle)
      BY <3>4, <1>1, <1>2
    <3> QED
      BY <2>4, <3>2, <3>3, <3>4 DEF LookUp, Of
  <2>5. CASE Insert(p)
    <3>1. PICK o \in Offers : Become(p, [req[p] EXCEPT !.pc = "answer", !.offer = o])
      BY <2>5 DEF Insert, Of
    <3> DEFINE new == [req[p] EXCEPT !.pc = "answer", !.offer = o]
    <3>2. new.pc = "answer"
      BY <2>1 DEF Request
    <3>3. Become(p, new)
      BY <3>1
    <3> HIDE DEF new
    <3> QED
      BY <3>2, <3>3, <1>1
  <2>6. CASE Answer(p) \/ Submit(p) \/ Decide(p) \/ Abandon(p)
    BY <2>6, <1>1, <1>2 DEF Answer, Submit, Decide, Abandon
  <2>7. CASE StartSubmit(p)
    <3>1. PICK u \in Staff, o \in Offers :
            Become(p, [Idle EXCEPT !.pc = "submit", !.actor = u, !.offer = o])
      BY <2>7 DEF StartSubmit
    <3> DEFINE new == [Idle EXCEPT !.pc = "submit", !.actor = u, !.offer = o]
    <3>2. new.pc = "submit"
      BY DEF Idle
    <3>3. Become(p, new)
      BY <3>1
    <3> HIDE DEF new
    <3> QED
      BY <3>2, <3>3, <1>1
  <2>8. CASE StartDecide(p)
    <3>1. PICK u \in Supervisors, o \in Offers, v \in {"approved", "rejected"} :
            Become(p, [Idle EXCEPT !.pc = "decide", !.actor = u, !.offer = o, !.verdict = v])
      BY <2>8 DEF StartDecide
    <3> DEFINE new == [Idle EXCEPT !.pc = "decide", !.actor = u, !.offer = o, !.verdict = v]
    <3>2. new.pc = "decide"
      BY DEF Idle
    <3>3. Become(p, new)
      BY <3>1
    <3> HIDE DEF new
    <3> QED
      BY <3>2, <3>3, <1>1
  <2> QED
    BY <1>4, <2>2, <2>3, <2>4, <2>5, <2>6, <2>7, <2>8 DEF RequestStep
<1>5. CASE UNCHANGED vars
  BY <1>5 DEF vars, PricesRead
<1> QED
  BY <1>3, <1>4, <1>5 DEF Next

LEMMA AmountsStay ==
  ASSUME NEW row \in OfferRow, NEW u, NEW verdict, NEW after,
         after = MarkPendingApproval(row) \/ after = Decided(row, u, verdict)
  PROVE  after.base = row.base /\ after.discount = row.discount /\ after.final = row.final
<1>1. CASE after = MarkPendingApproval(row)
  BY <1>1 DEF MarkPendingApproval, OfferRow
<1>2. CASE after = Decided(row, u, verdict)
  BY <1>2 DEF Decided, OfferRow
<1> QED
  BY <1>1, <1>2

LEMMA PricedKept ==
  ASSUME Inv, Priced, [Next]_vars
  PROVE  Priced'
<1>1. PricesRead'
  BY PricesReadKept DEF Priced
<1>2. RowStep
  BY StepOfRows
<1>3. offers \in [Offers -> OfferRow]
  BY DEF Inv, TypeOK
<1>4. ASSUME NEW o \in Offers, offers'[o].status # "absent" PROVE WellPriced(offers'[o])
  <2>1. CASE offers' = offers
    BY <1>4, <2>1 DEF Priced, Exists
  <2>2. ASSUME NEW p \in Requests, NEW x \in Offers, InsertsRow(req[p], x)
        PROVE  WellPriced(offers'[o])
    <3>1. CASE o = x
      <4>1. req[p].base > 0 /\ req[p].discount \in BasisPoints
        BY <2>2, AmountsAssumption DEF InsertsRow, Priced, PricesRead, Inv, Knowledge, Knows
      <4>2. offers'[o] = NewOfferRow(req[p])
        BY <1>3, <2>2, <3>1 DEF InsertsRow
      <4>3. /\ offers'[o].base = req[p].base /\ offers'[o].discount = req[p].discount
            /\ offers'[o].final = req[p].base - DiscountAmount(req[p].base, req[p].discount)
        BY <4>2 DEF NewOfferRow
      <4> QED
        BY <4>1, <4>3 DEF WellPriced
    <3>2. CASE o # x
      <4>1. offers'[o] = offers[o]
        BY <1>3, <2>2, <3>2 DEF InsertsRow
      <4> QED
        BY <1>4, <4>1 DEF Priced, Exists
    <3> QED
      BY <3>1, <3>2
  <2>3. ASSUME NEW p \in Requests, SubmitsRow(req[p]) \/ DecidesRow(req[p])
        PROVE  WellPriced(offers'[o])
    <3>1. req[p].offer \in Offers
      BY <2>3 DEF SubmitsRow, DecidesRow, Inv, Knowledge, Knows
    <3>2. CASE o = req[p].offer
      <4>1. offers[o].status # "absent"
        BY <1>3, <1>4, <2>3, <3>2 DEF SubmitsRow, DecidesRow, MarkPendingApproval, Decided
      <4>2. WellPriced(offers[o])
        BY <4>1 DEF Priced, Exists
      <4>3. offers'[o] = MarkPendingApproval(offers[o])
              \/ offers'[o] = Decided(offers[o], req[p].actor, req[p].verdict)
        BY <1>3, <2>3, <3>2 DEF SubmitsRow, DecidesRow
      <4>4. offers[o] \in OfferRow
        BY <1>3
      <4>5. /\ offers'[o].base = offers[o].base /\ offers'[o].discount = offers[o].discount
            /\ offers'[o].final = offers[o].final
        BY <4>3, <4>4, AmountsStay
      <4> QED
        BY <4>2, <4>5 DEF WellPriced
    <3>3. CASE o # req[p].offer
      <4>1. offers'[o] = offers[o]
        BY <1>3, <2>3, <3>3 DEF SubmitsRow, DecidesRow
      <4> QED
        BY <1>4, <4>1 DEF Priced, Exists
    <3> QED
      BY <3>2, <3>3
  <2> QED
    BY <1>2, <2>1, <2>2, <2>3 DEF RowStep
<1> QED
  BY <1>1, <1>4 DEF Priced, Exists

LEMMA PricedAlways == Spec => []Priced
<1>1. Init => Priced
  BY DEF Init, Priced, PricesRead, Exists, Absent, Idle
<1> QED
  BY <1>1, PricedKept, InvAlways, PTL DEF Spec

\* What an offer asks for is at most its price and at least nothing, and within half a
\* kopeck of the discount it shows.
AsksWhatItShows(row) ==
  LET off == row.base - row.final
      exact == row.base * row.discount IN
  /\ row.final \in 0 .. row.base
  /\ 10000 * off - exact <= 5000 /\ exact - 10000 * off < 5000

LEMMA WellPricedAsksWhatItShows ==
  ASSUME NEW row \in OfferRow, WellPriced(row)
  PROVE  AsksWhatItShows(row)
<1>1. PICK base \in Nat : base = row.base
  BY DEF OfferRow, WellPriced
<1>2. PICK q \in BasisPoints : q = row.discount
  BY DEF WellPriced
<1>3. q \in Nat /\ q <= q
  BY DEF BasisPoints
<1>4. /\ DiscountAmount(base, q) \in 0 .. base
      /\ 10000 * DiscountAmount(base, q) - base * q <= 5000
      /\ base * q - 10000 * DiscountAmount(base, q) < 5000
  BY <1>3, DiscountIsRounded
<1>5. PICK amount \in 0 .. base : amount = DiscountAmount(base, q)
  BY <1>4
<1>6. PICK exact \in Nat : exact = base * q
  BY <1>3
<1>7. 10000 * amount - exact <= 5000 /\ exact - 10000 * amount < 5000
  BY <1>4, <1>5, <1>6
<1>8. row.final = base - amount
  BY <1>1, <1>2, <1>5 DEF WellPriced
<1>9. row.final \in 0 .. base /\ row.base - row.final = amount
  BY <1>1, <1>8
<1>10. row.base * row.discount = exact
  BY <1>1, <1>2, <1>6
<1> QED
  BY <1>1, <1>7, <1>9, <1>10 DEF AsksWhatItShows

\* An offer keeps to the rounded discount it shows from its calculation through every decision
\* (service/offer.go:144-151), with prices that are edited meanwhile.
THEOREM OffersAskWhatTheyShow == Spec => [](\A o \in Offers : Exists(o) => AsksWhatItShows(offers[o]))
<1>1. Inv /\ Priced => \A o \in Offers : Exists(o) => AsksWhatItShows(offers[o])
  BY WellPricedAsksWhatItShows DEF Inv, TypeOK, Priced
<1> QED
  BY <1>1, PricedAlways, InvAlways, PTL
================================================================================
