-------------------------- MODULE OfferDelivery_proofs --------------------------
(***************************************************************************)
(* Proofs about OfferLifecycle and about OfferDelivery, which contains its *)
(* steps, for any offers, request ids, supervisors, goroutines and         *)
(* deliveries.                                                             *)
(***************************************************************************)
EXTENDS OfferDelivery, TLAPS

--------------------------------------------------------------------------------
(* What the offers promise among themselves.                                 *)

\* An offer that was not created yet is undecided.
LifeInv ==
  /\ Life!TypeOK
  /\ Life!ApprovalPromise
  /\ \A o \in Offers : ~Life!Exists(o) => decidedBy[o] = NULL

LEMMA LifeInvInit == Life!Init => LifeInv
BY DEF LifeInv, Life!Init, Life!TypeOK, Life!ApprovalPromise, Life!Exists, Life!OfferStatus

LEMMA LifeInvNext == LifeInv /\ [Life!Next]_(Life!vars) => LifeInv'
<1> SUFFICES ASSUME LifeInv, [Life!Next]_(Life!vars) PROVE LifeInv'
  OBVIOUS
<1> USE DEF LifeInv, Life!TypeOK, Life!ApprovalPromise, Life!Exists, Life!OfferStatus
<1>1. ASSUME NEW o \in Offers, NEW r \in RequestIds, NEW needed \in BOOLEAN,
             Life!Create(o, r, needed)
      PROVE  LifeInv'
  <2>1. Life!TypeOK'
    BY <1>1 DEF Life!Create
  <2>2. \A x \in Offers : x # o =>
          /\ status'[x] = status[x] /\ requestOf'[x] = requestOf[x]
          /\ required'[x] = required[x] /\ decidedBy'[x] = decidedBy[x]
    BY <1>1 DEF Life!Create
  <2>3. /\ status'[o] = (IF needed THEN "draft" ELSE "approved")
        /\ requestOf'[o] = r /\ required'[o] = needed /\ decidedBy'[o] = NULL
    BY <1>1 DEF Life!Create
  <2>4. \A x \in Offers : requestOf[x] # r
    BY <1>1 DEF Life!Create
  <2>5. \A x \in Offers :
          /\ status'[x] = "approved" /\ required'[x] => decidedBy'[x] \in Supervisors
          /\ status'[x] # "absent" /\ ~required'[x] =>
               status'[x] = "approved" /\ decidedBy'[x] = NULL
    BY <2>2, <2>3
  <2>6. \A x, y \in Offers :
          status'[x] # "absent" /\ status'[y] # "absent" /\ requestOf'[x] = requestOf'[y] => x = y
    BY <2>2, <2>3, <2>4
  <2>7. \A x \in Offers : status'[x] = "absent" => decidedBy'[x] = NULL
    BY <2>2, <2>3
  <2> QED
    BY <2>1, <2>5, <2>6, <2>7
<1>2. ASSUME NEW o \in Offers, Life!Submit(o) PROVE LifeInv'
  BY <1>2 DEF Life!Submit
<1>3. ASSUME NEW o \in Offers, NEW u \in Supervisors, NEW verdict \in {"approved", "rejected"},
             Life!Decide(o, u, verdict)
      PROVE  LifeInv'
  BY <1>3 DEF Life!Decide
<1>4. CASE UNCHANGED Life!vars
  BY <1>4 DEF Life!vars
<1> QED
  BY <1>1, <1>2, <1>3, <1>4 DEF Life!Next

\* The abstract offers keep what they promise: nothing is in force that is not
\* entitled to be, and a request id has one offer at most.
THEOREM PromiseKept == Life!Spec => []Life!ApprovalPromise
<1>1. LifeInv => Life!ApprovalPromise
  BY DEF LifeInv
<1> QED
  BY <1>1, LifeInvInit, LifeInvNext, PTL DEF Life!Spec

\* The decision about an offer is never revised.
THEOREM DecisionsAreFinal == Life!Spec => Life!DecisionIsFinal
<1> DEFINE Final == \A o \in Offers : status[o] \in {"approved", "rejected"} =>
                      /\ status'[o] = status[o]
                      /\ decidedBy'[o] = decidedBy[o]
<1>1. LifeInv /\ [Life!Next]_(Life!vars) => [Final]_(Life!vars)
  <2> SUFFICES ASSUME LifeInv, [Life!Next]_(Life!vars) PROVE Final
    OBVIOUS
  <2> USE DEF LifeInv, Life!TypeOK
  <2>1. ASSUME NEW o \in Offers, NEW r \in RequestIds, NEW needed \in BOOLEAN,
               Life!Create(o, r, needed)
        PROVE  Final
    BY <2>1 DEF Life!Create, Life!Exists
  <2>2. ASSUME NEW o \in Offers, Life!Submit(o) PROVE Final
    BY <2>2 DEF Life!Submit
  <2>3. ASSUME NEW o \in Offers, NEW u \in Supervisors,
               NEW verdict \in {"approved", "rejected"}, Life!Decide(o, u, verdict)
        PROVE  Final
    BY <2>3 DEF Life!Decide
  <2>4. CASE UNCHANGED Life!vars
    BY <2>4 DEF Life!vars
  <2> QED
    BY <2>1, <2>2, <2>3, <2>4 DEF Life!Next
<1> QED
  BY <1>1, LifeInvInit, LifeInvNext, PTL DEF Life!Spec, Life!DecisionIsFinal

--------------------------------------------------------------------------------
(* The invariant of the deliveries.                                          *)

\* What a goroutine knows at each of its statements: the offer it read was in
\* force, its document is stored, its delivery row is its own and still pending.
Knows(p) ==
  /\ req[p].pc # "idle" => req[p].offer \in Offers /\ status[req[p].offer] = "approved"
  /\ req[p].pc \in {"record", "mail", "finish"} => req[p].offer \in documents
  /\ req[p].pc \in {"mail", "finish"} =>
       /\ req[p].delivery \in Deliveries
       /\ deliveries[req[p].delivery].offer = req[p].offer
       /\ deliveries[req[p].delivery].status = "pending"
  /\ req[p].pc \in {"idle", "store", "record"} => req[p].delivery = NULL
  /\ req[p].pc = "finish" =>
       /\ req[p].outcome \in {"sent", "failed"}
       /\ req[p].outcome = "sent" => req[p].delivery \in accepted

\* A delivery that was ever begun names an offer in force with its document.
Begun ==
  /\ \A x \in Deliveries : deliveries[x].status # "absent" =>
       /\ deliveries[x].offer \in Offers
       /\ status[deliveries[x].offer] = "approved"
       /\ deliveries[x].offer \in documents
  /\ \A x \in accepted : deliveries[x].status # "absent"

Inv ==
  /\ TypeOK
  /\ LifeInv
  /\ \A p \in Requests : Knows(p)
  /\ Begun
  /\ SentWasAccepted

--------------------------------------------------------------------------------
(* The offers.                                                               *)

\* A step of the offers keeps what they promise; other steps do not touch them.
LEMMA OffersKeepPromise == LifeInv /\ [Next]_vars => LifeInv'
<1>1. Next => Life!Next \/ UNCHANGED offerVars
  BY DEF Next, OfferStep, Start, Work, Store, CreateDelivery, Mail, FinishDelivery, Abandon
<1>2. [Next]_vars => [Life!Next]_(Life!vars)
  BY <1>1 DEF vars, offerVars, Life!vars
<1> QED
  BY <1>2, LifeInvNext

\* An offer in force stays in force.
LEMMA InForceStays ==
  ASSUME TypeOK, [Next]_vars, NEW o \in Offers, status[o] = "approved"
  PROVE  status'[o] = "approved"
<1>1. status \in [Offers -> Life!OfferStatus \cup {"absent"}]
  BY DEF TypeOK, Life!TypeOK
<1>2. CASE Life!Next
  <2>1. ASSUME NEW x \in Offers, NEW r \in RequestIds, NEW needed \in BOOLEAN,
               Life!Create(x, r, needed)
        PROVE  status'[o] = "approved"
    BY <1>1, <2>1 DEF Life!Create, Life!Exists
  <2>2. ASSUME NEW x \in Offers, Life!Submit(x) PROVE status'[o] = "approved"
    BY <1>1, <2>2 DEF Life!Submit
  <2>3. ASSUME NEW x \in Offers, NEW u \in Supervisors, NEW verdict \in {"approved", "rejected"},
               Life!Decide(x, u, verdict)
        PROVE  status'[o] = "approved"
    BY <1>1, <2>3 DEF Life!Decide
  <2> QED
    BY <1>2, <2>1, <2>2, <2>3 DEF Life!Next
<1>3. CASE UNCHANGED offerVars
  BY <1>3 DEF offerVars
<1> QED
  BY <1>2, <1>3 DEF Next, OfferStep, Start, Work, Store, CreateDelivery, Mail,
    FinishDelivery, Abandon, vars

--------------------------------------------------------------------------------
(* The deliveries.                                                           *)

LEMMA InvInit == Init => Inv
<1> SUFFICES ASSUME Init PROVE Inv
  OBVIOUS
<1>1. LifeInv
  BY LifeInvInit DEF Init
<1>2. TypeOK
  <2>1. Life!TypeOK
    BY <1>1 DEF LifeInv
  <2>2. Absent \in DeliveryRow /\ Idle \in Request
    BY DEF Absent, DeliveryRow, Idle, Request
  <2> QED
    BY <2>1, <2>2 DEF Init, TypeOK
<1>3. \A p \in Requests : Knows(p)
  BY DEF Init, Knows, Idle
<1>4. Begun /\ SentWasAccepted
  BY DEF Init, Begun, SentWasAccepted, Absent, Idle
<1> QED
  BY <1>1, <1>2, <1>3, <1>4 DEF Inv

\* The steps of a goroutine, one lemma each: types, knowledge, rows.
Kept == TypeOK' /\ (\A p \in Requests : Knows(p)') /\ Begun' /\ SentWasAccepted'

LEMMA OfferStepKeeps == Inv /\ OfferStep => Kept
<1> SUFFICES ASSUME Inv, OfferStep PROVE Kept
  OBVIOUS
<1>1. [Next]_vars
  BY DEF Next
<1>2. Life!TypeOK'
  BY <1>1, OffersKeepPromise DEF Inv, LifeInv, Life!TypeOK,
    Life!OfferStatus
<1>3. \A o \in Offers : status[o] = "approved" => status'[o] = "approved"
  BY <1>1, InForceStays DEF Inv
<1>4. UNCHANGED <<documents, deliveries, req, accepted, orphaned>>
  BY DEF OfferStep
<1>5. TypeOK'
  BY <1>2, <1>4 DEF Inv, TypeOK
<1>6. ASSUME NEW p \in Requests PROVE Knows(p)'
  BY <1>3, <1>4 DEF Inv, Knows
<1>7. Begun'
  BY <1>3, <1>4 DEF Inv, Begun
<1>8. SentWasAccepted'
  BY <1>4 DEF Inv, SentWasAccepted
<1> QED
  BY <1>5, <1>6, <1>7, <1>8 DEF Kept

\* A goroutine that ends, or moves on without touching a delivery.
LEMMA StartKeeps == ASSUME Inv, NEW p \in Requests, Start(p) PROVE Kept
<1>0. TypeOK /\ Begun /\ SentWasAccepted /\ req \in [Requests -> Request]
  BY DEF Inv, TypeOK
<1>1. PICK o \in Offers, mailing \in BOOLEAN :
        /\ status[o] = "approved"
        /\ req' = [req EXCEPT ![p] = [Idle EXCEPT !.pc = "store", !.offer = o, !.mailing = mailing]]
  BY DEF Start, MayLeave, Become
<1>2. /\ UNCHANGED <<status, requestOf, required, decidedBy>>
      /\ UNCHANGED <<documents, deliveries, accepted, orphaned>>
  BY DEF Start, offerVars
<1>3. [Idle EXCEPT !.pc = "store", !.offer = o, !.mailing = mailing] \in Request
  BY DEF Idle, Request
<1>4. TypeOK'
  BY <1>0, <1>1, <1>2, <1>3 DEF TypeOK, Life!TypeOK
<1>5. /\ req'[p].pc = "store" /\ req'[p].offer = o /\ req'[p].delivery = NULL
      /\ \A q \in Requests : q # p => req'[q] = req[q]
  BY <1>0, <1>1 DEF Idle
<1>6. ASSUME NEW q \in Requests PROVE Knows(q)'
  BY <1>1, <1>2, <1>5 DEF Inv, Knows
<1>7. Begun' /\ SentWasAccepted'
  BY <1>0, <1>2, <1>5 DEF Begun, SentWasAccepted
<1> QED
  BY <1>4, <1>6, <1>7 DEF Kept

LEMMA StoreKeeps == ASSUME Inv, NEW p \in Requests, Store(p) PROVE Kept
<1>0. TypeOK /\ Begun /\ SentWasAccepted /\ req \in [Requests -> Request] /\ Knows(p)
  BY DEF Inv, TypeOK
<1>1. /\ req' = [req EXCEPT ![p] = IF req[p].mailing
                                   THEN [req[p] EXCEPT !.pc = "record"] ELSE Idle]
      /\ documents' = documents \cup {req[p].offer} /\ req[p].pc = "store"
      /\ UNCHANGED <<status, requestOf, required, decidedBy>>
      /\ UNCHANGED <<deliveries, accepted, orphaned>>
  BY DEF Store, offerVars, Become
<1>2. [req[p] EXCEPT !.pc = "record"] \in Request /\ Idle \in Request
  BY <1>0 DEF Idle, Request
<1>3. TypeOK'
  BY <1>0, <1>1, <1>2 DEF TypeOK, Life!TypeOK, Knows
<1>4. /\ \/ /\ req'[p].pc = "record" /\ req'[p].offer = req[p].offer
            /\ req'[p].delivery = NULL
         \/ req'[p] = Idle
      /\ \A q \in Requests : q # p => req'[q] = req[q]
  BY <1>0, <1>1 DEF Request, Knows
<1>5. ASSUME NEW q \in Requests PROVE Knows(q)'
  <2>1. CASE q = p
    BY <1>0, <1>1, <1>4, <2>1 DEF Knows, Idle
  <2>2. CASE q # p
    BY <1>1, <1>4, <2>2 DEF Inv, Knows
  <2> QED
    BY <2>1, <2>2
<1>6. Begun'
  BY <1>0, <1>1 DEF Begun
<1>7. SentWasAccepted'
  BY <1>0, <1>1, <1>4 DEF SentWasAccepted, Idle
<1> QED
  BY <1>3, <1>5, <1>6, <1>7 DEF Kept

LEMMA CreateDeliveryKeeps == ASSUME Inv, NEW p \in Requests, CreateDelivery(p) PROVE Kept
<1>0. /\ TypeOK /\ Begun /\ SentWasAccepted /\ req \in [Requests -> Request] /\ Knows(p)
      /\ deliveries \in [Deliveries -> DeliveryRow]
  BY DEF Inv, TypeOK
<1>1. PICK x \in Deliveries :
        /\ deliveries[x].status = "absent"
        /\ deliveries' = [deliveries EXCEPT ![x] = [offer |-> req[p].offer, status |-> "pending"]]
        /\ req' = [req EXCEPT ![p] = [req[p] EXCEPT !.pc = "mail", !.delivery = x]]
  BY DEF CreateDelivery, Become
<1>2. /\ req[p].pc = "record"
      /\ UNCHANGED <<status, requestOf, required, decidedBy>>
      /\ UNCHANGED <<documents, accepted, orphaned>>
  BY DEF CreateDelivery, offerVars
<1>3. /\ [req[p] EXCEPT !.pc = "mail", !.delivery = x] \in Request
      /\ [offer |-> req[p].offer, status |-> "pending"] \in DeliveryRow
  BY <1>0, <1>2 DEF Request, DeliveryRow, DeliveryStatus, Knows
<1>4. TypeOK'
  BY <1>0, <1>1, <1>2, <1>3 DEF TypeOK, Life!TypeOK
<1>5. /\ req'[p].pc = "mail" /\ req'[p].offer = req[p].offer /\ req'[p].delivery = x
      /\ \A q \in Requests : q # p => req'[q] = req[q]
      /\ deliveries'[x].offer = req[p].offer /\ deliveries'[x].status = "pending"
      /\ \A y \in Deliveries : y # x => deliveries'[y] = deliveries[y]
  BY <1>0, <1>1 DEF Request
<1>6. ASSUME NEW q \in Requests, q # p PROVE Knows(q) /\ req'[q] = req[q] /\ req[q].delivery # x
  <2>1. Knows(q)
    BY DEF Inv
  <2>2. req[q] \in Request
    BY <1>0
  <2>3. req[q].delivery # x
    BY <1>1, <2>1, <2>2, NullAssumption DEF Knows, Request
  <2> QED
    BY <1>5, <1>6, <2>1, <2>3
<1>7. ASSUME NEW q \in Requests PROVE Knows(q)'
  <2>1. CASE q = p
    BY <1>0, <1>2, <1>5, <2>1 DEF Knows
  <2>2. CASE q # p
    BY <1>2, <1>5, <1>6, <2>2 DEF Knows
  <2> QED
    BY <2>1, <2>2
<1>8. Begun'
  BY <1>0, <1>2, <1>5 DEF Begun, Knows, TypeOK
<1>9. SentWasAccepted'
  BY <1>0, <1>2, <1>5, <1>6 DEF SentWasAccepted
<1> QED
  BY <1>4, <1>7, <1>8, <1>9 DEF Kept

LEMMA MailKeeps == ASSUME Inv, NEW p \in Requests, Mail(p) PROVE Kept
<1>0. /\ TypeOK /\ Begun /\ SentWasAccepted /\ req \in [Requests -> Request] /\ Knows(p)
  BY DEF Inv, TypeOK
<1>1. PICK outcome \in {"sent", "failed"} :
        req' = [req EXCEPT ![p] = [req[p] EXCEPT !.pc = "finish", !.outcome = outcome]]
        /\ accepted' \in {accepted, accepted \cup {req[p].delivery}}
        /\ (outcome = "sent" => req[p].delivery \in accepted')
  BY DEF Mail, Become
<1>2. /\ req[p].pc = "mail"
      /\ UNCHANGED <<status, requestOf, required, decidedBy>>
      /\ UNCHANGED <<documents, deliveries, orphaned>>
  BY DEF Mail, offerVars
<1>3. [req[p] EXCEPT !.pc = "finish", !.outcome = outcome] \in Request
  BY <1>0 DEF Request, DeliveryStatus
<1>4. TypeOK'
  BY <1>0, <1>1, <1>2, <1>3 DEF TypeOK, Life!TypeOK, Knows
<1>5. /\ req'[p].pc = "finish" /\ req'[p].offer = req[p].offer
      /\ req'[p].delivery = req[p].delivery /\ req'[p].outcome = outcome
      /\ \A q \in Requests : q # p => req'[q] = req[q]
  BY <1>0, <1>1 DEF Request
<1>6. ASSUME NEW q \in Requests PROVE Knows(q)'
  <2>1. CASE q = p
    BY <1>0, <1>1, <1>2, <1>5, <2>1 DEF Knows
  <2>2. CASE q # p
    BY <1>1, <1>2, <1>5, <2>2 DEF Inv, Knows
  <2> QED
    BY <2>1, <2>2
<1>7. Begun'
  BY <1>0, <1>1, <1>2 DEF Begun, Knows
<1>8. SentWasAccepted'
  BY <1>0, <1>1, <1>2, <1>5 DEF SentWasAccepted
<1> QED
  BY <1>4, <1>6, <1>7, <1>8 DEF Kept

LEMMA FinishKeeps == ASSUME Inv, NEW p \in Requests, FinishDelivery(p) PROVE Kept
<1>0. /\ TypeOK /\ Begun /\ SentWasAccepted /\ req \in [Requests -> Request] /\ Knows(p)
      /\ deliveries \in [Deliveries -> DeliveryRow]
  BY DEF Inv, TypeOK
<1>1. /\ req[p].pc = "finish"
      /\ deliveries' = [deliveries EXCEPT ![req[p].delivery].status = req[p].outcome]
      /\ req' = [req EXCEPT ![p] = Idle]
      /\ UNCHANGED <<status, requestOf, required, decidedBy>>
      /\ UNCHANGED <<documents, accepted, orphaned>>
  BY DEF FinishDelivery, offerVars, Become
<1>2. Idle \in Request /\ req[p].outcome \in DeliveryStatus
  BY <1>0, <1>1 DEF Idle, Request, Knows, DeliveryStatus
<1>3. TypeOK'
  BY <1>0, <1>1, <1>2 DEF TypeOK, Life!TypeOK, DeliveryRow
<1>4. /\ req'[p] = Idle /\ \A q \in Requests : q # p => req'[q] = req[q]
      /\ \A y \in Deliveries : y # req[p].delivery => deliveries'[y] = deliveries[y]
      /\ \A y \in Deliveries : deliveries'[y].offer = deliveries[y].offer
      /\ deliveries'[req[p].delivery].status = req[p].outcome
  BY <1>0, <1>1 DEF Knows, DeliveryRow
<1>5. ASSUME NEW q \in Requests, q # p
      PROVE  req'[q] = req[q] /\ req[q].delivery # req[p].delivery
  <2>1. req[p].delivery # NULL
    BY <1>0, <1>1, NullAssumption DEF Knows
  <2> QED
    BY <1>0, <1>4, <1>5, <2>1 DEF SentWasAccepted
<1>6. ASSUME NEW q \in Requests PROVE Knows(q)'
  <2>1. CASE q = p
    BY <1>4, <2>1 DEF Knows, Idle
  <2>2. CASE q # p
    BY <1>1, <1>4, <1>5, <2>2 DEF Inv, Knows
  <2> QED
    BY <2>1, <2>2
<1>7. Begun'
  BY <1>0, <1>1, <1>4 DEF Begun, Knows, TypeOK
<1>8. SentWasAccepted'
  BY <1>0, <1>1, <1>4, <1>5 DEF SentWasAccepted, Knows, Idle
<1> QED
  BY <1>3, <1>6, <1>7, <1>8 DEF Kept

LEMMA AbandonKeeps == ASSUME Inv, NEW p \in Requests, Abandon(p) PROVE Kept
<1>0. TypeOK /\ Begun /\ SentWasAccepted /\ req \in [Requests -> Request]
  BY DEF Inv, TypeOK
<1>1. /\ req' = [req EXCEPT ![p] = Idle]
      /\ orphaned' = orphaned \cup ({req[p].delivery} \ {NULL})
      /\ UNCHANGED <<status, requestOf, required, decidedBy>>
      /\ UNCHANGED <<documents, deliveries, accepted>>
  BY DEF Abandon, offerVars, Become
<1>2. Idle \in Request /\ req[p].delivery \in Deliveries \cup {NULL}
  BY <1>0 DEF Idle, Request
<1>3. TypeOK'
  BY <1>0, <1>1, <1>2 DEF TypeOK, Life!TypeOK
<1>4. req'[p] = Idle /\ \A q \in Requests : q # p => req'[q] = req[q]
  BY <1>0, <1>1
<1>5. ASSUME NEW q \in Requests PROVE Knows(q)'
  BY <1>1, <1>4 DEF Inv, Knows, Idle
<1>6. Begun' /\ SentWasAccepted'
  BY <1>0, <1>1, <1>4 DEF Begun, SentWasAccepted, Idle
<1> QED
  BY <1>3, <1>5, <1>6 DEF Kept

LEMMA InvNext == Inv /\ [Next]_vars => Inv'
<1> SUFFICES ASSUME Inv, [Next]_vars PROVE Inv'
  OBVIOUS
<1>1. LifeInv'
  BY OffersKeepPromise DEF Inv
<1>2. Kept
  <2>1. CASE UNCHANGED vars
    <3>1. TypeOK'
      BY <2>1 DEF Inv, TypeOK, vars, offerVars, Life!TypeOK
    <3>2. \A p \in Requests : Knows(p)'
      BY <2>1 DEF Inv, Knows, vars, offerVars
    <3>3. Begun' /\ SentWasAccepted'
      BY <2>1 DEF Inv, Begun, SentWasAccepted, vars, offerVars
    <3> QED
      BY <3>1, <3>2, <3>3 DEF Kept
  <2>2. CASE OfferStep
    BY <2>2, OfferStepKeeps
  <2>3. ASSUME NEW p \in Requests, Start(p) \/ Work(p) \/ Abandon(p) PROVE Kept
    BY <2>3, StartKeeps, StoreKeeps, CreateDeliveryKeeps, MailKeeps, FinishKeeps, AbandonKeeps
    DEF Work
  <2> QED
    BY <2>1, <2>2, <2>3 DEF Next
<1> QED
  BY <1>1, <1>2 DEF Inv, Kept

LEMMA InvAlways == Spec => []Inv
BY InvInit, InvNext, PTL DEF Spec

--------------------------------------------------------------------------------
(* The rows over time.                                                       *)

\* The goroutine of a row that waits for its outcome, unless that was stopped half-way.
Tracked ==
  /\ \A x \in Deliveries : deliveries[x].status = "pending" =>
       \/ x \in orphaned
       \/ \E p \in Requests : req[p].pc \in {"mail", "finish"} /\ req[p].delivery = x
  /\ \A x \in orphaned : deliveries[x].status = "pending"
  /\ \A p \in Requests : req[p].delivery \notin orphaned

\* A row is begun, or given the outcome of its mail, or left alone.
RowsGoForward ==
  \A x \in Deliveries :
    \/ deliveries'[x] = deliveries[x]
    \/ deliveries[x].status = "absent" /\ deliveries'[x].status = "pending"
    \/ /\ deliveries[x].status = "pending" /\ x \notin orphaned
       /\ deliveries'[x].status \in {"sent", "failed"}
       /\ deliveries'[x].offer = deliveries[x].offer

\* What the rows are worth later: mails and stopped goroutines are not undone.
DeliveriesGrow ==
  RowsGoForward /\ accepted \subseteq accepted' /\ orphaned \subseteq orphaned'

\* A step that touches no row and leaves each goroutine with the row it has.
LEMMA TrackedStill ==
  ASSUME Tracked, deliveries' = deliveries, orphaned' = orphaned,
         \A q \in Requests :
           /\ req'[q].delivery = req[q].delivery
           /\ req[q].pc \in {"mail", "finish"} => req'[q].pc \in {"mail", "finish"}
  PROVE  Tracked' /\ RowsGoForward
BY DEF Tracked, RowsGoForward

LEMMA TrackedWork ==
  ASSUME Inv, Tracked, NEW p \in Requests, Start(p) \/ Store(p) \/ Mail(p)
  PROVE  Tracked' /\ DeliveriesGrow
<1>0. req \in [Requests -> Request] /\ Knows(p)
  BY DEF Inv, TypeOK
<1>1. deliveries' = deliveries /\ orphaned' = orphaned /\ accepted \subseteq accepted'
  BY DEF Start, Store, Mail
<1>2. /\ req'[p].delivery = req[p].delivery
      /\ req[p].pc \in {"mail", "finish"} => req'[p].pc \in {"mail", "finish"}
      /\ \A q \in Requests \ {p} : req'[q] = req[q]
  <2>1. CASE Start(p)
    <3>1. PICK o \in Offers, mailing \in BOOLEAN :
            req' = [req EXCEPT ![p] = [Idle EXCEPT !.pc = "store", !.offer = o, !.mailing = mailing]]
      BY <2>1 DEF Start, Become
    <3> QED
      BY <1>0, <2>1, <3>1 DEF Start, Idle, Knows
  <2>2. CASE Store(p)
    BY <1>0, <2>2 DEF Store, Become, Idle, Knows, Request
  <2>3. CASE Mail(p)
    <3>1. PICK outcome \in {"sent", "failed"} :
            req' = [req EXCEPT ![p] = [req[p] EXCEPT !.pc = "finish", !.outcome = outcome]]
      BY <2>3 DEF Mail, Become
    <3> QED
      BY <1>0, <3>1 DEF Request
  <2> QED
    BY <2>1, <2>2, <2>3
<1> QED
  BY <1>1, <1>2, TrackedStill DEF DeliveriesGrow

LEMMA TrackedRecord ==
  ASSUME Inv, Tracked, NEW p \in Requests, CreateDelivery(p)
  PROVE  Tracked' /\ DeliveriesGrow
<1>0. /\ req \in [Requests -> Request] /\ deliveries \in [Deliveries -> DeliveryRow]
      /\ orphaned \subseteq Deliveries /\ Knows(p)
  BY DEF Inv, TypeOK
<1>1. PICK x \in Deliveries :
        /\ deliveries[x].status = "absent"
        /\ deliveries' = [deliveries EXCEPT ![x] = [offer |-> req[p].offer, status |-> "pending"]]
        /\ req' = [req EXCEPT ![p] = [req[p] EXCEPT !.pc = "mail", !.delivery = x]]
  BY DEF CreateDelivery, Become
<1>2. /\ req'[p].pc = "mail" /\ req'[p].delivery = x
      /\ \A q \in Requests \ {p} : req'[q] = req[q]
      /\ deliveries'[x].status = "pending"
      /\ \A y \in Deliveries \ {x} : deliveries'[y] = deliveries[y]
      /\ accepted' = accepted /\ orphaned' = orphaned
  BY <1>0, <1>1 DEF Request, CreateDelivery
<1>3. x \notin orphaned
  BY <1>1 DEF Tracked
<1>4. req[p].delivery = NULL
  BY <1>0 DEF CreateDelivery, Knows
<1>5. ASSUME NEW y \in Deliveries, deliveries'[y].status = "pending"
      PROVE  y \in orphaned' \/ \E q \in Requests : req'[q].pc \in {"mail", "finish"} /\ req'[q].delivery = y
  <2>1. CASE y = x
    BY <1>2, <2>1
  <2>2. CASE y # x
    BY <1>2, <1>4, <1>5, <2>2, NullAssumption DEF Tracked
  <2> QED
    BY <2>1, <2>2
<1>6. Tracked'
  BY <1>0, <1>2, <1>3, <1>5 DEF Tracked
<1> QED
  BY <1>1, <1>2, <1>6 DEF DeliveriesGrow, RowsGoForward

LEMMA TrackedFinish ==
  ASSUME Inv, Tracked, NEW p \in Requests, FinishDelivery(p)
  PROVE  Tracked' /\ DeliveriesGrow
<1>0. /\ req \in [Requests -> Request] /\ deliveries \in [Deliveries -> DeliveryRow]
      /\ orphaned \subseteq Deliveries /\ Knows(p) /\ SentWasAccepted
  BY DEF Inv, TypeOK
<1> DEFINE x == req[p].delivery
<1>1. /\ x \in Deliveries /\ deliveries[x].status = "pending" /\ x \notin orphaned
      /\ req[p].outcome \in {"sent", "failed"}
  BY <1>0 DEF FinishDelivery, Knows, Tracked
<1>2. /\ req'[p].delivery = NULL
      /\ \A q \in Requests \ {p} : req'[q] = req[q]
      /\ deliveries'[x].status = req[p].outcome /\ deliveries'[x].offer = deliveries[x].offer
      /\ \A y \in Deliveries \ {x} : deliveries'[y] = deliveries[y]
      /\ accepted' = accepted /\ orphaned' = orphaned
  BY <1>0, <1>1 DEF FinishDelivery, Become, Idle, DeliveryRow
<1>3. ASSUME NEW y \in Deliveries, deliveries'[y].status = "pending"
      PROVE  y \in orphaned' \/ \E q \in Requests : req'[q].pc \in {"mail", "finish"} /\ req'[q].delivery = y
  <2>1. y # x
    BY <1>1, <1>2, <1>3
  <2> QED
    BY <1>2, <1>3, <2>1 DEF Tracked
<1> HIDE DEF x
<1>4. Tracked'
  BY <1>0, <1>1, <1>2, <1>3, NullAssumption DEF Tracked
<1>5. RowsGoForward
  BY <1>1, <1>2 DEF RowsGoForward
<1> QED
  BY <1>2, <1>4, <1>5 DEF DeliveriesGrow

LEMMA TrackedAbandon ==
  ASSUME Inv, Tracked, NEW p \in Requests, Abandon(p)
  PROVE  Tracked' /\ DeliveriesGrow
<1>0. /\ req \in [Requests -> Request] /\ orphaned \subseteq Deliveries /\ Knows(p) /\ SentWasAccepted
  BY DEF Inv, TypeOK
<1>1. /\ req'[p].delivery = NULL
      /\ \A q \in Requests \ {p} : req'[q] = req[q]
      /\ deliveries' = deliveries /\ accepted' = accepted
      /\ orphaned' = orphaned \cup ({req[p].delivery} \ {NULL})
  BY <1>0 DEF Abandon, Become, Idle
<1>2. req[p].delivery # NULL =>
        /\ req[p].delivery \in Deliveries /\ deliveries[req[p].delivery].status = "pending"
        /\ \A q \in Requests \ {p} : req[q].delivery # req[p].delivery
  <2>1. req[p].pc \in {"idle", "store", "record", "mail", "finish"}
    BY <1>0 DEF Request
  <2> QED
    BY <1>0, <2>1 DEF Knows, SentWasAccepted
<1>3. ASSUME NEW y \in Deliveries, deliveries'[y].status = "pending"
      PROVE  y \in orphaned' \/ \E q \in Requests : req'[q].pc \in {"mail", "finish"} /\ req'[q].delivery = y
  <2>1. CASE y = req[p].delivery
    BY <1>1, <2>1, NullAssumption
  <2>2. CASE y # req[p].delivery
    BY <1>1, <1>3, <2>2 DEF Tracked
  <2> QED
    BY <2>1, <2>2
<1>4. \A y \in orphaned' : deliveries'[y].status = "pending"
  BY <1>1, <1>2 DEF Tracked
<1>5. \A q \in Requests : req'[q].delivery \notin orphaned'
  BY <1>0, <1>1, <1>2, NullAssumption DEF Tracked
<1> QED
  BY <1>1, <1>3, <1>4, <1>5 DEF Tracked, DeliveriesGrow, RowsGoForward

LEMMA TrackedNext ==
  ASSUME Inv, Tracked, [Next]_vars
  PROVE  Tracked' /\ DeliveriesGrow
<1>1. CASE OfferStep \/ UNCHANGED vars
  <2>1. deliveries' = deliveries /\ orphaned' = orphaned /\ accepted' = accepted /\ req' = req
    BY <1>1 DEF OfferStep, vars
  <2> QED
    BY <2>1, TrackedStill DEF DeliveriesGrow
<1>2. ASSUME NEW p \in Requests, Start(p) \/ Work(p) \/ Abandon(p) PROVE Tracked' /\ DeliveriesGrow
  BY <1>2, TrackedWork, TrackedRecord, TrackedFinish, TrackedAbandon DEF Work
<1> QED
  BY <1>1, <1>2 DEF Next

LEMMA TrackedInit == Init => Tracked
BY NullAssumption DEF Init, Tracked, Absent, Idle

LEMMA TrackedAlways == Spec => []Tracked
<1>1. Inv /\ Tracked /\ [Next]_vars => Tracked'
  BY TrackedNext
<1> QED
  BY <1>1, TrackedInit, InvAlways, PTL DEF Spec

--------------------------------------------------------------------------------
(* Theorems.                                                                 *)

\* Every row and every goroutine of the delivery service is of its type.
THEOREM TypeCorrect == Spec => []TypeOK
<1>1. Inv => TypeOK
  BY DEF Inv
<1> QED
  BY <1>1, InvAlways, PTL

\* Only offers in force, approved where they had to be, ever leave by mail,
\* wherever goroutines are stopped and whatever the mail server answers.
THEOREM OnlyEntitledMailed == Spec => []MailedIsEntitled
<1>1. Inv => MailedIsEntitled
  <2> SUFFICES ASSUME Inv, NEW x \in accepted
               PROVE  LET o == deliveries[x].offer
                      IN /\ status[o] = "approved"
                         /\ required[o] => decidedBy[o] \in Supervisors
                         /\ o \in documents
    BY DEF MailedIsEntitled
  <2>1. x \in Deliveries /\ deliveries[x].status # "absent"
    BY DEF Inv, TypeOK, Begun
  <2>2. /\ deliveries[x].offer \in Offers /\ status[deliveries[x].offer] = "approved"
        /\ deliveries[x].offer \in documents
    BY <2>1 DEF Inv, Begun
  <2>3. required[deliveries[x].offer] => decidedBy[deliveries[x].offer] \in Supervisors
    BY <2>2 DEF Inv, LifeInv, Life!ApprovalPromise
  <2> QED
    BY <2>2, <2>3
<1> QED
  BY <1>1, InvAlways, PTL

\* A row says sent only of mail that left, and no two goroutines share a row.
THEOREM SentAlwaysAccepted == Spec => []SentWasAccepted
<1>1. Inv => SentWasAccepted
  BY DEF Inv
<1> QED
  BY <1>1, InvAlways, PTL

\* A delivery that waits for its outcome has a goroutine at work on it, unless that was
\* stopped half-way (service/offer_delivery.go:63-75): a row is not forgotten in any other way,
\* which is what DeliveryEnds needs besides a goroutine that runs on.
THEOREM PendingIsWorkedOn == Spec => []Tracked
BY TrackedAlways

\* A row gets its outcome once, from the goroutine that began it, for the offer it was begun
\* with; that of a stopped goroutine stays pending for good, and a mail that left stays sent.
THEOREM OutcomesAreFinal == Spec => [][DeliveriesGrow]_vars
<1>1. Inv /\ Tracked /\ [Next]_vars => [DeliveriesGrow]_vars
  BY TrackedNext
<1> QED
  BY <1>1, InvAlways, TrackedAlways, PTL DEF Spec
================================================================================
