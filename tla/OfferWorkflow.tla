----------------------------- MODULE OfferWorkflow ------------------------------
(***************************************************************************)
(* Commercial offers: calculation, creation under a request id, request    *)
(* for approval and decision.                                              *)
(*                                                                         *)
(* A member of Requests is a goroutine of the staff server, of an HTTP     *)
(* handler or of the agent's RPC consumer: both call the same service.     *)
(* Its statements are steps of their own, and goroutines interleave        *)
(* between them.  A handler that refuses changes nothing and ends.         *)
(*                                                                         *)
(* Discounts and limits are in basis points, prices in whole roubles.      *)
(***************************************************************************)
EXTENDS Integers, FiniteSets

CONSTANTS
  Managers, Supervisors,
  Deals,
  DealEmployee,    \* deals.id_employee, fixed when a deal is inserted
  Offers,          \* a pool of offer ids, finite
  RequestIds,      \* the request ids of creations
  Callers,         \* who creates for which deal under which request id
  Selections,      \* choices of a parking place and a storage room
  Requests,        \* the goroutines
  Discounts,       \* the discounts callers ask for
  Limits,          \* the limits in force, whether of a policy or configured
  Prices,          \* what an apartment and the chosen units cost together
  NULL

Staff == Managers \cup Supervisors
StaffRoles == {"manager", "supervisor"}
BasisPoints == 0 .. 10000
OfferStatus == {"draft", "pending_approval", "approved", "rejected"}

ASSUME StaffAssumption ==
  /\ Managers \cap Supervisors = {}
  /\ DealEmployee \in [Deals -> Staff]
  /\ Callers \subseteq [request : RequestIds, actor : Staff, deal : Deals]

ASSUME AmountsAssumption ==
  /\ Discounts \subseteq BasisPoints
  /\ Limits \subseteq BasisPoints
  /\ Prices \subseteq Int

ASSUME PoolAssumption == IsFiniteSet(Offers)

ASSUME NullAssumption ==
  NULL \notin Staff \cup Deals \cup Offers \cup RequestIds \cup Selections \cup Int

VARIABLES
  offers,    \* the rows of offers
  limit,     \* the discount limit now in force, by deal and role
  req,       \* the goroutines
  \* History variables: the code has no such state, the properties need it.
  inForce,   \* every limit that has been in force so far
  answers    \* which offer a creation was answered with

vars == <<offers, limit, req, inForce, answers>>

--------------------------------------------------------------------------------
(* The rows and the goroutines. *)

OfferRow ==
  [status     : OfferStatus \cup {"absent"},
   deal       : Deals \cup {NULL},
   createdBy  : Staff \cup {NULL},
   request    : RequestIds \cup {NULL},
   selection  : Selections \cup {NULL},
   version    : Nat,
   base       : Int,
   discount   : Nat,
   final      : Int,
   required   : BOOLEAN,
   approvedBy : Supervisors \cup {NULL},
   rejectedBy : Supervisors \cup {NULL}]

Absent ==
  [status |-> "absent", deal |-> NULL, createdBy |-> NULL, request |-> NULL,
   selection |-> NULL, version |-> 0, base |-> 0, discount |-> 0, final |-> 0,
   required |-> FALSE, approvedBy |-> NULL, rejectedBy |-> NULL]

Request ==
  [pc        : {"idle", "price", "lookup", "insert", "answer", "submit", "decide"},
   actor     : Staff \cup {NULL},
   deal      : Deals \cup {NULL},
   request   : RequestIds \cup {NULL},
   selection : Selections \cup {NULL},
   discount  : Discounts \cup {NULL},
   required  : BOOLEAN,
   base      : Int \cup {NULL},
   offer     : Offers \cup {NULL},
   verdict   : {"approved", "rejected", NULL}]

Idle ==
  [pc |-> "idle", actor |-> NULL, deal |-> NULL, request |-> NULL,
   selection |-> NULL, discount |-> NULL, required |-> FALSE, base |-> NULL,
   offer |-> NULL, verdict |-> NULL]

Exists(o) == offers[o].status # "absent"
Role(u) == IF u \in Supervisors THEN "supervisor" ELSE "manager"
Become(p, r) == req' = [req EXCEPT ![p] = r]

--------------------------------------------------------------------------------
(* Create, with the calculation it starts with. *)

\* A supervisor acts on any deal, a manager on his own.
MayAct(u, d) == u \in Supervisors \/ DealEmployee[d] = u

\* Variant: the limit of supervisors is applied to everyone.
RequiresApprovalOfStaff(u, d, q) == q > limit[d]["supervisor"]

RequiresApproval(u, d, q) == q > limit[d][Role(u)]

\* The actor is authorized and the limit of his role read.
StartCreate(p) ==
  /\ req[p].pc = "idle"
  /\ \E c \in Callers, sel \in Selections, q \in Discounts :
       /\ MayAct(c.actor, c.deal)
       /\ Become(p, [Idle EXCEPT !.pc = "price", !.actor = c.actor, !.deal = c.deal,
                                 !.request = c.request, !.selection = sel, !.discount = q,
                                 !.required = RequiresApproval(c.actor, c.deal, q)])
  /\ UNCHANGED <<offers, limit, inForce, answers>>

\* The apartment and the units are read; they change hands and price at any time.
ReadPrice(p) ==
  /\ req[p].pc = "price"
  /\ \E m \in Prices : m > 0 /\ Become(p, [req[p] EXCEPT !.pc = "lookup", !.base = m])
  /\ UNCHANGED <<offers, limit, inForce, answers>>

Of(r) == {o \in Offers : offers[o].request = r}

SameCreation(o, r) ==
  /\ offers[o].deal = r.deal
  /\ offers[o].createdBy = r.actor
  /\ offers[o].selection = r.selection

\* A request id that has an offer already is answered with it, or refused when
\* the offer is of another creation.
LookUp(p) ==
  /\ req[p].pc = "lookup"
  /\ \/ /\ Of(req[p].request) = {}
        /\ Become(p, [req[p] EXCEPT !.pc = "insert"])
     \/ \E o \in Of(req[p].request) :
          Become(p, IF SameCreation(o, req[p])
                    THEN [req[p] EXCEPT !.pc = "answer", !.offer = o] ELSE Idle)
  /\ UNCHANGED <<offers, limit, inForce, answers>>

Versions(d) == {offers[o].version : o \in {x \in Offers : offers[x].deal = d}}

\* Variant: the version is the highest so far.
NextVersionSame(d) ==
  CHOOSE n \in 1 .. Cardinality(Offers) + 1 :
    /\ \A v \in Versions(d) : v <= n
    /\ n = 1 \/ n \in Versions(d)

\* COALESCE(MAX(version), 0) + 1, computed by the INSERT.
NextVersion(d) ==
  CHOOSE n \in 1 .. Cardinality(Offers) + 1 :
    /\ \A v \in Versions(d) : v < n
    /\ n = 1 \/ n - 1 \in Versions(d)

\* roundedRatio(base, q, 10000)
DiscountAmount(base, q) == (base * q + 5000) \div 10000

\* Variant: the actor and the deal are stored in each other's column.
NewOfferRowSwapped(r) ==
  [status |-> IF r.required THEN "draft" ELSE "approved",
   deal |-> r.actor, createdBy |-> r.deal, request |-> r.request,
   selection |-> r.selection, version |-> NextVersion(r.deal),
   base |-> r.base, discount |-> r.discount,
   final |-> r.base - DiscountAmount(r.base, r.discount),
   required |-> r.required, approvedBy |-> NULL, rejectedBy |-> NULL]

NewOfferRow(r) ==
  [status |-> IF r.required THEN "draft" ELSE "approved",
   deal |-> r.deal, createdBy |-> r.actor, request |-> r.request,
   selection |-> r.selection, version |-> NextVersion(r.deal),
   base |-> r.base, discount |-> r.discount,
   final |-> r.base - DiscountAmount(r.base, r.discount),
   required |-> r.required, approvedBy |-> NULL, rejectedBy |-> NULL]

\* Variant: the insert ignores a row with the same request id.
InsertAnyway(p) ==
  /\ req[p].pc = "insert"
  /\ \E o \in Offers :
       /\ ~Exists(o)
       /\ offers' = [offers EXCEPT ![o] = NewOfferRow(req[p])]
       /\ Become(p, [req[p] EXCEPT !.pc = "answer", !.offer = o])
  /\ UNCHANGED <<limit, inForce, answers>>

\* INSERT ... ON CONFLICT (request_id) DO NOTHING; on a conflict the row of the
\* request id is read again, and this time not compared with the creation.
Insert(p) ==
  /\ req[p].pc = "insert"
  /\ \/ /\ Of(req[p].request) = {}
        /\ \E o \in Offers :
             /\ ~Exists(o)
             /\ offers' = [offers EXCEPT ![o] = NewOfferRow(req[p])]
             /\ Become(p, [req[p] EXCEPT !.pc = "answer", !.offer = o])
     \/ \E o \in Of(req[p].request) :
          /\ Become(p, [req[p] EXCEPT !.pc = "answer", !.offer = o])
          /\ UNCHANGED offers
  /\ UNCHANGED <<limit, inForce, answers>>

Answer(p) ==
  /\ req[p].pc = "answer"
  /\ answers' = answers \cup
       {[request |-> req[p].request, deal |-> req[p].deal, offer |-> req[p].offer]}
  /\ Become(p, Idle)
  /\ UNCHANGED <<offers, limit, inForce>>

--------------------------------------------------------------------------------
(* RequestApproval and Decide: a read that may refuse, then an UPDATE that   *)
(* names the status it expects.                                              *)

StartSubmit(p) ==
  /\ req[p].pc = "idle"
  /\ \E u \in Staff, o \in Offers :
       /\ Exists(o)
       /\ MayAct(u, offers[o].deal)
       /\ offers[o].required
       /\ offers[o].status = "draft"
       /\ Become(p, [Idle EXCEPT !.pc = "submit", !.actor = u, !.offer = o])
  /\ UNCHANGED <<offers, limit, inForce, answers>>

MarkPendingApproval(row) ==
  IF row.status = "draft" /\ row.required
  THEN [row EXCEPT !.status = "pending_approval"] ELSE row

Submit(p) ==
  /\ req[p].pc = "submit"
  /\ offers' = [offers EXCEPT ![req[p].offer] = MarkPendingApproval(offers[req[p].offer])]
  /\ Become(p, Idle)
  /\ UNCHANGED <<limit, inForce, answers>>

StartDecide(p) ==
  /\ req[p].pc = "idle"
  /\ \E u \in Supervisors, o \in Offers, v \in {"approved", "rejected"} :
       /\ offers[o].status = "pending_approval"
       /\ offers[o].required
       /\ Become(p, [Idle EXCEPT !.pc = "decide", !.actor = u, !.offer = o, !.verdict = v])
  /\ UNCHANGED <<offers, limit, inForce, answers>>

\* Variant: the UPDATE names the offer only.
DecidedAlways(row, u, verdict) ==
  [row EXCEPT !.status = verdict,
              !.approvedBy = IF verdict = "approved" THEN u ELSE NULL,
              !.rejectedBy = IF verdict = "rejected" THEN u ELSE NULL]

Decided(row, u, verdict) ==
  IF row.status = "pending_approval" /\ row.required
  THEN [row EXCEPT !.status = verdict,
                   !.approvedBy = IF verdict = "approved" THEN u ELSE NULL,
                   !.rejectedBy = IF verdict = "rejected" THEN u ELSE NULL]
  ELSE row

Decide(p) ==
  /\ req[p].pc = "decide"
  /\ offers' = [offers EXCEPT ![req[p].offer] =
                  Decided(offers[req[p].offer], req[p].actor, req[p].verdict)]
  /\ Become(p, Idle)
  /\ UNCHANGED <<limit, inForce, answers>>

\* The caller goes away, a statement fails (two inserts computed one version,
\* say) or the server stops.
Abandon(p) ==
  /\ req[p].pc # "idle"
  /\ Become(p, Idle)
  /\ UNCHANGED <<offers, limit, inForce, answers>>

\* A discount policy takes effect or ends.
LimitChanges(d, role) ==
  \E m \in Limits :
    /\ limit' = [limit EXCEPT ![d][role] = m]
    /\ inForce' = [inForce EXCEPT ![d][role] = @ \cup {m}]
    /\ UNCHANGED <<offers, req, answers>>

--------------------------------------------------------------------------------
Init ==
  /\ offers = [o \in Offers |-> Absent]
  /\ limit \in [Deals -> [StaffRoles -> Limits]]
  /\ req = [p \in Requests |-> Idle]
  /\ inForce = [d \in Deals |-> [role \in StaffRoles |-> {limit[d][role]}]]
  /\ answers = {}

RequestStep(p) ==
  \/ StartCreate(p) \/ ReadPrice(p) \/ LookUp(p) \/ Insert(p) \/ Answer(p)
  \/ StartSubmit(p) \/ Submit(p) \/ StartDecide(p) \/ Decide(p)
  \/ Abandon(p)

Next ==
  \/ \E p \in Requests : RequestStep(p)
  \/ \E d \in Deals, role \in StaffRoles : LimitChanges(d, role)

Spec == Init /\ [][Next]_vars

--------------------------------------------------------------------------------
(* Properties. *)

\* Every row and every goroutine is of its type.
TypeOK ==
  /\ offers \in [Offers -> OfferRow]
  /\ limit \in [Deals -> [StaffRoles -> Limits]]
  /\ req \in [Requests -> Request]
  /\ inForce \in [Deals -> [StaffRoles -> SUBSET BasisPoints]]
  /\ answers \subseteq [request : RequestIds, deal : Deals, offer : Offers]

\* An offer in force is within a limit that was in force for its creator's role,
\* or a supervisor approved it: a policy that changes between the calculation,
\* the insert, the request for approval and the decision opens no other way.
EntitledApproval ==
  \A o \in Offers : offers[o].status = "approved" =>
    \/ \E m \in inForce[offers[o].deal][Role(offers[o].createdBy)] : offers[o].discount <= m
    \/ offers[o].approvedBy \in Supervisors

\* The offers of a deal are numbered 1, 2, ... without gap or repetition, although
\* the number is computed by inserts that interleave and may fail.
VersionsAreConsecutive ==
  \A d \in Deals :
    Versions(d) = 1 .. Cardinality({o \in Offers : offers[o].deal = d})

\* Every answer to a request id names the same offer, and it exists: a creation
\* that is repeated, in parallel or after its answer was lost, makes no second
\* offer.
AnswersAgree ==
  \A a, b \in answers : a.request = b.request => a.offer = b.offer /\ Exists(a.offer)

\* The rows go through the stages of the abstract offers, one decision each.
Life == INSTANCE OfferLifecycle WITH
  status <- [o \in Offers |-> offers[o].status],
  requestOf <- [o \in Offers |-> offers[o].request],
  required <- [o \in Offers |-> offers[o].required],
  decidedBy <- [o \in Offers |-> IF offers[o].approvedBy # NULL
                                  THEN offers[o].approvedBy ELSE offers[o].rejectedBy]

\* Refinement: whatever the handlers read before they write, every step of the
\* rows is a step of OfferLifecycle or none.
KeepsLifecycle == Life!Spec
================================================================================
