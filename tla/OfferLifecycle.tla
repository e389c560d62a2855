----------------------------- MODULE OfferLifecycle -----------------------------
(***************************************************************************)
(* What the offers of the system promise, apart from how handlers and      *)
(* statements get there: an offer is created once for a request id, in     *)
(* force at once when it needs nobody's approval, and otherwise submitted  *)
(* and then decided, once, by a supervisor.                                *)
(***************************************************************************)

CONSTANTS
  Offers,       \* a pool of offer ids
  RequestIds,   \* the ids callers give their creations
  Supervisors,
  NULL

VARIABLES
  status,       \* the stage of each offer
  requestOf,    \* the request id each offer was created for
  required,     \* whether it needs approval
  decidedBy     \* who decided it

vars == <<status, requestOf, required, decidedBy>>

OfferStatus == {"draft", "pending_approval", "approved", "rejected"}
Exists(o) == status[o] # "absent"

Init ==
  /\ status = [o \in Offers |-> "absent"]
  /\ requestOf = [o \in Offers |-> NULL]
  /\ required = [o \in Offers |-> FALSE]
  /\ decidedBy = [o \in Offers |-> NULL]

Create(o, r, needed) ==
  /\ ~Exists(o)
  /\ \A other \in Offers : requestOf[other] # r
  /\ status' = [status EXCEPT ![o] = IF needed THEN "draft" ELSE "approved"]
  /\ requestOf' = [requestOf EXCEPT ![o] = r]
  /\ required' = [required EXCEPT ![o] = needed]
  /\ UNCHANGED decidedBy

Submit(o) ==
  /\ status[o] = "draft"
  /\ status' = [status EXCEPT ![o] = "pending_approval"]
  /\ UNCHANGED <<requestOf, required, decidedBy>>

Decide(o, u, verdict) ==
  /\ status[o] = "pending_approval"
  /\ status' = [status EXCEPT ![o] = verdict]
  /\ decidedBy' = [decidedBy EXCEPT ![o] = u]
  /\ UNCHANGED <<requestOf, required>>

Next ==
  \E o \in Offers :
    \/ \E r \in RequestIds, needed \in BOOLEAN : Create(o, r, needed)
    \/ Submit(o)
    \/ \E u \in Supervisors, verdict \in {"approved", "rejected"} : Decide(o, u, verdict)

Spec == Init /\ [][Next]_vars

--------------------------------------------------------------------------------
TypeOK ==
  /\ status \in [Offers -> OfferStatus \cup {"absent"}]
  /\ requestOf \in [Offers -> RequestIds \cup {NULL}]
  /\ required \in [Offers -> BOOLEAN]
  /\ decidedBy \in [Offers -> Supervisors \cup {NULL}]

\* An offer that needs approval is in force only by a supervisor's decision, an
\* offer that needs none was decided by nobody, and no request id has two
\* offers: the promise the handlers of the offer service keep between them.
ApprovalPromise ==
  /\ \A o \in Offers :
       /\ status[o] = "approved" /\ required[o] => decidedBy[o] \in Supervisors
       /\ Exists(o) /\ ~required[o] => status[o] = "approved" /\ decidedBy[o] = NULL
  /\ \A o, other \in Offers :
       Exists(o) /\ Exists(other) /\ requestOf[o] = requestOf[other] => o = other

\* A decision is final: whoever decides later, and whatever a decider read.
DecisionIsFinal ==
  [][\A o \in Offers : status[o] \in {"approved", "rejected"} =>
       /\ status'[o] = status[o]
       /\ decidedBy'[o] = decidedBy[o]]_vars
================================================================================
