----------------------------- MODULE OfferDelivery ------------------------------
(***************************************************************************)
(* The documents and the mailing of commercial offers, beside the offers   *)
(* themselves, which go their way as OfferLifecycle says.                  *)
(*                                                                         *)
(* A member of Requests is a goroutine that serves GET pdf or POST send.   *)
(* The offer is read once, at the start; the document, the delivery row,   *)
(* the mail and the result are a step each, and the goroutine may stop     *)
(* between any two of them.                                                *)
(***************************************************************************)

CONSTANTS
  Offers, RequestIds, Supervisors, NULL,   \* as in OfferLifecycle
  Requests,     \* the goroutines
  Deliveries    \* a pool of delivery ids

ASSUME NullAssumption == NULL \notin Deliveries

VARIABLES
  status, requestOf, required, decidedBy,  \* the offers
  documents,    \* the offers with a row in offer_documents
  deliveries,   \* the rows of offer_deliveries
  req,          \* the goroutines
  \* History variables: the code has no such state, the properties need it.
  accepted,     \* deliveries whose mail the SMTP server accepted
  orphaned      \* deliveries whose goroutine stopped half-way

offerVars == <<status, requestOf, required, decidedBy>>
vars == <<offerVars, documents, deliveries, req, accepted, orphaned>>

Life == INSTANCE OfferLifecycle

--------------------------------------------------------------------------------
(* The rows and the goroutines. *)

DeliveryStatus == {"pending", "sent", "failed"}

DeliveryRow == [offer : Offers \cup {NULL}, status : DeliveryStatus \cup {"absent"}]
Absent == [offer |-> NULL, status |-> "absent"]

Request ==
  [pc       : {"idle", "store", "record", "mail", "finish"},
   offer    : Offers \cup {NULL},
   mailing  : BOOLEAN,
   delivery : Deliveries \cup {NULL},
   outcome  : DeliveryStatus \cup {NULL}]

Idle ==
  [pc |-> "idle", offer |-> NULL, mailing |-> FALSE, delivery |-> NULL, outcome |-> NULL]

Become(p, r) == req' = [req EXCEPT ![p] = r]

--------------------------------------------------------------------------------
\* Variant: an offer that waits for approval is sent too.
MayLeaveSubmitted(o) == status[o] \in {"pending_approval", "approved"}

MayLeave(o) == status[o] = "approved"

\* PDF and Send both read the offer and refuse one that is not in force.
Start(p) ==
  /\ req[p].pc = "idle"
  /\ \E o \in Offers, mailing \in BOOLEAN :
       /\ MayLeave(o)
       /\ Become(p, [Idle EXCEPT !.pc = "store", !.offer = o, !.mailing = mailing])
  /\ UNCHANGED <<offerVars, documents, deliveries, accepted, orphaned>>

\* An upsert; a download ends with it.
Store(p) ==
  /\ req[p].pc = "store"
  /\ documents' = documents \cup {req[p].offer}
  /\ Become(p, IF req[p].mailing THEN [req[p] EXCEPT !.pc = "record"] ELSE Idle)
  /\ UNCHANGED <<offerVars, deliveries, accepted, orphaned>>

CreateDelivery(p) ==
  /\ req[p].pc = "record"
  /\ \E x \in Deliveries :
       /\ deliveries[x].status = "absent"
       /\ deliveries' = [deliveries EXCEPT ![x] = [offer |-> req[p].offer, status |-> "pending"]]
       /\ Become(p, [req[p] EXCEPT !.pc = "mail", !.delivery = x])
  /\ UNCHANGED <<offerVars, documents, accepted, orphaned>>

\* Variant: an error of the mail server is not looked at.
MailIgnoringErrors(p) ==
  /\ req[p].pc = "mail"
  /\ accepted' \in {accepted, accepted \cup {req[p].delivery}}
  /\ Become(p, [req[p] EXCEPT !.pc = "finish", !.outcome = "sent"])
  /\ UNCHANGED <<offerVars, documents, deliveries, orphaned>>

\* Variant: the outcome of a failed mail is not kept.
MailForgettingOutcome(p) ==
  /\ req[p].pc = "mail"
  /\ accepted' \in {accepted, accepted \cup {req[p].delivery}}
  /\ Become(p, [req[p] EXCEPT !.pc = "finish"])
  /\ UNCHANGED <<offerVars, documents, deliveries, orphaned>>

\* The server takes the mail and says so, or the call fails, before or after
\* the server took it.
Mail(p) ==
  /\ req[p].pc = "mail"
  /\ \/ /\ accepted' = accepted \cup {req[p].delivery}
        /\ Become(p, [req[p] EXCEPT !.pc = "finish", !.outcome = "sent"])
     \/ /\ accepted' \in {accepted, accepted \cup {req[p].delivery}}
        /\ Become(p, [req[p] EXCEPT !.pc = "finish", !.outcome = "failed"])
  /\ UNCHANGED <<offerVars, documents, deliveries, orphaned>>

\* Variant: a failed mail leaves its row as it was.
FinishSentOnly(p) ==
  /\ req[p].pc = "finish"
  /\ deliveries' = IF req[p].outcome = "failed" THEN deliveries
                   ELSE [deliveries EXCEPT ![req[p].delivery].status = req[p].outcome]
  /\ Become(p, Idle)
  /\ UNCHANGED <<offerVars, documents, accepted, orphaned>>

FinishDelivery(p) ==
  /\ req[p].pc = "finish"
  /\ deliveries' = [deliveries EXCEPT ![req[p].delivery].status = req[p].outcome]
  /\ Become(p, Idle)
  /\ UNCHANGED <<offerVars, documents, accepted, orphaned>>

\* The caller goes away (the statements run under the request's context), a
\* statement fails or the server stops.
Abandon(p) ==
  /\ req[p].pc # "idle"
  /\ orphaned' = orphaned \cup ({req[p].delivery} \ {NULL})
  /\ Become(p, Idle)
  /\ UNCHANGED <<offerVars, documents, deliveries, accepted>>

--------------------------------------------------------------------------------
Init ==
  /\ Life!Init
  /\ documents = {}
  /\ deliveries = [x \in Deliveries |-> Absent]
  /\ req = [p \in Requests |-> Idle]
  /\ accepted = {}
  /\ orphaned = {}

\* What a goroutine that is not stopped goes on to do.
Work(p) == Store(p) \/ CreateDelivery(p) \/ Mail(p) \/ FinishDelivery(p)

OfferStep == Life!Next /\ UNCHANGED <<documents, deliveries, req, accepted, orphaned>>

Next == OfferStep \/ \E p \in Requests : Start(p) \/ Work(p) \/ Abandon(p)

\* A goroutine runs on; nothing makes a caller start one or a server stop.
Spec == Init /\ [][Next]_vars /\ \A p \in Requests : WF_vars(Work(p))

--------------------------------------------------------------------------------
(* Properties. *)

\* Every row and every goroutine is of its type.
TypeOK ==
  /\ Life!TypeOK
  /\ documents \subseteq Offers
  /\ deliveries \in [Deliveries -> DeliveryRow]
  /\ req \in [Requests -> Request]
  /\ accepted \subseteq Deliveries
  /\ orphaned \subseteq Deliveries

\* A mail that left, whatever its row says, is of an offer in force, whose document
\* is stored and which a supervisor approved if it needed approval, although the
\* offer was read several statements earlier.
MailedIsEntitled ==
  \A x \in accepted :
    LET o == deliveries[x].offer
    IN /\ status[o] = "approved"
       /\ required[o] => decidedBy[o] \in Supervisors
       /\ o \in documents

\* A row says sent only of a mail the server accepted, and two goroutines never
\* work on one row.
SentWasAccepted ==
  /\ \A x \in Deliveries : deliveries[x].status = "sent" => x \in accepted
  /\ \A p, q \in Requests :
       p # q /\ req[p].delivery # NULL => req[p].delivery # req[q].delivery

\* A row left pending belongs to a goroutine at work or to one that was stopped.
\* A delivery does not stay pending for any other reason.
DeliveryEnds ==
  \A x \in Deliveries :
    deliveries[x].status = "pending" ~>
      (deliveries[x].status \in {"sent", "failed"} \/ x \in orphaned)
================================================================================
