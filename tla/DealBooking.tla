------------------------------ MODULE DealBooking ------------------------------
(***************************************************************************)
(* Deals, the apartments they book and the chat sessions they drive.       *)
(*                                                                         *)
(* The two Go servers (user_server and staff_server) run one goroutine per *)
(* HTTP request over one PostgreSQL database.  A handler is a sequence of  *)
(* repository calls, each its own statement or transaction, and handlers   *)
(* interleave between those calls.  A member of Requests is a goroutine;   *)
(* its record req[p] holds what the handler has read so far.  A handler    *)
(* that refuses its request changes nothing and ends.                      *)
(*                                                                         *)
(* Money is in kopecks.  A requested discount is in thousandths of a       *)
(* percent (the request field is a float), a stored discount and a limit   *)
(* in hundredths (the columns are DECIMAL(5, 2)).                          *)
(***************************************************************************)
EXTENDS Integers

CONSTANTS
  Clients, Managers, Supervisors,  \* the users, by role
  Apartments,
  Sessions,        \* applications: chat sessions about an apartment
  SessionClient,   \* chat_sessions.id_user, fixed when a session is inserted
  Deals,           \* a pool of deal ids, finite
  Requests,        \* the goroutines that run deal handlers
  Discounts,       \* the discounts requests ask for
  Limits,          \* the limits discount policies set
  ManagerMax, SupervisorMax,       \* the limits of the configuration
  Prices,          \* the prices apartments are given
  Moves,           \* the status changes callers ask for, <<from, to>>
  StaffEdits,      \* whether supervisors also edit apartments by hand
  NULL             \* SQL's NULL

Users == Clients \cup Managers \cup Supervisors
Staff == Managers \cup Supervisors
StaffRoles == {"manager", "supervisor"}
Roles == StaffRoles \cup {"user"}

DealStatus == {"pending", "contract", "completed", "cancelled"}
LiveStatus == {"pending", "contract"}
ApartmentStatus == {"free", "booked", "sold"}
SessionStatus == {"open", "in_progress", "pending_approval", "contract", "close"}

\* From nothing to the whole price, as requested and as stored.
RequestedPercents == 0 .. 100000
StoredPercents == 0 .. 10000

\* A user has one role, and a session one client.
ASSUME UsersAssumption ==
  /\ Clients \cap Staff = {}
  /\ Managers \cap Supervisors = {}
  /\ SessionClient \in [Sessions -> Clients]

ASSUME AmountsAssumption ==
  /\ Discounts \subseteq RequestedPercents
  /\ Limits \subseteq StoredPercents
  /\ ManagerMax \in StoredPercents
  /\ SupervisorMax \in StoredPercents
  /\ Prices \subseteq Int

ASSUME MovesAssumption == Moves \subseteq DealStatus \X DealStatus

ASSUME NullAssumption ==
  NULL \notin Users \cup Apartments \cup Sessions \cup Deals \cup Int \cup (Deals \X DealStatus)

VARIABLES
  aptStatus,    \* apartments.status
  aptPrice,     \* apartments.price
  sessStatus,   \* chat_sessions.status
  sessEmployee, \* chat_sessions.id_employee
  deals,        \* the rows of deals
  policy,       \* the limit of the active discount policy, if there is one
  notified,     \* deals whose client has a notification row about the creation
  told,         \* the last system message about a deal in each session's chat
  req,          \* the goroutines
  \* History variables: the code has no such state, the properties need it.
  edited,       \* apartments whose status was last written by hand
  pricedBy,     \* role of the actor who set a deal's discount
  inForce,      \* every limit that has been in force so far
  reached       \* every status a deal has been committed in

dbVars == <<aptStatus, aptPrice, sessStatus, sessEmployee, deals, policy>>
logVars == <<notified, told>>
historyVars == <<edited, pricedBy, inForce, reached>>
vars == <<dbVars, logVars, req, historyVars>>

--------------------------------------------------------------------------------
(* The rows and the goroutines. *)

DealRow ==
  [status   : DealStatus \cup {"absent"},
   client   : Clients \cup {NULL},
   employee : Staff \cup {NULL},
   apt      : Apartments \cup {NULL},
   session  : Sessions \cup {NULL},
   base     : Int,
   discount : Nat,
   total    : Int]

Absent ==
  [status |-> "absent", client |-> NULL, employee |-> NULL, apt |-> NULL,
   session |-> NULL, base |-> 0, discount |-> 0, total |-> 0]

Request ==
  [pc       : {"idle", "eligible", "sale", "insert", "reprice", "update", "announce"},
   actor    : Users \cup {NULL},
   client   : Clients \cup {NULL},
   apt      : Apartments \cup {NULL},
   session  : Sessions \cup {NULL},
   discount : Discounts \cup {NULL},
   base     : Int \cup {NULL},
   deal     : Deals \cup {NULL},
   to       : DealStatus \cup {NULL}]

Idle ==
  [pc |-> "idle", actor |-> NULL, client |-> NULL, apt |-> NULL, session |-> NULL,
   discount |-> NULL, base |-> NULL, deal |-> NULL, to |-> NULL]

Exists(d) == deals[d].status # "absent"
Live(d) == deals[d].status \in LiveStatus

Role(u) == IF u \in Supervisors THEN "supervisor"
           ELSE IF u \in Managers THEN "manager" ELSE "user"

--------------------------------------------------------------------------------
(* Pricing. *)

\* What the DECIMAL(5, 2) column keeps of a requested discount.
StoredDiscount(q) == (q + 5) \div 10

\* roundPrice(base * (1 - q / 100)), to the kopeck.
TotalPrice(base, q) == (2 * base * (100000 - q) + 100000) \div 200000

\* The limit policies pol set for role on apartment a, or the configured one.
LimitUnder(pol, a, role) ==
  IF role \in StaffRoles /\ pol[a][role] # NULL THEN pol[a][role]
  ELSE IF role = "supervisor" THEN SupervisorMax ELSE ManagerMax

MaxDiscount(a, role) == LimitUnder(policy, a, role)

\* Variant: staff of either role are held to the configured supervisor limit.
WithinLimitOfStaff(q, a, role) == q <= 10 * SupervisorMax

WithinLimit(q, a, role) == q <= 10 * MaxDiscount(a, role)

--------------------------------------------------------------------------------
(* Who may do what. *)

\* Variant: any session of the client will do, whoever works on it.
CanCreateForAnyone(actor, client, session) ==
  /\ session # NULL => SessionClient[session] = client
  /\ actor \in Managers => \E s \in Sessions : SessionClient[s] = client

\* A supervisor deals with any client, a manager with the clients of the
\* sessions assigned to him; a session named in the request is the client's.
CanCreateDealForUser(actor, client, session) ==
  /\ session # NULL => /\ SessionClient[session] = client
                       /\ actor \in Managers => sessEmployee[session] = actor
  /\ actor \in Managers => \E s \in Sessions : /\ SessionClient[s] = client
                                               /\ sessEmployee[s] = actor

\* Variant: every manager may move every deal.
MayMoveAny(u, d, to) ==
  \/ u \in Clients /\ deals[d].client = u /\ to \in {"contract", "cancelled"}
  \/ u \in Staff

MayMove(u, d, to) ==
  \/ u \in Clients /\ deals[d].client = u /\ to \in {"contract", "cancelled"}
  \/ u \in Managers /\ deals[d].employee = u
  \/ u \in Supervisors

--------------------------------------------------------------------------------
(* What a transaction on a deal writes in the other tables. *)

\* Variant: cancelling a deal keeps its apartment booked.
ApartmentStatusKept(to) ==
  CASE to = "completed" -> "sold" [] OTHER -> "booked"

ApartmentStatusOf(to) ==
  CASE to = "completed" -> "sold"
    [] to = "cancelled" -> "free"
    [] OTHER -> "booked"

\* Variant: a cancelled deal sends its session back for approval.
SessionStatusReopened(to) ==
  CASE to = "completed" -> "close"
    [] to = "contract"  -> "contract"
    [] OTHER            -> "pending_approval"

SessionStatusOf(to) ==
  CASE to = "completed" -> "close"
    [] to = "contract"  -> "contract"
    [] to = "cancelled" -> "in_progress"
    [] OTHER            -> "pending_approval"

\* The apartment and session updates of a transaction that commits deal d in
\* status to.  Neither looks at the row it overwrites.
SideEffects(d, apt, session, to) ==
  /\ aptStatus' = [aptStatus EXCEPT ![apt] = ApartmentStatusOf(to)]
  /\ edited' = edited \ {apt}
  /\ sessStatus' = IF session = NULL THEN sessStatus
                   ELSE [sessStatus EXCEPT ![session] = SessionStatusOf(to)]
  /\ reached' = reached \cup {<<d, to>>}

--------------------------------------------------------------------------------
(* CreateDeal. *)

Become(p, r) == req' = [req EXCEPT ![p] = r]

\* The actor is staff, and the limit is read and compared first.
StartCreate(p) ==
  /\ req[p].pc = "idle"
  /\ \E u \in Staff, c \in Clients, a \in Apartments,
        s \in Sessions \cup {NULL}, q \in Discounts :
       /\ WithinLimit(q, a, Role(u))
       /\ Become(p, [Idle EXCEPT !.pc = "eligible", !.actor = u, !.client = c,
                                 !.apt = a, !.session = s, !.discount = q])
  /\ UNCHANGED <<dbVars, logVars, historyVars>>

CheckEligible(p) ==
  /\ req[p].pc = "eligible"
  /\ Become(p, IF CanCreateDealForUser(req[p].actor, req[p].client, req[p].session)
               THEN [req[p] EXCEPT !.pc = "sale"] ELSE Idle)
  /\ UNCHANGED <<dbVars, logVars, historyVars>>

ForSale(a) == aptPrice[a] > 0 /\ aptStatus[a] = "free"

ReadSale(p) ==
  /\ req[p].pc = "sale"
  /\ Become(p, IF ForSale(req[p].apt)
               THEN [req[p] EXCEPT !.pc = "insert", !.base = aptPrice[req[p].apt]]
               ELSE Idle)
  /\ UNCHANGED <<dbVars, logVars, historyVars>>

\* Variant: the two parties of the deal are swapped.
NewDealRowSwapped(r) ==
  [status |-> "pending", client |-> r.actor, employee |-> r.client, apt |-> r.apt,
   session |-> r.session, base |-> r.base, discount |-> StoredDiscount(r.discount),
   total |-> TotalPrice(r.base, r.discount)]

NewDealRow(r) ==
  [status |-> "pending", client |-> r.client, employee |-> r.actor, apt |-> r.apt,
   session |-> r.session, base |-> r.base, discount |-> StoredDiscount(r.discount),
   total |-> TotalPrice(r.base, r.discount)]

\* The transaction: the deal, its apartment and its session.
InsertDeal(p) ==
  /\ req[p].pc = "insert"
  /\ \E d \in Deals :
       /\ ~Exists(d)
       /\ deals' = [deals EXCEPT ![d] = NewDealRow(req[p])]
       /\ SideEffects(d, req[p].apt, req[p].session, "pending")
       /\ pricedBy' = [pricedBy EXCEPT ![d] = Role(req[p].actor)]
       /\ Become(p, [Idle EXCEPT !.pc = "announce", !.actor = req[p].actor,
                                 !.deal = d, !.to = "pending",
                                 !.client = req[p].client])
  /\ UNCHANGED <<aptPrice, sessEmployee, policy, logVars, inForce>>

--------------------------------------------------------------------------------
(* UpdateDealStatus. *)

\* The deal is read and the actor is checked against what was read.
StartUpdate(p) ==
  /\ req[p].pc = "idle"
  /\ \E u \in Users, d \in Deals, to \in DealStatus, q \in Discounts \cup {NULL} :
       /\ Exists(d)
       /\ <<deals[d].status, to>> \in Moves
       /\ MayMove(u, d, to)
       /\ Become(p, [Idle EXCEPT !.pc = IF q = NULL THEN "update" ELSE "reprice",
                                 !.actor = u, !.apt = deals[d].apt, !.discount = q,
                                 !.base = deals[d].base, !.deal = d, !.to = to])
  /\ UNCHANGED <<dbVars, logVars, historyVars>>

\* A new discount is held to the limit of the actor's role; a client has no
\* policy and falls to the configured manager limit.
\*
\* Variant: a refused discount is announced like an accepted one.
RepriceAnnouncingRefusal(p) ==
  /\ req[p].pc = "reprice"
  /\ Become(p, IF WithinLimit(req[p].discount, req[p].apt, Role(req[p].actor))
               THEN [req[p] EXCEPT !.pc = "update"]
               ELSE [req[p] EXCEPT !.pc = "announce"])
  /\ UNCHANGED <<dbVars, logVars, historyVars>>

Reprice(p) ==
  /\ req[p].pc = "reprice"
  /\ Become(p, IF WithinLimit(req[p].discount, req[p].apt, Role(req[p].actor))
               THEN [req[p] EXCEPT !.pc = "update"] ELSE Idle)
  /\ UNCHANGED <<dbVars, logVars, historyVars>>

\* Variant: the new discount is stored and the total is left as it was.
RepricedDiscountOnly(row, r) ==
  IF r.discount = NULL THEN row
  ELSE [row EXCEPT !.discount = StoredDiscount(r.discount)]

Repriced(row, r) ==
  IF r.discount = NULL THEN row
  ELSE [row EXCEPT !.discount = StoredDiscount(r.discount),
                   !.total = TotalPrice(r.base, r.discount)]

\* The transaction: no condition on the status the deal has by now.
UpdateDeal(p) ==
  /\ req[p].pc = "update"
  /\ LET d == req[p].deal
         row == deals[d]
     IN /\ deals' = [deals EXCEPT ![d] = [Repriced(row, req[p]) EXCEPT !.status = req[p].to]]
        /\ SideEffects(d, row.apt, row.session, req[p].to)
        /\ pricedBy' = IF req[p].discount = NULL THEN pricedBy
                       ELSE [pricedBy EXCEPT ![d] = Role(req[p].actor)]
        /\ Become(p, [Idle EXCEPT !.pc = "announce", !.actor = req[p].actor,
                                  !.deal = d, !.to = req[p].to])
  /\ UNCHANGED <<aptPrice, sessEmployee, policy, logVars, inForce>>

--------------------------------------------------------------------------------
(* After the commit, and at any time. *)

\* The notification (of a creation only) and the system message are best
\* effort: either insert may fail and the error is dropped.
Announce(p) ==
  /\ req[p].pc = "announce"
  /\ \/ UNCHANGED notified
     \/ req[p].client # NULL /\ notified' = notified \cup {req[p].deal}
  /\ LET s == deals[req[p].deal].session
     IN \/ UNCHANGED told
        \/ s # NULL /\ told' = [told EXCEPT ![s] = <<req[p].deal, req[p].to>>]
  /\ Become(p, Idle)
  /\ UNCHANGED <<dbVars, historyVars>>

\* The client goes away, a statement fails or the server stops.
Abandon(p) ==
  /\ req[p].pc # "idle"
  /\ Become(p, Idle)
  /\ UNCHANGED <<dbVars, logVars, historyVars>>

--------------------------------------------------------------------------------
(* The other handlers that write what deals depend on. *)

\* Variant: a session somebody works on is taken over.
TakeOverSession(u, s) ==
  /\ sessEmployee' = [sessEmployee EXCEPT ![s] = u]
  /\ sessStatus' = [sessStatus EXCEPT ![s] = "in_progress"]
  /\ UNCHANGED <<aptStatus, aptPrice, deals, policy, logVars, req, historyVars>>

\* An update guarded by id_employee IS NULL; the status is not looked at.
TakeSession(u, s) ==
  /\ sessEmployee[s] = NULL
  /\ sessEmployee' = [sessEmployee EXCEPT ![s] = u]
  /\ sessStatus' = [sessStatus EXCEPT ![s] = "in_progress"]
  /\ UNCHANGED <<aptStatus, aptPrice, deals, policy, logVars, req, historyVars>>

\* Close, and the last statement of reject.
CloseSession(u, s) ==
  /\ u \in Managers => sessEmployee[s] = u
  /\ sessStatus' = [sessStatus EXCEPT ![s] = "close"]
  /\ UNCHANGED <<aptStatus, aptPrice, sessEmployee, deals, policy, logVars, req, historyVars>>

\* A supervisor's PUT overwrites every column of the apartment.
UpdateApartment(a) ==
  /\ StaffEdits
  /\ \E st \in ApartmentStatus : aptStatus' = [aptStatus EXCEPT ![a] = st]
  /\ \E m \in Prices : aptPrice' = [aptPrice EXCEPT ![a] = m]
  /\ edited' = edited \cup {a}
  /\ UNCHANGED <<sessStatus, sessEmployee, deals, policy, logVars, req,
                 pricedBy, inForce, reached>>

\* A policy of the apartment's building takes effect, or the last one ends.
PolicyTakesEffect(a, role) ==
  \E m \in Limits \cup {NULL} :
    /\ policy' = [policy EXCEPT ![a][role] = m]
    /\ inForce' = [inForce EXCEPT ![a][role] = @ \cup {LimitUnder(policy', a, role)}]
    /\ UNCHANGED <<aptStatus, aptPrice, sessStatus, sessEmployee, deals, logVars,
                   req, edited, pricedBy, reached>>

--------------------------------------------------------------------------------
Init ==
  /\ aptStatus \in [Apartments -> ApartmentStatus]
  /\ aptPrice \in [Apartments -> Prices]
  /\ sessStatus = [s \in Sessions |-> "open"]
  /\ sessEmployee = [s \in Sessions |-> NULL]
  /\ deals = [d \in Deals |-> Absent]
  /\ policy \in [Apartments -> [StaffRoles -> Limits \cup {NULL}]]
  /\ notified = {}
  /\ told = [s \in Sessions |-> NULL]
  /\ req = [p \in Requests |-> Idle]
  /\ edited = Apartments
  /\ pricedBy = [d \in Deals |-> "user"]
  /\ inForce = [a \in Apartments |-> [role \in Roles |-> {MaxDiscount(a, role)}]]
  /\ reached = {}

RequestStep(p) ==
  \/ StartCreate(p) \/ CheckEligible(p) \/ ReadSale(p) \/ InsertDeal(p)
  \/ StartUpdate(p) \/ Reprice(p) \/ UpdateDeal(p)
  \/ Announce(p) \/ Abandon(p)

Next ==
  \/ \E p \in Requests : RequestStep(p)
  \/ \E u \in Staff, s \in Sessions : TakeSession(u, s) \/ CloseSession(u, s)
  \/ \E a \in Apartments : UpdateApartment(a)
  \/ \E a \in Apartments, role \in StaffRoles : PolicyTakesEffect(a, role)

Spec == Init /\ [][Next]_vars

--------------------------------------------------------------------------------
(* Properties. *)

\* Every row and every goroutine is of its type.
TypeOK ==
  /\ aptStatus \in [Apartments -> ApartmentStatus]
  /\ aptPrice \in [Apartments -> Int]
  /\ sessStatus \in [Sessions -> SessionStatus]
  /\ sessEmployee \in [Sessions -> Staff \cup {NULL}]
  /\ deals \in [Deals -> DealRow]
  /\ policy \in [Apartments -> [StaffRoles -> Limits \cup {NULL}]]
  /\ notified \subseteq Deals
  /\ told \in [Sessions -> (Deals \X DealStatus) \cup {NULL}]
  /\ req \in [Requests -> Request]
  /\ edited \subseteq Apartments
  /\ pricedBy \in [Deals -> Roles]
  /\ inForce \in [Apartments -> [Roles -> SUBSET StoredPercents]]
  /\ reached \subseteq Deals \X DealStatus

\* The stored discount and the stored total of a deal come from one requested
\* discount, applied to the price the deal was created at: interleaved updates
\* of a deal never leave the discount of one and the total of another.
TotalMatchesDiscount ==
  \A d \in Deals : Exists(d) =>
    \E q \in Discounts : /\ deals[d].discount = StoredDiscount(q)
                          /\ deals[d].total = TotalPrice(deals[d].base, q)

\* The discount of a deal is within a limit that was in force for the role of
\* the actor who set it, although the limit is read before the transaction and
\* policies change in between, and although the column rounds what was checked.
DiscountWithinLimit ==
  \A d \in Deals : Exists(d) =>
    \E m \in inForce[deals[d].apt][pricedBy[d]] : deals[d].discount <= m

\* A session waiting for approval has a pending deal, and a session in contract
\* a deal in contract: no order of creations, moves, takes and closes leaves a
\* session in a stage none of its deals is in.
SessionStageHasDeal ==
  \A s \in Sessions :
    /\ sessStatus[s] = "pending_approval" =>
         \E d \in Deals : deals[d].session = s /\ deals[d].status = "pending"
    /\ sessStatus[s] = "contract" =>
         \E d \in Deals : deals[d].session = s /\ deals[d].status = "contract"

\* An apartment that no supervisor edited since is booked only on behalf of a
\* live deal and sold only by a completed one: cancelling never leaves an
\* apartment withheld from sale with nobody buying it.
WithheldApartmentHasDeal ==
  \A a \in Apartments \ edited :
    /\ aptStatus[a] = "booked" => \E d \in Deals : deals[d].apt = a /\ Live(d)
    /\ aptStatus[a] = "sold" =>
         \E d \in Deals : deals[d].apt = a /\ deals[d].status = "completed"

\* A manager's deal is with a client one of whose applications he took, and the
\* application a deal names is its client's (and, for a manager, his own):
\* the check made before the transaction still holds after it.
DealHasItsApplication ==
  \A d \in Deals : Exists(d) =>
    /\ deals[d].session # NULL =>
         /\ SessionClient[deals[d].session] = deals[d].client
         /\ deals[d].employee \in Managers =>
              sessEmployee[deals[d].session] = deals[d].employee
    /\ deals[d].employee \in Managers =>
         \E s \in Sessions : /\ SessionClient[s] = deals[d].client
                             /\ sessEmployee[s] = deals[d].employee

\* The last system message in a session's chat tells a status its deal was
\* committed in, and a creation notice is about a committed deal: no message is
\* sent for a request that was refused or rolled back.
AnnouncedWasCommitted ==
  /\ \A s \in Sessions : told[s] # NULL =>
       /\ told[s] \in reached
       /\ deals[told[s][1]].session = s
  /\ \A d \in notified : <<d, "pending">> \in reached

\* Only a party to a deal moves it, each in the ways open to him, whatever
\* changed between the check and the transaction; and a move never rewrites who
\* the deal is with, what it is about or the price it started from.
OnlyPartiesMoveDeals ==
  [][\A d \in Deals : Exists(d) /\ deals'[d] # deals[d] =>
       /\ \E p \in Requests :
            /\ req[p].deal = d
            /\ \/ /\ req[p].actor = deals[d].client
                  /\ deals'[d].status \in {"contract", "cancelled"}
               \/ req[p].actor \in {deals[d].employee} \cup Supervisors
       /\ deals'[d] = [deals[d] EXCEPT !.status = deals'[d].status,
                                      !.discount = deals'[d].discount,
                                      !.total = deals'[d].total]]_vars

\* Deals and the other handlers of a session together keep what staff rely on:
\* a session is assigned once, only its employee or a supervisor closes it, and
\* whatever else moves it is a deal, to a stage deals have.
Desk ==
  INSTANCE SessionDesk WITH status <- sessStatus, employee <- sessEmployee, general <- {}

KeepsDesk == Desk!Spec

--------------------------------------------------------------------------------
(* What texts of the repository say and the code does not ensure. *)

\* The client is told that the apartment of his new deal is booked: while
\* staff do not edit apartments, no other live deal is on it.
AtMostOneLiveDeal ==
  \A d, e \in Deals :
    Live(d) /\ Live(e) /\ deals[d].apt = deals[e].apt => d = e

\* A completed deal has moved its apartment to sold.
CompletedIsSold ==
  \A d \in Deals : deals[d].status = "completed" => aptStatus[deals[d].apt] = "sold"
================================================================================
