-------------------------- MODULE DealBooking_proofs --------------------------
(***************************************************************************)
(* Proofs about DealBooking, for any users, apartments, sessions, deals,   *)
(* goroutines, discounts and limits.                                       *)
(***************************************************************************)
EXTENDS DealBooking, TLAPS

Creating == {"eligible", "sale", "insert"}
Moving == {"reprice", "update"}

\* What a goroutine holds at each point of its handler.
RequestTyped(p) ==
  /\ req[p].pc \in Creating => /\ req[p].actor \in Staff
                               /\ req[p].client \in Clients
                               /\ req[p].apt \in Apartments
                               /\ req[p].discount \in Discounts
  /\ req[p].pc \in Moving \cup {"announce"} => /\ req[p].deal \in Deals
                                               /\ req[p].to \in DealStatus
                                               /\ Exists(req[p].deal)
  /\ req[p].pc = "reprice" => req[p].discount \in Discounts
  /\ req[p].pc \in {"insert"} \cup Moving => req[p].base \in Int

TypeInv == TypeOK /\ \A p \in Requests : RequestTyped(p)

--------------------------------------------------------------------------------
(* The operators of the model. *)

\* Rounding a discount to the column's two decimals gives a hundredth count,
\* and never lifts it over a limit it respects.
LEMMA StoredDiscountBounds ==
  ASSUME NEW q \in RequestedPercents
  PROVE  /\ StoredDiscount(q) \in Nat
         /\ \A m \in Nat : q <= 10 * m => StoredDiscount(q) <= m
BY DEF StoredDiscount, RequestedPercents

\* A stored percentage is a whole number of hundredths.
LEMMA StoredPercentsNat == ASSUME NEW m \in StoredPercents PROVE m \in Nat
BY SMTT(30) DEF StoredPercents

\* A total is a whole number of kopecks.
LEMMA TotalPriceType ==
  ASSUME NEW base \in Int, NEW q \in RequestedPercents
  PROVE  TotalPrice(base, q) \in Int
BY DEF TotalPrice, RequestedPercents

\* The limit policies set is one that can be in force.
LEMMA LimitType ==
  ASSUME NEW pol \in [Apartments -> [StaffRoles -> Limits \cup {NULL}]],
         NEW a \in Apartments, NEW role \in Roles
  PROVE  LimitUnder(pol, a, role) \in StoredPercents
<1>1. /\ Limits \subseteq StoredPercents
      /\ ManagerMax \in StoredPercents
      /\ SupervisorMax \in StoredPercents
  BY AmountsAssumption
<1>2. CASE role \in StaffRoles
  <2>1. pol[a][role] \in Limits \cup {NULL}
    BY <1>2
  <2> QED
    BY <1>1, <1>2, <2>1 DEF LimitUnder
<1>3. CASE role \notin StaffRoles
  BY <1>1, <1>3 DEF LimitUnder
<1> QED
  BY <1>2, <1>3

\* Every user has a role.
LEMMA RoleType == ASSUME NEW u PROVE Role(u) \in Roles
BY DEF Role, Roles, StaffRoles

--------------------------------------------------------------------------------
(* Type correctness. *)

LEMMA InitTypeInv == Init => TypeInv
<1> SUFFICES ASSUME Init PROVE TypeInv
  OBVIOUS
<1>1. Absent \in DealRow
  BY DEF Absent, DealRow
<1>2. Idle \in Request
  BY DEF Idle, Request
<1>3. inForce \in [Apartments -> [Roles -> SUBSET StoredPercents]]
  <2>1. policy \in [Apartments -> [StaffRoles -> Limits \cup {NULL}]]
    BY DEF Init
  <2>2. \A a \in Apartments, role \in Roles : MaxDiscount(a, role) \in StoredPercents
    BY <2>1, LimitType DEF MaxDiscount
  <2> QED
    BY <2>2 DEF Init
<1>4. TypeOK
  BY <1>1, <1>2, <1>3, AmountsAssumption
  DEF Init, TypeOK, ApartmentStatus, SessionStatus, Roles
<1>5. ASSUME NEW p \in Requests PROVE RequestTyped(p)
  BY DEF Init, RequestTyped, Idle, Creating, Moving
<1> QED
  BY <1>4, <1>5 DEF TypeInv

\* A step that replaces one goroutine's record by a typed one, and leaves every
\* deal there was, keeps the goroutines typed.
LEMMA BecomeTyped ==
  ASSUME TypeInv, NEW p \in Requests, NEW r \in Request, Become(p, r),
         \A d \in Deals : Exists(d) => Exists(d)',
         RequestTyped(p)'
  PROVE  /\ req' \in [Requests -> Request]
         /\ \A o \in Requests : RequestTyped(o)'
<1>1. req' = [req EXCEPT ![p] = r] /\ req \in [Requests -> Request]
  BY DEF Become, TypeInv, TypeOK
<1>2. ASSUME NEW o \in Requests, o # p PROVE RequestTyped(o)'
  <2>1. req'[o] = req[o]
    BY <1>1, <1>2
  <2> QED
    BY <2>1 DEF TypeInv, RequestTyped
<1> QED
  BY <1>1, <1>2

\* A goroutine's record is what its step makes it, the others' are as they were.
LEMMA BecomeAt ==
  ASSUME TypeInv, NEW p \in Requests, NEW r, Become(p, r)
  PROVE  /\ req'[p] = r
         /\ \A o \in Requests : o # p => req'[o] = req[o]
<1>1. req \in [Requests -> Request]
  BY DEF TypeInv, TypeOK
<1> QED
  BY <1>1 DEF Become

\* The transaction of a deal leaves the other tables typed.
LEMMA SideEffectsTyped ==
  ASSUME TypeInv, NEW d \in Deals, NEW apt, NEW session, NEW to \in DealStatus,
         SideEffects(d, apt, session, to)
  PROVE  /\ aptStatus' \in [Apartments -> ApartmentStatus]
         /\ edited' \subseteq Apartments
         /\ sessStatus' \in [Sessions -> SessionStatus]
         /\ reached' \subseteq Deals \X DealStatus
<1>1. ApartmentStatusOf(to) \in ApartmentStatus /\ SessionStatusOf(to) \in SessionStatus
  BY DEF ApartmentStatusOf, SessionStatusOf, ApartmentStatus, SessionStatus, DealStatus
<1>2. /\ aptStatus \in [Apartments -> ApartmentStatus]
      /\ edited \subseteq Apartments
      /\ sessStatus \in [Sessions -> SessionStatus]
      /\ reached \subseteq Deals \X DealStatus
  BY DEF TypeInv, TypeOK
<1>3. aptStatus' \in [Apartments -> ApartmentStatus]
  BY <1>1, <1>2 DEF SideEffects
<1>4. sessStatus' \in [Sessions -> SessionStatus]
  BY <1>1, <1>2 DEF SideEffects
<1>5. edited' \subseteq Apartments /\ reached' \subseteq Deals \X DealStatus
  BY <1>2 DEF SideEffects
<1> QED
  BY <1>3, <1>4, <1>5

LEMMA StartCreateTyped ==
  ASSUME TypeInv, NEW p \in Requests, StartCreate(p)
  PROVE  TypeInv'
<1>1. PICK u \in Staff, c \in Clients, a \in Apartments,
            s \in Sessions \cup {NULL}, q \in Discounts :
        Become(p, [Idle EXCEPT !.pc = "eligible", !.actor = u, !.client = c,
                               !.apt = a, !.session = s, !.discount = q])
  BY DEF StartCreate
<1> DEFINE r == [Idle EXCEPT !.pc = "eligible", !.actor = u, !.client = c,
                             !.apt = a, !.session = s, !.discount = q]
<1>2. r \in Request
  BY DEF Idle, Request, Users, Staff
<1>3. req'[p] = r
  BY <1>1, BecomeAt
<1>4. RequestTyped(p)'
  BY <1>3 DEF RequestTyped, Idle, Creating, Moving
<1>5. UNCHANGED <<dbVars, logVars, historyVars>>
  BY DEF StartCreate
<1>6. \A d \in Deals : Exists(d) => Exists(d)'
  BY <1>5 DEF dbVars, Exists
<1>7. req' \in [Requests -> Request] /\ \A o \in Requests : RequestTyped(o)'
  BY <1>1, <1>2, <1>4, <1>6, BecomeTyped
<1> QED
  BY <1>5, <1>7 DEF TypeInv, TypeOK, dbVars, logVars, historyVars

LEMMA CheckEligibleTyped ==
  ASSUME TypeInv, NEW p \in Requests, CheckEligible(p)
  PROVE  TypeInv'
<1> DEFINE r == IF CanCreateDealForUser(req[p].actor, req[p].client, req[p].session)
                THEN [req[p] EXCEPT !.pc = "sale"] ELSE Idle
<1>1. Become(p, r) /\ UNCHANGED <<dbVars, logVars, historyVars>>
  BY DEF CheckEligible
<1>2. r \in Request
  <2>1. req[p] \in Request
    BY DEF TypeInv, TypeOK
  <2>2. Idle \in Request /\ [req[p] EXCEPT !.pc = "sale"] \in Request
    BY <2>1 DEF Idle, Request
  <2> QED
    BY <2>2
<1>3. req'[p] = r
  BY <1>1, BecomeAt
<1>4. RequestTyped(p)'
  <2>1. RequestTyped(p) /\ req[p].pc = "eligible" /\ req[p] \in Request
    BY DEF TypeInv, TypeOK, CheckEligible
  <2>2. CASE r = Idle
    BY <2>2, <1>3 DEF RequestTyped, Idle, Creating, Moving
  <2>3. CASE r = [req[p] EXCEPT !.pc = "sale"]
    BY <2>1, <2>3, <1>3 DEF RequestTyped, Request, Creating, Moving
  <2> QED
    BY <2>2, <2>3
<1>6. \A d \in Deals : Exists(d) => Exists(d)'
  BY <1>1 DEF dbVars, Exists
<1>7. req' \in [Requests -> Request] /\ \A o \in Requests : RequestTyped(o)'
  BY <1>1, <1>2, <1>4, <1>6, BecomeTyped
<1> QED
  BY <1>1, <1>7 DEF TypeInv, TypeOK, dbVars, logVars, historyVars
LEMMA ReadSaleTyped ==
  ASSUME TypeInv, NEW p \in Requests, ReadSale(p)
  PROVE  TypeInv'
<1> DEFINE r == IF ForSale(req[p].apt)
                THEN [req[p] EXCEPT !.pc = "insert", !.base = aptPrice[req[p].apt]]
                ELSE Idle
<1>1. Become(p, r) /\ UNCHANGED <<dbVars, logVars, historyVars>>
  BY DEF ReadSale
<1>2. RequestTyped(p) /\ req[p].pc = "sale" /\ req[p] \in Request
  BY DEF TypeInv, TypeOK, ReadSale
<1>3. aptPrice[req[p].apt] \in Int
  <2>1. req[p].apt \in Apartments
    BY <1>2 DEF RequestTyped, Creating
  <2> QED
    BY <2>1 DEF TypeInv, TypeOK
<1>4. r \in Request
  BY <1>2, <1>3 DEF Idle, Request
<1>5. req'[p] = r
  BY <1>1, BecomeAt
<1>6. RequestTyped(p)'
  BY <1>2, <1>3, <1>5 DEF RequestTyped, Request, Idle, Creating, Moving
<1>7. \A d \in Deals : Exists(d) => Exists(d)'
  BY <1>1 DEF dbVars, Exists
<1>8. req' \in [Requests -> Request] /\ \A o \in Requests : RequestTyped(o)'
  BY <1>1, <1>4, <1>6, <1>7, BecomeTyped
<1> QED
  BY <1>1, <1>8 DEF TypeInv, TypeOK, dbVars, logVars, historyVars

LEMMA InsertDealTyped ==
  ASSUME TypeInv, NEW p \in Requests, InsertDeal(p)
  PROVE  TypeInv'
<1>1. PICK d \in Deals :
        /\ ~Exists(d)
        /\ deals' = [deals EXCEPT ![d] = NewDealRow(req[p])]
        /\ SideEffects(d, req[p].apt, req[p].session, "pending")
        /\ pricedBy' = [pricedBy EXCEPT ![d] = Role(req[p].actor)]
        /\ Become(p, [Idle EXCEPT !.pc = "announce", !.actor = req[p].actor,
                                  !.deal = d, !.to = "pending",
                                  !.client = req[p].client])
  BY DEF InsertDeal
<1> DEFINE r == [Idle EXCEPT !.pc = "announce", !.actor = req[p].actor, !.deal = d,
                             !.to = "pending", !.client = req[p].client]
<1>2. RequestTyped(p) /\ req[p].pc = "insert" /\ req[p] \in Request
  BY DEF TypeInv, TypeOK, InsertDeal
<1>3. /\ req[p].actor \in Staff
      /\ req[p].client \in Clients
      /\ req[p].apt \in Apartments
      /\ req[p].discount \in Discounts
      /\ req[p].base \in Int
  BY <1>2 DEF RequestTyped, Creating
<1>4. NewDealRow(req[p]) \in DealRow
  <2>1. req[p].discount \in RequestedPercents
    BY <1>3, AmountsAssumption
  <2>2. /\ StoredDiscount(req[p].discount) \in Nat
        /\ TotalPrice(req[p].base, req[p].discount) \in Int
    BY <2>1, <1>3, StoredDiscountBounds, TotalPriceType
  <2>3. req[p].session \in Sessions \cup {NULL}
    BY <1>2 DEF Request
  <2> QED
    BY <2>2, <2>3, <1>3 DEF NewDealRow, DealRow, DealStatus
<1>5. deals \in [Deals -> DealRow] /\ pricedBy \in [Deals -> Roles]
  BY DEF TypeInv, TypeOK
<1>6. deals' \in [Deals -> DealRow] /\ pricedBy' \in [Deals -> Roles]
  BY <1>1, <1>4, <1>5, RoleType
<1>7. \A e \in Deals : Exists(e) => Exists(e)'
  BY <1>1, <1>5 DEF Exists
<1>8. Exists(d)'
  BY <1>1, <1>5 DEF Exists, NewDealRow
<1>9. r \in Request
  BY <1>3 DEF Idle, Request, DealStatus, Users, Staff
<1>10. req'[p] = r
  BY <1>1, BecomeAt
<1>11. RequestTyped(p)'
  BY <1>8, <1>10 DEF RequestTyped, Idle, Creating, Moving, DealStatus
<1>12. req' \in [Requests -> Request] /\ \A o \in Requests : RequestTyped(o)'
  BY <1>1, <1>7, <1>9, <1>11, BecomeTyped
<1>13. /\ aptStatus' \in [Apartments -> ApartmentStatus]
       /\ edited' \subseteq Apartments
       /\ sessStatus' \in [Sessions -> SessionStatus]
       /\ reached' \subseteq Deals \X DealStatus
  BY <1>1, SideEffectsTyped DEF DealStatus
<1>14. UNCHANGED <<aptPrice, sessEmployee, policy, logVars, inForce>>
  BY DEF InsertDeal
<1> QED
  BY <1>6, <1>12, <1>13, <1>14 DEF TypeInv, TypeOK, logVars
LEMMA StartUpdateTyped ==
  ASSUME TypeInv, NEW p \in Requests, StartUpdate(p)
  PROVE  TypeInv'
<1>1. PICK u \in Users, d \in Deals, to \in DealStatus, q \in Discounts \cup {NULL} :
        /\ Exists(d)
        /\ Become(p, [Idle EXCEPT !.pc = IF q = NULL THEN "update" ELSE "reprice",
                                  !.actor = u, !.apt = deals[d].apt, !.discount = q,
                                  !.base = deals[d].base, !.deal = d, !.to = to])
  BY DEF StartUpdate
<1> DEFINE r == [Idle EXCEPT !.pc = IF q = NULL THEN "update" ELSE "reprice",
                             !.actor = u, !.apt = deals[d].apt, !.discount = q,
                             !.base = deals[d].base, !.deal = d, !.to = to]
<1>2. deals[d] \in DealRow
  BY DEF TypeInv, TypeOK
<1>3. deals[d].apt \in Apartments \cup {NULL} /\ deals[d].base \in Int
  BY <1>2 DEF DealRow
<1>4. r \in Request
  BY <1>3 DEF Idle, Request
<1>5. req'[p] = r
  BY <1>1, BecomeAt
<1>6. UNCHANGED <<dbVars, logVars, historyVars>>
  BY DEF StartUpdate
<1>7. \A e \in Deals : Exists(e) <=> Exists(e)'
  BY <1>6 DEF dbVars, Exists
<1>8. RequestTyped(p)'
  BY <1>1, <1>3, <1>5, <1>7 DEF RequestTyped, Idle, Creating, Moving
<1>9. req' \in [Requests -> Request] /\ \A o \in Requests : RequestTyped(o)'
  BY <1>1, <1>4, <1>7, <1>8, BecomeTyped
<1> QED
  BY <1>6, <1>9 DEF TypeInv, TypeOK, dbVars, logVars, historyVars

LEMMA RepriceTyped ==
  ASSUME TypeInv, NEW p \in Requests, Reprice(p)
  PROVE  TypeInv'
<1> DEFINE r == IF WithinLimit(req[p].discount, req[p].apt, Role(req[p].actor))
                THEN [req[p] EXCEPT !.pc = "update"] ELSE Idle
<1>1. Become(p, r) /\ UNCHANGED <<dbVars, logVars, historyVars>>
  BY DEF Reprice
<1>2. RequestTyped(p) /\ req[p].pc = "reprice" /\ req[p] \in Request
  BY DEF TypeInv, TypeOK, Reprice
<1>3. r \in Request
  BY <1>2 DEF Idle, Request
<1>4. req'[p] = r
  BY <1>1, BecomeAt
<1>5. \A d \in Deals : Exists(d) <=> Exists(d)'
  BY <1>1 DEF dbVars, Exists
<1>6. RequestTyped(p)'
  BY <1>2, <1>4, <1>5 DEF RequestTyped, Request, Idle, Creating, Moving
<1>7. req' \in [Requests -> Request] /\ \A o \in Requests : RequestTyped(o)'
  BY <1>1, <1>3, <1>5, <1>6, BecomeTyped
<1> QED
  BY <1>1, <1>7 DEF TypeInv, TypeOK, dbVars, logVars, historyVars

\* The row an update writes: the old row with a status and, when the request
\* has one, a discount and the total it gives.
LEMMA RepricedType ==
  ASSUME NEW row \in DealRow, NEW r \in Request, r.base \in Int, NEW to \in DealStatus
  PROVE  /\ [Repriced(row, r) EXCEPT !.status = to] \in DealRow
         /\ [Repriced(row, r) EXCEPT !.status = to].status = to
<1>1. CASE r.discount = NULL
  BY <1>1 DEF Repriced, DealRow
<1>2. CASE r.discount # NULL
  <2>1. r.discount \in RequestedPercents
    BY <1>2, AmountsAssumption DEF Request
  <2>2. /\ StoredDiscount(r.discount) \in Nat
        /\ TotalPrice(r.base, r.discount) \in Int
    BY <2>1, StoredDiscountBounds, TotalPriceType
  <2>3. Repriced(row, r) \in DealRow
    BY <1>2, <2>2 DEF Repriced, DealRow
  <2> QED
    BY <2>3 DEF DealRow
<1> QED
  BY <1>1, <1>2

LEMMA UpdateDealTyped ==
  ASSUME TypeInv, NEW p \in Requests, UpdateDeal(p)
  PROVE  TypeInv'
<1>1. RequestTyped(p) /\ req[p].pc = "update" /\ req[p] \in Request
  BY DEF TypeInv, TypeOK, UpdateDeal
<1>2. PICK d \in Deals : d = req[p].deal
  BY <1>1 DEF RequestTyped, Moving
<1>3. PICK to \in DealStatus : to = req[p].to
  BY <1>1 DEF RequestTyped, Moving
<1> DEFINE row == [Repriced(deals[d], req[p]) EXCEPT !.status = to]
           r == [Idle EXCEPT !.pc = "announce", !.actor = req[p].actor,
                             !.deal = d, !.to = to]
<1>4. /\ deals' = [deals EXCEPT ![d] = row]
      /\ SideEffects(d, deals[d].apt, deals[d].session, to)
      /\ pricedBy' = IF req[p].discount = NULL THEN pricedBy
                     ELSE [pricedBy EXCEPT ![d] = Role(req[p].actor)]
      /\ Become(p, r)
      /\ UNCHANGED <<aptPrice, sessEmployee, policy, logVars, inForce>>
  BY <1>2, <1>3 DEF UpdateDeal
<1>5. deals \in [Deals -> DealRow] /\ pricedBy \in [Deals -> Roles]
  BY DEF TypeInv, TypeOK
<1>6. row \in DealRow /\ row.status = to
  <2>1. req[p].base \in Int
    BY <1>1 DEF RequestTyped, Moving
  <2> QED
    BY <1>1, <1>5, <2>1, RepricedType
<1>7. deals' \in [Deals -> DealRow] /\ pricedBy' \in [Deals -> Roles]
  BY <1>4, <1>5, <1>6, RoleType
<1>8. \A e \in Deals : (Exists(e) => Exists(e)') /\ Exists(d)'
  <2>1. deals'[d].status # "absent"
    BY <1>4, <1>5, <1>6 DEF DealStatus
  <2>2. \A e \in Deals : e # d => deals'[e] = deals[e]
    BY <1>4, <1>5
  <2> QED
    BY <2>1, <2>2 DEF Exists
<1>9. r \in Request
  <2>1. req[p].actor \in Users \cup {NULL}
    BY <1>1 DEF Request
  <2> QED
    BY <2>1 DEF Idle, Request
<1>10. req'[p] = r
  BY <1>4, BecomeAt
<1>11. RequestTyped(p)'
  BY <1>8, <1>10 DEF RequestTyped, Idle, Creating, Moving
<1>12. req' \in [Requests -> Request] /\ \A o \in Requests : RequestTyped(o)'
  BY <1>4, <1>8, <1>9, <1>11, BecomeTyped
<1>13. /\ aptStatus' \in [Apartments -> ApartmentStatus]
       /\ edited' \subseteq Apartments
       /\ sessStatus' \in [Sessions -> SessionStatus]
       /\ reached' \subseteq Deals \X DealStatus
  BY <1>4, SideEffectsTyped
<1> QED
  BY <1>4, <1>7, <1>12, <1>13 DEF TypeInv, TypeOK, logVars

LEMMA AnnounceTyped ==
  ASSUME TypeInv, NEW p \in Requests, Announce(p)
  PROVE  TypeInv'
<1> DEFINE d == req[p].deal
           s == deals[d].session
<1>1. RequestTyped(p) /\ req[p].pc = "announce" /\ req[p] \in Request
  BY DEF TypeInv, TypeOK, Announce
<1>2. d \in Deals /\ req[p].to \in DealStatus
  BY <1>1 DEF RequestTyped
<1>3. s \in Sessions \cup {NULL}
  BY <1>2 DEF TypeInv, TypeOK, DealRow
<1>4. notified' \subseteq Deals
  BY <1>2 DEF Announce, TypeInv, TypeOK
<1>5. told' \in [Sessions -> (Deals \X DealStatus) \cup {NULL}]
  <2>1. told \in [Sessions -> (Deals \X DealStatus) \cup {NULL}]
    BY DEF TypeInv, TypeOK
  <2>2. \/ UNCHANGED told
        \/ told' = [told EXCEPT ![s] = <<d, req[p].to>>]
    BY DEF Announce
  <2>3. <<d, req[p].to>> \in Deals \X DealStatus
    BY <1>2
  <2> QED
    BY <2>1, <2>2, <2>3
<1>6. Become(p, Idle) /\ UNCHANGED <<dbVars, historyVars>>
  BY DEF Announce
<1>7. Idle \in Request
  BY DEF Idle, Request
<1>8. req'[p] = Idle
  BY <1>6, BecomeAt
<1>9. RequestTyped(p)'
  BY <1>8 DEF RequestTyped, Idle, Creating, Moving
<1>10. \A e \in Deals : Exists(e) => Exists(e)'
  BY <1>6 DEF dbVars, Exists
<1>11. req' \in [Requests -> Request] /\ \A o \in Requests : RequestTyped(o)'
  BY <1>6, <1>7, <1>9, <1>10, BecomeTyped
<1> QED
  BY <1>4, <1>5, <1>6, <1>11 DEF TypeInv, TypeOK, dbVars, historyVars

LEMMA AbandonTyped ==
  ASSUME TypeInv, NEW p \in Requests, Abandon(p)
  PROVE  TypeInv'
<1>1. Become(p, Idle) /\ UNCHANGED <<dbVars, logVars, historyVars>>
  BY DEF Abandon
<1>2. Idle \in Request
  BY DEF Idle, Request
<1>3. req'[p] = Idle
  BY <1>1, BecomeAt
<1>4. RequestTyped(p)'
  BY <1>3 DEF RequestTyped, Idle, Creating, Moving
<1>5. \A e \in Deals : Exists(e) => Exists(e)'
  BY <1>1 DEF dbVars, Exists
<1>6. req' \in [Requests -> Request] /\ \A o \in Requests : RequestTyped(o)'
  BY <1>1, <1>2, <1>4, <1>5, BecomeTyped
<1> QED
  BY <1>1, <1>6 DEF TypeInv, TypeOK, dbVars, logVars, historyVars

\* The handlers outside deals leave deals and goroutines alone.
LEMMA OthersTyped ==
  ASSUME TypeInv, UNCHANGED <<deals, req, notified, told, pricedBy, reached>>,
         /\ aptStatus' \in [Apartments -> ApartmentStatus]
         /\ aptPrice' \in [Apartments -> Int]
         /\ sessStatus' \in [Sessions -> SessionStatus]
         /\ sessEmployee' \in [Sessions -> Staff \cup {NULL}]
         /\ policy' \in [Apartments -> [StaffRoles -> Limits \cup {NULL}]]
         /\ edited' \subseteq Apartments
         /\ inForce' \in [Apartments -> [Roles -> SUBSET StoredPercents]]
  PROVE  TypeInv'
BY DEF TypeInv, TypeOK, RequestTyped, Exists

LEMMA SessionStepsTyped ==
  ASSUME TypeInv, NEW u \in Staff, NEW s \in Sessions,
         TakeSession(u, s) \/ CloseSession(u, s)
  PROVE  TypeInv'
<1>1. CASE TakeSession(u, s)
  BY <1>1, OthersTyped DEF TakeSession, TypeInv, TypeOK, SessionStatus, logVars, historyVars
<1>2. CASE CloseSession(u, s)
  BY <1>2, OthersTyped DEF CloseSession, TypeInv, TypeOK, SessionStatus, logVars, historyVars
<1> QED
  BY <1>1, <1>2

LEMMA UpdateApartmentTyped ==
  ASSUME TypeInv, NEW a \in Apartments, UpdateApartment(a)
  PROVE  TypeInv'
BY OthersTyped, AmountsAssumption DEF UpdateApartment, TypeInv, TypeOK, logVars

LEMMA PolicyTyped ==
  ASSUME TypeInv, NEW a \in Apartments, NEW role \in StaffRoles, PolicyTakesEffect(a, role)
  PROVE  TypeInv'
<1>1. PICK m \in Limits \cup {NULL} :
        /\ policy' = [policy EXCEPT ![a][role] = m]
        /\ inForce' = [inForce EXCEPT ![a][role] = @ \cup {LimitUnder(policy', a, role)}]
        /\ UNCHANGED <<aptStatus, aptPrice, sessStatus, sessEmployee, deals, logVars,
                       req, edited, pricedBy, reached>>
  BY DEF PolicyTakesEffect
<1>2. policy \in [Apartments -> [StaffRoles -> Limits \cup {NULL}]]
  BY DEF TypeInv, TypeOK
<1>3. policy' \in [Apartments -> [StaffRoles -> Limits \cup {NULL}]]
  BY <1>1, <1>2
<1>4. role \in Roles /\ LimitUnder(policy', a, role) \in StoredPercents
  BY <1>3, LimitType DEF Roles
<1>5. inForce \in [Apartments -> [Roles -> SUBSET StoredPercents]]
  BY DEF TypeInv, TypeOK
<1>6. inForce' \in [Apartments -> [Roles -> SUBSET StoredPercents]]
  BY <1>1, <1>4, <1>5
<1> QED
  BY <1>1, <1>3, <1>6, OthersTyped DEF TypeInv, TypeOK, logVars

LEMMA NextTypeInv == TypeInv /\ [Next]_vars => TypeInv'
<1> SUFFICES ASSUME TypeInv, [Next]_vars PROVE TypeInv'
  OBVIOUS
<1>1. ASSUME NEW p \in Requests, RequestStep(p) PROVE TypeInv'
  BY <1>1, StartCreateTyped, CheckEligibleTyped, ReadSaleTyped, InsertDealTyped,
     StartUpdateTyped, RepriceTyped, UpdateDealTyped, AnnounceTyped, AbandonTyped
  DEF RequestStep
<1>2. CASE UNCHANGED vars
  BY <1>2 DEF vars, dbVars, logVars, historyVars, TypeInv, TypeOK, RequestTyped, Exists
<1> QED
  BY <1>1, <1>2, SessionStepsTyped, UpdateApartmentTyped, PolicyTyped DEF Next

\* Every row and every goroutine keeps its type, and a goroutine that writes a
\* deal has the data to do so.
THEOREM TypeCorrect == Spec => []TypeOK
<1>1. TypeInv => TypeOK
  BY DEF TypeInv
<1> QED
  BY <1>1, InitTypeInv, NextTypeInv, PTL DEF Spec
--------------------------------------------------------------------------------
(* Sessions and apartments against deals.  Every transaction on a deal writes
   the deal, its apartment and its session together, so the deal it writes is
   the one that accounts for the two statuses it leaves; the deal that accounts
   for another session or apartment is another deal, and is not touched. *)

\* The transaction that leaves row in deal d, new or old.
DealWrite(d, row) ==
  /\ row \in DealRow /\ row.status \in DealStatus
  /\ deals' = [deals EXCEPT ![d] = row]
  /\ SideEffects(d, row.apt, row.session, row.status)
  /\ Exists(d) => /\ row.client = deals[d].client
                  /\ row.employee = deals[d].employee
                  /\ row.apt = deals[d].apt
                  /\ row.session = deals[d].session
                  /\ row.base = deals[d].base

LEMMA InsertWrites ==
  ASSUME TypeInv, NEW p \in Requests, InsertDeal(p)
  PROVE  \E d \in Deals :
           /\ ~Exists(d)
           /\ DealWrite(d, NewDealRow(req[p]))
           /\ pricedBy' = [pricedBy EXCEPT ![d] = Role(req[p].actor)]
           /\ req'[p] = [Idle EXCEPT !.pc = "announce", !.actor = req[p].actor,
                                     !.deal = d, !.to = "pending",
                                     !.client = req[p].client]
<1>1. PICK d \in Deals :
        /\ ~Exists(d)
        /\ deals' = [deals EXCEPT ![d] = NewDealRow(req[p])]
        /\ SideEffects(d, req[p].apt, req[p].session, "pending")
        /\ pricedBy' = [pricedBy EXCEPT ![d] = Role(req[p].actor)]
        /\ Become(p, [Idle EXCEPT !.pc = "announce", !.actor = req[p].actor,
                                  !.deal = d, !.to = "pending",
                                  !.client = req[p].client])
  BY DEF InsertDeal
<1>2. TypeInv'
  BY InsertDealTyped
<1>3. deals'[d] \in DealRow /\ deals'[d] = NewDealRow(req[p])
  BY <1>1, <1>2 DEF TypeInv, TypeOK
<1>4. DealWrite(d, NewDealRow(req[p]))
  BY <1>1, <1>3 DEF DealWrite, NewDealRow, DealStatus
<1> QED
  BY <1>1, <1>4, BecomeAt

LEMMA UpdateWrites ==
  ASSUME TypeInv, NEW p \in Requests, UpdateDeal(p)
  PROVE  /\ req[p].deal \in Deals
         /\ Exists(req[p].deal)
         /\ DealWrite(req[p].deal,
                      [Repriced(deals[req[p].deal], req[p]) EXCEPT !.status = req[p].to])
<1>1. RequestTyped(p) /\ req[p].pc = "update" /\ req[p] \in Request
  BY DEF TypeInv, TypeOK, UpdateDeal
<1>2. /\ req[p].deal \in Deals
      /\ req[p].to \in DealStatus
      /\ req[p].base \in Int
      /\ Exists(req[p].deal)
  BY <1>1 DEF RequestTyped, Moving
<1> DEFINE old == deals[req[p].deal]
           row == [Repriced(old, req[p]) EXCEPT !.status = req[p].to]
<1>3. old \in DealRow
  BY <1>2 DEF TypeInv, TypeOK
<1>4. row \in DealRow /\ row.status = req[p].to
  BY <1>1, <1>2, <1>3, RepricedType
<1>5. /\ row.client = old.client
      /\ row.employee = old.employee
      /\ row.apt = old.apt
      /\ row.session = old.session
      /\ row.base = old.base
  BY <1>3 DEF Repriced, DealRow
<1>6. /\ deals' = [deals EXCEPT ![req[p].deal] = row]
      /\ SideEffects(req[p].deal, old.apt, old.session, req[p].to)
  BY DEF UpdateDeal
<1> HIDE DEF row
<1>7. DealWrite(req[p].deal, row)
  BY <1>2, <1>4, <1>5, <1>6 DEF DealWrite
<1> QED
  BY <1>2, <1>7 DEF row

StageInv == SessionStageHasDeal /\ WithheldApartmentHasDeal

LEMMA WriteKeepsStages ==
  ASSUME TypeInv, StageInv, NEW d \in Deals, NEW row, DealWrite(d, row)
  PROVE  StageInv'
<1>1. /\ deals'[d] = row
      /\ \A e \in Deals : e # d => deals'[e] = deals[e]
  BY DEF DealWrite, TypeInv, TypeOK
<1>2. ASSUME NEW s \in Sessions, NEW st \in {"pending", "contract"},
             sessStatus'[s] = IF st = "pending" THEN "pending_approval" ELSE "contract"
      PROVE  \E e \in Deals : deals'[e].session = s /\ deals'[e].status = st
  <2>1. CASE row.session = s
    <3>1. s # NULL
      BY NullAssumption
    <3>2. sessStatus'[s] = SessionStatusOf(row.status)
      BY <2>1, <3>1 DEF DealWrite, SideEffects, TypeInv, TypeOK
    <3>3. row.status = st
      BY <1>2, <3>2 DEF SessionStatusOf, DealWrite, DealStatus
    <3> QED
      BY <1>1, <2>1, <3>3
  <2>2. CASE row.session # s
    <3>1. sessStatus'[s] = sessStatus[s]
      BY <2>2 DEF DealWrite, SideEffects, TypeInv, TypeOK
    <3>2. PICK e \in Deals : deals[e].session = s /\ deals[e].status = st
      BY <1>2, <3>1 DEF StageInv, SessionStageHasDeal
    <3>3. e # d
      BY <2>2, <3>2 DEF DealWrite, Exists
    <3> QED
      BY <1>1, <3>2, <3>3
  <2> QED
    BY <2>1, <2>2
<1>3. SessionStageHasDeal'
  BY <1>2 DEF SessionStageHasDeal
<1>4. ASSUME NEW a \in Apartments, a \notin edited', aptStatus'[a] \in {"booked", "sold"}
      PROVE  \E e \in Deals : /\ deals'[e].apt = a
                              /\ aptStatus'[a] = "booked" => deals'[e].status \in LiveStatus
                              /\ aptStatus'[a] = "sold" => deals'[e].status = "completed"
  <2>1. CASE row.apt = a
    <3>1. aptStatus'[a] = ApartmentStatusOf(row.status)
      BY <2>1 DEF DealWrite, SideEffects, TypeInv, TypeOK
    <3>2. /\ aptStatus'[a] = "booked" => row.status \in LiveStatus
          /\ aptStatus'[a] = "sold" => row.status = "completed"
      BY <3>1 DEF ApartmentStatusOf, DealWrite, DealStatus, LiveStatus
    <3> QED
      BY <1>1, <2>1, <3>2
  <2>2. CASE row.apt # a
    <3>1. aptStatus'[a] = aptStatus[a] /\ a \notin edited
      BY <1>4, <2>2 DEF DealWrite, SideEffects, TypeInv, TypeOK
    <3>2. PICK e \in Deals : /\ deals[e].apt = a
                             /\ aptStatus[a] = "booked" => deals[e].status \in LiveStatus
                             /\ aptStatus[a] = "sold" => deals[e].status = "completed"
      BY <1>4, <3>1 DEF StageInv, WithheldApartmentHasDeal, Live
    <3>3. e # d
      BY <1>4, <2>2, <3>1, <3>2 DEF DealWrite, Exists, LiveStatus
    <3> QED
      BY <1>1, <3>1, <3>2, <3>3
  <2> QED
    BY <2>1, <2>2
<1>5. WithheldApartmentHasDeal'
  BY <1>4 DEF WithheldApartmentHasDeal, Live
<1> QED
  BY <1>3, <1>5 DEF StageInv

\* Steps that write no deal leave the stages, or move a session or an apartment
\* out of the statuses a deal has to account for.
LEMMA OthersKeepStages ==
  ASSUME TypeInv, StageInv, UNCHANGED deals,
         \A s \in Sessions : \/ sessStatus'[s] = sessStatus[s]
                             \/ sessStatus'[s] \in {"in_progress", "close"},
         \A a \in Apartments : a \in edited' \/ (a \notin edited /\ aptStatus'[a] = aptStatus[a])
  PROVE  StageInv'
BY DEF StageInv, SessionStageHasDeal, WithheldApartmentHasDeal, Live

LEMMA NextStageInv == TypeInv /\ StageInv /\ [Next]_vars => StageInv'
<1> SUFFICES ASSUME TypeInv, StageInv, [Next]_vars PROVE StageInv'
  OBVIOUS
<1>1. CASE UNCHANGED <<deals, sessStatus, aptStatus, edited>>
  BY <1>1, OthersKeepStages
<1>2. ASSUME NEW p \in Requests, InsertDeal(p) PROVE StageInv'
  BY <1>2, InsertWrites, WriteKeepsStages
<1>3. ASSUME NEW p \in Requests, UpdateDeal(p) PROVE StageInv'
  BY <1>3, UpdateWrites, WriteKeepsStages
<1>4. ASSUME NEW u \in Staff, NEW s \in Sessions, TakeSession(u, s) \/ CloseSession(u, s)
      PROVE  StageInv'
  BY <1>4, OthersKeepStages DEF TakeSession, CloseSession, historyVars, TypeInv, TypeOK
<1>5. ASSUME NEW a \in Apartments, UpdateApartment(a) PROVE StageInv'
  BY <1>5, OthersKeepStages DEF UpdateApartment, TypeInv, TypeOK
<1>6. ASSUME NEW a \in Apartments, NEW role \in StaffRoles, PolicyTakesEffect(a, role)
      PROVE  StageInv'
  BY <1>6, <1>1 DEF PolicyTakesEffect
<1>7. ASSUME NEW p \in Requests, RequestStep(p) PROVE StageInv'
  BY <1>7, <1>1, <1>2, <1>3
  DEF RequestStep, StartCreate, CheckEligible, ReadSale, StartUpdate, Reprice, Announce,
      Abandon, dbVars, historyVars
<1>8. CASE UNCHANGED vars
  BY <1>8, <1>1 DEF vars, dbVars, historyVars
<1> QED
  BY <1>4, <1>5, <1>6, <1>7, <1>8 DEF Next

LEMMA AlwaysStageInv == Spec => []StageInv
<1>1. Init => StageInv
  BY DEF Init, StageInv, SessionStageHasDeal, WithheldApartmentHasDeal
<1> QED
  BY <1>1, InitTypeInv, NextTypeInv, NextStageInv, PTL DEF Spec

\* No interleaving of deal handlers, takes and closes leaves a session in a stage
\* none of its deals is in (repository/deal.go writes the three rows together).
THEOREM StagesHaveDeals == Spec => []SessionStageHasDeal
BY AlwaysStageInv, PTL DEF StageInv

\* Nor is an apartment that nobody edits by hand withheld from sale without a deal.
THEOREM ApartmentsHaveDeals == Spec => []WithheldApartmentHasDeal
BY AlwaysStageInv, PTL DEF StageInv
--------------------------------------------------------------------------------
(* What a handler has checked stays true until it writes, because nothing it
   depends on is taken back: limits in force are remembered, deals keep their
   terms, and a session never changes hands. *)

\* What no step takes back.
Grows ==
  /\ \A d \in Deals : Exists(d) =>
       /\ Exists(d)'
       /\ deals'[d].client = deals[d].client
       /\ deals'[d].employee = deals[d].employee
       /\ deals'[d].apt = deals[d].apt
       /\ deals'[d].session = deals[d].session
       /\ deals'[d].base = deals[d].base
  /\ reached \subseteq reached'
  /\ \A a \in Apartments, role \in Roles : inForce[a][role] \subseteq inForce'[a][role]
  /\ \A s \in Sessions : sessEmployee[s] # NULL => sessEmployee'[s] = sessEmployee[s]

LEMMA WriteGrows ==
  ASSUME TypeInv, NEW d \in Deals, NEW row, DealWrite(d, row),
         UNCHANGED <<inForce, sessEmployee>>
  PROVE  Grows
<1>1. /\ deals'[d] = row
      /\ \A e \in Deals : e # d => deals'[e] = deals[e]
  BY DEF DealWrite, TypeInv, TypeOK
<1>2. ASSUME NEW e \in Deals, Exists(e)
      PROVE  /\ Exists(e)'
             /\ deals'[e].client = deals[e].client
             /\ deals'[e].employee = deals[e].employee
             /\ deals'[e].apt = deals[e].apt
             /\ deals'[e].session = deals[e].session
             /\ deals'[e].base = deals[e].base
  BY <1>1, <1>2 DEF DealWrite, Exists, DealStatus
<1>3. reached \subseteq reached'
  BY DEF DealWrite, SideEffects
<1> QED
  BY <1>2, <1>3 DEF Grows

LEMMA StepGrows == ASSUME TypeInv, [Next]_vars PROVE Grows
<1>1. CASE UNCHANGED <<deals, reached, inForce, sessEmployee>>
  BY <1>1 DEF Grows, Exists
<1>2. ASSUME NEW p \in Requests, InsertDeal(p) PROVE Grows
  <2>1. UNCHANGED <<inForce, sessEmployee>>
    BY <1>2 DEF InsertDeal
  <2> QED
    BY <1>2, <2>1, InsertWrites, WriteGrows
<1>3. ASSUME NEW p \in Requests, UpdateDeal(p) PROVE Grows
  <2>1. UNCHANGED <<inForce, sessEmployee>>
    BY <1>3 DEF UpdateDeal
  <2> QED
    BY <1>3, <2>1, UpdateWrites, WriteGrows
<1>4. ASSUME NEW u \in Staff, NEW s \in Sessions, TakeSession(u, s) \/ CloseSession(u, s)
      PROVE  Grows
  BY <1>4 DEF TakeSession, CloseSession, historyVars, Grows, Exists, TypeInv, TypeOK
<1>5. ASSUME NEW a \in Apartments, UpdateApartment(a) PROVE Grows
  BY <1>5, <1>1 DEF UpdateApartment
<1>6. ASSUME NEW a \in Apartments, NEW role \in StaffRoles, PolicyTakesEffect(a, role)
      PROVE  Grows
  <2>1. PICK m : inForce' = [inForce EXCEPT ![a][role] = @ \cup {m}]
    BY <1>6 DEF PolicyTakesEffect
  <2>2. inForce \in [Apartments -> [Roles -> SUBSET StoredPercents]]
    BY DEF TypeInv, TypeOK
  <2>3. \A b \in Apartments, r \in Roles : inForce[b][r] \subseteq inForce'[b][r]
    BY <2>1, <2>2
  <2> QED
    BY <1>6, <2>3 DEF PolicyTakesEffect, Grows, Exists
<1>7. ASSUME NEW p \in Requests, RequestStep(p) PROVE Grows
  BY <1>7, <1>1, <1>2, <1>3
  DEF RequestStep, StartCreate, CheckEligible, ReadSale, StartUpdate, Reprice, Announce,
      Abandon, dbVars, historyVars
<1>8. CASE UNCHANGED vars
  BY <1>8, <1>1 DEF vars, dbVars, historyVars
<1> QED
  BY <1>4, <1>5, <1>6, <1>7, <1>8 DEF Next

\* The limit that holds now is among those that have been in force.
LimitRecorded ==
  \A a \in Apartments, role \in Roles : MaxDiscount(a, role) \in inForce[a][role]

\* A requested discount is within a limit that was in force.
Allowed(q, a, role) == \E m \in inForce[a][role] : q <= 10 * m

\* What a goroutine has checked or read, and still holds.
HandlerKnows(p) ==
  /\ req[p].pc \in Creating => Allowed(req[p].discount, req[p].apt, Role(req[p].actor))
  /\ req[p].pc \in {"sale", "insert"} =>
       CanCreateDealForUser(req[p].actor, req[p].client, req[p].session)
  /\ req[p].pc = "insert" => req[p].base > 0
  /\ req[p].pc \in Moving => /\ req[p].apt = deals[req[p].deal].apt
                             /\ req[p].base = deals[req[p].deal].base
                             /\ MayMove(req[p].actor, req[p].deal, req[p].to)
  /\ req[p].pc = "update" /\ req[p].discount # NULL =>
       Allowed(req[p].discount, req[p].apt, Role(req[p].actor))
  /\ req[p].pc = "announce" =>
       /\ <<req[p].deal, req[p].to>> \in reached
       /\ req[p].client # NULL => <<req[p].deal, "pending">> \in reached

\* What a deal's row owes to the handlers that wrote it.
DealSound(d) ==
  /\ deals[d].apt \in Apartments /\ deals[d].employee \in Staff /\ deals[d].base > 0
  /\ \E m \in inForce[deals[d].apt][pricedBy[d]] : deals[d].discount <= m
  /\ CanCreateDealForUser(deals[d].employee, deals[d].client, deals[d].session)
  /\ \E q \in Discounts : /\ deals[d].discount = StoredDiscount(q)
                          /\ deals[d].total = TotalPrice(deals[d].base, q)

KnowledgeInv ==
  /\ LimitRecorded
  /\ \A p \in Requests : HandlerKnows(p)
  /\ \A d \in Deals : Exists(d) => DealSound(d)
LEMMA AllowedKept ==
  ASSUME Grows, NEW q, NEW a \in Apartments, NEW role \in Roles, Allowed(q, a, role)
  PROVE  Allowed(q, a, role)'
BY DEF Grows, Allowed

LEMMA EntitledKept ==
  ASSUME Grows, NEW actor \in Staff, NEW client, NEW session \in Sessions \cup {NULL},
         CanCreateDealForUser(actor, client, session)
  PROVE  CanCreateDealForUser(actor, client, session)'
<1>1. actor # NULL
  BY NullAssumption DEF Staff, Users
<1> QED
  BY <1>1 DEF Grows, CanCreateDealForUser

LEMMA MayMoveKept ==
  ASSUME Grows, NEW u, NEW d \in Deals, NEW to, Exists(d), MayMove(u, d, to)
  PROVE  MayMove(u, d, to)'
BY DEF Grows, MayMove

\* A goroutine that does not step knows what it knew.
LEMMA HandlerKnowsKept ==
  ASSUME TypeInv, KnowledgeInv, Grows, NEW o \in Requests, req'[o] = req[o]
  PROVE  HandlerKnows(o)'
<1>1. PICK r \in Request : r = req[o] /\ r = req'[o]
  BY DEF TypeInv, TypeOK
<1>2. HandlerKnows(o) /\ RequestTyped(o)
  BY DEF KnowledgeInv, TypeInv
<1>3. Role(r.actor) \in Roles
  BY RoleType
<1>4. ASSUME r.pc \in Creating PROVE Allowed(r.discount, r.apt, Role(r.actor))'
  <2>1. r.apt \in Apartments /\ Allowed(r.discount, r.apt, Role(r.actor))
    BY <1>1, <1>2, <1>4 DEF HandlerKnows, RequestTyped
  <2> QED
    BY <1>3, <2>1, AllowedKept
<1>5. ASSUME r.pc \in {"sale", "insert"}
      PROVE  CanCreateDealForUser(r.actor, r.client, r.session)'
  <2>1. r.actor \in Staff /\ CanCreateDealForUser(r.actor, r.client, r.session)
    BY <1>1, <1>2, <1>5 DEF HandlerKnows, RequestTyped, Creating
  <2>2. r.session \in Sessions \cup {NULL}
    BY DEF Request
  <2> QED
    BY <2>1, <2>2, EntitledKept
<1>6. ASSUME r.pc \in Moving
      PROVE  /\ r.deal \in Deals /\ Exists(r.deal) /\ r.apt \in Apartments
             /\ r.apt = deals'[r.deal].apt
             /\ r.base = deals'[r.deal].base
             /\ MayMove(r.actor, r.deal, r.to)'
  <2>1. r.deal \in Deals /\ Exists(r.deal)
    BY <1>1, <1>2, <1>6 DEF RequestTyped
  <2>2. /\ r.apt = deals[r.deal].apt
        /\ r.base = deals[r.deal].base
        /\ MayMove(r.actor, r.deal, r.to)
    BY <1>1, <1>2, <1>6 DEF HandlerKnows
  <2>3. r.apt \in Apartments
    BY <2>1, <2>2 DEF KnowledgeInv, DealSound
  <2>4. r.apt = deals'[r.deal].apt /\ r.base = deals'[r.deal].base
    BY <2>1, <2>2 DEF Grows
  <2> QED
    BY <2>1, <2>2, <2>3, <2>4, MayMoveKept
<1>7. ASSUME r.pc = "update", r.discount # NULL
      PROVE  Allowed(r.discount, r.apt, Role(r.actor))'
  <2>1. Allowed(r.discount, r.apt, Role(r.actor))
    BY <1>1, <1>2, <1>7 DEF HandlerKnows
  <2> QED
    BY <1>3, <1>6, <1>7, <2>1, AllowedKept DEF Moving
<1>8. ASSUME r.pc = "announce"
      PROVE  /\ <<r.deal, r.to>> \in reached'
             /\ r.client # NULL => <<r.deal, "pending">> \in reached'
  BY <1>1, <1>2, <1>8 DEF HandlerKnows, Grows
<1>9. r.pc = "insert" => r.base > 0
  BY <1>1, <1>2 DEF HandlerKnows
<1> QED
  BY <1>1, <1>4, <1>5, <1>6, <1>7, <1>8, <1>9 DEF HandlerKnows

LEMMA DealSoundKept ==
  ASSUME TypeInv, Grows, NEW d \in Deals, Exists(d), DealSound(d),
         deals'[d] = deals[d], pricedBy'[d] = pricedBy[d]
  PROVE  DealSound(d)'
<1>1. PICK row \in DealRow : row = deals[d] /\ row = deals'[d]
  BY DEF TypeInv, TypeOK
<1>2. PICK role \in Roles : role = pricedBy[d] /\ role = pricedBy'[d]
  BY DEF TypeInv, TypeOK
<1>3. row.apt \in Apartments /\ row.employee \in Staff
  BY <1>1 DEF DealSound
<1>4. \E m \in inForce'[row.apt][role] : row.discount <= m
  BY <1>1, <1>2, <1>3 DEF DealSound, Grows
<1>5. CanCreateDealForUser(row.employee, row.client, row.session)'
  BY <1>1, <1>3, EntitledKept DEF DealSound, DealRow
<1> QED
  BY <1>1, <1>2, <1>3, <1>4, <1>5 DEF DealSound

LEMMA LimitRecordedKept ==
  ASSUME TypeInv, LimitRecorded, [Next]_vars
  PROVE  LimitRecorded'
<1>1. CASE UNCHANGED <<policy, inForce>>
  BY <1>1 DEF LimitRecorded, MaxDiscount
<1>2. ASSUME NEW a \in Apartments, NEW role \in StaffRoles, PolicyTakesEffect(a, role)
      PROVE  LimitRecorded'
  <2>1. PICK m \in Limits \cup {NULL} :
          /\ policy' = [policy EXCEPT ![a][role] = m]
          /\ inForce' = [inForce EXCEPT ![a][role] = @ \cup {LimitUnder(policy', a, role)}]
    BY <1>2 DEF PolicyTakesEffect
  <2>2. /\ policy \in [Apartments -> [StaffRoles -> Limits \cup {NULL}]]
        /\ inForce \in [Apartments -> [Roles -> SUBSET StoredPercents]]
    BY DEF TypeInv, TypeOK
  <2>3. ASSUME NEW b \in Apartments, NEW r \in Roles
        PROVE  LimitUnder(policy', b, r) \in inForce'[b][r]
    <3>1. CASE b = a /\ r = role
      BY <2>1, <2>2, <3>1 DEF Roles
    <3>2. CASE ~(b = a /\ r = role)
      <4>1. inForce'[b][r] = inForce[b][r]
        BY <2>1, <2>2, <3>2
      <4>2. r \in StaffRoles => policy'[b][r] = policy[b][r]
        BY <2>1, <2>2, <3>2
      <4>3. LimitUnder(policy', b, r) = LimitUnder(policy, b, r)
        BY <4>2 DEF LimitUnder
      <4> QED
        BY <4>1, <4>3 DEF LimitRecorded, MaxDiscount
    <3> QED
      BY <3>1, <3>2
  <2> QED
    BY <2>3 DEF LimitRecorded, MaxDiscount
<1>3. ASSUME NEW p \in Requests, RequestStep(p) PROVE UNCHANGED <<policy, inForce>>
  BY <1>3 DEF RequestStep, StartCreate, CheckEligible, ReadSale, InsertDeal, StartUpdate,
              Reprice, UpdateDeal, Announce, Abandon, dbVars, historyVars
<1>4. CASE UNCHANGED vars
  BY <1>1, <1>4 DEF vars, dbVars, historyVars
<1> QED
  BY <1>1, <1>2, <1>3, <1>4
  DEF Next, TakeSession, CloseSession, UpdateApartment, historyVars
\* A goroutine that reads or checks knows what its handler says it knows.
LEMMA ReaderKnows ==
  ASSUME TypeInv, KnowledgeInv, NEW p \in Requests, UNCHANGED <<dbVars, historyVars>>,
         \/ StartCreate(p) \/ CheckEligible(p) \/ ReadSale(p)
         \/ StartUpdate(p) \/ Reprice(p) \/ Announce(p) \/ Abandon(p)
  PROVE  HandlerKnows(p)'
<1>1. PICK old \in Request : old = req[p]
  BY DEF TypeInv, TypeOK
<1>2. HandlerKnows(p) /\ RequestTyped(p)
  BY DEF KnowledgeInv, TypeInv
<1>3. /\ UNCHANGED <<deals, inForce, reached, sessEmployee, policy>>
      /\ \A d : Exists(d)' = Exists(d)
  BY DEF dbVars, historyVars, Exists
<1>4. \A q, a, role : Allowed(q, a, role)' = Allowed(q, a, role)
  BY <1>3 DEF Allowed
<1>5. \A u, c, s : CanCreateDealForUser(u, c, s)' = CanCreateDealForUser(u, c, s)
  BY <1>3 DEF CanCreateDealForUser
<1>6. \A u, d, to : MayMove(u, d, to)' = MayMove(u, d, to)
  BY <1>3 DEF MayMove
<1>7. ASSUME req'[p] = Idle PROVE HandlerKnows(p)'
  BY <1>7 DEF HandlerKnows, Idle, Creating, Moving
<1>8. CASE StartCreate(p)
  <2>1. PICK u \in Staff, c \in Clients, a \in Apartments,
              s \in Sessions \cup {NULL}, q \in Discounts :
          /\ WithinLimit(q, a, Role(u))
          /\ Become(p, [Idle EXCEPT !.pc = "eligible", !.actor = u, !.client = c,
                                    !.apt = a, !.session = s, !.discount = q])
    BY <1>8 DEF StartCreate
  <2> DEFINE r == [Idle EXCEPT !.pc = "eligible", !.actor = u, !.client = c,
                               !.apt = a, !.session = s, !.discount = q]
  <2>2. req'[p] = r
    BY <2>1, BecomeAt
  <2>3. Allowed(q, a, Role(u))
    BY <2>1, RoleType DEF WithinLimit, KnowledgeInv, LimitRecorded, Allowed
  <2>4. /\ r.pc = "eligible"
        /\ r.actor = u
        /\ r.apt = a
        /\ r.discount = q
    BY DEF Idle
  <2> HIDE DEF r
  <2> QED
    BY <2>2, <2>3, <2>4, <1>4 DEF HandlerKnows, Creating, Moving
<1>9. CASE CheckEligible(p)
  <2>1. CASE req'[p] = Idle
    BY <2>1, <1>7
  <2>2. CASE /\ CanCreateDealForUser(old.actor, old.client, old.session)
             /\ req'[p] = [old EXCEPT !.pc = "sale"]
    BY <1>1, <1>2, <1>4, <1>5, <1>9, <2>2
    DEF CheckEligible, HandlerKnows, Creating, Moving, Request
  <2> QED
    BY <1>1, <1>9, <2>1, <2>2, BecomeAt DEF CheckEligible
<1>10. CASE ReadSale(p)
  <2>1. CASE req'[p] = Idle
    BY <2>1, <1>7
  <2>2. CASE /\ ForSale(old.apt)
             /\ req'[p] = [old EXCEPT !.pc = "insert", !.base = aptPrice[old.apt]]
    BY <1>1, <1>2, <1>4, <1>5, <1>10, <2>2
    DEF ReadSale, ForSale, HandlerKnows, Creating, Moving, Request
  <2> QED
    BY <1>1, <1>10, <2>1, <2>2, BecomeAt DEF ReadSale
<1>11. CASE StartUpdate(p)
  <2>1. PICK u \in Users, d \in Deals, to \in DealStatus, q \in Discounts \cup {NULL} :
          /\ MayMove(u, d, to)
          /\ Become(p, [Idle EXCEPT !.pc = IF q = NULL THEN "update" ELSE "reprice",
                                    !.actor = u, !.apt = deals[d].apt, !.discount = q,
                                    !.base = deals[d].base, !.deal = d, !.to = to])
    BY <1>11 DEF StartUpdate
  <2> DEFINE r == [Idle EXCEPT !.pc = IF q = NULL THEN "update" ELSE "reprice",
                               !.actor = u, !.apt = deals[d].apt, !.discount = q,
                               !.base = deals[d].base, !.deal = d, !.to = to]
  <2>2. req'[p] = r
    BY <2>1, BecomeAt
  <2>3. /\ r.pc = IF q = NULL THEN "update" ELSE "reprice"
        /\ r.actor = u
        /\ r.apt = deals[d].apt
        /\ r.discount = q
        /\ r.base = deals[d].base
        /\ r.deal = d
        /\ r.to = to
    BY DEF Idle
  <2> HIDE DEF r
  <2> QED
    BY <1>3, <1>6, <2>1, <2>2, <2>3 DEF HandlerKnows, Creating, Moving
<1>12. CASE Reprice(p)
  <2>1. CASE req'[p] = Idle
    BY <2>1, <1>7
  <2>2. CASE /\ WithinLimit(old.discount, old.apt, Role(old.actor))
             /\ req'[p] = [old EXCEPT !.pc = "update"]
    <3>1. old.pc = "reprice" /\ old.deal \in Deals /\ Exists(old.deal)
      BY <1>1, <1>2, <1>12 DEF Reprice, RequestTyped, Moving
    <3>2. old.apt \in Apartments
      BY <1>1, <1>2, <3>1 DEF HandlerKnows, Moving, KnowledgeInv, DealSound
    <3>3. Allowed(old.discount, old.apt, Role(old.actor))
      BY <2>2, <3>2, RoleType DEF WithinLimit, KnowledgeInv, LimitRecorded, Allowed
    <3> QED
      BY <1>1, <1>2, <1>3, <1>4, <1>6, <2>2, <3>1, <3>3
      DEF HandlerKnows, Creating, Moving, Request
  <2> QED
    BY <1>1, <1>12, <2>1, <2>2, BecomeAt DEF Reprice
<1>13. CASE Announce(p) \/ Abandon(p)
  BY <1>7, <1>13, BecomeAt DEF Announce, Abandon
<1> QED
  BY <1>8, <1>9, <1>10, <1>11, <1>12, <1>13
\* A discount that is allowed is stored within the limit that allows it.
LEMMA StoredWithinLimit ==
  ASSUME TypeInv, NEW q \in Discounts, NEW a \in Apartments, NEW role \in Roles,
         Allowed(q, a, role)
  PROVE  \E m \in inForce[a][role] : StoredDiscount(q) <= m
<1>1. PICK m \in inForce[a][role] : q <= 10 * m
  BY DEF Allowed
<1>2. m \in StoredPercents
  BY DEF TypeInv, TypeOK
<1>3. m \in Nat
  BY <1>2, StoredPercentsNat
<1>4. q \in RequestedPercents
  BY AmountsAssumption
<1> QED
  BY <1>1, <1>3, <1>4, StoredDiscountBounds

LEMMA InsertKnows ==
  ASSUME TypeInv, KnowledgeInv, NEW p \in Requests, InsertDeal(p)
  PROVE  /\ HandlerKnows(p)'
         /\ \A d \in Deals : Exists(d)' => DealSound(d)'
<1>1. RequestTyped(p) /\ HandlerKnows(p) /\ req[p].pc = "insert" /\ req[p] \in Request
  BY DEF TypeInv, TypeOK, KnowledgeInv, InsertDeal
<1>2. PICK r \in Request : r = req[p]
  BY <1>1
<1>3. /\ r.actor \in Staff /\ r.apt \in Apartments /\ r.discount \in Discounts
      /\ r.base > 0
      /\ Allowed(r.discount, r.apt, Role(r.actor))
      /\ CanCreateDealForUser(r.actor, r.client, r.session)
  BY <1>1, <1>2 DEF RequestTyped, HandlerKnows, Creating
<1>4. PICK d \in Deals :
        /\ ~Exists(d)
        /\ DealWrite(d, NewDealRow(r))
        /\ pricedBy' = [pricedBy EXCEPT ![d] = Role(r.actor)]
        /\ req'[p] = [Idle EXCEPT !.pc = "announce", !.actor = r.actor, !.deal = d,
                                  !.to = "pending", !.client = r.client]
  BY <1>2, InsertWrites
<1>5. HandlerKnows(p)'
  <2>1. <<d, "pending">> \in reached'
    BY <1>4 DEF DealWrite, SideEffects, NewDealRow
  <2>2. /\ req'[p].pc = "announce" /\ req'[p].deal = d /\ req'[p].to = "pending"
    BY <1>4 DEF Idle
  <2> QED
    BY <2>1, <2>2 DEF HandlerKnows, Creating, Moving
<1>6. UNCHANGED <<inForce, sessEmployee>>
  BY DEF InsertDeal
<1>7. Grows
  BY <1>4, <1>6, WriteGrows
<1>8. /\ deals'[d] = NewDealRow(r)
      /\ \A e \in Deals : e # d => deals'[e] = deals[e]
      /\ pricedBy'[d] = Role(r.actor)
      /\ \A e \in Deals : e # d => pricedBy'[e] = pricedBy[e]
  BY <1>4 DEF DealWrite, TypeInv, TypeOK
<1>9. DealSound(d)'
  <2>1. \E m \in inForce[r.apt][Role(r.actor)] : StoredDiscount(r.discount) <= m
    BY <1>3, RoleType, StoredWithinLimit
  <2>2. CanCreateDealForUser(r.actor, r.client, r.session)'
    BY <1>3, <1>6 DEF CanCreateDealForUser
  <2>3. /\ deals'[d].apt = r.apt
        /\ deals'[d].employee = r.actor
        /\ deals'[d].client = r.client
        /\ deals'[d].session = r.session
        /\ deals'[d].base = r.base
        /\ deals'[d].discount = StoredDiscount(r.discount)
        /\ deals'[d].total = TotalPrice(r.base, r.discount)
    BY <1>8 DEF NewDealRow
  <2> QED
    BY <1>3, <1>6, <1>8, <2>1, <2>2, <2>3 DEF DealSound
<1>10. ASSUME NEW e \in Deals, Exists(e)', e # d PROVE DealSound(e)'
  <2>1. Exists(e) /\ DealSound(e)
    BY <1>8, <1>10 DEF Exists, KnowledgeInv
  <2> QED
    BY <1>7, <1>8, <1>10, <2>1, DealSoundKept
<1> QED
  BY <1>5, <1>9, <1>10

LEMMA UpdateKnows ==
  ASSUME TypeInv, KnowledgeInv, NEW p \in Requests, UpdateDeal(p)
  PROVE  /\ HandlerKnows(p)'
         /\ \A d \in Deals : Exists(d)' => DealSound(d)'
<1>1. RequestTyped(p) /\ HandlerKnows(p) /\ req[p].pc = "update" /\ req[p] \in Request
  BY DEF TypeInv, TypeOK, KnowledgeInv, UpdateDeal
<1>2. PICK r \in Request : r = req[p]
  BY <1>1
<1>3. PICK d \in Deals : d = r.deal
  BY <1>1, <1>2 DEF RequestTyped, Moving
<1>4. PICK old \in DealRow : old = deals[d]
  BY DEF TypeInv, TypeOK
<1> DEFINE row == [Repriced(old, r) EXCEPT !.status = r.to]
<1>5. Exists(d) /\ DealSound(d)
  BY <1>1, <1>2, <1>3 DEF RequestTyped, Moving, KnowledgeInv
<1>6. DealWrite(d, row)
  BY <1>2, <1>3, <1>4, UpdateWrites
<1>7. /\ pricedBy' = IF r.discount = NULL THEN pricedBy
                     ELSE [pricedBy EXCEPT ![d] = Role(r.actor)]
      /\ Become(p, [Idle EXCEPT !.pc = "announce", !.actor = r.actor,
                                !.deal = d, !.to = r.to])
      /\ UNCHANGED <<inForce, sessEmployee>>
  BY <1>2, <1>3 DEF UpdateDeal
<1>8. HandlerKnows(p)'
  <2>1. <<d, r.to>> \in reached'
    BY <1>2, <1>3 DEF UpdateDeal, SideEffects
  <2>2. req'[p] = [Idle EXCEPT !.pc = "announce", !.actor = r.actor,
                               !.deal = d, !.to = r.to]
    BY <1>7, BecomeAt
  <2>3. /\ req'[p].pc = "announce" /\ req'[p].deal = d
        /\ req'[p].to = r.to /\ req'[p].client = NULL
    BY <2>2 DEF Idle
  <2> QED
    BY <2>1, <2>3 DEF HandlerKnows, Creating, Moving
<1>9. Grows
  BY <1>6, <1>7, WriteGrows
<1>10. /\ deals'[d] = row
       /\ \A e \in Deals : e # d => deals'[e] = deals[e] /\ pricedBy'[e] = pricedBy[e]
       /\ pricedBy'[d] = IF r.discount = NULL THEN pricedBy[d] ELSE Role(r.actor)
  BY <1>6, <1>7 DEF DealWrite, TypeInv, TypeOK
<1>11. /\ old.apt \in Apartments /\ old.employee \in Staff /\ old.base > 0
       /\ r.apt = old.apt /\ r.base = old.base
  BY <1>1, <1>2, <1>3, <1>4, <1>5 DEF DealSound, HandlerKnows, Moving
<1>12. /\ row.apt = old.apt
       /\ row.employee = old.employee
       /\ row.client = old.client
       /\ row.session = old.session
       /\ row.base = old.base
  BY <1>4, <1>5, <1>6 DEF DealWrite
<1>13. CanCreateDealForUser(old.employee, old.client, old.session)'
  BY <1>4, <1>5, <1>7 DEF CanCreateDealForUser, DealSound
<1>14. ASSUME r.discount = NULL PROVE DealSound(d)'
  <2>1. row.discount = old.discount /\ row.total = old.total
    BY <1>14 DEF Repriced, DealRow
  <2> HIDE DEF row
  <2>2. DealSound(d)'
    BY <1>4, <1>5, <1>7, <1>10, <1>11, <1>12, <1>13, <1>14, <2>1 DEF DealSound
  <2> QED
    BY <2>2
<1>15. ASSUME r.discount # NULL PROVE DealSound(d)'
  <2>1. r.discount \in Discounts
    BY <1>15 DEF Request
  <2>2. Allowed(r.discount, r.apt, Role(r.actor))
    BY <1>1, <1>2, <1>15 DEF HandlerKnows
  <2>3. \E m \in inForce[r.apt][Role(r.actor)] : StoredDiscount(r.discount) <= m
    BY <1>11, <2>1, <2>2, RoleType, StoredWithinLimit
  <2>4. /\ row.discount = StoredDiscount(r.discount)
        /\ row.total = TotalPrice(r.base, r.discount)
    BY <1>15 DEF Repriced, DealRow
  <2> HIDE DEF row
  <2>5. DealSound(d)'
    BY <1>7, <1>10, <1>11, <1>12, <1>13, <1>15, <2>1, <2>3, <2>4 DEF DealSound
  <2> QED
    BY <2>5
<1>16. ASSUME NEW e \in Deals, Exists(e)', e # d PROVE DealSound(e)'
  <2>1. Exists(e) /\ DealSound(e)
    BY <1>10, <1>16 DEF Exists, KnowledgeInv
  <2> QED
    BY <1>9, <1>10, <1>16, <2>1, DealSoundKept
<1> QED
  BY <1>8, <1>14, <1>15, <1>16
LEMMA NextKnowledgeInv == TypeInv /\ KnowledgeInv /\ [Next]_vars => KnowledgeInv'
<1> SUFFICES ASSUME TypeInv, KnowledgeInv, [Next]_vars PROVE KnowledgeInv'
  OBVIOUS
<1>1. Grows /\ LimitRecorded'
  BY StepGrows, LimitRecordedKept DEF KnowledgeInv
<1>2. ASSUME UNCHANGED <<deals, pricedBy>>
      PROVE  \A d \in Deals : Exists(d)' => DealSound(d)'
  BY <1>1, <1>2, DealSoundKept DEF KnowledgeInv, Exists
<1>3. ASSUME UNCHANGED req PROVE \A p \in Requests : HandlerKnows(p)'
  BY <1>1, <1>3, HandlerKnowsKept
<1>4. ASSUME NEW p \in Requests, RequestStep(p) PROVE KnowledgeInv'
  <2>1. \A o \in Requests : o # p => req'[o] = req[o]
    BY <1>4, BecomeAt
    DEF RequestStep, StartCreate, CheckEligible, ReadSale, InsertDeal, StartUpdate,
        Reprice, UpdateDeal, Announce, Abandon
  <2>2. \A o \in Requests : o # p => HandlerKnows(o)'
    BY <1>1, <2>1, HandlerKnowsKept
  <2>3. CASE InsertDeal(p) \/ UpdateDeal(p)
    BY <1>1, <2>2, <2>3, InsertKnows, UpdateKnows DEF KnowledgeInv
  <2>4. CASE \/ StartCreate(p) \/ CheckEligible(p) \/ ReadSale(p)
             \/ StartUpdate(p) \/ Reprice(p) \/ Announce(p) \/ Abandon(p)
    <3>1. UNCHANGED <<dbVars, historyVars>>
      BY <2>4 DEF StartCreate, CheckEligible, ReadSale, StartUpdate, Reprice, Announce, Abandon
    <3>2. HandlerKnows(p)'
      BY <2>4, <3>1, ReaderKnows
    <3> QED
      BY <1>1, <1>2, <2>2, <3>1, <3>2 DEF KnowledgeInv, dbVars, historyVars
  <2> QED
    BY <1>4, <2>3, <2>4 DEF RequestStep
<1>5. ASSUME UNCHANGED <<deals, pricedBy, req>> PROVE KnowledgeInv'
  BY <1>1, <1>2, <1>3, <1>5 DEF KnowledgeInv
<1>6. CASE UNCHANGED vars
  BY <1>5, <1>6 DEF vars, dbVars, historyVars
<1> QED
  BY <1>4, <1>5, <1>6
  DEF Next, TakeSession, CloseSession, UpdateApartment, PolicyTakesEffect, historyVars

LEMMA InitKnowledgeInv == Init => KnowledgeInv
<1> SUFFICES ASSUME Init PROVE KnowledgeInv
  OBVIOUS
<1>1. LimitRecorded
  BY DEF Init, LimitRecorded
<1>2. \A p \in Requests : HandlerKnows(p)
  BY DEF Init, HandlerKnows, Idle, Creating, Moving
<1>3. \A d \in Deals : ~Exists(d)
  BY DEF Init, Exists, Absent
<1> QED
  BY <1>1, <1>2, <1>3 DEF KnowledgeInv

LEMMA KnowledgeAlways == Spec => [](TypeInv /\ KnowledgeInv)
BY InitTypeInv, NextTypeInv, InitKnowledgeInv, NextKnowledgeInv, PTL DEF Spec

\* However policies change between the check and the transaction, a deal's
\* discount is within a limit that was in force for whoever set it.
THEOREM DiscountsWithinLimits == Spec => []DiscountWithinLimit
<1>1. KnowledgeInv => DiscountWithinLimit
  BY DEF KnowledgeInv, DealSound, DiscountWithinLimit
<1> QED
  BY <1>1, KnowledgeAlways, PTL

\* However updates interleave, a deal's discount and its total come from one
\* request.
THEOREM TotalsMatchDiscounts == Spec => []TotalMatchesDiscount
<1>1. KnowledgeInv => TotalMatchesDiscount
  BY DEF KnowledgeInv, DealSound, TotalMatchesDiscount
<1> QED
  BY <1>1, KnowledgeAlways, PTL

\* The eligibility of a deal is checked once, before it is created, and holds
\* ever after.
THEOREM DealsHaveApplications == Spec => []DealHasItsApplication
<1>1. KnowledgeInv => DealHasItsApplication
  BY DEF KnowledgeInv, DealSound, DealHasItsApplication, CanCreateDealForUser
<1> QED
  BY <1>1, KnowledgeAlways, PTL

\* The parties checked when a deal is read are still its parties when it is
\* moved, and a move keeps its terms.
THEOREM PartiesMoveDeals == Spec => OnlyPartiesMoveDeals
<1> DEFINE Moved(d) ==
             /\ \E p \in Requests :
                  /\ req[p].deal = d
                  /\ \/ /\ req[p].actor = deals[d].client
                        /\ deals'[d].status \in {"contract", "cancelled"}
                     \/ req[p].actor \in {deals[d].employee} \cup Supervisors
             /\ deals'[d] = [deals[d] EXCEPT !.status = deals'[d].status,
                                            !.discount = deals'[d].discount,
                                            !.total = deals'[d].total]
<1>1. TypeInv /\ KnowledgeInv /\ [Next]_vars
        => [\A d \in Deals : Exists(d) /\ deals'[d] # deals[d] => Moved(d)]_vars
  <2> SUFFICES ASSUME TypeInv, KnowledgeInv, [Next]_vars,
                      NEW d \in Deals, Exists(d), deals'[d] # deals[d]
               PROVE  Moved(d)
    OBVIOUS
  <2>1. PICK p \in Requests : InsertDeal(p) \/ UpdateDeal(p)
    BY DEF Next, RequestStep, StartCreate, CheckEligible, ReadSale, StartUpdate, Reprice,
           Announce, Abandon, TakeSession, CloseSession, UpdateApartment,
           PolicyTakesEffect, vars, dbVars
  <2>2. ~InsertDeal(p)
    <3>1. ASSUME NEW e \in Deals, ~Exists(e), NEW row, DealWrite(e, row)
          PROVE  deals'[d] = deals[d]
      BY <3>1 DEF DealWrite, TypeInv, TypeOK
    <3> QED
      BY <3>1, InsertWrites
  <2>3. UpdateDeal(p)
    BY <2>1, <2>2
  <2>4. PICK r \in Request : r = req[p]
    BY DEF TypeInv, TypeOK
  <2>5. PICK old \in DealRow : old = deals[d]
    BY DEF TypeInv, TypeOK
  <2>6. /\ r.deal \in Deals
        /\ deals' = [deals EXCEPT ![r.deal] =
                       [Repriced(deals[r.deal], r) EXCEPT !.status = r.to]]
    BY <2>3, <2>4, UpdateWrites DEF UpdateDeal
  <2>7. r.deal = d
    BY <2>6 DEF TypeInv, TypeOK
  <2>8. deals'[d] = [Repriced(old, r) EXCEPT !.status = r.to]
    BY <2>5, <2>6, <2>7 DEF TypeInv, TypeOK
  <2>9. MayMove(r.actor, d, r.to)
    BY <2>3, <2>4, <2>7 DEF KnowledgeInv, HandlerKnows, UpdateDeal, Moving
  <2>10. deals'[d].status = r.to
    BY <2>8 DEF Repriced, DealRow
  <2>11. deals'[d] = [old EXCEPT !.status = deals'[d].status,
                                 !.discount = deals'[d].discount,
                                 !.total = deals'[d].total]
    BY <2>8 DEF Repriced, DealRow
  <2> QED
    BY <2>4, <2>5, <2>7, <2>9, <2>10, <2>11 DEF MayMove
<1> QED
  BY <1>1, KnowledgeAlways, PTL DEF Spec, OnlyPartiesMoveDeals
--------------------------------------------------------------------------------
(* Announcements. *)

\* A committed status is of a deal that exists, and what was told was committed.
NoticeInv ==
  /\ \A d \in Deals, to \in DealStatus : <<d, to>> \in reached => Exists(d)
  /\ AnnouncedWasCommitted

LEMMA NextNoticeInv == TypeInv /\ KnowledgeInv /\ NoticeInv /\ [Next]_vars => NoticeInv'
<1> SUFFICES ASSUME TypeInv, KnowledgeInv, NoticeInv, [Next]_vars PROVE NoticeInv'
  OBVIOUS
<1>1. Grows
  BY StepGrows
<1>2. ASSUME NEW e \in Deals, NEW row, DealWrite(e, row),
             NEW d \in Deals, NEW to \in DealStatus, <<d, to>> \in reached'
      PROVE  Exists(d)'
  <2>1. CASE d = e
    BY <1>2, <2>1 DEF DealWrite, Exists, DealStatus, TypeInv, TypeOK
  <2>2. CASE d # e
    <3>1. <<d, to>> \in reached
      BY <1>2, <2>2 DEF DealWrite, SideEffects
    <3> QED
      BY <1>1, <3>1 DEF NoticeInv, Grows
  <2> QED
    BY <2>1, <2>2
<1>3. ASSUME UNCHANGED reached, NEW d \in Deals, NEW to \in DealStatus, <<d, to>> \in reached'
      PROVE  Exists(d)'
  BY <1>1, <1>3 DEF NoticeInv, Grows
<1>4. \/ \E p \in Requests : InsertDeal(p) \/ UpdateDeal(p)
      \/ UNCHANGED reached
  BY DEF Next, RequestStep, StartCreate, CheckEligible, ReadSale, StartUpdate, Reprice,
         Announce, Abandon, TakeSession, CloseSession, UpdateApartment,
         PolicyTakesEffect, vars, historyVars
<1>5. \A d \in Deals, to \in DealStatus : <<d, to>> \in reached => Exists(d)
  BY DEF NoticeInv
<1>6. \A d \in Deals, to \in DealStatus : <<d, to>> \in reached' => Exists(d)'
  BY <1>2, <1>3, <1>4, InsertWrites, UpdateWrites
<1>7. ASSUME UNCHANGED logVars PROVE AnnouncedWasCommitted'
  <2>1. ASSUME NEW s \in Sessions, told[s] # NULL
        PROVE  told[s] \in reached' /\ deals'[told[s][1]].session = s
    <3>1. PICK d \in Deals, to \in DealStatus : told[s] = <<d, to>>
      BY <2>1 DEF TypeInv, TypeOK
    <3>2. <<d, to>> \in reached /\ deals[d].session = s
      BY <2>1, <3>1 DEF NoticeInv, AnnouncedWasCommitted
    <3>3. Exists(d)
      BY <1>5, <3>2
    <3> QED
      BY <1>1, <3>1, <3>2, <3>3 DEF Grows
  <2>2. \A d \in notified : <<d, "pending">> \in reached'
    BY <1>1 DEF NoticeInv, AnnouncedWasCommitted, Grows
  <2> QED
    BY <1>7, <2>1, <2>2 DEF AnnouncedWasCommitted, logVars
<1>8. ASSUME NEW p \in Requests, Announce(p) PROVE AnnouncedWasCommitted'
  <2>1. UNCHANGED <<deals, reached>>
    BY <1>8 DEF Announce, dbVars, historyVars
  <2>2. PICK d \in Deals, to \in DealStatus : d = req[p].deal /\ to = req[p].to
    BY <1>8 DEF Announce, TypeInv, RequestTyped
  <2>3. /\ <<d, to>> \in reached
        /\ req[p].client # NULL => <<d, "pending">> \in reached
    BY <1>8, <2>2 DEF Announce, KnowledgeInv, HandlerKnows
  <2>4. \A e \in notified' : <<e, "pending">> \in reached
    BY <1>8, <2>2, <2>3 DEF Announce, NoticeInv, AnnouncedWasCommitted
  <2>5. ASSUME NEW s \in Sessions, told'[s] # NULL
        PROVE  told'[s] \in reached /\ deals[told'[s][1]].session = s
    <3>1. CASE told'[s] = told[s]
      BY <2>5, <3>1 DEF NoticeInv, AnnouncedWasCommitted
    <3>2. CASE told'[s] # told[s]
      <4>1. deals[d].session = s /\ told'[s] = <<d, to>>
        BY <1>8, <2>2, <3>2 DEF Announce, TypeInv, TypeOK
      <4> QED
        BY <2>3, <4>1
    <3> QED
      BY <3>1, <3>2
  <2> QED
    BY <2>1, <2>4, <2>5 DEF AnnouncedWasCommitted
<1>9. \/ \E p \in Requests : Announce(p)
      \/ UNCHANGED logVars
  BY DEF Next, RequestStep, StartCreate, CheckEligible, ReadSale, InsertDeal, StartUpdate,
         Reprice, UpdateDeal, Abandon, TakeSession, CloseSession, UpdateApartment,
         PolicyTakesEffect, vars
<1> QED
  BY <1>6, <1>7, <1>8, <1>9 DEF NoticeInv

\* A notification or a system message tells what was committed, of a deal of
\* that chat, in whatever order the goroutines come to send them.
THEOREM AnnouncementsTrue == Spec => []AnnouncedWasCommitted
<1>1. Init => NoticeInv
  BY DEF Init, NoticeInv, AnnouncedWasCommitted
<1>2. NoticeInv => AnnouncedWasCommitted
  BY DEF NoticeInv
<1> QED
  BY <1>1, <1>2, NextNoticeInv, KnowledgeAlways, PTL DEF Spec

--------------------------------------------------------------------------------
(* The desk.                                                                 *)

\* A transaction on a deal only moves its session to a stage of deals.
LEMMA DealStages ==
  ASSUME TypeInv, NEW d, NEW apt, NEW session \in Sessions \cup {NULL}, NEW to \in DealStatus,
         SideEffects(d, apt, session, to), UNCHANGED sessEmployee
  PROVE  UNCHANGED <<sessStatus, sessEmployee>> \/ \E s \in Sessions : Desk!Stage(s)
<1>1. CASE session = NULL
  BY <1>1 DEF SideEffects
<1>2. CASE session # NULL
  <2>1. /\ session \in Sessions /\ sessStatus[session] # "absent"
        /\ SessionStatusOf(to) \in Desk!DealStages
    BY <1>2 DEF TypeInv, TypeOK, SessionStatus, SessionStatusOf, Desk!DealStages, DealStatus
  <2>2. sessStatus' = [sessStatus EXCEPT ![session] = SessionStatusOf(to)]
    BY <1>2 DEF SideEffects
  <2>3. Desk!Stage(session)
    BY <2>1, <2>2 DEF Desk!Stage
  <2> QED
    BY <2>1, <2>3
<1> QED
  BY <1>1, <1>2

LEMMA DeskStep == TypeInv /\ [Next]_vars => [Desk!Next]_(Desk!vars)
<1> SUFFICES ASSUME TypeInv, [Next]_vars PROVE Desk!Next \/ UNCHANGED Desk!vars
  OBVIOUS
<1>1. UNCHANGED <<sessStatus, sessEmployee>> => UNCHANGED Desk!vars
  BY DEF Desk!vars
<1>2. ASSUME NEW p \in Requests, InsertDeal(p) PROVE Desk!Next \/ UNCHANGED Desk!vars
  <2>1. PICK session \in Sessions \cup {NULL} : session = req[p].session
    BY DEF TypeInv, TypeOK, Request
  <2>2. PICK d \in Deals : SideEffects(d, req[p].apt, session, "pending")
    BY <1>2, <2>1 DEF InsertDeal
  <2>3. PICK apt : apt = req[p].apt
    OBVIOUS
  <2>4. SideEffects(d, apt, session, "pending") /\ UNCHANGED sessEmployee
    BY <1>2, <2>2, <2>3 DEF InsertDeal, SideEffects
  <2> QED
    BY <1>1, <2>4, DealStages DEF DealStatus, Desk!Next
<1>3. ASSUME NEW p \in Requests, UpdateDeal(p) PROVE Desk!Next \/ UNCHANGED Desk!vars
  <2>1. PICK d \in Deals, to \in DealStatus : d = req[p].deal /\ to = req[p].to
    BY <1>3 DEF TypeInv, RequestTyped, UpdateDeal, Moving
  <2>2. PICK session \in Sessions \cup {NULL}, apt \in Apartments \cup {NULL} :
          session = deals[d].session /\ apt = deals[d].apt
    BY <2>1 DEF TypeInv, TypeOK, DealRow
  <2>3. SideEffects(d, apt, session, to) /\ UNCHANGED sessEmployee
    BY <1>3, <2>1, <2>2 DEF UpdateDeal, SideEffects
  <2> QED
    BY <1>1, <2>3, DealStages DEF Desk!Next
<1>4. ASSUME NEW u \in Staff, NEW s \in Sessions, TakeSession(u, s) PROVE Desk!Next
  <2>1. Desk!Take(u, s)
    BY <1>4 DEF TakeSession, Desk!Take, TypeInv, TypeOK, SessionStatus
  <2> QED
    BY <2>1 DEF Desk!Next, Desk!Staff, Staff
<1>5. ASSUME NEW u \in Staff, NEW s \in Sessions, CloseSession(u, s) PROVE Desk!Next
  <2>1. Desk!Close(u, s)
    BY <1>5 DEF CloseSession, Desk!Close, Desk!MayClose, TypeInv, TypeOK, SessionStatus, Staff
  <2> QED
    BY <2>1 DEF Desk!Next, Desk!Staff, Staff
<1>6. ASSUME NEW p \in Requests, RequestStep(p), ~InsertDeal(p), ~UpdateDeal(p)
      PROVE  UNCHANGED <<sessStatus, sessEmployee>>
  BY <1>6 DEF RequestStep, StartCreate, CheckEligible, ReadSale, StartUpdate, Reprice,
    Announce, Abandon, dbVars
<1> QED
  BY <1>1, <1>2, <1>3, <1>4, <1>5, <1>6
  DEF Next, vars, dbVars, UpdateApartment, PolicyTakesEffect

\* Deals and the handlers of sessions together implement the desk: no deal
\* takes a session from its employee.
THEOREM DeskKept == Spec => KeepsDesk
<1>1. Init => Desk!Init
  BY DEF Init, Desk!Init
<1> QED
  BY <1>1, InitTypeInv, NextTypeInv, DeskStep, PTL DEF Spec, KeepsDesk, Desk!Spec
--------------------------------------------------------------------------------
(* Amounts. *)

LEMMA ProductGrows ==
  ASSUME NEW a \in Nat, NEW x \in Nat, NEW y \in Nat, x <= y
  PROVE  /\ a * x \in Nat /\ a * y \in Nat
         /\ a * x <= a * y
<1>1. a * x \in Nat /\ a * y \in Nat
  OBVIOUS
<1>2. y - x \in Nat /\ a * (y - x) \in Nat
  OBVIOUS
<1>3. a * (y - x) = a * y - a * x
  OBVIOUS
<1> QED
  BY <1>1, <1>2, <1>3

LEMMA PercentIsNumber ==
  ASSUME NEW q \in RequestedPercents
  PROVE  q \in Int /\ 0 <= q /\ q <= 100000
BY SMTT(30) DEF RequestedPercents

\* roundPrice (service/deal.go:64) rounds to the nearest kopeck, halves up: a total is between
\* nothing and the price, within half a kopeck of the price less the requested discount, and
\* no larger for a larger discount.
THEOREM TotalIsRounded ==
  ASSUME NEW base \in Nat, NEW q \in RequestedPercents, NEW s \in RequestedPercents, q <= s
  PROVE  /\ TotalPrice(base, q) \in 0 .. base
         /\ 100000 * TotalPrice(base, q) - base * (100000 - q) <= 50000
         /\ base * (100000 - q) - 100000 * TotalPrice(base, q) < 50000
         /\ TotalPrice(base, s) <= TotalPrice(base, q)
<1>1. PICK k \in Nat : k = 100000 - q
  BY PercentIsNumber
<1>2. PICK l \in Nat : l = 100000 - s
  BY PercentIsNumber
<1>3. l <= k /\ k <= 100000
  BY <1>1, <1>2, PercentIsNumber
<1>4. /\ base * k \in Nat /\ base * l \in Nat /\ base * l <= base * k
      /\ base * k <= base * 100000
  BY <1>3, ProductGrows
<1>5. PICK x \in Nat : x = base * k
  BY <1>4
<1>6. PICK y \in Nat : y = base * l
  BY <1>4
<1>7. y <= x /\ x <= 100000 * base
  BY <1>4, <1>5, <1>6
<1>8. PICK d \in Int : d = (2 * x + 100000) \div 200000
  OBVIOUS
<1>9. PICK e \in Int : e = (2 * y + 100000) \div 200000
  OBVIOUS
<1>10. d \in 0 .. base /\ e <= d
  BY <1>7, <1>8, <1>9
<1>11. 100000 * d - x <= 50000 /\ x - 100000 * d < 50000
  BY <1>8
<1>12. 2 * base * k = 2 * x /\ 2 * base * l = 2 * y
  BY <1>5, <1>6
<1>13. TotalPrice(base, q) = d /\ TotalPrice(base, s) = e
  BY <1>1, <1>2, <1>8, <1>9, <1>12 DEF TotalPrice
<1> QED
  BY <1>1, <1>5, <1>10, <1>11, <1>13

\* The total of a deal is at most its price and at least nothing, and the discount it shows
\* gives it within half a kopeck and 0.005 % of the price: the total is of the discount that
\* was asked for, and the column keeps two decimals of that.
NearlyAsShown(row) ==
  LET exact == row.base * (10000 - row.discount) IN
  /\ row.total \in 0 .. row.base
  /\ 20000 * row.total - 2 * exact <= row.base + 10000
  /\ 2 * exact - 20000 * row.total <= row.base + 10000

LEMMA StoredIsNear ==
  ASSUME NEW q \in RequestedPercents
  PROVE  /\ StoredDiscount(q) \in Nat /\ StoredDiscount(q) <= 10000
         /\ q - 10 * StoredDiscount(q) <= 4
         /\ 10 * StoredDiscount(q) - q <= 5
<1>1. q \in Int /\ 0 <= q /\ q <= 100000
  BY PercentIsNumber
<1> QED
  BY <1>1 DEF StoredDiscount

LEMMA SoundIsNearlyAsShown ==
  ASSUME NEW row \in DealRow, row.base > 0, NEW q \in RequestedPercents,
         row.discount = StoredDiscount(q), row.total = TotalPrice(row.base, q)
  PROVE  NearlyAsShown(row)
<1>1. PICK base \in Nat : base = row.base
  BY DEF DealRow
<1>2. PICK n \in Nat : /\ n = StoredDiscount(q) /\ n <= 10000
                       /\ q - 10 * n <= 4 /\ 10 * n - q <= 5
  BY StoredIsNear
<1>3. q \in Int /\ 0 <= q /\ q <= 100000
  BY PercentIsNumber
<1>4. PICK k \in Nat : k = 100000 - q
  BY <1>3
<1>5. PICK m \in Nat : m = 10000 - n
  BY <1>2
<1>6. k <= 10 * m + 5 /\ 10 * m <= k + 4
  BY <1>2, <1>3, <1>4, <1>5
<1>7. PICK x \in Nat : x = base * k
  BY <1>4
<1>8. PICK exact \in Nat : exact = base * m
  BY <1>5
<1>9. base * (10 * m + 5) = 10 * exact + 5 * base /\ base * (k + 4) = x + 4 * base
      /\ base * (10 * m) = 10 * exact
  BY <1>7, <1>8
<1>10. base * k <= base * (10 * m + 5) /\ base * (10 * m) <= base * (k + 4)
  BY <1>6, ProductGrows
<1>11. x <= 10 * exact + 5 * base /\ 10 * exact <= x + 4 * base
  BY <1>7, <1>9, <1>10
<1>12. /\ TotalPrice(base, q) \in 0 .. base
       /\ 100000 * TotalPrice(base, q) - base * (100000 - q) <= 50000
       /\ base * (100000 - q) - 100000 * TotalPrice(base, q) < 50000
  <2>1. q <= q
    BY <1>3
  <2> QED
    BY <2>1, TotalIsRounded
<1>13. PICK total \in 0 .. base : total = TotalPrice(base, q)
  BY <1>12
<1>14. 100000 * total - x <= 50000 /\ x - 100000 * total < 50000
  BY <1>4, <1>7, <1>12, <1>13
<1>15. 20000 * total - 2 * exact <= base + 10000 /\ 2 * exact - 20000 * total <= base + 10000
  BY <1>11, <1>14
<1>16. row.base * (10000 - row.discount) = exact /\ row.total = total
  BY <1>1, <1>2, <1>5, <1>8, <1>13
<1> QED
  BY <1>1, <1>15, <1>16 DEF NearlyAsShown

\* However deals are repriced and prices edited, no total is beyond its price, and none is
\* further from the discount beside it than the column's rounding puts it
\* (service/deal.go:97, 200).
THEOREM DealsNearlyAsShown == Spec => [](\A d \in Deals : Exists(d) => NearlyAsShown(deals[d]))
<1>1. ASSUME TypeInv, KnowledgeInv, NEW d \in Deals, Exists(d) PROVE NearlyAsShown(deals[d])
  <2>1. deals[d] \in DealRow
    BY <1>1 DEF TypeInv, TypeOK
  <2>2. DealSound(d)
    BY <1>1 DEF KnowledgeInv
  <2>3. PICK q \in RequestedPercents : deals[d].discount = StoredDiscount(q)
                                       /\ deals[d].total = TotalPrice(deals[d].base, q)
    BY <2>2, AmountsAssumption DEF DealSound
  <2>4. deals[d].base > 0
    BY <2>2 DEF DealSound
  <2> QED
    BY <2>1, <2>3, <2>4, SoundIsNearlyAsShown
<1>2. TypeInv /\ KnowledgeInv => \A d \in Deals : Exists(d) => NearlyAsShown(deals[d])
  BY <1>1
<1> QED
  BY <1>2, KnowledgeAlways, PTL
================================================================================
