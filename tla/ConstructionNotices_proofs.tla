----------------------- MODULE ConstructionNotices_proofs -----------------------
(***************************************************************************)
(* Proofs about ConstructionNotices, for any catalogue, deals, stages,     *)
(* states and updates.                                                     *)
(*                                                                         *)
(* The argument: claims[s] is the order of the changes announced of stage  *)
(* s, no two neighbours of it tell the same, and a notification comes only *)
(* from an update that is in it.  Two notifications with the same news are *)
(* from two places of the order, so the one after the first of them, which *)
(* tells something else, lies between.                                     *)
(*                                                                         *)
(* The last section is about the loop over the deals: whom an update has   *)
(* still to tell has no notice of it yet, so none is told twice or left    *)
(* out.                                                                    *)
(***************************************************************************)
EXTENDS ConstructionNotices, TLAPS

News(u) == Fingerprint(req[u].state)

HasClaimed(u) == \E i \in 1..Len(claims[req[u].stage]) : claims[req[u].stage][i] = u

\* Only updates that changed what was announced go on to tell clients.
ToldByClaim ==
  \A u \in Updates :
    /\ req[u].pc \in {"deals", "notify", "mail"} => HasClaimed(u)
    /\ \A d \in Deals : notices[u][d] # "none" =>
         HasClaimed(u) /\ req[u].pc \notin {"idle", "claim"}

\* The updates in the order of a stage are past their claim and about it.
ClaimsOfStage ==
  \A s \in Stages : \A i \in 1..Len(claims[s]) :
    req[claims[s][i]].pc \notin {"idle", "claim"} /\ req[claims[s][i]].stage = s

\* What is announced is the news of the last.
LastAnnounced ==
  \A s \in Stages : Len(claims[s]) > 0 => announced[s] = News(claims[s][Len(claims[s])])

NeighboursDiffer ==
  \A s \in Stages : \A i \in 1..Len(claims[s]) :
    i + 1 \in 1..Len(claims[s]) => News(claims[s][i]) # News(claims[s][i + 1])

Order == ToldByClaim /\ ClaimsOfStage /\ LastAnnounced /\ NeighboursDiffer

IInv == TypeOK /\ Order
--------------------------------------------------------------------------------
(* The goroutines.                                                           *)

LEMMA IdleIsUpdate == Idle \in Update
<1>1. /\ (CHOOSE s \in Stages : TRUE) \in Stages
      /\ (CHOOSE b \in Buildings : TRUE) \in Buildings
      /\ (CHOOSE st \in States : TRUE) \in States
      /\ (CHOOSE d \in Deals : TRUE) \in Deals
  BY SomeInputs
<1> QED
  BY <1>1 DEF Idle, Update

\* A step of a goroutine that is past its claim, or gives it up: it keeps its
\* stage and its state, and adds notifications only if it has claimed.
LEMMA GoingOn ==
  ASSUME TypeOK, Order, NEW u \in Updates, NEW r \in Update,
         req' = [req EXCEPT ![u] = r], UNCHANGED <<announced, claims>>,
         r.stage = req[u].stage, r.state = req[u].state,
         r.pc \notin {"idle", "claim"},
         r.pc \in {"deals", "notify", "mail"} => HasClaimed(u),
         \A v \in Updates : v # u => notices'[v] = notices[v],
         \A d \in Deals : notices'[u][d] # "none" => notices[u][d] # "none" \/ HasClaimed(u)
  PROVE  Order'
<1>1. /\ req'[u] = r
      /\ \A v \in Updates : v # u => req'[v] = req[v]
  BY DEF TypeOK
<1>2. \A v \in Updates : req'[v].stage = req[v].stage /\ req'[v].state = req[v].state
  BY <1>1
<1>3. \A s \in Stages, i \in Nat : i \in 1..Len(claims[s]) => claims[s][i] \in Updates
  BY DEF TypeOK
<1>4. \A v \in Updates : HasClaimed(v)' <=> HasClaimed(v)
  BY <1>2 DEF HasClaimed
<1>5. \A v \in Updates : News(v)' = News(v)
  BY <1>2 DEF News
<1>6. ToldByClaim'
  BY <1>1, <1>4 DEF Order, ToldByClaim
<1>7. ClaimsOfStage'
  BY <1>1, <1>2, <1>3 DEF Order, ClaimsOfStage
<1>8. LastAnnounced'
  <2> SUFFICES ASSUME NEW s \in Stages, Len(claims[s]) > 0
               PROVE  announced[s] = News(claims[s][Len(claims[s])])'
    BY DEF LastAnnounced
  <2>1. claims[s] \in Seq(Updates)
    BY DEF TypeOK
  <2>2. claims[s][Len(claims[s])] \in Updates
    BY <2>1
  <2> QED
    BY <2>2, <1>5 DEF Order, LastAnnounced
<1>9. NeighboursDiffer'
  <2> SUFFICES ASSUME NEW s \in Stages, NEW i \in 1..Len(claims[s]), i + 1 \in 1..Len(claims[s])
               PROVE  News(claims[s][i])' # News(claims[s][i + 1])'
    BY DEF NeighboursDiffer
  <2>1. claims[s][i] \in Updates /\ claims[s][i + 1] \in Updates
    BY DEF TypeOK
  <2> QED
    BY <2>1, <1>5 DEF Order, NeighboursDiffer
<1> QED
  BY <1>6, <1>7, <1>8, <1>9 DEF Order

\* A body is accepted by a goroutine that has not told anybody anything.
LEMMA Accepting ==
  ASSUME TypeOK, Order, NEW u \in Updates, NEW r \in Update, req[u].pc = "idle",
         req' = [req EXCEPT ![u] = r], r.pc = "claim",
         UNCHANGED <<announced, claims, notices>>
  PROVE  Order'
<1>1. /\ req'[u] = r
      /\ \A v \in Updates : v # u => req'[v] = req[v]
  BY DEF TypeOK
<1>2. \A s \in Stages : \A i \in 1..Len(claims[s]) :
        claims[s][i] \in Updates /\ claims[s][i] # u
  BY DEF TypeOK, Order, ClaimsOfStage
<1>3. \A s \in Stages : \A i \in 1..Len(claims[s]) : req'[claims[s][i]] = req[claims[s][i]]
  BY <1>1, <1>2
<1>4. \A s \in Stages : \A i \in 1..Len(claims[s]) : News(claims[s][i])' = News(claims[s][i])
  BY <1>3 DEF News
<1>5. ToldByClaim'
  BY <1>1 DEF Order, ToldByClaim, HasClaimed
<1>6. ClaimsOfStage'
  BY <1>3 DEF Order, ClaimsOfStage
<1>7. LastAnnounced'
  <2> SUFFICES ASSUME NEW s \in Stages, Len(claims[s]) > 0
               PROVE  announced[s] = News(claims[s][Len(claims[s])])'
    BY DEF LastAnnounced
  <2>1. claims[s] \in Seq(Updates)
    BY DEF TypeOK
  <2>2. Len(claims[s]) \in 1..Len(claims[s])
    BY <2>1
  <2> QED
    BY <2>2, <1>4 DEF Order, LastAnnounced
<1>8. NeighboursDiffer'
  BY <1>4 DEF Order, NeighboursDiffer
<1> QED
  BY <1>5, <1>6, <1>7, <1>8 DEF Order

\* A change is claimed: the update becomes the last in the order of its stage.
LEMMA Claiming ==
  ASSUME TypeOK, Order, NEW u \in Updates, NEW r \in Update, req[u].pc = "claim",
         req' = [req EXCEPT ![u] = r], r.stage = req[u].stage, r.state = req[u].state,
         r.pc \in {"deals", "done"},
         announced[req[u].stage] # News(u),
         announced' = [announced EXCEPT ![req[u].stage] = News(u)],
         claims' = [claims EXCEPT ![req[u].stage] = Append(@, u)],
         UNCHANGED notices
  PROVE  Order'
<1> DEFINE s0 == req[u].stage
           n == Len(claims[s0])
<1>1. /\ req'[u] = r
      /\ \A v \in Updates : v # u => req'[v] = req[v]
  BY DEF TypeOK
<1>2. \A v \in Updates : req'[v].stage = req[v].stage /\ req'[v].state = req[v].state
  BY <1>1
<1>3. s0 \in Stages
  BY DEF TypeOK, Update
<1>4. claims[s0] \in Seq(Updates) /\ n \in Nat
  BY <1>3 DEF TypeOK
<1>5. /\ Len(claims'[s0]) = n + 1
      /\ claims'[s0][n + 1] = u
      /\ \A i \in 1..n : claims'[s0][i] = claims[s0][i]
  BY <1>3, <1>4 DEF TypeOK
<1>6. \A s \in Stages : s # s0 => claims'[s] = claims[s] /\ announced'[s] = announced[s]
  BY DEF TypeOK
<1>7. announced'[s0] = News(u)
  BY <1>3 DEF TypeOK
<1>8. \A s \in Stages : claims[s] \in Seq(Updates) /\ Len(claims[s]) \in Nat
  BY DEF TypeOK
<1>9. HasClaimed(u)'
  BY <1>2, <1>3, <1>4, <1>5 DEF HasClaimed
<1>10. \A v \in Updates : HasClaimed(v) => HasClaimed(v)'
  <2> SUFFICES ASSUME NEW v \in Updates, HasClaimed(v) PROVE HasClaimed(v)'
    OBVIOUS
  <2>1. req[v].stage \in Stages
    BY DEF TypeOK, Update
  <2>2. CASE req[v].stage = s0
    BY <2>2, <1>2, <1>4, <1>5 DEF HasClaimed
  <2>3. CASE req[v].stage # s0
    BY <2>1, <2>3, <1>2, <1>6 DEF HasClaimed
  <2> QED
    BY <2>2, <2>3
<1>11. ToldByClaim'
  BY <1>1, <1>9, <1>10 DEF Order, ToldByClaim
<1>12. ClaimsOfStage'
  <2> SUFFICES ASSUME NEW s \in Stages, NEW i \in 1..Len(claims'[s])
               PROVE  /\ req'[claims'[s][i]].pc \notin {"idle", "claim"}
                      /\ req'[claims'[s][i]].stage = s
    BY DEF ClaimsOfStage
  <2>1. CASE s = s0 /\ i = n + 1
    BY <2>1, <1>1, <1>5
  <2>2. CASE ~(s = s0 /\ i = n + 1)
    <3>1. i \in 1..Len(claims[s]) /\ claims'[s][i] = claims[s][i]
      BY <2>2, <1>4, <1>5, <1>6
    <3>2. claims[s][i] \in Updates
      BY <3>1, <1>8
    <3>3. /\ req[claims[s][i]].pc \notin {"idle", "claim"}
          /\ req[claims[s][i]].stage = s
      BY <3>1 DEF Order, ClaimsOfStage
    <3> QED
      BY <3>1, <3>2, <3>3, <1>1
  <2> QED
    BY <2>1, <2>2
<1>13. LastAnnounced'
  <2> SUFFICES ASSUME NEW s \in Stages, Len(claims'[s]) > 0
               PROVE  announced'[s] = Fingerprint(req'[claims'[s][Len(claims'[s])]].state)
    BY DEF LastAnnounced, News
  <2>1. CASE s = s0
    BY <2>1, <1>2, <1>5, <1>7 DEF News
  <2>2. CASE s # s0
    <3>1. claims'[s] = claims[s] /\ announced'[s] = announced[s]
      BY <2>2, <1>6
    <3>2. claims[s][Len(claims[s])] \in Updates
      <4>1. Len(claims[s]) > 0
        BY <3>1
      <4>2. claims[s] \in Seq(Updates) /\ Len(claims[s]) \in Nat
        BY <1>8
      <4>3. Len(claims[s]) \in 1..Len(claims[s])
        BY <4>1, <4>2
      <4> QED
        BY <4>2, <4>3
    <3>3. announced[s] = Fingerprint(req[claims[s][Len(claims[s])]].state)
      BY <3>1 DEF Order, LastAnnounced, News
    <3> QED
      BY <3>1, <3>2, <3>3, <1>2
  <2> QED
    BY <2>1, <2>2
<1>14. NeighboursDiffer'
  <2> SUFFICES ASSUME NEW s \in Stages, NEW i \in 1..Len(claims'[s]),
                      i + 1 \in 1..Len(claims'[s])
               PROVE  Fingerprint(req'[claims'[s][i]].state)
                        # Fingerprint(req'[claims'[s][i + 1]].state)
    BY DEF NeighboursDiffer, News
  <2>1. CASE s = s0 /\ i = n
    <3>1. n > 0 /\ n \in 1..n
      BY <2>1, <1>4
    <3>2. claims'[s][i] = claims[s0][n] /\ claims'[s][i + 1] = u
      BY <2>1, <3>1, <1>5
    <3>3. claims[s0][n] \in Updates
      BY <3>1, <1>4
    <3>4. announced[s0] = News(claims[s0][n])
      BY <3>1, <1>3 DEF Order, LastAnnounced
    <3> QED
      BY <3>2, <3>3, <3>4, <1>2 DEF News
  <2>2. CASE ~(s = s0 /\ i = n)
    <3>1. /\ i \in 1..Len(claims[s]) /\ i + 1 \in 1..Len(claims[s])
          /\ claims'[s][i] = claims[s][i] /\ claims'[s][i + 1] = claims[s][i + 1]
      BY <2>2, <1>4, <1>5, <1>6
    <3>2. claims[s][i] \in Updates /\ claims[s][i + 1] \in Updates
      BY <3>1, <1>8
    <3> QED
      BY <3>1, <3>2, <1>2 DEF Order, NeighboursDiffer, News
  <2> QED
    BY <2>1, <2>2
<1> QED
  BY <1>11, <1>12, <1>13, <1>14 DEF Order

--------------------------------------------------------------------------------
(* Every step keeps the invariant.                                           *)

LEMMA CatalogueKept ==
  ASSUME TypeOK, CatalogueNext
  PROVE  CatalogueTypeOK' /\ KnownBuildings \subseteq KnownBuildings'
<1> USE DEF TypeOK, CatalogueTypeOK, KnownBuildings, KnownApartments
<1>1. ASSUME NEW c \in Complexes, CreateComplex(c)
      PROVE  CatalogueTypeOK' /\ KnownBuildings \subseteq KnownBuildings'
  BY <1>1 DEF CreateComplex
<1>2. ASSUME NEW b \in Buildings, NEW c \in Complexes, CreateBuilding(b, c) \/ UpdateBuilding(b, c)
      PROVE  CatalogueTypeOK' /\ KnownBuildings \subseteq KnownBuildings'
  <2>1. /\ c \in complexes /\ c # NULL
        /\ complexOf' = [complexOf EXCEPT ![b] = c]
        /\ UNCHANGED <<complexes, buildingOf>>
    BY <1>2, NullIsNoId DEF CreateBuilding, UpdateBuilding
  <2>2. \A x \in Buildings : complexOf[x] # NULL => complexOf'[x] # NULL
    BY <2>1
  <2>3. complexOf' \in [Buildings -> complexes' \cup {NULL}]
    BY <2>1
  <2>4. KnownBuildings \subseteq KnownBuildings'
    BY <2>2
  <2>5. buildingOf' \in [Apartments -> KnownBuildings' \cup {NULL}]
    BY <2>1, <2>4
  <2> QED
    BY <2>1, <2>3, <2>4, <2>5
<1>3. ASSUME NEW a \in Apartments, NEW b \in Buildings, CreateApartment(a, b) \/ UpdateApartment(a, b)
      PROVE  CatalogueTypeOK' /\ KnownBuildings \subseteq KnownBuildings'
  BY <1>3 DEF CreateApartment, UpdateApartment
<1> QED
  BY <1>1, <1>2, <1>3 DEF CatalogueNext

\* A step that touches neither goroutines, nor claims, nor notifications.
LEMMA Elsewhere ==
  ASSUME Order, UNCHANGED <<announced, notices, req, claims>>
  PROVE  Order'
BY DEF Order, ToldByClaim, HasClaimed, ClaimsOfStage, LastAnnounced, NeighboursDiffer, News

LEMMA AcceptKeeps ==
  ASSUME IInv, NEW u \in Updates, NEW s \in Stages, NEW b \in Buildings, NEW st \in States,
         CreateProgress(u, s, b, st) \/ UpdateProgress(u, s, b, st)
  PROVE  IInv'
<1> DEFINE new == [req[u] EXCEPT !.pc = "claim", !.stage = s, !.building = b, !.state = st]
<1>1. new \in Update /\ new.pc = "claim"
  BY DEF IInv, TypeOK, Update
<1>2. req' = [req EXCEPT ![u] = new] /\ req[u].pc = "idle"
  BY DEF CreateProgress, UpdateProgress, Accepted
<1>3. TypeOK'
  <2>1. /\ progress' = [progress EXCEPT ![s] = [building |-> b, state |-> st]]
        /\ b \in KnownBuildings
        /\ UNCHANGED <<catalogueVars, announced, notices, deals, claims>>
    BY DEF CreateProgress, UpdateProgress
  <2>2. progress' \in [Stages -> [building : KnownBuildings, state : States] \cup {NULL}]
    BY <2>1 DEF IInv, TypeOK
  <2>3. req' \in [Updates -> Update]
    BY <1>1, <1>2 DEF IInv, TypeOK
  <2>4. KnownBuildings' = KnownBuildings /\ CatalogueTypeOK'
    BY <2>1 DEF IInv, TypeOK, catalogueVars, CatalogueTypeOK, KnownBuildings
  <2> QED
    BY <2>1, <2>2, <2>3, <2>4 DEF IInv, TypeOK
<1>4. UNCHANGED <<announced, claims, notices>>
  BY DEF CreateProgress, UpdateProgress
<1>5. PICK r \in Update : r = new
  BY <1>1
<1> HIDE DEF new
<1> QED
  BY <1>1, <1>2, <1>3, <1>4, <1>5, Accepting DEF IInv

LEMMA ClaimKeeps ==
  ASSUME IInv, NEW u \in Updates, ClaimConstructionState(u)
  PROVE  IInv'
<1>1. req[u].pc = "claim" /\ req[u].stage \in Stages /\ req[u].state \in States
  BY DEF IInv, TypeOK, Update, ClaimConstructionState
<1>2. CASE Changes(req[u].stage, req[u].state)
  <2> DEFINE new == [req[u] EXCEPT !.pc = IF Alarming(req[u].state) THEN "deals" ELSE "done"]
  <2>1. /\ new \in Update /\ new.pc \in {"deals", "done"}
        /\ new.stage = req[u].stage /\ new.state = req[u].state
    BY DEF IInv, TypeOK, Update
  <2>2. /\ req' = [req EXCEPT ![u] = new]
        /\ announced[req[u].stage] # News(u)
        /\ announced' = [announced EXCEPT ![req[u].stage] = News(u)]
        /\ claims' = [claims EXCEPT ![req[u].stage] = Append(@, u)]
        /\ UNCHANGED <<catalogueVars, progress, notices, deals>>
    BY <1>2 DEF ClaimConstructionState, Changes, News
  <2>3. PICK r \in Update : r = new
    BY <2>1
  <2> HIDE DEF new
  <2>4. Order'
    BY <1>1, <2>1, <2>2, <2>3, Claiming DEF IInv
  <2>5. announced' \in [Stages -> {Fingerprint(st) : st \in States} \cup {NULL}]
    BY <1>1, <2>2 DEF IInv, TypeOK, News
  <2>6. claims' \in [Stages -> Seq(Updates)]
    BY <1>1, <2>2 DEF IInv, TypeOK
  <2>7. TypeOK'
    BY <2>1, <2>2, <2>5, <2>6 DEF IInv, TypeOK, catalogueVars, CatalogueTypeOK, KnownBuildings
  <2> QED
    BY <2>4, <2>7 DEF IInv
<1>3. CASE ~Changes(req[u].stage, req[u].state)
  <2> DEFINE new == [req[u] EXCEPT !.pc = "done"]
  <2>1. /\ new \in Update /\ new.pc = "done"
        /\ new.stage = req[u].stage /\ new.state = req[u].state
    BY DEF IInv, TypeOK, Update
  <2>2. /\ req' = [req EXCEPT ![u] = new]
        /\ UNCHANGED <<catalogueVars, progress, announced, notices, deals, claims>>
    BY <1>3 DEF ClaimConstructionState
  <2>3. PICK r \in Update : r = new
    BY <2>1
  <2> HIDE DEF new
  <2>4. Order'
    BY <2>1, <2>2, <2>3, GoingOn DEF IInv
  <2>5. TypeOK'
    BY <2>1, <2>2 DEF IInv, TypeOK, catalogueVars, CatalogueTypeOK, KnownBuildings
  <2> QED
    BY <2>4, <2>5 DEF IInv
<1> QED
  BY <1>2, <1>3

\* The steps after the claim: each is a new record of the goroutine, and at
\* most one more notification.
LEMMA TellingKeeps ==
  ASSUME IInv, NEW u \in Updates, NEW r \in Update,
         req[u].pc \in {"claim", "deals", "notify", "mail"},
         req' = [req EXCEPT ![u] = r], r.stage = req[u].stage, r.state = req[u].state,
         r.pc \in {"notify", "mail", "done", "failed"},
         r.pc \in {"notify", "mail"} => req[u].pc # "claim",
         notices' = notices
           \/ \E d \in Deals, mark \in {"failed", "unread"} :
                req[u].pc # "claim" /\ notices' = [notices EXCEPT ![u][d] = mark],
         UNCHANGED <<catalogueVars, progress, announced, deals, claims>>
  PROVE  IInv'
<1>1. req[u].pc # "claim" => HasClaimed(u)
  BY DEF IInv, Order, ToldByClaim
<1>2. notices' \in [Updates -> [Deals -> {"none", "failed", "unread", "read"}]]
  <2>1. ASSUME NEW d \in Deals, NEW mark \in {"failed", "unread"},
               notices' = [notices EXCEPT ![u][d] = mark]
        PROVE  notices' \in [Updates -> [Deals -> {"none", "failed", "unread", "read"}]]
    <3>1. mark \in {"none", "failed", "unread", "read"}
      OBVIOUS
    <3>2. [notices[u] EXCEPT ![d] = mark] \in [Deals -> {"none", "failed", "unread", "read"}]
      BY <3>1 DEF IInv, TypeOK
    <3> QED
      BY <2>1, <3>2 DEF IInv, TypeOK
  <2>2. CASE notices' = notices
    BY <2>2 DEF IInv, TypeOK
  <2> QED
    BY <2>1, <2>2
<1>3. TypeOK'
  BY <1>2 DEF IInv, TypeOK, catalogueVars, CatalogueTypeOK, KnownBuildings
<1>4. \A v \in Updates : v # u => notices'[v] = notices[v]
  BY DEF IInv, TypeOK
<1>5. \A d \in Deals : notices'[u][d] # "none" => notices[u][d] # "none" \/ HasClaimed(u)
  BY <1>1 DEF IInv, TypeOK
<1>6. r.pc \in {"deals", "notify", "mail"} => HasClaimed(u)
  BY <1>1
<1>7. r.pc \notin {"idle", "claim"}
  OBVIOUS
<1> QED
  BY <1>3, <1>4, <1>5, <1>6, <1>7, GoingOn DEF IInv

LEMMA StepKeeps == IInv /\ [Next]_vars => IInv'
<1> SUFFICES ASSUME IInv, [Next]_vars PROVE IInv'
  OBVIOUS
<1>1. CASE CatalogueNext /\ UNCHANGED <<progress, announced, notices, deals, req, claims>>
  <2>1. CatalogueTypeOK' /\ KnownBuildings \subseteq KnownBuildings'
    BY <1>1, CatalogueKept DEF IInv
  <2> QED
    BY <1>1, <2>1, Elsewhere DEF IInv, TypeOK
<1>2. ASSUME NEW d \in Deals, CreateDeal(d) PROVE IInv'
  BY <1>2, Elsewhere DEF CreateDeal, IInv, TypeOK, DealStatuses, catalogueVars,
    CatalogueTypeOK, KnownBuildings
<1>3. ASSUME NEW d \in Deals, NEW status \in DealStatuses, MoveDeal(d, status) PROVE IInv'
  BY <1>3, Elsewhere DEF MoveDeal, IInv, TypeOK, catalogueVars,
    CatalogueTypeOK, KnownBuildings
<1>4. ASSUME NEW u \in Updates, NEW s \in Stages, NEW b \in Buildings, NEW st \in States,
             CreateProgress(u, s, b, st) \/ UpdateProgress(u, s, b, st)
      PROVE  IInv'
  BY <1>4, AcceptKeeps
<1>5. ASSUME NEW u \in Updates, Proceed(u) \/ Abandon(u) PROVE IInv'
  <2>1. CASE ClaimConstructionState(u)
    BY <2>1, ClaimKeeps
  <2>2. CASE ReadDeals(u)
    <3> DEFINE found == GetDealsByBuildingID(req[u].building)
               new == [req[u] EXCEPT !.todo = found, !.pc = IF found = {} THEN "done" ELSE "notify"]
    <3>1. found \subseteq Deals
      BY DEF GetDealsByBuildingID
    <3> HIDE DEF found
    <3>2. /\ new \in Update /\ new.pc \in {"notify", "done"}
          /\ new.stage = req[u].stage /\ new.state = req[u].state
      BY <3>1 DEF IInv, TypeOK, Update
    <3>3. /\ req[u].pc = "deals" /\ req' = [req EXCEPT ![u] = new]
          /\ UNCHANGED <<catalogueVars, progress, announced, notices, deals, claims>>
      BY <2>2 DEF ReadDeals, found
    <3>4. PICK r \in Update : r = new
      BY <3>2
    <3> HIDE DEF new
    <3> QED
      BY <3>2, <3>3, <3>4, TellingKeeps
  <2>3. ASSUME NEW d \in Deals, CreateNotification(u, d) PROVE IInv'
    <3>1. CASE notices' = [notices EXCEPT ![u][d] = "unread"]
               /\ req' = [req EXCEPT ![u].pc = "mail", ![u].deal = d]
      <4> DEFINE new == [req[u] EXCEPT !.pc = "mail", !.deal = d]
      <4>1. /\ new \in Update /\ new.pc = "mail"
            /\ new.stage = req[u].stage /\ new.state = req[u].state
        BY DEF IInv, TypeOK, Update
      <4>2. /\ req[u].pc = "notify" /\ req' = [req EXCEPT ![u] = new]
            /\ UNCHANGED <<catalogueVars, progress, announced, deals, claims>>
        BY <2>3, <3>1 DEF CreateNotification
      <4>3. PICK r \in Update : r = new
        BY <4>1
      <4> HIDE DEF new
      <4> QED
        BY <3>1, <4>1, <4>2, <4>3, TellingKeeps
    <3>2. CASE notices' = [notices EXCEPT ![u][d] = "failed"] /\ Continue(u, d)
      <4> DEFINE new == [req[u] EXCEPT !.todo = @ \ {d},
                                       !.pc = IF req[u].todo = {d} THEN "done" ELSE "notify"]
      <4>1. /\ new \in Update /\ new.pc \in {"notify", "done"}
            /\ new.stage = req[u].stage /\ new.state = req[u].state
        BY DEF IInv, TypeOK, Update
      <4>2. /\ req[u].pc = "notify" /\ req' = [req EXCEPT ![u] = new]
            /\ UNCHANGED <<catalogueVars, progress, announced, deals, claims>>
        BY <2>3, <3>2 DEF CreateNotification, Continue
      <4>3. PICK r \in Update : r = new
        BY <4>1
      <4> HIDE DEF new
      <4> QED
        BY <3>2, <4>1, <4>2, <4>3, TellingKeeps
    <3> QED
      BY <2>3, <3>1, <3>2 DEF CreateNotification
  <2>4. CASE SendEmail(u)
    <3> DEFINE d == req[u].deal
               new == [req[u] EXCEPT !.todo = @ \ {d},
                                     !.pc = IF req[u].todo = {d} THEN "done" ELSE "notify"]
    <3>1. /\ new \in Update /\ new.pc \in {"notify", "done"}
          /\ new.stage = req[u].stage /\ new.state = req[u].state
      BY DEF IInv, TypeOK, Update
    <3>2. /\ req[u].pc = "mail" /\ req' = [req EXCEPT ![u] = new]
          /\ UNCHANGED <<catalogueVars, progress, announced, notices, deals, claims>>
      BY <2>4 DEF SendEmail, Continue
    <3>3. PICK r \in Update : r = new
      BY <3>1
    <3> HIDE DEF new
    <3> QED
      BY <3>1, <3>2, <3>3, TellingKeeps
  <2>5. CASE Abandon(u)
    <3> DEFINE new == [req[u] EXCEPT !.pc = "failed", !.todo = {}]
    <3>1. /\ new \in Update /\ new.pc = "failed"
          /\ new.stage = req[u].stage /\ new.state = req[u].state
      BY DEF IInv, TypeOK, Update
    <3>2. /\ req[u].pc \in {"claim", "deals", "notify", "mail"}
          /\ req' = [req EXCEPT ![u] = new]
          /\ UNCHANGED <<catalogueVars, progress, announced, notices, deals, claims>>
      BY <2>5 DEF Abandon
    <3>3. PICK r \in Update : r = new
      BY <3>1
    <3> HIDE DEF new
    <3> QED
      BY <3>1, <3>2, <3>3, TellingKeeps
  <2> QED
    BY <1>5, <2>1, <2>2, <2>3, <2>4, <2>5 DEF Proceed
<1>6. ASSUME UNCHANGED <<catalogueVars, progress, announced, deals, req, claims>>,
             notices' \in [Updates -> [Deals -> {"none", "failed", "unread", "read"}]],
             \A u \in Updates, d \in Deals : notices[u][d] = "none" => notices'[u][d] = "none"
      PROVE  IInv'
  <2>1. TypeOK'
    BY <1>6 DEF IInv, TypeOK, catalogueVars, CatalogueTypeOK, KnownBuildings
  <2>2. ToldByClaim'
    BY <1>6 DEF IInv, Order, ToldByClaim, HasClaimed
  <2>3. ClaimsOfStage' /\ LastAnnounced' /\ NeighboursDiffer'
    BY <1>6 DEF IInv, Order, ClaimsOfStage, LastAnnounced, NeighboursDiffer, News
  <2> QED
    BY <2>1, <2>2, <2>3 DEF IInv, Order
<1>7. ASSUME NEW c \in Clients, NEW u \in Updates, NEW d \in Deals, MarkAsRead(c, u, d)
      PROVE  IInv'
  BY <1>6, <1>7 DEF MarkAsRead, Mark, OwnNotices, IInv, TypeOK
<1>8. ASSUME NEW c \in Clients, MarkAllAsRead(c) PROVE IInv'
  BY <1>6, <1>8 DEF MarkAllAsRead, Mark, Unread, OwnNotices, IInv, TypeOK
<1>9. CASE UNCHANGED vars
  BY <1>9, Elsewhere DEF vars, IInv, TypeOK, catalogueVars, CatalogueTypeOK, KnownBuildings
<1> QED
  BY <1>1, <1>2, <1>3, <1>4, <1>5, <1>7, <1>8, <1>9 DEF Next

LEMMA InitHolds == Init => IInv
<1> SUFFICES ASSUME Init PROVE IInv
  OBVIOUS
<1>1. TypeOK
  BY IdleIsUpdate DEF Init, TypeOK, CatalogueInit, CatalogueTypeOK, KnownBuildings
<1>2. Order
  BY DEF Init, Idle, Order, ToldByClaim, ClaimsOfStage, LastAnnounced, NeighboursDiffer
<1> QED
  BY <1>1, <1>2 DEF IInv

LEMMA AlwaysIInv == Spec => []IInv
BY InitHolds, StepKeeps, PTL DEF Spec
--------------------------------------------------------------------------------
\* Types and foreign keys hold whatever is created, moved and announced.
THEOREM TypeCorrect == Spec => []TypeOK
<1>1. IInv => TypeOK
  BY DEF IInv
<1> QED
  BY <1>1, AlwaysIInv, PTL

LEMMA OrderSeparates == IInv => ToldOncePerChange
<1> SUFFICES ASSUME IInv, NEW s \in Stages, NEW d \in Deals,
                    NEW u \in Updates, NEW v \in Updates,
                    Told(u, s, d), Told(v, s, d), u # v, SameNews(u, v)
             PROVE  \E i, j, k \in 1..Len(claims[s]) :
                      /\ claims[s][i] \in {u, v} /\ claims[s][k] \in {u, v} /\ i < j /\ j < k
                      /\ ~SameNews(claims[s][j], u)
  BY DEF ToldOncePerChange
<1>1. Len(claims[s]) \in Nat
  BY DEF IInv, TypeOK
<1>2. HasClaimed(u) /\ HasClaimed(v) /\ req[u].stage = s /\ req[v].stage = s
  BY DEF IInv, Order, ToldByClaim, Told
<1>3. PICK i \in 1..Len(claims[s]) : claims[s][i] = u
  BY <1>2 DEF HasClaimed
<1>4. PICK k \in 1..Len(claims[s]) : claims[s][k] = v
  BY <1>2 DEF HasClaimed
<1>5. \A x, y \in 1..Len(claims[s]) :
        x < y /\ News(claims[s][x]) = News(claims[s][y]) =>
          /\ x + 1 \in 1..Len(claims[s]) /\ x < x + 1 /\ x + 1 < y
          /\ News(claims[s][x + 1]) # News(claims[s][x])
  <2> SUFFICES ASSUME NEW x \in 1..Len(claims[s]), NEW y \in 1..Len(claims[s]),
                      x < y, News(claims[s][x]) = News(claims[s][y])
               PROVE  /\ x + 1 \in 1..Len(claims[s]) /\ x < x + 1 /\ x + 1 < y
                      /\ News(claims[s][x + 1]) # News(claims[s][x])
    OBVIOUS
  <2>1. x + 1 \in 1..Len(claims[s]) /\ (x + 1 = y \/ x + 1 < y)
    BY <1>1
  <2>2. News(claims[s][x + 1]) # News(claims[s][x])
    BY <2>1 DEF IInv, Order, NeighboursDiffer
  <2>3. x + 1 # y
    BY <2>2
  <2> QED
    BY <2>1, <2>2, <2>3
<1>6. News(u) = News(v)
  BY DEF SameNews, News
<1>7. CASE i < k
  <2>1. /\ i + 1 \in 1..Len(claims[s]) /\ i < i + 1 /\ i + 1 < k
        /\ ~SameNews(claims[s][i + 1], u)
    BY <1>3, <1>4, <1>5, <1>6, <1>7 DEF SameNews, News
  <2> QED
    BY <1>3, <1>4, <2>1
<1>8. CASE k < i
  <2>1. /\ k + 1 \in 1..Len(claims[s]) /\ k < k + 1 /\ k + 1 < i
        /\ ~SameNews(claims[s][k + 1], u)
    BY <1>3, <1>4, <1>5, <1>6, <1>8 DEF SameNews, News
  <2> QED
    BY <1>3, <1>4, <2>1
<1>9. i < k \/ k < i
  BY <1>3, <1>4
<1> QED
  BY <1>7, <1>8, <1>9

\* One change of a stage is one notification to a deal, however many updates
\* repeat it, overlap or fail half-way.
THEOREM OneNoticePerChange == Spec => []ToldOncePerChange
BY AlwaysIInv, OrderSeparates, PTL
--------------------------------------------------------------------------------
(* The loop over the deals.                                                  *)

\* r is the goroutine of an update and told its notices: it has told nobody before it
\* read the deals, and each it has still to tell has no notice of it yet but the one
\* whose mail is about to leave.
OnItsRound(r, told) ==
  /\ r.pc \notin {"notify", "mail"} => r.todo = {}
  /\ r.pc \in {"idle", "claim", "deals"} => \A d \in Deals : told[d] = "none"
  /\ r.pc = "notify" => r.todo # {} /\ \A d \in r.todo : told[d] = "none"
  /\ r.pc = "mail" =>
       /\ r.deal \in r.todo /\ told[r.deal] \in {"unread", "read"}
       /\ \A d \in r.todo : d # r.deal => told[d] = "none"

Rounds == \A u \in Updates : OnItsRound(req[u], notices[u])

\* A notice is inserted once, and then only read.
Stands(before, after) ==
  before \in {"none", after} \/ (before = "unread" /\ after = "read")

\* What a step leaves of an update's notices, and of the deals it has found.
SeesToAll ==
  \A u \in Updates, d \in Deals :
    /\ Stands(notices[u][d], notices'[u][d])
    /\ req[u].pc = "deals" /\ d \in GetDealsByBuildingID(req[u].building) =>
         req'[u].pc \in {"deals", "failed"} \/ d \in req'[u].todo
    /\ d \in req[u].todo =>
         d \in req'[u].todo \/ notices'[u][d] # "none" \/ req'[u].pc = "failed"

\* A step of the goroutine of one update.
LEMMA RoundStep ==
  ASSUME IInv, Rounds, NEW u \in Updates, NEW r, NEW told,
         req' = [req EXCEPT ![u] = r], notices' = [notices EXCEPT ![u] = told],
         OnItsRound(r, told),
         \A d \in Deals : Stands(notices[u][d], told[d]),
         \A d \in Deals : req[u].pc = "deals" /\ d \in GetDealsByBuildingID(req[u].building) =>
           r.pc \in {"deals", "failed"} \/ d \in r.todo,
         \A d \in Deals : d \in req[u].todo =>
           d \in r.todo \/ told[d] # "none" \/ r.pc = "failed"
  PROVE  Rounds' /\ SeesToAll
<1>1. req'[u] = r /\ notices'[u] = told
  BY DEF IInv, TypeOK
<1>2. \A v \in Updates : v # u => req'[v] = req[v] /\ notices'[v] = notices[v]
  BY DEF IInv, TypeOK
<1>3. Rounds'
  <2> SUFFICES ASSUME NEW v \in Updates PROVE OnItsRound(req'[v], notices'[v])
    BY DEF Rounds
  <2>1. CASE v = u
    BY <1>1, <2>1
  <2>2. CASE v # u
    <3>1. OnItsRound(req[v], notices[v])
      BY DEF Rounds
    <3> QED
      BY <1>2, <2>2, <3>1
  <2> QED
    BY <2>1, <2>2
<1>4. SeesToAll
  <2> SUFFICES ASSUME NEW v \in Updates, NEW d \in Deals
               PROVE  /\ Stands(notices[v][d], notices'[v][d])
                      /\ req[v].pc = "deals" /\ d \in GetDealsByBuildingID(req[v].building) =>
                           req'[v].pc \in {"deals", "failed"} \/ d \in req'[v].todo
                      /\ d \in req[v].todo =>
                           d \in req'[v].todo \/ notices'[v][d] # "none" \/ req'[v].pc = "failed"
    BY DEF SeesToAll
  <2>1. CASE v = u
    BY <1>1, <2>1
  <2>2. CASE v # u
    BY <1>2, <2>2 DEF Stands
  <2> QED
    BY <2>1, <2>2
<1> QED
  BY <1>3, <1>4

\* A step in which no goroutine moves and nothing but a read mark is set.
LEMMA RoundReading ==
  ASSUME IInv, Rounds, req' = req,
         \A u \in Updates, d \in Deals :
           notices'[u][d] = notices[u][d] \/ (notices[u][d] = "unread" /\ notices'[u][d] = "read")
  PROVE  Rounds' /\ SeesToAll
<1>1. Rounds'
  <2> SUFFICES ASSUME NEW u \in Updates PROVE OnItsRound(req[u], notices'[u])
    BY DEF Rounds
  <2>1. OnItsRound(req[u], notices[u])
    BY DEF Rounds
  <2>2. \A d \in Deals : (notices[u][d] = "none") <=> (notices'[u][d] = "none")
    BY Zenon
  <2>3. \A d \in Deals : notices[u][d] \in {"unread", "read"} => notices'[u][d] \in {"unread", "read"}
    OBVIOUS
  <2>4. req[u].todo \subseteq Deals /\ req[u].deal \in Deals
    BY DEF IInv, TypeOK, Update
  <2> QED
    BY <2>1, <2>2, <2>3, <2>4 DEF OnItsRound
<1>2. SeesToAll
  BY DEF SeesToAll, Stands
<1> QED
  BY <1>1, <1>2

LEMMA RoundsKept ==
  ASSUME IInv, Rounds, [Next]_vars
  PROVE  Rounds' /\ SeesToAll
<1>1. ASSUME UNCHANGED <<req, notices>> PROVE Rounds' /\ SeesToAll
  BY <1>1, RoundReading
<1>2. ASSUME NEW u \in Updates, NEW s \in Stages, NEW b \in Buildings, NEW st \in States,
             CreateProgress(u, s, b, st) \/ UpdateProgress(u, s, b, st)
      PROVE  Rounds' /\ SeesToAll
  <2> DEFINE new == [req[u] EXCEPT !.pc = "claim", !.stage = s, !.building = b, !.state = st]
  <2>1. new.pc = "claim" /\ new.todo = req[u].todo
    BY DEF IInv, TypeOK, Update
  <2>2. req[u].pc = "idle" /\ req' = [req EXCEPT ![u] = new] /\ notices' = [notices EXCEPT ![u] = notices[u]]
    BY <1>2 DEF CreateProgress, UpdateProgress, Accepted, IInv, TypeOK
  <2> HIDE DEF new
  <2>3. OnItsRound(new, notices[u])
    BY <2>1, <2>2 DEF Rounds, OnItsRound
  <2> QED
    BY <2>1, <2>2, <2>3, RoundStep DEF Stands
<1>3. ASSUME NEW u \in Updates, ClaimConstructionState(u) PROVE Rounds' /\ SeesToAll
  <2>1. PICK p \in {"deals", "done"} : req' = [req EXCEPT ![u].pc = p]
    BY <1>3 DEF ClaimConstructionState
  <2> DEFINE new == [req[u] EXCEPT !.pc = p]
  <2>2. new.pc = p /\ new.todo = req[u].todo
    BY DEF IInv, TypeOK, Update
  <2>3. req[u].pc = "claim" /\ req' = [req EXCEPT ![u] = new] /\ notices' = [notices EXCEPT ![u] = notices[u]]
    BY <1>3, <2>1 DEF ClaimConstructionState, IInv, TypeOK
  <2> HIDE DEF new
  <2>4. OnItsRound(new, notices[u])
    BY <2>2, <2>3 DEF Rounds, OnItsRound
  <2> QED
    BY <2>2, <2>3, <2>4, RoundStep DEF Stands
<1>4. ASSUME NEW u \in Updates, ReadDeals(u) PROVE Rounds' /\ SeesToAll
  <2> DEFINE found == GetDealsByBuildingID(req[u].building)
             new == [req[u] EXCEPT !.todo = found, !.pc = IF found = {} THEN "done" ELSE "notify"]
  <2>1. found \subseteq Deals
    BY DEF GetDealsByBuildingID
  <2>2. new.todo = found /\ new.pc = IF found = {} THEN "done" ELSE "notify"
    BY DEF IInv, TypeOK, Update
  <2>3. req[u].pc = "deals" /\ req' = [req EXCEPT ![u] = new] /\ notices' = [notices EXCEPT ![u] = notices[u]]
    BY <1>4 DEF ReadDeals, IInv, TypeOK
  <2>4. req[u].todo = {} /\ \A d \in Deals : notices[u][d] = "none"
    BY <2>3 DEF Rounds, OnItsRound
  <2> HIDE DEF new
  <2>5. OnItsRound(new, notices[u])
    BY <2>1, <2>2, <2>4 DEF OnItsRound
  <2> QED
    BY <2>2, <2>3, <2>4, <2>5, RoundStep DEF Stands
<1>5. ASSUME NEW u \in Updates, NEW d \in Deals, CreateNotification(u, d)
      PROVE  Rounds' /\ SeesToAll
  <2>1. req[u].pc = "notify" /\ d \in req[u].todo /\ req[u].todo \subseteq Deals
    BY <1>5 DEF CreateNotification, IInv, TypeOK, Update
  <2>2. \A e \in req[u].todo : notices[u][e] = "none"
    BY <2>1 DEF Rounds, OnItsRound
  <2>3. CASE notices' = [notices EXCEPT ![u][d] = "unread"]
             /\ req' = [req EXCEPT ![u].pc = "mail", ![u].deal = d]
    <3> DEFINE new == [req[u] EXCEPT !.pc = "mail", !.deal = d]
               told == [notices[u] EXCEPT ![d] = "unread"]
    <3>1. new.pc = "mail" /\ new.deal = d /\ new.todo = req[u].todo
      BY DEF IInv, TypeOK, Update
    <3>2. told[d] = "unread" /\ \A e \in Deals : e # d => told[e] = notices[u][e]
      BY DEF IInv, TypeOK
    <3>3. req' = [req EXCEPT ![u] = new] /\ notices' = [notices EXCEPT ![u] = told]
      BY <2>3
    <3> HIDE DEF new, told
    <3>4. OnItsRound(new, told)
      BY <2>1, <2>2, <3>1, <3>2 DEF OnItsRound
    <3>5. \A e \in Deals : Stands(notices[u][e], told[e])
      BY <2>1, <2>2, <3>2 DEF Stands
    <3> QED
      BY <2>1, <3>1, <3>3, <3>4, <3>5, RoundStep
  <2>4. CASE notices' = [notices EXCEPT ![u][d] = "failed"] /\ Continue(u, d)
    <3> DEFINE new == [req[u] EXCEPT !.todo = @ \ {d},
                                     !.pc = IF req[u].todo = {d} THEN "done" ELSE "notify"]
               told == [notices[u] EXCEPT ![d] = "failed"]
    <3>1. new.pc = (IF req[u].todo = {d} THEN "done" ELSE "notify") /\ new.todo = req[u].todo \ {d}
      BY DEF IInv, TypeOK, Update
    <3>2. told[d] = "failed" /\ \A e \in Deals : e # d => told[e] = notices[u][e]
      BY DEF IInv, TypeOK
    <3>3. req' = [req EXCEPT ![u] = new] /\ notices' = [notices EXCEPT ![u] = told]
      BY <2>4 DEF Continue
    <3> HIDE DEF new, told
    <3>4. OnItsRound(new, told)
      BY <2>1, <2>2, <3>1, <3>2 DEF OnItsRound
    <3>5. \A e \in Deals : Stands(notices[u][e], told[e])
      BY <2>1, <2>2, <3>2 DEF Stands
    <3>6. \A e \in Deals : e \in req[u].todo =>
            e \in new.todo \/ told[e] # "none" \/ new.pc = "failed"
      BY <3>1, <3>2
    <3>7. req[u].pc # "deals"
      BY <2>1
    <3> QED
      BY <3>3, <3>4, <3>5, <3>6, <3>7, RoundStep
  <2> QED
    BY <1>5, <2>3, <2>4 DEF CreateNotification
<1>6. ASSUME NEW u \in Updates, SendEmail(u) PROVE Rounds' /\ SeesToAll
  <2> DEFINE d == req[u].deal
             new == [req[u] EXCEPT !.todo = @ \ {d},
                                   !.pc = IF req[u].todo = {d} THEN "done" ELSE "notify"]
  <2>1. req[u].pc = "mail" /\ req[u].todo \subseteq Deals
    BY <1>6 DEF SendEmail, IInv, TypeOK, Update
  <2>2. d \in req[u].todo /\ notices[u][d] # "none" /\ \A e \in req[u].todo : e # d => notices[u][e] = "none"
    BY <2>1 DEF Rounds, OnItsRound
  <2>3. new.pc = (IF req[u].todo = {d} THEN "done" ELSE "notify") /\ new.todo = req[u].todo \ {d}
    BY DEF IInv, TypeOK, Update
  <2>4. req' = [req EXCEPT ![u] = new] /\ notices' = [notices EXCEPT ![u] = notices[u]]
    BY <1>6 DEF SendEmail, Continue, IInv, TypeOK
  <2> HIDE DEF d, new
  <2>5. OnItsRound(new, notices[u])
    BY <2>2, <2>3 DEF OnItsRound
  <2>6. \A e \in Deals : e \in req[u].todo =>
          e \in new.todo \/ notices[u][e] # "none" \/ new.pc = "failed"
    BY <2>2, <2>3
  <2>7. req[u].pc # "deals"
    BY <2>1
  <2>8. \A e \in Deals : Stands(notices[u][e], notices[u][e])
    BY DEF Stands
  <2> QED
    BY <2>4, <2>5, <2>6, <2>7, <2>8, RoundStep
<1>7. ASSUME NEW u \in Updates, Abandon(u) PROVE Rounds' /\ SeesToAll
  <2> DEFINE new == [req[u] EXCEPT !.pc = "failed", !.todo = {}]
  <2>1. new.pc = "failed" /\ new.todo = {}
    BY DEF IInv, TypeOK, Update
  <2>2. req' = [req EXCEPT ![u] = new] /\ notices' = [notices EXCEPT ![u] = notices[u]]
    BY <1>7 DEF Abandon, IInv, TypeOK
  <2> HIDE DEF new
  <2>3. OnItsRound(new, notices[u])
    BY <2>1 DEF OnItsRound
  <2> QED
    BY <2>1, <2>2, <2>3, RoundStep DEF Stands
<1>8. ASSUME NEW c \in Clients, NEW u \in Updates, NEW d \in Deals, MarkAsRead(c, u, d)
      PROVE  Rounds' /\ SeesToAll
  <2>1. \A v \in Updates, e \in Deals :
          notices'[v][e] = notices[v][e] \/ (notices[v][e] = "unread" /\ notices'[v][e] = "read")
    BY <1>8 DEF MarkAsRead, Mark, OwnNotices, IInv, TypeOK
  <2> QED
    BY <1>8, <2>1, RoundReading DEF MarkAsRead
<1>9. ASSUME NEW c \in Clients, MarkAllAsRead(c) PROVE Rounds' /\ SeesToAll
  <2>1. \A v \in Updates, e \in Deals :
          notices'[v][e] = notices[v][e] \/ (notices[v][e] = "unread" /\ notices'[v][e] = "read")
    BY <1>9 DEF MarkAllAsRead, Mark, Unread, OwnNotices, IInv, TypeOK
  <2> QED
    BY <1>9, <2>1, RoundReading DEF MarkAllAsRead
<1>10. CASE CatalogueNext /\ UNCHANGED <<progress, announced, notices, deals, req, claims>>
  BY <1>1, <1>10
<1>11. ASSUME NEW d \in Deals, CreateDeal(d) PROVE Rounds' /\ SeesToAll
  BY <1>1, <1>11 DEF CreateDeal
<1>12. ASSUME NEW d \in Deals, NEW status \in DealStatuses, MoveDeal(d, status)
       PROVE  Rounds' /\ SeesToAll
  BY <1>1, <1>12 DEF MoveDeal
<1>13. CASE UNCHANGED vars
  BY <1>1, <1>13 DEF vars
<1> QED
  BY <1>2, <1>3, <1>4, <1>5, <1>6, <1>7, <1>8, <1>9, <1>10, <1>11, <1>12, <1>13 DEF Next, Proceed

LEMMA RoundsBegin == Init => Rounds
BY DEF Init, Idle, Rounds, OnItsRound

\* An update tells a deal at most once, and nobody before it has read who is to be told
\* (service/notification.go:121-182).
THEOREM RoundsAlways == Spec => []Rounds
BY RoundsBegin, RoundsKept, AlwaysIInv, PTL DEF Spec

\* The part of LiveDealsHear that is about single steps: every deal that is live when the
\* loop begins is on its list, none leaves the list untold unless the announcement or its
\* notice failed, and a notice is never inserted again over one that was read.
THEOREM EveryDealIsSeenTo == Spec => [][SeesToAll]_vars
<1>1. IInv /\ Rounds /\ [Next]_vars => [SeesToAll]_vars
  BY RoundsKept
<1> QED
  BY <1>1, RoundsAlways, AlwaysIInv, PTL DEF Spec
================================================================================
