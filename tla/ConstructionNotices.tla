-------------------------- MODULE ConstructionNotices --------------------------
(***************************************************************************)
(* Progress of construction and what clients are told of it                *)
(* (backend/internal/handler/construction.go, service/construction.go,     *)
(* service/notification.go, repository/notification.go, repository/deal.go,*)
(* handler/notification.go, migrations 000006 and 000007).                 *)
(*                                                                         *)
(* A POST or PUT of progress writes the row, claims the state it describes *)
(* as the last one announced, and if that is a change for the worse tells  *)
(* the client of every live deal of the building: a notification, then a   *)
(* mail.  Each statement is a step; the state told is the one in the body, *)
(* whatever the row holds by then.                                         *)
(*                                                                         *)
(* Catalogue gives the apartments that lead from a building to its deals.  *)
(***************************************************************************)
EXTENDS Catalogue, Sequences

CONSTANTS
  Clients,
  Deals,        \* a pool of deal ids
  Moves,        \* pairs of statuses: what status changes are asked for
  ClientOf,     \* ClientOf[d]: id_user of deal d
  ApartmentOf,  \* ApartmentOf[d]: id_apartment of deal d
  Stages,       \* a pool of progress ids
  States,       \* what bodies say of a stage
  Updates       \* POST and PUT of progress, one goroutine each

ASSUME SomeInputs == Buildings # {} /\ Deals # {} /\ Stages # {} /\ States # {}

ASSUME DealsBelong ==
  /\ ClientOf \in [Deals -> Clients]
  /\ ApartmentOf \in [Deals -> Apartments]

DealStatuses == {"pending", "contract", "completed", "cancelled"}

ASSUME MovesAreOfStatuses == Moves \subseteq DealStatuses \X DealStatuses

ProgressStatuses == {"not_started", "in_progress", "completed", "delayed"}
RiskLevels == {"low", "medium", "high"}

\* delayDays is NULL when the body leaves it out.
ASSUME StatesAreBodies ==
  \A st \in States : /\ st.status \in ProgressStatuses
                     /\ st.riskLevel \in RiskLevels \cup {NULL}
                     /\ st.delayDays \in Nat \cup {NULL}

VARIABLES
  progress,    \* progress[s]: building and state of a construction_progress row
  announced,   \* construction_notification_state: the fingerprint claimed last
  notices,     \* notices[u][d]: the notification that u inserted for deal d
  deals,       \* the status of each deal, "absent" before it is created
  req,         \* the goroutines
  claims       \* history: claims[s], the updates that changed announced[s]

vars == <<catalogueVars, progress, announced, notices, deals, req, claims>>
--------------------------------------------------------------------------------
(* Types *)

\* A missing number of days prints as 0.
DaysOrZero(st) == IF st.delayDays = NULL THEN 0 ELSE st.delayDays

\* fmt.Sprintf("%s|%s|%d|%s") tells apart what these fields tell apart.
Fingerprint(st) == [st EXCEPT !.delayDays = DaysOrZero(st)]

\* building and state are the body's; todo are the deals not yet told.
Update == [pc : {"idle", "claim", "deals", "notify", "mail", "done", "failed"},
           stage : Stages, building : Buildings, state : States,
           todo : SUBSET Deals, deal : Deals]

\* "failed" is an INSERT of a notification that failed and was logged.
TypeOK ==
  /\ CatalogueTypeOK
  /\ progress \in [Stages -> [building : KnownBuildings, state : States] \cup {NULL}]
  /\ announced \in [Stages -> {Fingerprint(st) : st \in States} \cup {NULL}]
  /\ notices \in [Updates -> [Deals -> {"none", "failed", "unread", "read"}]]
  /\ deals \in [Deals -> DealStatuses \cup {"absent"}]
  /\ req \in [Updates -> Update]
  /\ claims \in [Stages -> Seq(Updates)]
--------------------------------------------------------------------------------
(* Deals come and go while progress is announced. *)

CreateDeal(d) ==
  /\ deals[d] = "absent" /\ ApartmentOf[d] \in KnownApartments
  /\ deals' = [deals EXCEPT ![d] = "pending"]
  /\ UNCHANGED <<catalogueVars, progress, announced, notices, req, claims>>

\* No order of statuses is enforced, see DealBooking.
MoveDeal(d, status) ==
  /\ <<deals[d], status>> \in Moves
  /\ deals' = [deals EXCEPT ![d] = status]
  /\ UNCHANGED <<catalogueVars, progress, announced, notices, req, claims>>

GetDealsByBuildingID(b) ==
  {d \in Deals : buildingOf[ApartmentOf[d]] = b /\ deals[d] \in {"pending", "contract"}}
--------------------------------------------------------------------------------
(* A progress update. *)

IsDelay(st) == st.status = "delayed" \/ DaysOrZero(st) > 0
HasRisk(st) == st.riskLevel \in {"medium", "high"}
Alarming(st) == IsDelay(st) \/ HasRisk(st)

\* What the handler's goroutine keeps of the body once the row is written.
Accepted(u, s, b, st) ==
  req' = [req EXCEPT ![u].pc = "claim", ![u].stage = s, ![u].building = b, ![u].state = st]

\* A body that names an unknown building is refused by the foreign key.
CreateProgress(u, s, b, st) ==
  /\ req[u].pc = "idle" /\ progress[s] = NULL /\ b \in KnownBuildings
  /\ progress' = [progress EXCEPT ![s] = [building |-> b, state |-> st]]
  /\ Accepted(u, s, b, st)
  /\ UNCHANGED <<catalogueVars, announced, notices, deals, claims>>

\* ErrProgressNotFound unless the row exists; every column is overwritten.
UpdateProgress(u, s, b, st) ==
  /\ req[u].pc = "idle" /\ progress[s] # NULL /\ b \in KnownBuildings
  /\ progress' = [progress EXCEPT ![s] = [building |-> b, state |-> st]]
  /\ Accepted(u, s, b, st)
  /\ UNCHANGED <<catalogueVars, announced, notices, deals, claims>>

\* Variant: the upsert does not compare the fingerprints.
ChangesOnceWritten(s, st) == TRUE

\* WHERE of the upsert: IS DISTINCT FROM the fingerprint that is there.
Changes(s, st) == announced[s] # Fingerprint(st)

\* ClaimConstructionState: one statement compares and sets.
ClaimConstructionState(u) ==
  LET s == req[u].stage
      st == req[u].state IN
  /\ req[u].pc = "claim"
  /\ IF Changes(s, st)
     THEN /\ announced' = [announced EXCEPT ![s] = Fingerprint(st)]
          /\ claims' = [claims EXCEPT ![s] = Append(@, u)]
          /\ req' = [req EXCEPT ![u].pc = IF Alarming(st) THEN "deals" ELSE "done"]
     ELSE /\ req' = [req EXCEPT ![u].pc = "done"]
          /\ UNCHANGED <<announced, claims>>
  /\ UNCHANGED <<catalogueVars, progress, notices, deals>>

ReadDeals(u) ==
  LET found == GetDealsByBuildingID(req[u].building) IN
  /\ req[u].pc = "deals"
  /\ req' = [req EXCEPT ![u].todo = found, ![u].pc = IF found = {} THEN "done" ELSE "notify"]
  /\ UNCHANGED <<catalogueVars, progress, announced, notices, deals, claims>>

\* Variant: an error ends the loop.
Return(u, d) ==
  req' = [req EXCEPT ![u].todo = {}, ![u].pc = "done"]

\* The loop goes on with the next deal or ends.
Continue(u, d) ==
  req' = [req EXCEPT ![u].todo = @ \ {d},
                     ![u].pc = IF req[u].todo = {d} THEN "done" ELSE "notify"]

CreateNotification(u, d) ==
  /\ req[u].pc = "notify" /\ d \in req[u].todo
  /\ \/ /\ notices' = [notices EXCEPT ![u][d] = "unread"]
        /\ req' = [req EXCEPT ![u].pc = "mail", ![u].deal = d]
     \/ /\ notices' = [notices EXCEPT ![u][d] = "failed"]
        /\ Continue(u, d)
  /\ UNCHANGED <<catalogueVars, progress, announced, deals, claims>>

\* GetUserByID and SendEmail: nothing is kept of the mail, and whichever
\* fails, the loop goes on.
SendEmail(u) ==
  /\ req[u].pc = "mail"
  /\ Continue(u, req[u].deal)
  /\ UNCHANGED <<catalogueVars, progress, announced, notices, deals, claims>>

\* A statement fails or the server stops; the error of an announcement is
\* dropped and the answer is the row that was written.
Abandon(u) ==
  /\ req[u].pc \in {"claim", "deals", "notify", "mail"}
  /\ req' = [req EXCEPT ![u].pc = "failed", ![u].todo = {}]
  /\ UNCHANGED <<catalogueVars, progress, announced, notices, deals, claims>>
--------------------------------------------------------------------------------
(* A client reads his notifications. *)

\* The notifications of c that update u inserted, as their deals.
OwnNotices(c, u) == {d \in Deals : ClientOf[d] = c /\ notices[u][d] \in {"unread", "read"}}

Unread(c, u) == {d \in OwnNotices(c, u) : notices[u][d] = "unread"}

Mark(u, read) == [d \in Deals |-> IF d \in read THEN "read" ELSE notices[u][d]]

\* A notification of another client is not found.
MarkAsRead(c, u, d) ==
  /\ d \in OwnNotices(c, u)
  /\ notices' = [notices EXCEPT ![u] = Mark(u, {d})]
  /\ UNCHANGED <<catalogueVars, progress, announced, deals, req, claims>>

MarkAllAsRead(c) ==
  /\ notices' = [u \in Updates |-> Mark(u, Unread(c, u))]
  /\ UNCHANGED <<catalogueVars, progress, announced, deals, req, claims>>
--------------------------------------------------------------------------------
Idle == [pc |-> "idle", stage |-> CHOOSE s \in Stages : TRUE,
         building |-> CHOOSE b \in Buildings : TRUE, state |-> CHOOSE st \in States : TRUE,
         todo |-> {}, deal |-> CHOOSE d \in Deals : TRUE]

Init ==
  /\ CatalogueInit
  /\ progress = [s \in Stages |-> NULL]
  /\ announced = [s \in Stages |-> NULL]
  /\ notices = [u \in Updates |-> [d \in Deals |-> "none"]]
  /\ deals = [d \in Deals |-> "absent"]
  /\ req = [u \in Updates |-> Idle]
  /\ claims = [s \in Stages |-> <<>>]

\* What goes on by itself once the body has been accepted.
Proceed(u) ==
  \/ ClaimConstructionState(u)
  \/ ReadDeals(u)
  \/ \E d \in Deals : CreateNotification(u, d)
  \/ SendEmail(u)

Next ==
  \/ CatalogueNext /\ UNCHANGED <<progress, announced, notices, deals, req, claims>>
  \/ \E d \in Deals : CreateDeal(d)
  \/ \E d \in Deals, status \in DealStatuses : MoveDeal(d, status)
  \/ \E u \in Updates, s \in Stages, b \in Buildings, st \in States :
       CreateProgress(u, s, b, st) \/ UpdateProgress(u, s, b, st)
  \/ \E u \in Updates : Proceed(u) \/ Abandon(u)
  \/ \E c \in Clients, u \in Updates, d \in Deals : MarkAsRead(c, u, d)
  \/ \E c \in Clients : MarkAllAsRead(c)

\* A goroutine goes on: it waits for the database and the mail server only,
\* and their errors are steps of it.
Spec == Init /\ [][Next]_vars /\ \A u \in Updates : WF_vars(Proceed(u))
--------------------------------------------------------------------------------
(* Properties *)

Told(u, s, d) ==
  req[u].pc # "idle" /\ req[u].stage = s /\ notices[u][d] \in {"unread", "read"}

SameNews(u, v) == Fingerprint(req[u].state) = Fingerprint(req[v].state)

\* A client is told the same of a stage twice only if something else was
\* announced of it in between: however PUTs repeat, overlap or fail, one
\* change of state is one notification to a deal.
ToldOncePerChange ==
  \A s \in Stages, d \in Deals, u, v \in Updates :
    Told(u, s, d) /\ Told(v, s, d) /\ u # v /\ SameNews(u, v) =>
      \E i, j, k \in 1..Len(claims[s]) :
        /\ claims[s][i] \in {u, v} /\ claims[s][k] \in {u, v} /\ i < j /\ j < k
        /\ ~SameNews(claims[s][j], u)

\* Once a change for the worse is claimed, each live deal of the building is
\* told, unless it ends or leaves the building, its notification could not be
\* inserted, or the announcement itself failed.
LiveDealsHear ==
  \A u \in Updates, d \in Deals :
    (req[u].pc = "deals" /\ d \in GetDealsByBuildingID(req[u].building))
      ~> (\/ notices[u][d] # "none"
          \/ d \notin GetDealsByBuildingID(req[u].building)
          \/ req[u].pc = "failed")
================================================================================
