--------------------------- MODULE DiscountPolicies ---------------------------
(***************************************************************************)
(* The versioned discount policies of a building and a staff role          *)
(* (backend/internal/handler/discount_policy.go, repository/               *)
(* discount_policy.go, migration 000008).                                  *)
(*                                                                         *)
(* Creating a policy is one transaction at READ COMMITTED: an UPDATE that  *)
(* closes the open policies starting before the new one, an INSERT that    *)
(* computes the next version, and the commit.  Each goroutine's statements *)
(* are steps of their own.  Row locks and the unique index are guards: an  *)
(* UPDATE waits for the transaction that holds a row and then looks at the *)
(* row again; an INSERT waits for the transaction that inserted the same   *)
(* key and then fails or goes on.                                          *)
(*                                                                         *)
(* A row is named by the request that inserts it, which inserts one.       *)
(***************************************************************************)
EXTENDS Integers

CONSTANTS
  Requests,    \* POST /api/discount-policies, one goroutine each
  Buildings,
  Times,       \* instants a policy may start at, past or future
  Percents,    \* max_discount_percent of the requests, in hundredths of a percent
  NULL         \* an absent row, or valid_to of an open policy

ASSUME TimesAreNumbers == Times \subseteq Int
ASSUME PercentsAreNumbers == Percents \subseteq Int
ASSUME NullIsNoTime == NULL \notin Times
ASSUME SomeInputs == Buildings # {} /\ Times # {} /\ Percents # {}

VARIABLES
  policies,    \* policies[p]: the committed row that request p inserted
  req          \* req[p]: the goroutine of request p and its transaction

vars == <<policies, req>>
--------------------------------------------------------------------------------
(* Types *)

\* domain.RoleManager and domain.RoleSupervisor: the roles policies exist for.
StaffRoles == {"manager", "supervisor"}

\* The CHECK on max_discount_percent, in hundredths of a percent.
InRange(percent) == percent >= 0 /\ percent <= 10000

Row == [building : Buildings, role : StaffRoles, max : {m \in Percents : InRange(m)},
        version : Nat \ {0}, from : Times, to : Times \cup {NULL}]

ASSUME NullIsNoRow == NULL \notin Row

\* todo: the rows the UPDATE found and has not reached; closed: those it has
\* set valid_to of, invisible to others until the commit and locked till then.
Request == [pc : {"idle", "close", "insert", "commit", "done", "failed"},
            building : Buildings, role : StaffRoles, max : Percents, from : Times,
            todo : SUBSET Requests, closed : SUBSET Requests, version : Nat]

TypeOK ==
  /\ policies \in [Requests -> Row \cup {NULL}]
  /\ req \in [Requests -> Request]
--------------------------------------------------------------------------------
(* Reading *)

\* The rows ListByBuilding shows for one role: its history of versions.
History(building, role) ==
  {p \in Requests : /\ policies[p] # NULL
                    /\ policies[p].building = building
                    /\ policies[p].role = role}

Started(building, role, t) == {p \in History(building, role) : policies[p].from <= t}

\* WHERE of GetActiveMax at instant t.
Candidates(building, role, t) ==
  {p \in Started(building, role, t) : policies[p].to = NULL \/ policies[p].to > t}

\* ORDER BY valid_from DESC, version DESC.
Precedes(p, q) ==
  \/ policies[p].from > policies[q].from
  \/ policies[p].from = policies[q].from /\ policies[p].version > policies[q].version
--------------------------------------------------------------------------------
(* Creating *)

InTransaction(p) == req[p].pc \in {"close", "insert", "commit"}

\* The UPDATE without its condition on the role.
OpenBeforeOfAnyRole(building, role, t) ==
  {p \in History(building, "manager") \cup History(building, "supervisor") :
     policies[p].to = NULL /\ policies[p].from < t}

\* WHERE of the UPDATE: the rows a new policy closes.
OpenBefore(building, role, t) ==
  {p \in History(building, role) : policies[p].to = NULL /\ policies[p].from < t}

\* The handler checks its input and calls Create, whose UPDATE starts with a
\* snapshot of the committed rows.
StartCreate(p, building, role, max, from) ==
  /\ req[p].pc = "idle"
  /\ req' = [req EXCEPT ![p] =
       [pc |-> "close", building |-> building, role |-> role, max |-> max, from |-> from,
        todo |-> OpenBefore(building, role, from), closed |-> {}, version |-> 0]]
  /\ UNCHANGED policies

\* The rows that another transaction has written hold the UPDATE up.
LockedByOther(p, r) == \E q \in Requests \ {p} : r \in req[q].closed

\* An UPDATE that does not look again at a row it has waited for.
StillOpenAsFound(r) == TRUE

\* The UPDATE looks again at a row it has waited for.
StillOpen(r) == policies[r].to = NULL

CloseRow(p, r) ==
  /\ req[p].pc = "close" /\ r \in req[p].todo
  /\ ~LockedByOther(p, r)
  /\ req' = [req EXCEPT ![p].todo = @ \ {r},
                        ![p].closed = IF StillOpen(r) THEN @ \cup {r} ELSE @]
  /\ UNCHANGED policies

\* The subquery without its condition on the role.
NextVersionOfBuilding(building, role) ==
  LET rows == History(building, "manager") \cup History(building, "supervisor") IN
  {v \in {1} \cup {policies[q].version + 1 : q \in rows} :
     \A q \in rows : policies[q].version < v}

\* COALESCE(MAX(version), 0) + 1 over the committed rows of the line.
NextVersion(building, role) ==
  {v \in {1} \cup {policies[q].version + 1 : q \in History(building, role)} :
     \A q \in History(building, role) : policies[q].version < v}

\* The INSERT starts: it computes the version from a snapshot of its own.
NumberRow(p) ==
  /\ req[p].pc = "close" /\ req[p].todo = {}
  /\ \E v \in NextVersion(req[p].building, req[p].role) :
       req' = [req EXCEPT ![p].pc = "insert", ![p].version = v]
  /\ UNCHANGED policies

SameKey(p, q) ==
  /\ req[q].building = req[p].building
  /\ req[q].role = req[p].role
  /\ req[q].version = req[p].version

\* UNIQUE (building_id, role, version): an uncommitted row with the key holds
\* the INSERT up, a committed one refuses it.
KeyHeld(p) == \E q \in Requests \ {p} : req[q].pc = "commit" /\ SameKey(p, q)

KeyTaken(p) ==
  \E q \in History(req[p].building, req[p].role) : policies[q].version = req[p].version

\* The handler's check alone: the percentage is a number.
AcceptableAsParsed(p) == TRUE

\* The table's CHECK on the percentage.
Acceptable(p) == InRange(req[p].max)

InsertRow(p) ==
  /\ req[p].pc = "insert"
  /\ ~KeyHeld(p) /\ ~KeyTaken(p) /\ Acceptable(p)
  /\ req' = [req EXCEPT ![p].pc = "commit"]
  /\ UNCHANGED policies

\* What the transaction leaves: the end of each
\* row it closed, and its own.
NewRow(p) ==
  [building |-> req[p].building, role |-> req[p].role, max |-> req[p].max,
   version |-> req[p].version, from |-> req[p].from, to |-> NULL]

Commit(p) ==
  /\ req[p].pc = "commit"
  /\ policies' = [r \in Requests |->
       IF r = p THEN NewRow(p)
       ELSE IF r \in req[p].closed THEN [policies[r] EXCEPT !.to = req[p].from]
       ELSE policies[r]]
  /\ req' = [req EXCEPT ![p].pc = "done", ![p].closed = {}]

\* Any statement may fail: a refused INSERT, an unknown building, a deadlock
\* broken by the database, a client that hangs up.  The deferred Rollback
\* forgets what the transaction wrote and releases its rows.
Rollback(p) ==
  /\ InTransaction(p)
  /\ req' = [req EXCEPT ![p].pc = "failed", ![p].todo = {}, ![p].closed = {}]
  /\ UNCHANGED policies
--------------------------------------------------------------------------------
Idle == [pc |-> "idle", building |-> CHOOSE b \in Buildings : TRUE, role |-> "manager",
         max |-> CHOOSE m \in Percents : TRUE, from |-> CHOOSE t \in Times : TRUE,
         todo |-> {}, closed |-> {}, version |-> 0]

Init ==
  /\ policies = [p \in Requests |-> NULL]
  /\ req = [p \in Requests |-> Idle]

Step(p) ==
  \/ \E b \in Buildings, role \in StaffRoles, max \in Percents, t \in Times :
       StartCreate(p, b, role, max, t)
  \/ \E r \in Requests : CloseRow(p, r)
  \/ NumberRow(p)
  \/ InsertRow(p)
  \/ Commit(p)
  \/ Rollback(p)

Next == \E p \in Requests : Step(p)

Spec == Init /\ [][Next]_vars
--------------------------------------------------------------------------------
(* Properties *)

\* At every instant the latest started policy of a line, of several with one
\* start the last created, is in force, and so the one GetActiveMax reads:
\* however creations interleave and whatever order their starts come in,
\* closing a policy leaves no gap, and one left open under a later one is
\* never read.
LatestInForce ==
  \A b \in Buildings, role \in StaffRoles, t \in Times :
    \A p \in Started(b, role, t) :
      (\A q \in Started(b, role, t) \ {p} : Precedes(p, q)) => p \in Candidates(b, role, t)

\* The versions of a line are 1, 2, ... with none twice and none left out, so
\* their order is the order of the commits, whatever two goroutines computed
\* from the same rows.
VersionsConsecutive ==
  \A b \in Buildings, role \in StaffRoles :
    \A p \in History(b, role) :
      /\ policies[p].version = 1
           \/ \E q \in History(b, role) : policies[q].version = policies[p].version - 1
      /\ \A q \in History(b, role) \ {p} : policies[q].version # policies[p].version

\* A committed policy is a record: its limit, its start and its version stay,
\* and its end is set once, to the start of a policy of its line with a higher
\* version, committed in the same step.
EndsOnce ==
  \A r \in Requests : policies[r] # NULL /\ policies'[r] # policies[r] =>
    \E p \in Requests :
      /\ policies[p] = NULL /\ policies'[p] # NULL
      /\ policies'[p].building = policies[r].building
      /\ policies'[p].role = policies[r].role
      /\ policies'[p].version > policies[r].version
      /\ policies[r].to = NULL
      /\ policies'[r] = [policies[r] EXCEPT !.to = policies'[p].from]

ClosedByNewer == [][EndsOnce]_vars
================================================================================
