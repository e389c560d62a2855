-------------------------------- MODULE Accounts --------------------------------
(***************************************************************************)
(* The accounts of clients and staff and the tokens that speak for them    *)
(* (backend/internal/{handler,service}/{auth,user}.go, repository/user.go, *)
(* cmd/user_server/main.go, cmd/staff_server/main.go, migration 000001).   *)
(*                                                                         *)
(* Both servers sign with one secret, so a token of either is accepted by  *)
(* both; the role written in it is all a handler looks at.  A request that *)
(* runs several statements takes several steps, and others run in between: *)
(* registration looks the e-mail up before it inserts; an edit of one's    *)
(* own account reads the row, hashes the password and writes the name, the *)
(* e-mail and the password back.  The agent saves what it learned of a     *)
(* client in the same row, in one statement.  No statement deletes an      *)
(* account or rewrites its role.  Names are left out; a password stands    *)
(* for its bcrypt hash.                                                    *)
(***************************************************************************)
EXTENDS Naturals

CONSTANTS
  Users,        \* pool of ids of the table users
  Emails, Passwords,
  Topics,       \* budget_max and the keys of the column preferences
  Values,
  Seeded,       \* Seeded[u]: the row migration 000011 inserts, or NULL
  Edits,        \* bound: what edits of one's own account ask for
  Learned,      \* bound: the accounts the agent saves preferences of
  Requests,     \* HTTP requests that may be in flight at once
  NULL

Roles == {"user", "manager", "supervisor"}
StaffRoles == {"manager", "supervisor"}
Servers == {"user_server", "staff_server"}

Rows == [email : Emails, password : Passwords, role : Roles, prefs : [Topics -> Values \cup {NULL}]]
\* What an edit of one's account asks for: NULL leaves the column alone.
Asks == [email : Emails \cup {NULL}, password : Passwords \cup {NULL}]
Tokens == [user : Users, role : Roles]

NoPreferences == [k \in Topics |-> NULL]

ASSUME NullIsNoData == NULL \notin Users \cup Emails \cup Passwords \cup Values \cup Rows
ASSUME BoundsAreTyped == Edits \subseteq Asks /\ Learned \subseteq Users
ASSUME SeedIsATable ==
  /\ Seeded \in [Users -> Rows \cup {NULL}]
  /\ \A u, v \in Users : Seeded[u] # NULL /\ Seeded[v] # NULL /\ u # v => Seeded[u].email # Seeded[v].email

VARIABLES
  users,    \* users[u]: row of table users, or NULL
  signed,   \* the tokens signed that have not expired
  req,      \* req[p]: how far request p has come
  maker,    \* history: maker[u], whose token created u; NULL for a seed or a registration
  saved     \* history: saved[u][k], the value last reported as saved

accountVars == <<users, signed, req, maker, saved>>

\* The states of a request: what it holds between two statements.
Idle == [at |-> "idle"]
Registrations(step) == [at : {step}, email : Emails, password : Passwords, role : Roles, by : Users \cup {NULL}]
Logins == [at : {"login"}, server : Servers, email : Emails, password : Passwords]
Reading == [at : {"read"}, user : Users, ask : Edits]
Writing == [at : {"write"}, user : Users, ask : Edits, row : Rows]
Signing == [at : {"sign"}, user : Users, role : Roles]
RequestStates == {Idle} \cup Registrations("look") \cup Registrations("insert")
                   \cup Logins \cup Reading \cup Writing \cup Signing

Known == {u \in Users : users[u] # NULL}
Owner(email) == {u \in Known : users[u].email = email}

AccountTypeOK ==
  /\ users \in [Users -> Rows \cup {NULL}]
  /\ \A u, v \in Known : users[u].email = users[v].email => u = v
  /\ signed \subseteq [user : Known, role : Roles]
  /\ req \in [Requests -> RequestStates]
  /\ \A p \in Requests : req[p].at \in {"read", "write", "sign"} => req[p].user \in Known
  /\ maker \in [Users -> Known \cup {NULL}]
  /\ saved \in [Users -> [Topics -> Values \cup {NULL}]]

AccountInit ==
  /\ users = Seeded
  /\ signed = {}
  /\ req = [p \in Requests |-> Idle]
  /\ maker = [u \in Users |-> NULL]
  /\ saved = [u \in Users |-> IF Seeded[u] = NULL THEN NoPreferences ELSE Seeded[u].prefs]
--------------------------------------------------------------------------------
Go(p, state) == req' = [req EXCEPT ![p] = state]
Finish(p) == Go(p, Idle)

\* Who passes which middleware: AuthMiddleware wants a token that verifies, the others its role.
AuthMiddleware(t) == t \in signed
RequireStaffRole(t) == t.role \in StaffRoles
RequireSupervisorRole(t) == t.role = "supervisor"

\* Variant: the route asks for staff.
MayCreateStaffAsStaff(t) == AuthMiddleware(t) /\ RequireStaffRole(t)

MayCreateStaff(t) == AuthMiddleware(t) /\ RequireStaffRole(t) /\ RequireSupervisorRole(t)

\* POST /api/auth/register of the user server, open to anyone: the role asked for is ignored.
Register(p, email, password) ==
  /\ req[p] = Idle
  /\ Go(p, [at |-> "look", email |-> email, password |-> password, role |-> "user", by |-> NULL])
  /\ UNCHANGED <<users, signed, maker, saved>>

\* POST /api/auth/register of the staff server.
CreateStaff(p, t, email, password, role) ==
  /\ req[p] = Idle /\ MayCreateStaff(t)
  /\ role \in StaffRoles
  /\ Go(p, [at |-> "look", email |-> email, password |-> password, role |-> role, by |-> t.user])
  /\ UNCHANGED <<users, signed, maker, saved>>

\* Both look for an account with that e-mail before they hash the password.
LookUpEmail(p) ==
  /\ req[p].at = "look"
  /\ \/ Owner(req[p].email) # {} /\ Finish(p)
     \/ Owner(req[p].email) = {} /\ Go(p, [req[p] EXCEPT !.at = "insert"])
  /\ UNCHANGED <<users, signed, maker, saved>>

Insert(p, u) ==
  /\ users' = [users EXCEPT ![u] = [email |-> req[p].email, password |-> req[p].password,
                                    role |-> req[p].role, prefs |-> NoPreferences]]
  /\ maker' = [maker EXCEPT ![u] = req[p].by]
  /\ saved' = [saved EXCEPT ![u] = NoPreferences]

\* Variant: the table has no constraint, the earlier look is all there is.
CreateUserUnchecked(p, u) ==
  /\ req[p].at = "insert" /\ u \in Users \ Known
  /\ Insert(p, u)
  /\ Finish(p)
  /\ UNCHANGED signed

\* The insert; the UNIQUE constraint refuses an e-mail that was taken meanwhile.
CreateUser(p, u) ==
  /\ req[p].at = "insert" /\ u \in Users \ Known
  /\ IF Owner(req[p].email) = {} THEN Insert(p, u) ELSE UNCHANGED <<users, maker, saved>>
  /\ Finish(p)
  /\ UNCHANGED signed
--------------------------------------------------------------------------------
Login(p, server, email, password) ==
  /\ req[p] = Idle
  /\ Go(p, [at |-> "login", server |-> server, email |-> email, password |-> password])
  /\ UNCHANGED <<users, signed, maker, saved>>

\* The accounts whose e-mail and password are the ones presented.
Matching(p) == {u \in Owner(req[p].email) : users[u].password = req[p].password}

GenerateToken(u, role) == signed' = signed \cup {[user |-> u, role |-> role]}

\* One read finds the row; the hash is compared and the token is signed from what was
\* read, id and role, which nothing rewrites.  The staff server keeps a client's token.
Authenticate(p) ==
  /\ req[p].at = "login"
  /\ \/ \E u \in Matching(p) :
          /\ req[p].server = "user_server" \/ users[u].role \in StaffRoles
          /\ GenerateToken(u, users[u].role)
     \/ /\ \A u \in Matching(p) : req[p].server = "staff_server" /\ users[u].role \notin StaffRoles
        /\ UNCHANGED signed
  /\ Finish(p)
  /\ UNCHANGED <<users, maker, saved>>

\* After 24 hours; a logout only clears the cookie of one browser.
Expire(t) ==
  /\ signed' = signed \ {t}
  /\ UNCHANGED <<users, req, maker, saved>>
--------------------------------------------------------------------------------
\* PUT /api/users/me of the user server, for any role.
UpdateMe(p, t, ask) ==
  /\ req[p] = Idle /\ AuthMiddleware(t)
  /\ Go(p, [at |-> "read", user |-> t.user, ask |-> ask])
  /\ UNCHANGED <<users, signed, maker, saved>>

GetUserByID(p) ==
  /\ req[p].at = "read"
  /\ Go(p, [at |-> "write", user |-> req[p].user, ask |-> req[p].ask, row |-> users[req[p].user]])
  /\ UNCHANGED <<users, signed, maker, saved>>

\* The row read, with the fields that were given.
Edited(p) ==
  LET ask == req[p].ask IN
  [req[p].row EXCEPT !.email = IF ask.email = NULL THEN @ ELSE ask.email,
                     !.password = IF ask.password = NULL THEN @ ELSE ask.password]

\* Variant: the statement writes every column of the row that was read.
UpdateUserWhole(p) ==
  LET u == req[p].user IN
  /\ req[p].at = "write"
  /\ \/ /\ Owner(Edited(p).email) \subseteq {u}
        /\ users' = [users EXCEPT ![u] = Edited(p)]
        /\ Go(p, [at |-> "sign", user |-> u, role |-> req[p].row.role])
     \/ /\ ~ Owner(Edited(p).email) \subseteq {u}
        /\ UNCHANGED users /\ Finish(p)
  /\ UNCHANGED <<signed, maker, saved>>

\* The statement writes three columns back, whatever they hold by now; the constraint
\* refuses an e-mail of another account.
UpdateUser(p) ==
  LET u == req[p].user IN
  /\ req[p].at = "write"
  /\ \/ /\ Owner(Edited(p).email) \subseteq {u}
        /\ users' = [users EXCEPT ![u].email = Edited(p).email, ![u].password = Edited(p).password]
        /\ Go(p, [at |-> "sign", user |-> u, role |-> req[p].row.role])
     \/ /\ ~ Owner(Edited(p).email) \subseteq {u}
        /\ UNCHANGED users /\ Finish(p)
  /\ UNCHANGED <<signed, maker, saved>>

\* The answer carries a new token.
SignUpdated(p) ==
  /\ req[p].at = "sign"
  /\ GenerateToken(req[p].user, req[p].role)
  /\ Finish(p)
  /\ UNCHANGED <<users, maker, saved>>

\* client.preferences.update of the agent, with at least one value: COALESCE for the
\* budget, || for the rest.  The statement does not look at the role of the account.
Patches == UNION {[K -> Values] : K \in SUBSET Topics \ {{}}}

Merged(prefs, patch) == [k \in Topics |-> IF k \in DOMAIN patch THEN patch[k] ELSE prefs[k]]

UpdateClientPreferences(u, patch) ==
  /\ u \in Known
  /\ users' = [users EXCEPT ![u].prefs = Merged(@, patch)]
  /\ saved' = [saved EXCEPT ![u] = Merged(@, patch)]
  /\ UNCHANGED <<signed, req, maker>>

\* The client hangs up or a statement fails.
Abandon(p) ==
  /\ req[p] # Idle
  /\ Finish(p)
  /\ UNCHANGED <<users, signed, maker, saved>>

AccountNext ==
  \/ \E p \in Requests, e \in Emails, w \in Passwords :
       \/ Register(p, e, w)
       \/ \E s \in Servers : Login(p, s, e, w)
       \/ \E t \in signed, r \in StaffRoles : CreateStaff(p, t, e, w, r)
  \/ \E p \in Requests, t \in signed, ask \in Edits : UpdateMe(p, t, ask)
  \/ \E p \in Requests :
       \/ LookUpEmail(p) \/ (\E u \in Users : CreateUser(p, u))
       \/ Authenticate(p)
       \/ GetUserByID(p) \/ UpdateUser(p) \/ SignUpdated(p)
       \/ Abandon(p)
  \/ \E t \in signed : Expire(t)
  \/ \E u \in Learned, patch \in Patches : UpdateClientPreferences(u, patch)
--------------------------------------------------------------------------------
\* The values of an account's preferences are the ones last reported as saved, whoever
\* edits the account while the agent saves (service/user.go:53, repository/user.go:142).
PreferencesSurvive == \A u \in Known : users[u].prefs = saved[u]

\* A token says the role its account has, through edits and however old it is, and an
\* account of staff is a seed or was made with a supervisor's (main.go:135, service/auth.go:97).
RolesAreGranted ==
  /\ \A t \in signed : t.role = users[t.user].role
  /\ \A u \in Known : users[u].role \in StaffRoles =>
       \/ Seeded[u] # NULL
       \/ maker[u] # NULL /\ users[maker[u]].role = "supervisor"
================================================================================
