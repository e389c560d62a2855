------------------------- MODULE StaffReminders_proofs -------------------------
(***************************************************************************)
(* Proofs about the accounts and the reminders, for any accounts, e-mails, *)
(* preferences, requests and reminders.                                    *)
(*                                                                         *)
(* The argument: accounts come and never go, and keep their roles          *)
(* (RolesStay).  So what a request learned of a role at one statement is   *)
(* true at the next (Knows), a token says the role of its account however  *)
(* old it is, and who was a supervisor when he registered somebody or left *)
(* a reminder is one still.                                                *)
(***************************************************************************)
EXTENDS StaffReminders, TLAPS

RolesStay == \A u \in Known : u \in Known' /\ users'[u].role = users[u].role

\* What a request in state r knows of the accounts.
Knows(r) ==
  /\ r.at \in {"look", "insert"} =>
       /\ r.by # NULL => r.by \in Known /\ users[r.by].role = "supervisor"
       /\ r.role \in StaffRoles => r.by # NULL
  /\ r.at \in {"read", "write", "sign"} => r.user \in Known
  /\ r.at = "write" => r.row.role = users[r.user].role
  /\ r.at = "sign" => r.role = users[r.user].role

AllKnow == \A p \in Requests : Knows(req[p])

AccountInv == AccountTypeOK /\ AllKnow /\ PreferencesSurvive /\ RolesAreGranted

Inv == TypeOK /\ AllKnow /\ PreferencesSurvive /\ SupervisorsDoing
--------------------------------------------------------------------------------
(* The states of a request.                                                  *)

LEMMA StateOf ==
  ASSUME NEW r \in RequestStates
  PROVE  /\ r.at = "look" => r \in Registrations("look")
         /\ r.at = "insert" => r \in Registrations("insert")
         /\ r.at = "login" => r \in Logins
         /\ r.at = "read" => r \in Reading
         /\ r.at = "write" => r \in Writing
         /\ r.at = "sign" => r \in Signing
BY DEF RequestStates, Idle, Registrations, Logins, Reading, Writing, Signing

LEMMA IdleKnows == Idle \in RequestStates /\ Knows(Idle) /\ Idle.at = "idle"
BY DEF RequestStates, Idle, Knows

\* A step of one request, of tokens and of rows that keep what others know.
LEMMA AccountStep ==
  ASSUME AccountInv, RolesStay,
         \/ UNCHANGED req
         \/ \E p \in Requests, state \in RequestStates :
              Knows(state)' /\ req' = [req EXCEPT ![p] = state],
         users' \in [Users -> Rows \cup {NULL}],
         \A u, v \in Known' : users'[u].email = users'[v].email => u = v,
         \A t \in signed' : \/ t \in signed
                            \/ t \in [user : Known', role : Roles] /\ t.role = users'[t.user].role,
         maker' \in [Users -> Known' \cup {NULL}],
         \A u \in Known' : users'[u].role \in StaffRoles =>
           \/ Seeded[u] # NULL
           \/ maker'[u] # NULL /\ users'[maker'[u]].role = "supervisor",
         saved' \in [Users -> [Topics -> Values \cup {NULL}]],
         \A u \in Known' : users'[u].prefs = saved'[u]
  PROVE  AccountInv'
<1> USE DEF AccountInv
<1>1. AllKnow'
  <2>1. \A r \in RequestStates : Knows(r) => Knows(r)'
    BY DEF Knows, RolesStay
  <2>2. \A p \in Requests : req[p] \in RequestStates /\ Knows(req[p])
    BY DEF AllKnow, AccountTypeOK
  <2>3. CASE UNCHANGED req
    BY <2>1, <2>2, <2>3 DEF AllKnow, Knows
  <2>4. ASSUME NEW p \in Requests, NEW state \in RequestStates,
               Knows(state)', req' = [req EXCEPT ![p] = state]
        PROVE  AllKnow'
    <3>1. req'[p] = state /\ \A q \in Requests \ {p} : req'[q] = req[q]
      BY <2>4 DEF AccountTypeOK
    <3> QED
      BY <2>1, <2>2, <2>4, <3>1 DEF AllKnow, Knows
  <2> QED
    BY <2>3, <2>4
<1>2. \A t \in signed' : t \in [user : Known', role : Roles] /\ t.role = users'[t.user].role
  BY DEF RolesStay, RolesAreGranted, AccountTypeOK
<1>3. AccountTypeOK'
  <2>1. \A p \in Requests : req'[p].at \in {"read", "write", "sign"} => req'[p].user \in Known'
    BY <1>1 DEF AllKnow, Knows
  <2>2. req' \in [Requests -> RequestStates]
    BY DEF AccountTypeOK
  <2> QED
    BY <1>2, <2>1, <2>2 DEF AccountTypeOK
<1>4. RolesAreGranted' /\ PreferencesSurvive'
  BY <1>2 DEF RolesAreGranted, PreferencesSurvive
<1> QED
  BY <1>1, <1>3, <1>4

\* Most steps touch no row.
LEMMA RequestStep ==
  ASSUME AccountInv, NEW p \in Requests, NEW state \in RequestStates,
         Knows(state), req' = [req EXCEPT ![p] = state],
         UNCHANGED <<users, maker, saved>>,
         \A t \in signed' : \/ t \in signed
                            \/ t \in [user : Known, role : Roles] /\ t.role = users[t.user].role
  PROVE  AccountInv' /\ RolesStay
<1>1. RolesStay /\ Known' = Known
  BY DEF RolesStay, Known
<1>2. Knows(state)'
  BY <1>1 DEF Knows
<1>4. /\ users' \in [Users -> Rows \cup {NULL}]
      /\ \A u, v \in Known' : users'[u].email = users'[v].email => u = v
      /\ maker' \in [Users -> Known' \cup {NULL}]
      /\ saved' \in [Users -> [Topics -> Values \cup {NULL}]]
  BY <1>1 DEF AccountInv, AccountTypeOK
<1>5. /\ \A u \in Known' : users'[u].role \in StaffRoles =>
           \/ Seeded[u] # NULL
           \/ maker'[u] # NULL /\ users'[maker'[u]].role = "supervisor"
      /\ \A u \in Known' : users'[u].prefs = saved'[u]
  BY <1>1 DEF AccountInv, RolesAreGranted, PreferencesSurvive
<1>6. \A t \in signed' : t \in signed \/ (t \in [user : Known', role : Roles] /\ t.role = users'[t.user].role)
  BY <1>1
<1> QED
  BY <1>1, <1>2, <1>4, <1>5, <1>6, AccountStep
--------------------------------------------------------------------------------
(* Registration.                                                             *)

LEMMA RegisterKeeps ==
  ASSUME AccountInv, NEW p \in Requests, NEW e \in Emails, NEW w \in Passwords, Register(p, e, w)
  PROVE  AccountInv' /\ RolesStay
<1>1. PICK state : state = [at |-> "look", email |-> e, password |-> w, role |-> "user", by |-> NULL]
  OBVIOUS
<1>2. state \in Registrations("look")
  BY <1>1 DEF Registrations, Roles
<1>3. state \in RequestStates
  BY <1>2 DEF RequestStates
<1>4. Knows(state)
  BY <1>1 DEF Knows, StaffRoles
<1>5. req' = [req EXCEPT ![p] = state] /\ UNCHANGED <<users, signed, maker, saved>>
  BY <1>1 DEF Register, Go
<1> QED
  BY <1>3, <1>4, <1>5, RequestStep

\* A token says the role of its account.
LEMMA TokensTell ==
  ASSUME AccountInv, NEW t \in signed
  PROVE  t.user \in Known /\ t.user \in Users /\ t.role = users[t.user].role
BY DEF AccountInv, AccountTypeOK, RolesAreGranted, Known

LEMMA CreateStaffKeeps ==
  ASSUME AccountInv, NEW p \in Requests, NEW t \in signed, NEW e \in Emails, NEW w \in Passwords,
         NEW r \in StaffRoles, CreateStaff(p, t, e, w, r)
  PROVE  AccountInv' /\ RolesStay
<1>1. PICK state : state = [at |-> "look", email |-> e, password |-> w, role |-> r, by |-> t.user]
  OBVIOUS
<1>2. state \in Registrations("look")
  BY <1>1, TokensTell DEF Registrations, Roles, StaffRoles
<1>3. state \in RequestStates
  BY <1>2 DEF RequestStates
<1>4. Knows(state)
  <2>1. t.user \in Known /\ users[t.user].role = "supervisor" /\ t.user # NULL
    BY TokensTell, NullIsNoData DEF CreateStaff, MayCreateStaff, RequireSupervisorRole
  <2> QED
    BY <1>1, <2>1 DEF Knows
<1>5. req' = [req EXCEPT ![p] = state] /\ UNCHANGED <<users, signed, maker, saved>>
  BY <1>1 DEF CreateStaff, Go
<1> QED
  BY <1>3, <1>4, <1>5, RequestStep

LEMMA FinishKeeps ==
  ASSUME AccountInv, NEW p \in Requests, Finish(p), UNCHANGED <<users, maker, saved>>,
         \A t \in signed' : \/ t \in signed
                            \/ t \in [user : Known, role : Roles] /\ t.role = users[t.user].role
  PROVE  AccountInv' /\ RolesStay
<1>1. req' = [req EXCEPT ![p] = Idle]
  BY DEF Finish, Go
<1> QED
  BY <1>1, IdleKnows, RequestStep

LEMMA LookUpEmailKeeps ==
  ASSUME AccountInv, NEW p \in Requests, LookUpEmail(p)
  PROVE  AccountInv' /\ RolesStay
<1>1. req[p].at = "look" /\ UNCHANGED <<users, signed, maker, saved>>
  BY DEF LookUpEmail
<1>2. CASE Finish(p)
  BY <1>1, <1>2, FinishKeeps
<1>3. CASE Go(p, [req[p] EXCEPT !.at = "insert"])
  <2>1. PICK state : state = [req[p] EXCEPT !.at = "insert"]
    OBVIOUS
  <2>2. req[p] \in Registrations("look")
    BY <1>1, StateOf DEF AccountInv, AccountTypeOK
  <2>3. state \in Registrations("insert") /\ state.at = "insert" /\ state.by = req[p].by /\ state.role = req[p].role
    BY <2>1, <2>2 DEF Registrations
  <2>4. state \in RequestStates
    BY <2>3 DEF RequestStates
  <2>5. Knows(state)
    BY <1>1, <2>3 DEF AccountInv, AllKnow, Knows
  <2>6. req' = [req EXCEPT ![p] = state]
    BY <1>3, <2>1 DEF Go
  <2> QED
    BY <1>1, <2>4, <2>5, <2>6, RequestStep
<1> QED
  BY <1>2, <1>3 DEF LookUpEmail

LEMMA CreateUserKeeps ==
  ASSUME AccountInv, NEW p \in Requests, NEW u \in Users, CreateUser(p, u)
  PROVE  AccountInv' /\ RolesStay
<1>1. req[p].at = "insert" /\ u \notin Known /\ UNCHANGED signed /\ Finish(p)
  BY DEF CreateUser
<1>2. CASE Owner(req[p].email) # {}
  BY <1>1, <1>2, FinishKeeps DEF CreateUser
<1>3. CASE Owner(req[p].email) = {}
  <2>1. req[p] \in Registrations("insert")
    BY <1>1, StateOf DEF AccountInv, AccountTypeOK
  <2>2. PICK row : row = [email |-> req[p].email, password |-> req[p].password,
                          role |-> req[p].role, prefs |-> NoPreferences]
    OBVIOUS
  <2>3. NoPreferences \in [Topics -> Values \cup {NULL}]
    BY DEF NoPreferences
  <2>4. /\ row \in Rows /\ row.role = req[p].role /\ row.prefs = NoPreferences
        /\ row.email = req[p].email
    BY <2>1, <2>2, <2>3 DEF Registrations, Rows
  <2>5. row # NULL
    BY <2>4, NullIsNoData
  <2>6. Insert(p, u)
    BY <1>3 DEF CreateUser
  <2>7. users \in [Users -> Rows \cup {NULL}] /\ users' = [users EXCEPT ![u] = row]
    BY <2>2, <2>6 DEF Insert, AccountInv, AccountTypeOK
  <2>8. users'[u] = row /\ \A v \in Users \ {u} : users'[v] = users[v]
    BY <2>7
  <2>9. Known' = Known \cup {u}
    BY <2>5, <2>8 DEF Known
  <2>10. RolesStay
    BY <1>1, <2>8, <2>9 DEF RolesStay, Known
  <2>11. users' \in [Users -> Rows \cup {NULL}]
    BY <2>4, <2>7
  <2>12. \A x, y \in Known' : users'[x].email = users'[y].email => x = y
    <3>1. \A x \in Known : users[x].email # req[p].email
      BY <1>3 DEF Owner
    <3>2. \A x \in Known : x # u /\ users'[x] = users[x]
      BY <1>1, <2>8 DEF Known
    <3> QED
      BY <2>4, <2>8, <2>9, <3>1, <3>2 DEF AccountInv, AccountTypeOK
  <2>13. /\ maker' = [maker EXCEPT ![u] = req[p].by] /\ maker \in [Users -> Known \cup {NULL}]
         /\ req[p].by \in Known \cup {NULL}
         /\ req[p].role \in StaffRoles => req[p].by # NULL /\ users[req[p].by].role = "supervisor"
    BY <1>1, <2>6 DEF Insert, AccountInv, AccountTypeOK, AllKnow, Knows
  <2>14. maker' \in [Users -> Known' \cup {NULL}]
    BY <2>9, <2>13
  <2>15. \A x \in Known' : users'[x].role \in StaffRoles =>
           \/ Seeded[x] # NULL
           \/ maker'[x] # NULL /\ users'[maker'[x]].role = "supervisor"
    <3> SUFFICES ASSUME NEW x \in Known', users'[x].role \in StaffRoles, Seeded[x] = NULL
                 PROVE  maker'[x] # NULL /\ users'[maker'[x]].role = "supervisor"
      OBVIOUS
    <3>1. CASE x = u
      <4>1. maker'[x] = req[p].by
        BY <2>13, <3>1
      <4>2. req[p].role \in StaffRoles
        BY <2>4, <2>8, <3>1
      <4> QED
        BY <4>1, <4>2, <2>13, <2>10 DEF RolesStay
    <3>2. CASE x # u
      <4>1. x \in Known /\ maker'[x] = maker[x] /\ users'[x] = users[x] /\ x \in Users
        BY <2>8, <2>9, <2>13, <3>2 DEF Known
      <4>2. maker[x] # NULL /\ users[maker[x]].role = "supervisor" /\ maker[x] \in Known
        BY <4>1, <2>13 DEF AccountInv, RolesAreGranted
      <4> QED
        BY <4>1, <4>2, <2>10 DEF RolesStay
    <3> QED
      BY <3>1, <3>2
  <2>16. /\ saved' = [saved EXCEPT ![u] = NoPreferences]
         /\ saved \in [Users -> [Topics -> Values \cup {NULL}]]
    BY <2>6 DEF Insert, AccountInv, AccountTypeOK
  <2>17. saved' \in [Users -> [Topics -> Values \cup {NULL}]]
    BY <2>3, <2>16
  <2>18. \A x \in Known' : users'[x].prefs = saved'[x]
    BY <2>4, <2>8, <2>9, <2>16 DEF AccountInv, PreferencesSurvive, Known
  <2>19. req' = [req EXCEPT ![p] = Idle] /\ Idle \in RequestStates
    BY <1>1, IdleKnows DEF Finish, Go
  <2>20. Knows(Idle)'
    BY DEF Knows, Idle
  <2> QED
    BY <1>1, <2>10, <2>11, <2>12, <2>14, <2>15, <2>17, <2>18, <2>19, <2>20, AccountStep
<1> QED
  BY <1>2, <1>3
--------------------------------------------------------------------------------
(* Logins and edits.                                                         *)

LEMMA LoginKeeps ==
  ASSUME AccountInv, NEW p \in Requests, NEW server \in Servers, NEW e \in Emails, NEW w \in Passwords,
         Login(p, server, e, w)
  PROVE  AccountInv' /\ RolesStay
<1>1. PICK state : state = [at |-> "login", server |-> server, email |-> e, password |-> w]
  OBVIOUS
<1>2. state \in Logins
  BY <1>1 DEF Logins
<1>3. state \in RequestStates
  BY <1>2 DEF RequestStates
<1>4. Knows(state)
  BY <1>1 DEF Knows
<1>5. req' = [req EXCEPT ![p] = state] /\ UNCHANGED <<users, signed, maker, saved>>
  BY <1>1 DEF Login, Go
<1> QED
  BY <1>3, <1>4, <1>5, RequestStep

LEMMA AuthenticateKeeps ==
  ASSUME AccountInv, NEW p \in Requests, Authenticate(p)
  PROVE  AccountInv' /\ RolesStay
<1>1. Finish(p) /\ UNCHANGED <<users, maker, saved>>
  BY DEF Authenticate
<1>2. CASE UNCHANGED signed
  BY <1>1, <1>2, FinishKeeps
<1>3. CASE \E u \in Matching(p) : GenerateToken(u, users[u].role)
  <2>1. PICK u \in Known : signed' = signed \cup {[user |-> u, role |-> users[u].role]}
    BY <1>3 DEF Matching, Owner, GenerateToken
  <2>2. users[u] \in Rows
    BY <2>1 DEF AccountInv, AccountTypeOK, Known
  <2>3. users[u].role \in Roles
    BY <2>2 DEF Rows
  <2>4. \A t \in signed' : t \in signed \/ (t \in [user : Known, role : Roles] /\ t.role = users[t.user].role)
    BY <2>1, <2>3
  <2> QED
    BY <1>1, <2>4, FinishKeeps
<1> QED
  BY <1>2, <1>3 DEF Authenticate

\* A row and the history of saved values stay: what a step without a request owes.
LEMMA ExpireKeeps ==
  ASSUME AccountInv, NEW t \in signed, Expire(t)
  PROVE  AccountInv' /\ RolesStay
<1>1. UNCHANGED <<users, req, maker, saved>> /\ signed' \subseteq signed
  BY DEF Expire
<1>2. RolesStay /\ Known' = Known
  BY <1>1 DEF RolesStay, Known
<1>3. /\ users' \in [Users -> Rows \cup {NULL}]
      /\ \A u, v \in Known' : users'[u].email = users'[v].email => u = v
      /\ maker' \in [Users -> Known' \cup {NULL}]
      /\ saved' \in [Users -> [Topics -> Values \cup {NULL}]]
  BY <1>1, <1>2 DEF AccountInv, AccountTypeOK
<1>4. /\ \A u \in Known' : users'[u].role \in StaffRoles =>
           \/ Seeded[u] # NULL
           \/ maker'[u] # NULL /\ users'[maker'[u]].role = "supervisor"
      /\ \A u \in Known' : users'[u].prefs = saved'[u]
  BY <1>1, <1>2 DEF AccountInv, RolesAreGranted, PreferencesSurvive
<1> QED
  BY <1>1, <1>2, <1>3, <1>4, AccountStep

LEMMA UpdateMeKeeps ==
  ASSUME AccountInv, NEW p \in Requests, NEW t \in signed, NEW ask \in Edits, UpdateMe(p, t, ask)
  PROVE  AccountInv' /\ RolesStay
<1>1. PICK state : state = [at |-> "read", user |-> t.user, ask |-> ask]
  OBVIOUS
<1>2. state \in Reading
  BY <1>1, TokensTell DEF Reading
<1>3. state \in RequestStates
  BY <1>2 DEF RequestStates
<1>4. Knows(state)
  BY <1>1, TokensTell DEF Knows
<1>5. req' = [req EXCEPT ![p] = state] /\ UNCHANGED <<users, signed, maker, saved>>
  BY <1>1 DEF UpdateMe, Go
<1> QED
  BY <1>3, <1>4, <1>5, RequestStep

LEMMA GetUserByIDKeeps ==
  ASSUME AccountInv, NEW p \in Requests, GetUserByID(p)
  PROVE  AccountInv' /\ RolesStay
<1>1. req[p].at = "read" /\ req[p] \in Reading /\ req[p].user \in Known
  BY StateOf DEF GetUserByID, AccountInv, AccountTypeOK
<1>2. req[p].user \in Users /\ req[p].ask \in Edits
  BY <1>1 DEF Reading
<1>3. users[req[p].user] \in Rows
  BY <1>1, <1>2 DEF AccountInv, AccountTypeOK, Known
<1>4. PICK state : state = [at |-> "write", user |-> req[p].user, ask |-> req[p].ask, row |-> users[req[p].user]]
  OBVIOUS
<1>5. state \in Writing
  BY <1>2, <1>3, <1>4 DEF Writing
<1>6. state \in RequestStates
  BY <1>5 DEF RequestStates
<1>7. Knows(state)
  BY <1>1, <1>4 DEF Knows
<1>8. req' = [req EXCEPT ![p] = state] /\ UNCHANGED <<users, signed, maker, saved>>
  BY <1>4 DEF GetUserByID, Go
<1> QED
  BY <1>6, <1>7, <1>8, RequestStep

\* A row that keeps its role, with the e-mail nobody else has.
LEMMA RowStep ==
  ASSUME AccountInv, NEW u \in Known, NEW row \in Rows,
         row.role = users[u].role,
         \A v \in Known \ {u} : users[v].email # row.email,
         users' = [users EXCEPT ![u] = row],
         \/ UNCHANGED req
         \/ \E p \in Requests, state \in RequestStates :
              Knows(state)' /\ req' = [req EXCEPT ![p] = state],
         UNCHANGED <<signed, maker>>,
         saved' \in [Users -> [Topics -> Values \cup {NULL}]],
         saved'[u] = row.prefs, \A v \in Users \ {u} : saved'[v] = saved[v]
  PROVE  AccountInv' /\ RolesStay
<1>1. u \in Users /\ users \in [Users -> Rows \cup {NULL}] /\ row # NULL
  BY NullIsNoData DEF Known, AccountInv, AccountTypeOK
<1>2. users'[u] = row /\ \A v \in Users \ {u} : users'[v] = users[v]
  BY <1>1
<1>3. Known' = Known
  BY <1>1, <1>2 DEF Known
<1>4. RolesStay
  BY <1>2, <1>3 DEF RolesStay, Known
<1>5. users' \in [Users -> Rows \cup {NULL}]
  BY <1>1
<1>6. \A x, y \in Known' : users'[x].email = users'[y].email => x = y
  <2>1. \A x \in Known : x \in Users
    BY DEF Known
  <2> QED
    BY <1>2, <1>3, <2>1 DEF AccountInv, AccountTypeOK
<1>7. maker' \in [Users -> Known' \cup {NULL}]
  BY <1>3 DEF AccountInv, AccountTypeOK
<1>8. \A x \in Known' : users'[x].role \in StaffRoles =>
           \/ Seeded[x] # NULL
           \/ maker'[x] # NULL /\ users'[maker'[x]].role = "supervisor"
  <2>1. \A x \in Known : x \in Users /\ users'[x].role = users[x].role
    BY <1>4 DEF RolesStay, Known
  <2>2. maker \in [Users -> Known \cup {NULL}]
    BY DEF AccountInv, AccountTypeOK
  <2> QED
    BY <1>3, <2>1, <2>2 DEF AccountInv, RolesAreGranted
<1>9. \A x \in Known' : users'[x].prefs = saved'[x]
  BY <1>2, <1>3 DEF AccountInv, PreferencesSurvive, Known
<1> QED
  BY <1>3, <1>4, <1>5, <1>6, <1>7, <1>8, <1>9, AccountStep

LEMMA UpdateUserKeeps ==
  ASSUME AccountInv, NEW p \in Requests, UpdateUser(p)
  PROVE  AccountInv' /\ RolesStay
<1>1. req[p].at = "write" /\ req[p] \in Writing /\ UNCHANGED <<signed, maker, saved>>
  BY StateOf DEF UpdateUser, AccountInv, AccountTypeOK
<1>2. PICK u \in Users, ask \in Edits, old \in Rows :
        u = req[p].user /\ ask = req[p].ask /\ old = req[p].row
  BY <1>1 DEF Writing
<1>3. u \in Known /\ old.role = users[u].role
  BY <1>1, <1>2 DEF AccountInv, AllKnow, Knows
<1>4. CASE UNCHANGED users /\ Finish(p)
  BY <1>1, <1>4, FinishKeeps
<1>5. CASE ~ (UNCHANGED users /\ Finish(p))
  <2>1. /\ Owner(Edited(p).email) \subseteq {u}
        /\ users' = [users EXCEPT ![u].email = Edited(p).email, ![u].password = Edited(p).password]
        /\ req' = [req EXCEPT ![p] = [at |-> "sign", user |-> u, role |-> old.role]]
    BY <1>2, <1>5 DEF UpdateUser, Go
  <2>2. ask.email \in Emails \cup {NULL} /\ ask.password \in Passwords \cup {NULL}
    BY <1>2, BoundsAreTyped DEF Asks
  <2>3. old.email \in Emails /\ old.password \in Passwords /\ old.role \in Roles
    BY <1>2 DEF Rows
  <2>4. PICK e, w : e = Edited(p).email /\ w = Edited(p).password
    OBVIOUS
  <2>5. e \in Emails /\ w \in Passwords
    BY <1>2, <2>2, <2>3, <2>4 DEF Edited, Rows
  <2>6. users \in [Users -> Rows \cup {NULL}] /\ users[u] \in Rows
    BY <1>3 DEF AccountInv, AccountTypeOK, Known
  <2>7. PICK row : row = [users[u] EXCEPT !.email = e, !.password = w]
    OBVIOUS
  <2>8. /\ row \in Rows /\ row.email = e
        /\ row.role = users[u].role /\ row.prefs = users[u].prefs
    BY <2>5, <2>6, <2>7 DEF Rows
  <2>9. users' = [users EXCEPT ![u] = row]
    BY <2>1, <2>4, <2>6, <2>7
  <2>10. \A v \in Known \ {u} : users[v].email # e
    BY <2>1, <2>4 DEF Owner
  <2>11. PICK state : state = [at |-> "sign", user |-> u, role |-> old.role]
    OBVIOUS
  <2>12. state \in Signing
    BY <1>2, <2>3, <2>11 DEF Signing
  <2>13. state \in RequestStates
    BY <2>12 DEF RequestStates
  <2>14. users'[u].role = users[u].role /\ u \in Known'
    BY <2>6, <2>8, <2>9, NullIsNoData DEF Known
  <2>15. Knows(state)'
    BY <1>3, <2>11, <2>14 DEF Knows
  <2>16. \E q \in Requests, st \in RequestStates : Knows(st)' /\ req' = [req EXCEPT ![q] = st]
    BY <2>1, <2>11, <2>13, <2>15
  <2>17. /\ saved' \in [Users -> [Topics -> Values \cup {NULL}]]
         /\ saved'[u] = row.prefs /\ \A v \in Users \ {u} : saved'[v] = saved[v]
    BY <1>1, <1>3, <2>8 DEF AccountInv, AccountTypeOK, PreferencesSurvive
  <2> QED
    BY <1>1, <1>3, <2>8, <2>9, <2>10, <2>16, <2>17, RowStep
<1> QED
  BY <1>4, <1>5

LEMMA SignUpdatedKeeps ==
  ASSUME AccountInv, NEW p \in Requests, SignUpdated(p)
  PROVE  AccountInv' /\ RolesStay
<1>1. /\ req[p].at = "sign" /\ Finish(p) /\ UNCHANGED <<users, maker, saved>>
      /\ signed' = signed \cup {[user |-> req[p].user, role |-> req[p].role]}
  BY DEF SignUpdated, GenerateToken
<1>2. req[p] \in Signing /\ req[p].user \in Known /\ req[p].role = users[req[p].user].role
  BY <1>1, StateOf DEF AccountInv, AccountTypeOK, AllKnow, Knows
<1>3. req[p].role \in Roles
  BY <1>2 DEF Signing
<1>4. \A t \in signed' : t \in signed \/ (t \in [user : Known, role : Roles] /\ t.role = users[t.user].role)
  BY <1>1, <1>2, <1>3
<1> QED
  BY <1>1, <1>4, FinishKeeps

LEMMA UpdateClientPreferencesKeeps ==
  ASSUME AccountInv, NEW u \in Learned, NEW patch \in Patches, UpdateClientPreferences(u, patch)
  PROVE  AccountInv' /\ RolesStay
<1>1. /\ u \in Known /\ u \in Users /\ UNCHANGED <<signed, req, maker>>
      /\ users' = [users EXCEPT ![u].prefs = Merged(@, patch)]
      /\ saved' = [saved EXCEPT ![u] = Merged(@, patch)]
  BY DEF UpdateClientPreferences, Known
<1>2. users \in [Users -> Rows \cup {NULL}] /\ users[u] \in Rows
      /\ saved \in [Users -> [Topics -> Values \cup {NULL}]]
  BY <1>1 DEF AccountInv, AccountTypeOK, Known
<1>3. PICK old : old = users[u].prefs
  OBVIOUS
<1>4. old \in [Topics -> Values \cup {NULL}] /\ saved[u] = old
  BY <1>1, <1>2, <1>3 DEF Rows, AccountInv, PreferencesSurvive
<1>5. PICK K \in SUBSET Topics : patch \in [K -> Values]
  BY DEF Patches
<1>6. PICK new : new = Merged(old, patch)
  OBVIOUS
<1>7. new \in [Topics -> Values \cup {NULL}]
  BY <1>4, <1>5, <1>6 DEF Merged
<1>8. PICK row : row = [users[u] EXCEPT !.prefs = new]
  OBVIOUS
<1>9. /\ row \in Rows /\ row.role = users[u].role /\ row.email = users[u].email /\ row.prefs = new
  BY <1>2, <1>7, <1>8 DEF Rows
<1>10. users' = [users EXCEPT ![u] = row]
  BY <1>1, <1>2, <1>3, <1>6, <1>8
<1>11. saved' = [saved EXCEPT ![u] = new]
  BY <1>1, <1>4, <1>6
<1>12. \A v \in Known \ {u} : users[v].email # row.email
  BY <1>1, <1>9 DEF AccountInv, AccountTypeOK
<1>13. /\ saved' \in [Users -> [Topics -> Values \cup {NULL}]]
       /\ saved'[u] = row.prefs /\ \A v \in Users \ {u} : saved'[v] = saved[v]
  BY <1>1, <1>2, <1>7, <1>9, <1>11
<1> QED
  BY <1>1, <1>9, <1>10, <1>12, <1>13, RowStep

LEMMA AccountNextKeeps ==
  ASSUME AccountInv, AccountNext
  PROVE  AccountInv' /\ RolesStay
<1>1. ASSUME NEW p \in Requests, Abandon(p) PROVE AccountInv' /\ RolesStay
  BY <1>1, FinishKeeps DEF Abandon
<1> QED
  BY <1>1, RegisterKeeps, CreateStaffKeeps, LookUpEmailKeeps, CreateUserKeeps, LoginKeeps, AuthenticateKeeps,
     ExpireKeeps, UpdateMeKeeps, GetUserByIDKeeps, UpdateUserKeeps, SignUpdatedKeeps,
     UpdateClientPreferencesKeeps
  DEF AccountNext

LEMMA AccountsStart ==
  ASSUME AccountInit
  PROVE  AccountInv
<1> USE DEF AccountInit
<1>1. \A u \in Known : users[u] = Seeded[u] /\ Seeded[u] # NULL /\ Seeded[u] \in Rows
  BY SeedIsATable DEF Known
<1>2. saved \in [Users -> [Topics -> Values \cup {NULL}]]
  <2>1. NoPreferences \in [Topics -> Values \cup {NULL}]
    BY DEF NoPreferences
  <2>2. \A u \in Users : Seeded[u] # NULL => Seeded[u].prefs \in [Topics -> Values \cup {NULL}]
    BY SeedIsATable DEF Rows
  <2> QED
    BY <2>1, <2>2
<1>3. \A u, v \in Known : users[u].email = users[v].email => u = v
  BY <1>1, SeedIsATable DEF Known
<1>4. req \in [Requests -> RequestStates] /\ AllKnow
  BY IdleKnows DEF AllKnow
<1>5. \A p \in Requests : req[p].at = "idle"
  BY IdleKnows
<1>6. AccountTypeOK
  BY <1>2, <1>3, <1>4, <1>5, SeedIsATable DEF AccountTypeOK
<1>7. PreferencesSurvive
  BY <1>1 DEF PreferencesSurvive, Known
<1>8. RolesAreGranted
  BY <1>1 DEF RolesAreGranted
<1> QED
  BY <1>4, <1>6, <1>7, <1>8 DEF AccountInv
--------------------------------------------------------------------------------
(* Reminders.                                                                *)

ListRows(known) == [assignedTo : known, createdBy : known, completed : BOOLEAN]

ListInv ==
  /\ reminders \in [Reminders -> ListRows(Known) \cup {NULL}]
  /\ doneBy \in [Reminders -> SUBSET Known]
  /\ \A r \in Reminders : reminders[r] = NULL => doneBy[r] = {}
  /\ ListsAreGuarded

LEMMA ListsStart ==
  ASSUME Init
  PROVE  ListInv
BY DEF Init, ListInv, ListsAreGuarded, Left

\* A row of the table is none of NULL's.
LEMMA RowsAreNotNull ==
  ASSUME NEW row \in ListRows(Known)
  PROVE  row # NULL /\ row \in ReminderRows
<1>1. row \in ReminderRows
  BY DEF ListRows, ReminderRows, Known
<1> QED
  BY <1>1, NullIsNoReminder

\* Steps of accounts leave the lists alone, and what the lists rest on.
LEMMA AccountsKeepLists ==
  ASSUME ListInv, RolesStay, UNCHANGED reminderVars
  PROVE  ListInv'
<1>1. UNCHANGED <<reminders, doneBy>> /\ Left' = Left
  BY DEF reminderVars, Left
<1>2. Known \subseteq Known'
  BY DEF RolesStay
<1>3. \A r \in Left : reminders[r] \in ListRows(Known) /\ r \in Reminders
  BY DEF ListInv, Left
<1>4. \A r \in Left : reminders[r].createdBy \in Known /\ reminders[r].assignedTo \in Known
  BY <1>3 DEF ListRows
<1>5. \A r \in Left : doneBy[r] \subseteq Known
  BY <1>3 DEF ListInv
<1>6. ListsAreGuarded'
  BY <1>1, <1>4, <1>5 DEF ListInv, ListsAreGuarded, RolesStay
<1>7. ListRows(Known) \subseteq ListRows(Known)'
  BY <1>2 DEF ListRows
<1>8. reminders' \in [Reminders -> ListRows(Known)' \cup {NULL}]
  BY <1>1, <1>7 DEF ListInv
<1>9. doneBy' \in [Reminders -> SUBSET Known'] /\ \A r \in Reminders : reminders'[r] = NULL => doneBy'[r] = {}
  BY <1>1, <1>2 DEF ListInv
<1> QED
  BY <1>6, <1>8, <1>9 DEF ListInv

\* One row changes, and who completed it.
LEMMA ListStep ==
  ASSUME ListInv, UNCHANGED accountVars, NEW r \in Reminders, NEW row \in ListRows(Known), NEW done \in SUBSET Known,
         reminders' = [reminders EXCEPT ![r] = row],
         doneBy' = [doneBy EXCEPT ![r] = done],
         row.createdBy = row.assignedTo \/ users[row.createdBy].role = "supervisor",
         row.completed <=> done # {},
         \A u, v \in done : u = v /\ (u = row.assignedTo \/ users[u].role = "supervisor")
  PROVE  ListInv'
<1>1. users' = users /\ Known' = Known /\ row # NULL
  BY RowsAreNotNull DEF accountVars, Known
<1>2. /\ reminders'[r] = row /\ doneBy'[r] = done
      /\ \A s \in Reminders \ {r} : reminders'[s] = reminders[s] /\ doneBy'[s] = doneBy[s]
  BY DEF ListInv
<1>3. Left' = Left \cup {r}
  BY <1>1, <1>2 DEF Left
<1>4. ListsAreGuarded'
  <2>1. \A s \in Left' : s = r \/ (s \in Left /\ s \in Reminders \ {r})
    BY <1>3 DEF Left
  <2> QED
    BY <1>1, <1>2, <2>1 DEF ListInv, ListsAreGuarded
<1>5. reminders' \in [Reminders -> ListRows(Known)' \cup {NULL}]
  BY <1>1 DEF ListInv, ListRows
<1>6. doneBy' \in [Reminders -> SUBSET Known'] /\ \A s \in Reminders : reminders'[s] = NULL => doneBy'[s] = {}
  BY <1>1, <1>2 DEF ListInv
<1> QED
  BY <1>4, <1>5, <1>6 DEF ListInv

LEMMA CreateReminderKeeps ==
  ASSUME AccountInv, ListInv, NEW r \in Reminders, NEW t \in signed, NEW asked \in Users \cup {NULL},
         CreateReminder(r, t, asked)
  PROVE  ListInv'
<1>1. t.user \in Known /\ t.role = users[t.user].role
  BY TokensTell
<1>2. PICK to : to = Assignee(t, asked)
  OBVIOUS
<1>3. /\ to \in Known /\ r \notin Left /\ UNCHANGED accountVars /\ doneBy' = doneBy
      /\ reminders' = [reminders EXCEPT ![r] = [assignedTo |-> to, createdBy |-> t.user, completed |-> FALSE]]
  BY <1>2 DEF CreateReminder
<1>4. t.user = to \/ users[t.user].role = "supervisor"
  BY <1>1, <1>2 DEF Assignee, RequireSupervisorRole
<1>5. PICK row : row = [assignedTo |-> to, createdBy |-> t.user, completed |-> FALSE]
  OBVIOUS
<1>6. row \in ListRows(Known) /\ row.createdBy = t.user /\ row.assignedTo = to /\ row.completed = FALSE
  BY <1>1, <1>3, <1>5 DEF ListRows
<1>7. doneBy' = [doneBy EXCEPT ![r] = {}]
  BY <1>3 DEF ListInv, Left
<1>8. PICK done \in SUBSET Known : done = {}
  OBVIOUS
<1>9. /\ reminders' = [reminders EXCEPT ![r] = row]
      /\ doneBy' = [doneBy EXCEPT ![r] = done]
  BY <1>3, <1>5, <1>7, <1>8
<1>10. /\ row.createdBy = row.assignedTo \/ users[row.createdBy].role = "supervisor"
       /\ row.completed <=> done # {}
       /\ \A u, v \in done : u = v /\ (u = row.assignedTo \/ users[u].role = "supervisor")
  BY <1>4, <1>6, <1>8
<1> QED
  BY <1>3, <1>6, <1>9, <1>10, ListStep

LEMMA CompleteReminderKeeps ==
  ASSUME AccountInv, ListInv, NEW r \in Reminders, NEW t \in signed, CompleteReminder(r, t)
  PROVE  ListInv'
<1>1. t.user \in Known /\ t.role = users[t.user].role
  BY TokensTell
<1>2. /\ r \in Left /\ ~ reminders[r].completed /\ UNCHANGED accountVars
      /\ reminders[r].assignedTo = t.user \/ users[t.user].role = "supervisor"
      /\ reminders' = [reminders EXCEPT ![r].completed = TRUE]
      /\ doneBy' = [doneBy EXCEPT ![r] = @ \cup {t.user}]
  BY <1>1 DEF CompleteReminder, Completable, RequireSupervisorRole
<1>3. doneBy[r] = {} /\ (reminders[r].createdBy = reminders[r].assignedTo \/ users[reminders[r].createdBy].role = "supervisor")
  BY <1>2 DEF ListInv, ListsAreGuarded
<1>4. reminders[r] \in ListRows(Known)
  BY <1>2 DEF ListInv, Left
<1>5. PICK row : row = [reminders[r] EXCEPT !.completed = TRUE]
  OBVIOUS
<1>6. /\ row \in ListRows(Known) /\ row.completed = TRUE
      /\ row.createdBy = reminders[r].createdBy /\ row.assignedTo = reminders[r].assignedTo
  BY <1>4, <1>5 DEF ListRows
<1>7. reminders' = [reminders EXCEPT ![r] = row]
  BY <1>2, <1>5 DEF ListInv
<1>8. doneBy' = [doneBy EXCEPT ![r] = {t.user}]
  BY <1>2, <1>3
<1>9. PICK done \in SUBSET Known : done = {t.user}
  BY <1>1
<1>10. /\ UNCHANGED accountVars
       /\ reminders' = [reminders EXCEPT ![r] = row]
       /\ doneBy' = [doneBy EXCEPT ![r] = done]
  BY <1>2, <1>7, <1>8, <1>9
<1>11. /\ row.createdBy = row.assignedTo \/ users[row.createdBy].role = "supervisor"
       /\ row.completed <=> done # {}
       /\ \A u, v \in done : u = v /\ (u = row.assignedTo \/ users[u].role = "supervisor")
  BY <1>2, <1>3, <1>6, <1>9
<1> QED
  BY <1>6, <1>10, <1>11, ListStep
--------------------------------------------------------------------------------
(* The specification.                                                        *)

LEMMA InvHolds ==
  ASSUME AccountInv, ListInv
  PROVE  Inv
<1>1. ListRows(Known) = [assignedTo : Known, createdBy : Known, completed : BOOLEAN]
  BY DEF ListRows
<1>2. TypeOK
  BY <1>1 DEF AccountInv, ListInv, TypeOK
<1>3. AllKnow /\ PreferencesSurvive /\ SupervisorsDoing
  BY DEF AccountInv, ListInv, SupervisorsDoing
<1> QED
  BY <1>2, <1>3 DEF Inv

LEMMA Initially == Init => AccountInv /\ ListInv
BY AccountsStart, ListsStart DEF Init

LEMMA StepKeeps ==
  ASSUME AccountInv, ListInv, [Next]_vars
  PROVE  AccountInv' /\ ListInv' /\ RolesStay
<1>1. CASE AccountNext /\ UNCHANGED reminderVars
  BY <1>1, AccountNextKeeps, AccountsKeepLists
<1>2. ASSUME UNCHANGED accountVars PROVE AccountInv' /\ RolesStay
  <2>1. UNCHANGED <<users, signed, req, maker, saved>> /\ Known' = Known
    BY <1>2 DEF accountVars, Known
  <2>2. AccountTypeOK'
    BY <2>1 DEF AccountInv, AccountTypeOK
  <2>3. AllKnow' /\ PreferencesSurvive' /\ RolesAreGranted'
    BY <2>1 DEF AccountInv, AllKnow, Knows, PreferencesSurvive, RolesAreGranted
  <2> QED
    BY <2>1, <2>2, <2>3 DEF AccountInv, RolesStay
<1>3. ASSUME NEW r \in Reminders, NEW t \in signed, CompleteReminder(r, t) PROVE AccountInv' /\ ListInv' /\ RolesStay
  BY <1>2, <1>3, CompleteReminderKeeps DEF CompleteReminder
<1>4. ASSUME NEW r \in Reminders, NEW t \in signed, NEW u \in Users \cup {NULL}, CreateReminder(r, t, u)
      PROVE  AccountInv' /\ ListInv' /\ RolesStay
  <2>1. UNCHANGED accountVars
    BY <1>4 DEF CreateReminder
  <2> QED
    BY <1>2, <1>4, <2>1, CreateReminderKeeps
<1>5. CASE UNCHANGED vars
  <2>1. UNCHANGED accountVars /\ UNCHANGED reminderVars
    BY <1>5 DEF vars
  <2> QED
    BY <1>2, <2>1, AccountsKeepLists
<1> QED
  BY <1>1, <1>3, <1>4, <1>5 DEF Next

LEMMA AlwaysInv == Spec => [](AccountInv /\ ListInv)
<1>1. Init => AccountInv /\ ListInv
  BY Initially
<1>2. (AccountInv /\ ListInv) /\ [Next]_vars => (AccountInv /\ ListInv)'
  BY StepKeeps
<1> QED
  BY <1>1, <1>2, PTL DEF Spec

\* Rows, tokens and the states of requests keep their types, no two accounts share an
\* e-mail, and no row, token or request names an account that is not there
\* (repository/user.go, repository/reminder.go, migrations 000001 and 000008).
THEOREM TypeCorrect == Spec => []TypeOK
BY AlwaysInv, InvHolds, PTL DEF Inv

\* Whatever edits of the account are under way while the agent saves, its preferences
\* are the last ones reported as saved (repository/user.go:77 and 142).
THEOREM PreferencesAlwaysSurvive == Spec => []PreferencesSurvive
BY AlwaysInv, InvHolds, PTL DEF Inv

\* However requests and tokens interleave, staff accounts come from seeds and from
\* supervisors, tokens say the role of their accounts, and only an assignee or a
\* supervisor completes a reminder, once (main.go:135, handler/reminder.go:41).
THEOREM SupervisorsAlwaysDoing == Spec => []SupervisorsDoing
BY AlwaysInv, InvHolds, PTL DEF Inv

\* No step removes an account or changes its role (repository/user.go:77).
THEOREM RolesNeverChange == Spec => [][RolesStay]_vars
<1>1. AccountInv /\ ListInv /\ [Next]_vars => RolesStay
  BY StepKeeps
<1> QED
  BY <1>1, AlwaysInv, PTL DEF Spec
================================================================================
