--------------------------- MODULE ChatSessions_proofs ---------------------------
(***************************************************************************)
(* Proofs about ChatSessions, for any users, sessions, messages and        *)
(* goroutines.                                                             *)
(*                                                                         *)
(* A handler checks a right on a session it read and uses it later.  The   *)
(* argument is that no step of anybody takes away what was checked: a      *)
(* session keeps its client, keeps its employee once it has one, and may   *)
(* lose its apartment but not get one (Steady).                            *)
(***************************************************************************)
EXTENDS ChatSessions, TLAPS

\* What the goroutine with record r knows at its next statement.
Holds(r) ==
  /\ r.pc \notin {"idle", "find", "create"} =>
       r.session \in Sessions /\ sess[r.session].status # "absent"
  /\ r.pc \in {"find", "create"} => r.sender = "client"
  /\ r.pc = "find" => r.actor # NULL
  /\ r.pc = "say" /\ r.sender = "client" => sess[r.session].client = r.actor
  /\ r.pc = "say" /\ r.sender = "manager" => r.actor \in Staff /\ Entitled(r.actor, r.session)
  /\ r.pc \in {"take", "reject", "close"} => r.actor \in Staff
  /\ r.pc \in {"reject", "close"} => Entitled(r.actor, r.session)
  /\ r.pc \in {"list", "mark"} => r.actor \in Users
  /\ r.pc = "mark" => r.actor \in asked[r.session]

\* A message is in a session, and a rejection is of a session, that exists.
Posted ==
  /\ \A m \in Messages :
       IF Sent(m) THEN /\ sess[msgs[m].session].status # "absent"
                       /\ msgs[m].sender = "manager" => msgs[m].author \in Staff
                  ELSE msgs[m].sender = "client" /\ msgs[m].read = FALSE
  /\ \A r \in rejected : sess[r[1]].status # "absent"

\* A session that does not exist has no employee.
Fresh == \A s \in Sessions : sess[s].status = "absent" => sess[s].employee = NULL

Inv ==
  /\ TypeOK
  /\ \A p \in Requests : Holds(req[p])
  /\ Posted
  /\ Fresh
  /\ StaffActWhereEntitled
  /\ ClientsSpeakInTheirOwn
  /\ MarkedByAnother

\* What every step keeps of the sessions there are, new being their next rows.
Steady(new) ==
  \A s \in Sessions : sess[s].status # "absent" =>
    /\ new[s].status # "absent"
    /\ new[s].client = sess[s].client
    /\ new[s].about => sess[s].about
    /\ sess[s].employee # NULL => new[s].employee = sess[s].employee

--------------------------------------------------------------------------------
(* The rows of sessions.                                                     *)

LEMMA SteadySame == Steady(sess)
BY DEF Steady

LEMMA NewSessionRow ==
  ASSUME NEW p \in Requests, req[p] \in Request
  PROVE  /\ NewSession(req[p]) \in SessionRow
         /\ NewSession(req[p]).status = "open"
         /\ NewSession(req[p]).client = req[p].actor
         /\ NewSession(req[p]).about = req[p].about
         /\ NewSession(req[p]).employee = NULL
BY DEF NewSession, NoSession, SessionRow, Request

\* A step either leaves the sessions alone or writes one of them.
SessionStep(p) == InsertSession(p) \/ Take(p) \/ CloseSession(p) \/ DealCommits(p)

LEMMA InsertRow ==
  ASSUME Inv, NEW p \in Requests, InsertSession(p)
  PROVE  sess' \in [Sessions -> SessionRow] /\ Steady(sess') /\ Fresh'
<1>1. sess \in [Sessions -> SessionRow] /\ req[p] \in Request /\ Fresh
  BY DEF Inv, TypeOK
<1>2. PICK s \in Sessions : ~Exists(s) /\ sess' = [sess EXCEPT ![s] = NewSession(req[p])]
  BY DEF InsertSession
<1>3. /\ NewSession(req[p]) \in SessionRow
      /\ NewSession(req[p]).status = "open"
  BY <1>1, NewSessionRow
<1> QED
  BY <1>1, <1>2, <1>3 DEF Exists, Steady, Fresh

LEMMA TakeRow ==
  ASSUME Inv, NEW p \in Requests, Take(p)
  PROVE  sess' \in [Sessions -> SessionRow] /\ Steady(sess') /\ Fresh'
<1>1. sess \in [Sessions -> SessionRow] /\ Fresh
  BY DEF Inv, TypeOK
<1>2. req[p].session \in Sessions /\ req[p].actor \in Staff
  BY DEF Inv, Holds, Take
<1>3. CASE sess[req[p].session].employee = NULL
  <2>1. sess' = [sess EXCEPT ![req[p].session].employee = req[p].actor,
                             ![req[p].session].status = "in_progress"]
    BY <1>3 DEF Take
  <2>2. sess' \in [Sessions -> SessionRow]
    BY <1>1, <1>2, <2>1 DEF SessionRow, DealStages
  <2> QED
    BY <1>1, <1>2, <1>3, <2>1, <2>2 DEF Steady, Fresh, SessionRow
<1>4. CASE sess[req[p].session].employee # NULL
  BY <1>1, <1>4, SteadySame DEF Take, Fresh
<1> QED
  BY <1>3, <1>4

LEMMA CloseRow ==
  ASSUME Inv, NEW p \in Requests, CloseSession(p)
  PROVE  sess' \in [Sessions -> SessionRow] /\ Steady(sess') /\ Fresh'
<1>1. sess \in [Sessions -> SessionRow] /\ Fresh
  BY DEF Inv, TypeOK
<1>2. /\ req[p].session \in Sessions
      /\ sess' = [sess EXCEPT ![req[p].session].status = "close"]
  BY DEF Inv, Holds, CloseSession
<1> QED
  BY <1>1, <1>2 DEF Steady, Fresh, SessionRow, DealStages

LEMMA DealRow ==
  ASSUME Inv, NEW p \in Requests, DealCommits(p)
  PROVE  sess' \in [Sessions -> SessionRow] /\ Steady(sess') /\ Fresh'
<1>1. sess \in [Sessions -> SessionRow] /\ Fresh
  BY DEF Inv, TypeOK
<1>2. PICK s \in Sessions, to \in DealStages :
        Exists(s) /\ sess' = [sess EXCEPT ![s].status = to]
  BY DEF DealCommits
<1> QED
  BY <1>1, <1>2 DEF Exists, Steady, Fresh, SessionRow, DealStages

LEMMA HideRow ==
  ASSUME Inv, NEW u \in Users, NEW s \in Sessions, DeleteSessionForUser(u, s)
  PROVE  sess' \in [Sessions -> SessionRow] /\ Steady(sess') /\ Fresh'
BY DEF Inv, TypeOK, DeleteSessionForUser, Steady, Fresh, SessionRow

LEMMA WithdrawRow ==
  ASSUME Inv, NEW s \in Sessions, DeleteApartment(s)
  PROVE  sess' \in [Sessions -> SessionRow] /\ Steady(sess') /\ Fresh'
BY DEF Inv, TypeOK, DeleteApartment, Steady, Fresh, SessionRow

\* What the steps of a goroutine that write no session leave alone.
LEMMA OtherSteps ==
  ASSUME NEW p \in Requests, RequestStep(p), ~SessionStep(p)
  PROVE  UNCHANGED sess
BY DEF RequestStep, SessionStep, StartCreate, FindGeneral, StartSend, Say, StartRead,
  ListMessages, MarkMessagesAsRead, StartTake, StartClose, Reject, Abandon

LEMMA SessionsSteady ==
  ASSUME Inv, [Next]_vars
  PROVE  sess' \in [Sessions -> SessionRow] /\ Steady(sess') /\ Fresh'
<1>1. sess \in [Sessions -> SessionRow] /\ Fresh
  BY DEF Inv, TypeOK
<1>2. CASE UNCHANGED sess
  BY <1>1, <1>2, SteadySame DEF Fresh
<1>3. ASSUME NEW p \in Requests, RequestStep(p)
      PROVE  sess' \in [Sessions -> SessionRow] /\ Steady(sess') /\ Fresh'
  BY <1>2, <1>3, OtherSteps, InsertRow, TakeRow, CloseRow, DealRow DEF SessionStep
<1> QED
  BY <1>2, <1>3, HideRow, WithdrawRow DEF Next, vars

--------------------------------------------------------------------------------
(* Rights, once checked, stay.                                               *)

LEMMA EntitledStays ==
  ASSUME Steady(sess'), NEW u \in Staff, NEW s \in Sessions,
         sess[s].status # "absent", Entitled(u, s)
  PROVE  Entitled(u, s)'
BY NullAssumption DEF Steady, Entitled, Users

LEMMA ManagersAreEntitled ==
  ASSUME NEW u \in Staff, NEW s \in Sessions, CanManageSession(u, s)
  PROVE  Entitled(u, s)
BY DEF CanManageSession, Entitled

LEMMA AskedGrows ==
  ASSUME Inv, [Next]_vars
  PROVE  /\ asked' \in [Sessions -> SUBSET Users]
         /\ \A s \in Sessions : asked[s] \subseteq asked'[s]
<1>1. asked \in [Sessions -> SUBSET Users]
  BY DEF Inv, TypeOK
<1>2. CASE UNCHANGED asked
  BY <1>1, <1>2
<1>3. ASSUME NEW p \in Requests, ListMessages(p)
      PROVE  /\ asked' \in [Sessions -> SUBSET Users]
             /\ \A s \in Sessions : asked[s] \subseteq asked'[s]
  <2>1. req[p].session \in Sessions /\ req[p].actor \in Users
    BY <1>3 DEF Inv, Holds, ListMessages
  <2> QED
    BY <1>1, <1>3, <2>1 DEF ListMessages
<1>4. ASSUME NEW p \in Requests, RequestStep(p), ~ListMessages(p)
      PROVE  UNCHANGED asked
  BY <1>4 DEF RequestStep, StartCreate, FindGeneral, InsertSession, StartSend, Say, StartRead,
    MarkMessagesAsRead, StartTake, Take, StartClose, Reject, CloseSession, DealCommits, Abandon
<1> QED
  BY <1>2, <1>3, <1>4 DEF Next, vars, DeleteSessionForUser, DeleteApartment

\* What a goroutine knows does not depend on what others do.
LEMMA HoldsStays ==
  ASSUME Inv, [Next]_vars, NEW r \in Request, Holds(r)
  PROVE  Holds(r)'
<1>1. Steady(sess') /\ \A s \in Sessions : asked[s] \subseteq asked'[s]
  BY SessionsSteady, AskedGrows
<1>2. r.pc \notin {"idle", "find", "create"} =>
        /\ r.session \in Sessions
        /\ sess[r.session].status # "absent" /\ sess'[r.session].status # "absent"
        /\ sess'[r.session].client = sess[r.session].client
        /\ \A u \in Staff : Entitled(u, r.session) => Entitled(u, r.session)'
        /\ asked[r.session] \subseteq asked'[r.session]
  BY <1>1, EntitledStays DEF Holds, Steady
<1> QED
  BY <1>2 DEF Holds

--------------------------------------------------------------------------------
(* The goroutines.                                                           *)

LEMMA IdleHolds == Idle \in Request /\ Holds(Idle) /\ Holds(Idle)'
BY DEF Idle, Request, Holds

\* A step moves one goroutine: what that one knows afterwards is all to show.
LEMMA MoveHolds ==
  ASSUME Inv, [Next]_vars, NEW p \in Requests, NEW r \in Request, Become(p, r), Holds(r)'
  PROVE  req' \in [Requests -> Request] /\ \A q \in Requests : Holds(req[q])'
<1>1. req \in [Requests -> Request]
  BY DEF Inv, TypeOK
<1>2. req' = [req EXCEPT ![p] = r]
  BY DEF Become
<1>3. req' \in [Requests -> Request]
  BY <1>1, <1>2
<1>4. ASSUME NEW q \in Requests PROVE Holds(req[q])'
  <2>1. PICK old \in Request : old = req[q]
    BY <1>1
  <2>2. Holds(old)
    BY <2>1 DEF Inv
  <2>3. Holds(old)'
    BY <2>2, HoldsStays
  <2>4. req'[q] = IF q = p THEN r ELSE old
    BY <1>1, <1>2, <2>1
  <2>5. CASE q = p
    BY <2>4, <2>5 DEF Holds, Entitled
  <2>6. CASE q # p
    BY <2>3, <2>4, <2>6 DEF Holds, Entitled
  <2> QED
    BY <2>5, <2>6
<1> QED
  BY <1>3, <1>4

Moved == req' \in [Requests -> Request] /\ \A q \in Requests : Holds(req[q])'

LEMMA StopMoves ==
  ASSUME Inv, [Next]_vars, NEW p \in Requests, Become(p, Idle)
  PROVE  Moved
BY IdleHolds, MoveHolds DEF Moved

\* A goroutine that starts on a session: what it checked is what it knows.
LEMMA StartMoves ==
  ASSUME Inv, [Next]_vars, NEW p \in Requests,
         StartSend(p) \/ StartRead(p) \/ StartTake(p) \/ StartClose(p)
  PROVE  Moved
<1>1. UNCHANGED <<sess, asked>>
  BY DEF StartSend, StartRead, StartTake, StartClose
<1>2. PICK r \in Request : Become(p, r) /\ Holds(r)
  <2>1. CASE StartSend(p)
    <3>1. PICK u \in Users, s \in Sessions :
            /\ Exists(s)
            /\ CanReadSession(u, s)
            /\ u \in Staff => CanManageSession(u, s)
            /\ Become(p, [Idle EXCEPT !.pc = "say", !.actor = u, !.session = s,
                                      !.sender = IF u \in Staff THEN "manager" ELSE "client"])
      BY <2>1 DEF StartSend
    <3>2. PICK r : r = [Idle EXCEPT !.pc = "say", !.actor = u, !.session = s,
                                    !.sender = IF u \in Staff THEN "manager" ELSE "client"]
      OBVIOUS
    <3>3. /\ r \in Request /\ r.pc = "say" /\ r.actor = u /\ r.session = s
          /\ r.sender = IF u \in Staff THEN "manager" ELSE "client"
      BY <3>2 DEF Idle, Request
    <3>4. u \in Staff => Entitled(u, s)
      BY <3>1, ManagersAreEntitled
    <3>5. u \notin Staff => sess[s].client = u
      BY <3>1 DEF CanReadSession, Staff
    <3>6. Holds(r)
      BY <3>1, <3>3, <3>4, <3>5 DEF Holds, Exists
    <3> QED
      BY <3>1, <3>2, <3>3, <3>6
  <2>2. CASE StartRead(p)
    <3>1. PICK u \in Users, s \in Sessions :
            /\ Exists(s)
            /\ Become(p, [Idle EXCEPT !.pc = "list", !.actor = u, !.session = s])
      BY <2>2 DEF StartRead
    <3>2. PICK r : r = [Idle EXCEPT !.pc = "list", !.actor = u, !.session = s]
      OBVIOUS
    <3>3. r \in Request /\ r.pc = "list" /\ r.actor = u /\ r.session = s
      BY <3>2 DEF Idle, Request
    <3>4. Holds(r)
      BY <3>1, <3>3 DEF Holds, Exists
    <3> QED
      BY <3>1, <3>2, <3>3, <3>4
  <2>3. CASE StartTake(p)
    <3>1. PICK u \in Staff, s \in Sessions :
            /\ Exists(s)
            /\ Become(p, [Idle EXCEPT !.pc = "take", !.actor = u, !.session = s])
      BY <2>3 DEF StartTake
    <3>2. PICK r : r = [Idle EXCEPT !.pc = "take", !.actor = u, !.session = s]
      OBVIOUS
    <3>3. r \in Request /\ r.pc = "take" /\ r.actor = u /\ r.session = s
      BY <3>2 DEF Idle, Request, Users
    <3>4. Holds(r)
      BY <3>1, <3>3 DEF Holds, Exists
    <3> QED
      BY <3>1, <3>2, <3>3, <3>4
  <2>4. CASE StartClose(p)
    <3>1. PICK u \in Staff, s \in Sessions, pc \in {"close", "reject"} :
            /\ Exists(s)
            /\ CanManageSession(u, s)
            /\ Become(p, [Idle EXCEPT !.pc = pc, !.actor = u, !.session = s])
      BY <2>4 DEF StartClose
    <3>2. PICK r : r = [Idle EXCEPT !.pc = pc, !.actor = u, !.session = s]
      OBVIOUS
    <3>3. r \in Request /\ r.pc = pc /\ r.actor = u /\ r.session = s
      BY <3>2 DEF Idle, Request, Users
    <3>4. Holds(r)
      BY <3>1, <3>3, ManagersAreEntitled DEF Holds, Exists
    <3> QED
      BY <3>1, <3>2, <3>3, <3>4
  <2> QED
    BY <2>1, <2>2, <2>3, <2>4
<1>3. Holds(r)'
  BY <1>2, HoldsStays
<1> QED
  BY <1>2, <1>3, MoveHolds DEF Moved

\* Creating: the session found or inserted is the creator's.
LEMMA CreateMoves ==
  ASSUME Inv, [Next]_vars, NEW p \in Requests,
         StartCreate(p) \/ FindGeneral(p) \/ InsertSession(p)
  PROVE  Moved
<1>1. PICK old \in Request : old = req[p] /\ Holds(old)
  BY DEF Inv, TypeOK
<1>2. CASE StartCreate(p)
  <2>1. PICK u \in Creators, about \in BOOLEAN, says \in BOOLEAN :
          Become(p, [Idle EXCEPT !.pc = IF u # NULL /\ ~about THEN "find" ELSE "create",
                                 !.actor = u, !.about = about, !.says = says])
    BY <1>2 DEF StartCreate
  <2>2. PICK r : r = [Idle EXCEPT !.pc = IF u # NULL /\ ~about THEN "find" ELSE "create",
                                  !.actor = u, !.about = about, !.says = says]
    OBVIOUS
  <2>3. r \in Request /\ r.pc \in {"find", "create"} /\ r.actor = u /\ r.sender = "client"
        /\ (r.pc = "find" => u # NULL)
    BY <2>2, UsersAssumption DEF Idle, Request
  <2>4. Holds(r)'
    BY <2>3 DEF Holds
  <2> QED
    BY <2>1, <2>2, <2>3, <2>4, MoveHolds DEF Moved
<1>3. CASE FindGeneral(p)
  <2>1. old.pc = "find" /\ old.sender = "client" /\ old.actor # NULL
    BY <1>1, <1>3 DEF FindGeneral, Holds
  <2>2. CASE Become(p, [old EXCEPT !.pc = "create"])
    <3>1. PICK r : r = [old EXCEPT !.pc = "create"]
      OBVIOUS
    <3>2. r \in Request /\ r.pc = "create" /\ r.sender = "client"
      BY <1>1, <2>1, <3>1 DEF Request
    <3>3. Holds(r)'
      BY <3>2 DEF Holds
    <3> QED
      BY <2>2, <3>1, <3>2, <3>3, MoveHolds DEF Moved
  <2>3. CASE Become(p, Idle)
    BY <2>3, StopMoves
  <2>4. ASSUME NEW s \in GeneralSessions(old.actor),
               Become(p, [old EXCEPT !.pc = "say", !.session = s])
        PROVE  Moved
    <3>1. PICK r : r = [old EXCEPT !.pc = "say", !.session = s]
      OBVIOUS
    <3>2. s \in Sessions /\ Exists(s) /\ sess[s].client = old.actor
      BY <2>4 DEF GeneralSessions
    <3>3. r \in Request /\ r.pc = "say" /\ r.session = s /\ r.actor = old.actor
          /\ r.sender = "client"
      BY <1>1, <2>1, <3>1, <3>2 DEF Request
    <3>4. Holds(r)
      BY <3>2, <3>3 DEF Holds, Exists
    <3> QED
      BY <2>4, <3>1, <3>3, <3>4, HoldsStays, MoveHolds DEF Moved
  <2> QED
    BY <1>1, <1>3, <2>2, <2>3, <2>4 DEF FindGeneral
<1>4. CASE InsertSession(p)
  <2>1. PICK s \in Sessions :
          /\ sess' = [sess EXCEPT ![s] = NewSession(req[p])]
          /\ Become(p, IF req[p].says THEN [req[p] EXCEPT !.pc = "say", !.session = s] ELSE Idle)
    BY <1>4 DEF InsertSession
  <2>2. old.pc = "create" /\ old.sender = "client"
    BY <1>1, <1>4 DEF InsertSession, Holds
  <2>3. sess'[s].status = "open" /\ sess'[s].client = old.actor
    BY <1>1, <2>1, NewSessionRow DEF Inv, TypeOK
  <2>4. CASE old.says
    <3>1. PICK r : r = [old EXCEPT !.pc = "say", !.session = s]
      OBVIOUS
    <3>2. r \in Request /\ r.pc = "say" /\ r.session = s /\ r.actor = old.actor
          /\ r.sender = "client"
      BY <1>1, <2>2, <3>1 DEF Request
    <3>3. Holds(r)'
      BY <2>3, <3>2 DEF Holds
    <3> QED
      BY <1>1, <2>1, <2>4, <3>1, <3>2, <3>3, MoveHolds DEF Moved
  <2>5. CASE ~old.says
    BY <1>1, <2>1, <2>5, StopMoves
  <2> QED
    BY <2>4, <2>5
<1> QED
  BY <1>2, <1>3, <1>4

\* Going on: the reader is noted, the rejected session is closed next, the
\* system message follows the deal.
LEMMA GoOnMoves ==
  ASSUME Inv, [Next]_vars, NEW p \in Requests,
         ListMessages(p) \/ Reject(p) \/ DealCommits(p)
  PROVE  Moved
<1>1. PICK old \in Request : old = req[p] /\ Holds(old)
  BY DEF Inv, TypeOK
<1>2. CASE ListMessages(p)
  <2>1. PICK r : r = [old EXCEPT !.pc = "mark"]
    OBVIOUS
  <2>2. old.pc = "list" /\ old.session \in Sessions /\ old.actor \in Users
        /\ sess[old.session].status # "absent"
    BY <1>1, <1>2 DEF ListMessages, Holds
  <2>3. r \in Request /\ r.pc = "mark" /\ r.session = old.session /\ r.actor = old.actor
    BY <1>1, <2>1 DEF Request
  <2>4. old.actor \in asked'[old.session] /\ sess' = sess
    BY <1>1, <1>2, <2>2 DEF ListMessages, Inv, TypeOK
  <2>5. Holds(r)'
    BY <2>2, <2>3, <2>4 DEF Holds
  <2> QED
    BY <1>1, <1>2, <2>1, <2>3, <2>5, MoveHolds DEF ListMessages, Moved
<1>3. CASE Reject(p)
  <2>1. PICK r : r = [old EXCEPT !.pc = "close"]
    OBVIOUS
  <2>2. r \in Request /\ r.pc = "close" /\ r.session = old.session /\ r.actor = old.actor
        /\ old.pc = "reject"
    BY <1>1, <1>3, <2>1 DEF Request, Reject
  <2>3. Holds(r)
    BY <1>1, <2>2 DEF Holds
  <2> QED
    BY <1>1, <1>3, <2>1, <2>2, <2>3, HoldsStays, MoveHolds DEF Reject, Moved
<1>4. CASE DealCommits(p)
  <2>1. PICK s \in Sessions :
          /\ Exists(s)
          /\ Become(p, [Idle EXCEPT !.pc = "say", !.session = s, !.sender = "system"])
    BY <1>4 DEF DealCommits
  <2>2. PICK r : r = [Idle EXCEPT !.pc = "say", !.session = s, !.sender = "system"]
    OBVIOUS
  <2>3. r \in Request /\ r.pc = "say" /\ r.session = s /\ r.sender = "system"
    BY <2>2 DEF Idle, Request
  <2>4. Holds(r)
    BY <2>1, <2>3 DEF Holds, Exists
  <2> QED
    BY <2>1, <2>2, <2>3, <2>4, HoldsStays, MoveHolds DEF Moved
<1> QED
  BY <1>2, <1>3, <1>4

LEMMA GoroutinesMove == ASSUME Inv, [Next]_vars PROVE Moved
<1>1. CASE UNCHANGED req
  <2>1. ASSUME NEW q \in Requests PROVE Holds(req[q])'
    <3>1. PICK old \in Request : old = req[q]
      BY DEF Inv, TypeOK
    <3>2. Holds(old)'
      BY <3>1, HoldsStays DEF Inv
    <3> QED
      BY <1>1, <3>1, <3>2 DEF Holds, Entitled
  <2> QED
    BY <1>1, <2>1 DEF Inv, TypeOK, Moved
<1>2. ASSUME NEW p \in Requests, RequestStep(p) PROVE Moved
  <2>1. CASE Say(p) \/ MarkMessagesAsRead(p) \/ Take(p) \/ CloseSession(p) \/ Abandon(p)
    BY <2>1, StopMoves DEF Say, MarkMessagesAsRead, Take, CloseSession, Abandon
  <2> QED
    BY <1>2, <2>1, StartMoves, CreateMoves, GoOnMoves DEF RequestStep
<1> QED
  BY <1>1, <1>2 DEF Next, vars, DeleteSessionForUser, DeleteApartment

--------------------------------------------------------------------------------
(* Messages and rejections.                                                  *)

MessagesFine ==
  /\ msgs \in [Messages -> MessageRow]
  /\ \A m \in Messages :
       /\ IF Sent(m) THEN /\ sess[msgs[m].session].status # "absent"
                          /\ msgs[m].sender = "manager" => msgs[m].author \in Staff
                     ELSE msgs[m].sender = "client" /\ msgs[m].read = FALSE
       /\ msgs[m].sender = "manager" => Entitled(msgs[m].author, msgs[m].session)
       /\ Sent(m) /\ msgs[m].sender = "client" => msgs[m].author = sess[msgs[m].session].client
       /\ msgs[m].read => \E u \in asked[msgs[m].session] : u # msgs[m].author

LEMMA MessagesNow == Inv => MessagesFine
BY DEF Inv, TypeOK, Posted, StaffActWhereEntitled, ClientsSpeakInTheirOwn, MarkedByAnother,
  MessagesFine

\* What is said of a message stays true of it while its row stays.
LEMMA MessageStays ==
  ASSUME Inv, [Next]_vars, NEW m \in Messages, msgs' [m] = msgs[m]
  PROVE  /\ IF Sent(m)' THEN /\ sess'[msgs[m].session].status # "absent"
                             /\ msgs[m].sender = "manager" => msgs[m].author \in Staff
                        ELSE msgs[m].sender = "client" /\ msgs[m].read = FALSE
         /\ msgs[m].sender = "manager" => Entitled(msgs[m].author, msgs[m].session)'
         /\ Sent(m) /\ msgs[m].sender = "client" =>
              msgs[m].author = sess'[msgs[m].session].client
         /\ msgs[m].read => \E u \in asked'[msgs[m].session] : u # msgs[m].author
<1>1. PICK x \in MessageRow : x = msgs[m]
  BY DEF Inv, TypeOK
<1>2. Steady(sess') /\ \A s \in Sessions : asked[s] \subseteq asked'[s]
  BY SessionsSteady, AskedGrows
<1>3. /\ IF x.session # NULL THEN /\ sess[x.session].status # "absent"
                                  /\ x.sender = "manager" => x.author \in Staff
                             ELSE x.sender = "client" /\ x.read = FALSE
      /\ x.sender = "manager" => Entitled(x.author, x.session)
      /\ x.session # NULL /\ x.sender = "client" => x.author = sess[x.session].client
      /\ x.read => \E u \in asked[x.session] : u # x.author
  BY <1>1, MessagesNow DEF MessagesFine, Sent
<1>4. x.session # NULL => x.session \in Sessions
  BY DEF MessageRow
<1>5. /\ IF x.session # NULL THEN /\ sess'[x.session].status # "absent"
                                  /\ x.sender = "manager" => x.author \in Staff
                             ELSE x.sender = "client" /\ x.read = FALSE
      /\ x.session # NULL /\ x.sender = "client" => x.author = sess'[x.session].client
  BY <1>2, <1>3, <1>4 DEF Steady
<1>6. x.sender = "manager" => Entitled(x.author, x.session)'
  BY <1>2, <1>3, <1>4, EntitledStays
<1>7. x.read => \E u \in asked'[x.session] : u # x.author
  BY <1>2, <1>3, <1>4
<1> QED
  BY <1>1, <1>5, <1>6, <1>7 DEF Sent, Entitled

LEMMA SameMessages == ASSUME Inv, [Next]_vars, UNCHANGED msgs PROVE MessagesFine'
<1>1. msgs' \in [Messages -> MessageRow]
  BY DEF Inv, TypeOK
<1> QED
  BY <1>1, MessageStays DEF MessagesFine, Sent, Entitled

LEMMA SayMessages == ASSUME Inv, [Next]_vars, NEW p \in Requests, Say(p) PROVE MessagesFine'
<1>1. PICK r \in Request : r = req[p] /\ Holds(r)
  BY DEF Inv, TypeOK
<1>2. PICK n \in Messages :
        msgs' = [msgs EXCEPT ![n] = [session |-> r.session, author |-> r.actor,
                                     sender |-> r.sender, read |-> FALSE]]
  BY <1>1 DEF Say
<1>3. PICK x : x = [session |-> r.session, author |-> r.actor,
                    sender |-> r.sender, read |-> FALSE]
  OBVIOUS
<1>4. UNCHANGED sess /\ r.pc = "say"
  BY <1>1 DEF Say
<1>5. /\ r.session \in Sessions /\ sess[r.session].status # "absent"
      /\ r.sender = "client" => sess[r.session].client = r.actor
      /\ r.sender = "manager" => r.actor \in Staff /\ Entitled(r.actor, r.session)
  BY <1>1, <1>4 DEF Holds
<1>6. /\ x \in MessageRow /\ x.session = r.session /\ x.author = r.actor
      /\ x.sender = r.sender /\ x.read = FALSE
  BY <1>3, <1>5 DEF MessageRow, Request
<1>7. msgs \in [Messages -> MessageRow]
  BY DEF Inv, TypeOK
<1>8. /\ msgs' \in [Messages -> MessageRow] /\ msgs'[n] = x
      /\ \A m \in Messages : m # n => msgs'[m] = msgs[m]
  BY <1>2, <1>3, <1>6, <1>7
<1>9. r.session # NULL
  BY <1>5, NullAssumption
<1>10. ASSUME NEW m \in Messages, m # n
       PROVE  /\ IF Sent(m)' THEN /\ sess'[msgs'[m].session].status # "absent"
                                  /\ msgs'[m].sender = "manager" => msgs'[m].author \in Staff
                             ELSE msgs'[m].sender = "client" /\ msgs'[m].read = FALSE
              /\ msgs'[m].sender = "manager" => Entitled(msgs[m].author, msgs[m].session)'
              /\ Sent(m)' /\ msgs'[m].sender = "client" =>
                   msgs'[m].author = sess'[msgs'[m].session].client
              /\ msgs'[m].read => \E u \in asked'[msgs'[m].session] : u # msgs'[m].author
  BY <1>8, <1>10, MessageStays DEF Sent, Entitled
<1>11. /\ IF Sent(n)' THEN /\ sess'[msgs'[n].session].status # "absent"
                           /\ msgs'[n].sender = "manager" => msgs'[n].author \in Staff
                      ELSE msgs'[n].sender = "client" /\ msgs'[n].read = FALSE
       /\ msgs'[n].sender = "manager" => Entitled(msgs[n].author, msgs[n].session)'
       /\ Sent(n)' /\ msgs'[n].sender = "client" =>
            msgs'[n].author = sess'[msgs'[n].session].client
       /\ msgs'[n].read = FALSE
  BY <1>4, <1>5, <1>6, <1>8, <1>9 DEF Sent, Entitled
<1> QED
  BY <1>8, <1>10, <1>11 DEF MessagesFine

LEMMA MarkMessages ==
  ASSUME Inv, [Next]_vars, NEW p \in Requests, MarkMessagesAsRead(p)
  PROVE  MessagesFine'
<1>1. PICK r \in Request : r = req[p] /\ Holds(r)
  BY DEF Inv, TypeOK
<1>2. /\ r.actor \in asked[r.session] /\ r.session \in Sessions
      /\ UNCHANGED <<sess, asked>>
      /\ msgs' = [m \in Messages |-> IF MarkedBy(m, r.session, r.actor)
                                     THEN [msgs[m] EXCEPT !.read = TRUE] ELSE msgs[m]]
  BY <1>1 DEF MarkMessagesAsRead, Holds
<1>3. msgs \in [Messages -> MessageRow] /\ MessagesFine
  BY MessagesNow DEF MessagesFine
<1>4. ASSUME NEW m \in Messages
      PROVE  /\ msgs'[m] \in MessageRow
             /\ msgs'[m].session = msgs[m].session /\ msgs'[m].author = msgs[m].author
             /\ msgs'[m].sender = msgs[m].sender
             /\ \/ msgs'[m] = msgs[m]
                \/ msgs[m].session = r.session /\ msgs[m].author # r.actor
  BY <1>2, <1>3 DEF MarkedBy, MessageRow
<1>5. msgs' \in [Messages -> MessageRow]
  BY <1>2, <1>4
<1>6. r.session # NULL
  BY <1>2, NullAssumption
<1>7. ASSUME NEW m \in Messages
      PROVE  /\ IF Sent(m)' THEN /\ sess'[msgs'[m].session].status # "absent"
                                 /\ msgs'[m].sender = "manager" => msgs'[m].author \in Staff
                            ELSE msgs'[m].sender = "client" /\ msgs'[m].read = FALSE
             /\ msgs'[m].sender = "manager" => Entitled(msgs[m].author, msgs[m].session)'
             /\ Sent(m)' /\ msgs'[m].sender = "client" =>
                  msgs'[m].author = sess'[msgs'[m].session].client
             /\ msgs'[m].read => \E u \in asked'[msgs'[m].session] : u # msgs'[m].author
  BY <1>2, <1>3, <1>4, <1>6 DEF MessagesFine, Sent, Entitled
<1> QED
  BY <1>5, <1>7, <1>4 DEF MessagesFine, Sent, Entitled

LEMMA MessagesStep == ASSUME Inv, [Next]_vars PROVE MessagesFine'
<1>1. ASSUME NEW p \in Requests, RequestStep(p), ~Say(p), ~MarkMessagesAsRead(p)
      PROVE  UNCHANGED msgs
  BY <1>1 DEF RequestStep, StartCreate, FindGeneral, InsertSession, StartSend, StartRead,
    ListMessages, StartTake, Take, StartClose, Reject, CloseSession, DealCommits, Abandon
<1> QED
  BY <1>1, SameMessages, SayMessages, MarkMessages
  DEF Next, vars, DeleteSessionForUser, DeleteApartment

RejectionsFine ==
  /\ rejected \subseteq Sessions \X Staff
  /\ \A r \in rejected : sess[r[1]].status # "absent" /\ Entitled(r[2], r[1])

LEMMA RejectionsStep == ASSUME Inv, [Next]_vars PROVE RejectionsFine'
<1>1. rejected \subseteq Sessions \X Staff /\ Steady(sess')
  BY SessionsSteady DEF Inv, TypeOK
<1>2. ASSUME NEW s \in Sessions, NEW u \in Staff, sess[s].status # "absent", Entitled(u, s)
      PROVE  sess'[s].status # "absent" /\ Entitled(u, s)'
  BY <1>1, <1>2, EntitledStays DEF Steady
<1>3. \A s \in Sessions, u \in Staff : <<s, u>> \in rejected =>
        sess[s].status # "absent" /\ Entitled(u, s)
  BY DEF Inv, Posted, StaffActWhereEntitled
<1>4. CASE UNCHANGED rejected
  BY <1>1, <1>2, <1>3, <1>4 DEF RejectionsFine, Entitled
<1>5. ASSUME NEW p \in Requests, Reject(p) PROVE RejectionsFine'
  <2>1. PICK r \in Request : r = req[p] /\ Holds(r)
    BY DEF Inv, TypeOK
  <2>2. /\ r.session \in Sessions /\ r.actor \in Staff
        /\ sess[r.session].status # "absent" /\ Entitled(r.actor, r.session)
        /\ rejected' = rejected \cup {<<r.session, r.actor>>}
    BY <1>5, <2>1 DEF Reject, Holds
  <2>3. \A s \in Sessions, u \in Staff : <<s, u>> \in rejected' =>
          sess[s].status # "absent" /\ Entitled(u, s)
    BY <1>3, <2>2
  <2>4. rejected' \subseteq Sessions \X Staff
    BY <1>1, <2>2
  <2> QED
    BY <1>2, <2>3, <2>4 DEF RejectionsFine, Entitled
<1>6. ASSUME NEW p \in Requests, RequestStep(p), ~Reject(p) PROVE UNCHANGED rejected
  BY <1>6 DEF RequestStep, StartCreate, FindGeneral, InsertSession, StartSend, Say, StartRead,
    ListMessages, MarkMessagesAsRead, StartTake, Take, StartClose, CloseSession, DealCommits,
    Abandon
<1> QED
  BY <1>4, <1>5, <1>6 DEF Next, vars, DeleteSessionForUser, DeleteApartment

--------------------------------------------------------------------------------
(* The invariant.                                                            *)

LEMMA InvInit == Init => Inv
<1> SUFFICES ASSUME Init PROVE Inv
  OBVIOUS
<1>1. NoSession \in SessionRow /\ NoMessage \in MessageRow
  BY DEF NoSession, SessionRow, NoMessage, MessageRow
<1>2. TypeOK
  BY <1>1, IdleHolds DEF Init, TypeOK
<1>3. \A p \in Requests : Holds(req[p])
  BY DEF Init, Holds, Idle
<1>4. \A m \in Messages : ~Sent(m) /\ msgs[m].sender = "client" /\ msgs[m].read = FALSE
  BY DEF Init, Sent, NoMessage
<1>5. Posted /\ StaffActWhereEntitled /\ ClientsSpeakInTheirOwn /\ MarkedByAnother
  BY <1>4 DEF Init, Posted, StaffActWhereEntitled, ClientsSpeakInTheirOwn, MarkedByAnother
<1>6. Fresh
  BY DEF Init, Fresh, NoSession
<1> QED
  BY <1>2, <1>3, <1>5, <1>6 DEF Inv

LEMMA InvNext == Inv /\ [Next]_vars => Inv'
<1> SUFFICES ASSUME Inv, [Next]_vars PROVE Inv'
  OBVIOUS
<1>1. sess' \in [Sessions -> SessionRow] /\ Fresh'
  BY SessionsSteady
<1>2. asked' \in [Sessions -> SUBSET Users]
  BY AskedGrows
<1>3. req' \in [Requests -> Request] /\ \A q \in Requests : Holds(req[q])'
  BY GoroutinesMove DEF Moved
<1>4. MessagesFine' /\ RejectionsFine'
  BY MessagesStep, RejectionsStep
<1>5. TypeOK'
  BY <1>1, <1>2, <1>3, <1>4 DEF TypeOK, MessagesFine, RejectionsFine
<1>6. Posted' /\ ClientsSpeakInTheirOwn' /\ MarkedByAnother'
  BY <1>4 DEF MessagesFine, RejectionsFine, Posted, ClientsSpeakInTheirOwn, MarkedByAnother
<1>7. StaffActWhereEntitled'
  BY <1>4 DEF MessagesFine, RejectionsFine, StaffActWhereEntitled, Entitled
<1> QED
  BY <1>1, <1>3, <1>5, <1>6, <1>7 DEF Inv

\* Every row and every goroutine is always of its type.
THEOREM TypeCorrect == Spec => []TypeOK
<1>1. Inv => TypeOK
  BY DEF Inv
<1> QED
  BY InvInit, InvNext, <1>1, PTL DEF Spec

\* Staff speak and reject in an application only as its employee or as a
\* supervisor, although they are checked before they act.
THEOREM StaffAlwaysEntitled == Spec => []StaffActWhereEntitled
<1>1. Inv => StaffActWhereEntitled
  BY DEF Inv
<1> QED
  BY InvInit, InvNext, <1>1, PTL DEF Spec

\* A client's words are in a session of his own.
THEOREM ClientsAlwaysInTheirOwn == Spec => []ClientsSpeakInTheirOwn
<1>1. Inv => ClientsSpeakInTheirOwn
  BY DEF Inv
<1> QED
  BY InvInit, InvNext, <1>1, PTL DEF Spec

\* A message is marked read only on behalf of somebody who did not write it.
THEOREM AlwaysMarkedByAnother == Spec => []MarkedByAnother
<1>1. Inv => MarkedByAnother
  BY DEF Inv
<1> QED
  BY InvInit, InvNext, <1>1, PTL DEF Spec

--------------------------------------------------------------------------------
(* The desk.                                                                 *)

LEMMA DeskInit == Init => Desk!Init
BY DEF Init, NoSession, Desk!Init

\* A row that changes in one session, in the terms of the desk.
LEMMA DeskWrite ==
  ASSUME Inv, NEW s \in Sessions, NEW row \in SessionRow, sess' = [sess EXCEPT ![s] = row]
  PROVE  /\ [x \in Sessions |-> sess'[x].status]
              = [[x \in Sessions |-> sess[x].status] EXCEPT ![s] = row.status]
         /\ [x \in Sessions |-> sess'[x].employee]
              = [[x \in Sessions |-> sess[x].employee] EXCEPT ![s] = row.employee]
         /\ {x \in Sessions : ~sess'[x].about}
              \in {{x \in Sessions : ~sess[x].about} \ {s},
                   {x \in Sessions : ~sess[x].about} \cup {s}}
         /\ row.about = sess[s].about =>
              {x \in Sessions : ~sess'[x].about} = {x \in Sessions : ~sess[x].about}
         /\ row.employee = sess[s].employee =>
              [x \in Sessions |-> sess'[x].employee] = [x \in Sessions |-> sess[x].employee]
<1>1. sess \in [Sessions -> SessionRow]
  BY DEF Inv, TypeOK
<1>2. /\ sess'[s] = row
      /\ \A x \in Sessions : x # s => sess'[x] = sess[x]
  BY <1>1
<1>3. row.about \in BOOLEAN
  BY DEF SessionRow
<1>4. {x \in Sessions : ~sess'[x].about}
        = IF row.about THEN {x \in Sessions : ~sess[x].about} \ {s}
                       ELSE {x \in Sessions : ~sess[x].about} \cup {s}
  BY <1>2, <1>3
<1>5. row.about = sess[s].about =>
        {x \in Sessions : ~sess'[x].about} = {x \in Sessions : ~sess[x].about}
  BY <1>2
<1>6. [x \in Sessions |-> sess'[x].status]
        = [[x \in Sessions |-> sess[x].status] EXCEPT ![s] = row.status]
  <2>1. \A x \in Sessions : sess'[x].status = IF x = s THEN row.status ELSE sess[x].status
    BY <1>2
  <2>2. [[x \in Sessions |-> sess[x].status] EXCEPT ![s] = row.status]
          = [x \in Sessions |-> IF x = s THEN row.status ELSE sess[x].status]
    OBVIOUS
  <2>3. [x \in Sessions |-> sess'[x].status]
          = [x \in Sessions |-> IF x = s THEN row.status ELSE sess[x].status]
    BY <2>1, Zenon
  <2> QED
    BY <2>2, <2>3, Zenon
<1>7. [x \in Sessions |-> sess'[x].employee]
        = [[x \in Sessions |-> sess[x].employee] EXCEPT ![s] = row.employee]
  <2>1. \A x \in Sessions : sess'[x].employee = IF x = s THEN row.employee ELSE sess[x].employee
    BY <1>2
  <2>2. [[x \in Sessions |-> sess[x].employee] EXCEPT ![s] = row.employee]
          = [x \in Sessions |-> IF x = s THEN row.employee ELSE sess[x].employee]
    OBVIOUS
  <2>3. [x \in Sessions |-> sess'[x].employee]
          = [x \in Sessions |-> IF x = s THEN row.employee ELSE sess[x].employee]
    BY <2>1, Zenon
  <2> QED
    BY <2>2, <2>3, Zenon
<1>8. row.employee = sess[s].employee =>
        [x \in Sessions |-> sess'[x].employee] = [x \in Sessions |-> sess[x].employee]
  BY <1>2
<1>9. {x \in Sessions : ~sess'[x].about}
        \in {{x \in Sessions : ~sess[x].about} \ {s},
             {x \in Sessions : ~sess[x].about} \cup {s}}
  BY <1>4, Zenon
<1> QED
  BY <1>5, <1>6, <1>7, <1>8, <1>9, Zenon

LEMMA DeskSame == UNCHANGED sess => UNCHANGED Desk!vars
BY DEF Desk!vars

LEMMA DeskOpens ==
  ASSUME Inv, NEW p \in Requests, InsertSession(p)
  PROVE  \E s \in Sessions : Desk!Open(s)
<1>1. PICK s \in Sessions : ~Exists(s) /\ sess' = [sess EXCEPT ![s] = NewSession(req[p])]
  BY DEF InsertSession
<1>2. PICK row \in SessionRow :
        row = NewSession(req[p]) /\ row.status = "open" /\ row.employee = NULL
  BY NewSessionRow DEF Inv, TypeOK
<1>3. sess[s].status = "absent" /\ sess[s].employee = NULL
  BY <1>1 DEF Inv, Fresh, Exists
<1>4. Desk!Open(s)
  BY <1>1, <1>2, <1>3, DeskWrite DEF Desk!Open
<1> QED
  BY <1>4

LEMMA DeskTakes ==
  ASSUME Inv, NEW p \in Requests, Take(p)
  PROVE  UNCHANGED sess \/ \E s \in Sessions, u \in Staff : Desk!Take(u, s)
<1>1. PICK s \in Sessions, u \in Staff : /\ s = req[p].session /\ u = req[p].actor
                                         /\ sess[s].status # "absent"
  BY DEF Inv, Holds, Take
<1>2. CASE sess[s].employee = NULL
  <2>1. sess[s] \in SessionRow /\ sess \in [Sessions -> SessionRow]
    BY DEF Inv, TypeOK
  <2>2. PICK row : row = [sess[s] EXCEPT !.employee = u, !.status = "in_progress"]
    OBVIOUS
  <2>3. /\ row \in SessionRow /\ row.status = "in_progress" /\ row.employee = u
        /\ row.about = sess[s].about
    BY <2>1, <2>2 DEF SessionRow, DealStages
  <2>4. sess' = [sess EXCEPT ![s] = row]
    BY <1>1, <1>2, <2>1, <2>2 DEF Take
  <2>5. Desk!Take(u, s)
    BY <1>1, <1>2, <2>3, <2>4, DeskWrite DEF Desk!Take
  <2> QED
    BY <2>5
<1>3. CASE sess[s].employee # NULL
  BY <1>1, <1>3 DEF Take
<1> QED
  BY <1>2, <1>3

LEMMA DeskCloses ==
  ASSUME Inv, NEW p \in Requests, CloseSession(p)
  PROVE  \E s \in Sessions, u \in Staff : Desk!Close(u, s)
<1>1. PICK s \in Sessions, u \in Staff : /\ s = req[p].session /\ u = req[p].actor
                                         /\ sess[s].status # "absent"
                                         /\ Entitled(u, s)
  BY DEF Inv, Holds, CloseSession
<1>2. sess[s] \in SessionRow /\ sess \in [Sessions -> SessionRow]
  BY DEF Inv, TypeOK
<1>3. PICK row : row = [sess[s] EXCEPT !.status = "close"]
  OBVIOUS
<1>4. /\ row \in SessionRow /\ row.status = "close" /\ row.employee = sess[s].employee
      /\ row.about = sess[s].about
  BY <1>2, <1>3 DEF SessionRow, DealStages
<1>5. sess' = [sess EXCEPT ![s] = row]
  BY <1>1, <1>2, <1>3 DEF CloseSession
<1>6. Desk!MayClose(u, s)
  BY <1>1 DEF Entitled, Desk!MayClose
<1>7. Desk!Close(u, s)
  BY <1>1, <1>4, <1>5, <1>6, DeskWrite DEF Desk!Close
<1> QED
  BY <1>7

LEMMA DeskStages ==
  ASSUME Inv, NEW p \in Requests, DealCommits(p)
  PROVE  \E s \in Sessions : Desk!Stage(s)
<1>1. PICK s \in Sessions, to \in DealStages :
        Exists(s) /\ sess' = [sess EXCEPT ![s].status = to]
  BY DEF DealCommits
<1>2. sess[s] \in SessionRow /\ sess \in [Sessions -> SessionRow]
  BY DEF Inv, TypeOK
<1>3. PICK row : row = [sess[s] EXCEPT !.status = to]
  OBVIOUS
<1>4. /\ row \in SessionRow /\ row.status = to /\ row.employee = sess[s].employee
      /\ row.about = sess[s].about
  BY <1>2, <1>3 DEF SessionRow, DealStages
<1>5. sess' = [sess EXCEPT ![s] = row]
  BY <1>1, <1>2, <1>3
<1>6. Desk!Stage(s)
  BY <1>1, <1>4, <1>5, DeskWrite DEF Desk!Stage, Desk!DealStages, DealStages, Exists
<1> QED
  BY <1>6

LEMMA DeskHides ==
  ASSUME Inv, NEW u \in Users, NEW s \in Sessions, DeleteSessionForUser(u, s)
  PROVE  UNCHANGED Desk!vars
BY DEF Inv, TypeOK, SessionRow, DeleteSessionForUser, Desk!vars

LEMMA DeskGeneralises ==
  ASSUME Inv, NEW s \in Sessions, DeleteApartment(s)
  PROVE  Desk!Generalise(s)
BY DEF Inv, TypeOK, SessionRow, DeleteApartment, Desk!Generalise

LEMMA DeskStep == Inv /\ [Next]_vars => [Desk!Next]_(Desk!vars)
<1> SUFFICES ASSUME Inv, [Next]_vars PROVE Desk!Next \/ UNCHANGED Desk!vars
  OBVIOUS
<1>1. ASSUME NEW p \in Requests, RequestStep(p) PROVE Desk!Next \/ UNCHANGED Desk!vars
  <2>1. CASE UNCHANGED sess
    BY <2>1, DeskSame
  <2> QED
    BY <1>1, <2>1, OtherSteps, DeskOpens, DeskTakes, DeskCloses, DeskStages
    DEF SessionStep, Desk!Next, Desk!Staff, Staff
<1> QED
  BY <1>1, DeskHides, DeskGeneralises, DeskSame DEF Next, vars, Desk!Next

\* The handlers, which check and later write, implement the desk: sessions are
\* assigned once and closed by their employee or a supervisor.
THEOREM DeskKept == Spec => KeepsDesk
BY InvInit, InvNext, DeskInit, DeskStep, PTL DEF Spec, KeepsDesk, Desk!Spec
--------------------------------------------------------------------------------
(* What staff can rely on.                                                   *)

LEMMA DeskInitHolds == Desk!Init => Desk!TypeOK /\ Desk!QueueIsUnassigned
BY DEF Desk!Init, Desk!TypeOK, Desk!QueueIsUnassigned, Desk!Stages

LEMMA DeskStepHolds ==
  ASSUME Desk!TypeOK, Desk!QueueIsUnassigned, [Desk!Next]_(Desk!vars)
  PROVE  Desk!TypeOK' /\ Desk!QueueIsUnassigned'
<1> USE DEF Desk!TypeOK, Desk!QueueIsUnassigned
<1>1. ASSUME NEW s \in Sessions, Desk!Open(s)
      PROVE  Desk!TypeOK' /\ Desk!QueueIsUnassigned'
  BY <1>1 DEF Desk!Open, Desk!Stages
<1>2. ASSUME NEW s \in Sessions, Desk!Generalise(s)
      PROVE  Desk!TypeOK' /\ Desk!QueueIsUnassigned'
  BY <1>2 DEF Desk!Generalise
<1>3. ASSUME NEW s \in Sessions, Desk!Stage(s)
      PROVE  Desk!TypeOK' /\ Desk!QueueIsUnassigned'
  BY <1>3 DEF Desk!Stage, Desk!Stages, Desk!DealStages
<1>4. ASSUME NEW s \in Sessions, NEW u \in Desk!Staff, Desk!Take(u, s)
      PROVE  Desk!TypeOK' /\ Desk!QueueIsUnassigned'
  <2>1. Desk!TypeOK'
    BY <1>4 DEF Desk!Take, Desk!Stages, Desk!DealStages
  <2>2. sess'[s].status = "in_progress" /\ \A t \in Sessions \ {s} : sess'[t].status = sess[t].status
    BY <1>4 DEF Desk!Take
  <2>3. \A t \in Sessions \ {s} : sess'[t].employee = sess[t].employee
    BY <1>4 DEF Desk!Take
  <2>4. \A t \in Sessions : sess'[t].status \in {"absent", "open"} => sess'[t].employee = NULL
    BY <2>2, <2>3
  <2> QED
    BY <2>1, <2>4
<1>5. ASSUME NEW s \in Sessions, NEW u \in Desk!Staff, Desk!Close(u, s)
      PROVE  Desk!TypeOK' /\ Desk!QueueIsUnassigned'
  BY <1>5 DEF Desk!Close, Desk!Stages, Desk!DealStages
<1>6. CASE UNCHANGED Desk!vars
  BY <1>6 DEF Desk!vars
<1>7. CASE Desk!Next
  <2>1. PICK s \in Sessions : \/ Desk!Open(s) \/ Desk!Generalise(s) \/ Desk!Stage(s)
                              \/ \E u \in Desk!Staff : Desk!Take(u, s) \/ Desk!Close(u, s)
    BY <1>7, Zenon DEF Desk!Next
  <2> HIDE DEF Desk!TypeOK, Desk!QueueIsUnassigned
  <2> QED
    BY <2>1, <1>1, <1>2, <1>3, <1>4, <1>5, Zenon
<1> HIDE DEF Desk!TypeOK, Desk!QueueIsUnassigned
<1> QED
  BY <1>6, <1>7, Zenon

\* Types, and a queue of open sessions that nobody works on yet: what the list
\* of open sessions shows staff is free to be taken.
THEOREM QueueAlwaysUnassigned == Spec => [](Desk!TypeOK /\ Desk!QueueIsUnassigned)
<1>1. Desk!TypeOK /\ Desk!QueueIsUnassigned /\ [Desk!Next]_(Desk!vars) => (Desk!TypeOK /\ Desk!QueueIsUnassigned)'
  BY DeskStepHolds
<1> QED
  BY DeskInitHolds, <1>1, DeskKept, PTL DEF KeepsDesk, Desk!Spec

\* Who works on a session is decided once: takes that race have one winner.
THEOREM AlwaysAssignedOnce ==
  Spec => [][\A s \in Sessions : sess[s].employee # NULL => sess'[s].employee = sess[s].employee]_vars
<1>1. Inv /\ [Next]_vars =>
        [\A s \in Sessions : sess[s].employee # NULL => sess'[s].employee = sess[s].employee]_vars
  <2> SUFFICES ASSUME Inv, [Next]_vars
               PROVE  \A s \in Sessions : sess[s].employee # NULL => sess'[s].employee = sess[s].employee
    OBVIOUS
  <2> QED
    BY SessionsSteady DEF Steady, Inv, Fresh
<1> QED
  BY InvInit, InvNext, <1>1, PTL DEF Spec
==================================================================================
