------------------------------ MODULE ChatSessions ------------------------------
(***************************************************************************)
(* Chat sessions (applications and general questions), their messages, the *)
(* marks of what was read, and rejections.                                 *)
(*                                                                         *)
(* Both Go servers run these handlers: staff may also call the endpoints   *)
(* of user_server.  A handler reads the session, decides whether its user  *)
(* may do what he asks, and only later runs the statement that does it.    *)
(* A member of Requests is the goroutine of one request.                   *)
(***************************************************************************)
EXTENDS Integers

CONSTANTS
  Clients, Managers, Supervisors,  \* the users, by role
  Creators,                        \* who creates sessions; NULL stands for guests
  Sessions,                        \* a pool of session ids
  Messages,                        \* a pool of message ids
  Requests,                        \* the goroutines
  NULL                             \* SQL's NULL

Staff == Managers \cup Supervisors
Users == Clients \cup Staff

ASSUME UsersAssumption ==
  /\ Clients \cap Staff = {}
  /\ Managers \cap Supervisors = {}
  /\ Creators \subseteq Users \cup {NULL}

ASSUME NullAssumption == NULL \notin Users \cup Sessions

VARIABLES
  sess,      \* the rows of chat_sessions
  msgs,      \* the rows of messages
  rejected,  \* chat_session_rejections, as pairs of session and employee
  req,       \* the goroutines
  asked      \* history: who was given the list of a session's messages

vars == <<sess, msgs, rejected, req, asked>>

--------------------------------------------------------------------------------
(* The rows and the goroutines. *)

DealStages == {"pending_approval", "contract", "in_progress", "close"}

SessionRow ==
  [status   : {"absent", "open"} \cup DealStages,
   client   : Users \cup {NULL},     \* NULL: a guest
   employee : Staff \cup {NULL},
   about    : BOOLEAN,               \* id_apartment is set
   hidden   : BOOLEAN]               \* deleted_by_user

NoSession ==
  [status |-> "absent", client |-> NULL, employee |-> NULL, about |-> FALSE, hidden |-> FALSE]

MessageRow ==
  [session : Sessions \cup {NULL},   \* NULL: not inserted yet
   author  : Users \cup {NULL},
   sender  : {"client", "manager", "system"},
   read    : BOOLEAN]

NoMessage == [session |-> NULL, author |-> NULL, sender |-> "client", read |-> FALSE]

Request ==
  [pc      : {"idle", "find", "create", "say", "list", "mark", "take", "reject", "close"},
   actor   : Users \cup {NULL},
   session : Sessions \cup {NULL},
   sender  : {"client", "manager", "system"},
   about   : BOOLEAN,
   says    : BOOLEAN]

Idle ==
  [pc |-> "idle", actor |-> NULL, session |-> NULL, sender |-> "client",
   about |-> FALSE, says |-> FALSE]

Exists(s) == sess[s].status # "absent"
Sent(m) == msgs[m].session # NULL

Become(p, r) == req' = [req EXCEPT ![p] = r]

--------------------------------------------------------------------------------
(* Who may read and who may work on a session. *)

CanReadSession(u, s) ==
  \/ u \in Supervisors
  \/ u \in Managers /\ sess[s].employee \in {NULL, u}
  \/ u \in Clients /\ sess[s].client = u

\* Variant: any manager may work on a session once somebody took it.
CanManageTakenSession(u, s) ==
  \/ u \in Supervisors
  \/ u \in Managers /\ (~sess[s].about \/ sess[s].employee # NULL)

CanManageSession(u, s) ==
  \/ u \in Supervisors
  \/ u \in Managers /\ (~sess[s].about \/ sess[s].employee = u)

--------------------------------------------------------------------------------
(* CreateSession: a general question of a known user continues his own open one. *)

StartCreate(p) ==
  /\ req[p].pc = "idle"
  /\ \E u \in Creators, about, says \in BOOLEAN :
       Become(p, [Idle EXCEPT !.pc = IF u # NULL /\ ~about THEN "find" ELSE "create",
                              !.actor = u, !.about = about, !.says = says])
  /\ UNCHANGED <<sess, msgs, rejected, asked>>

\* Variant: the open general sessions of everybody are listed.
AnyGeneralSessions(u) ==
  {s \in Sessions : /\ Exists(s) /\ ~sess[s].hidden
                    /\ ~sess[s].about /\ sess[s].status # "close"}

GeneralSessions(u) ==
  {s \in Sessions : /\ Exists(s) /\ sess[s].client = u /\ ~sess[s].hidden
                    /\ ~sess[s].about /\ sess[s].status # "close"}

\* A list that fails is taken for an empty one.
FindGeneral(p) ==
  /\ req[p].pc = "find"
  /\ \/ \E s \in GeneralSessions(req[p].actor) :
          Become(p, IF req[p].says THEN [req[p] EXCEPT !.pc = "say", !.session = s] ELSE Idle)
     \/ GeneralSessions(req[p].actor) = {} /\ Become(p, [req[p] EXCEPT !.pc = "create"])
     \/ Become(p, [req[p] EXCEPT !.pc = "create"])
  /\ UNCHANGED <<sess, msgs, rejected, asked>>

\* Variant: the two user columns are swapped.
NewSessionSwapped(r) ==
  [NoSession EXCEPT !.status = "open", !.employee = r.actor, !.about = r.about]

NewSession(r) ==
  [NoSession EXCEPT !.status = "open", !.client = r.actor, !.about = r.about]

InsertSession(p) ==
  /\ req[p].pc = "create"
  /\ \E s \in Sessions :
       /\ ~Exists(s)
       /\ sess' = [sess EXCEPT ![s] = NewSession(req[p])]
       /\ Become(p, IF req[p].says THEN [req[p] EXCEPT !.pc = "say", !.session = s] ELSE Idle)
  /\ UNCHANGED <<msgs, rejected, asked>>

--------------------------------------------------------------------------------
(* SendMessage and GetMessages. *)

StartSend(p) ==
  /\ req[p].pc = "idle"
  /\ \E u \in Users, s \in Sessions :
       /\ Exists(s)
       /\ CanReadSession(u, s)
       /\ u \in Staff => CanManageSession(u, s)
       /\ Become(p, [Idle EXCEPT !.pc = "say", !.actor = u, !.session = s,
                                 !.sender = IF u \in Staff THEN "manager" ELSE "client"])
  /\ UNCHANGED <<sess, msgs, rejected, asked>>

\* One INSERT, whichever handler makes it.
Say(p) ==
  /\ req[p].pc = "say"
  /\ \E m \in Messages :
       /\ ~Sent(m)
       /\ msgs' = [msgs EXCEPT ![m] = [session |-> req[p].session, author |-> req[p].actor,
                                       sender |-> req[p].sender, read |-> FALSE]]
  /\ Become(p, Idle)
  /\ UNCHANGED <<sess, rejected, asked>>

StartRead(p) ==
  /\ req[p].pc = "idle"
  /\ \E u \in Users, s \in Sessions :
       /\ Exists(s)
       /\ CanReadSession(u, s)
       /\ Become(p, [Idle EXCEPT !.pc = "list", !.actor = u, !.session = s])
  /\ UNCHANGED <<sess, msgs, rejected, asked>>

ListMessages(p) ==
  /\ req[p].pc = "list"
  /\ asked' = [asked EXCEPT ![req[p].session] = @ \cup {req[p].actor}]
  /\ Become(p, [req[p] EXCEPT !.pc = "mark"])
  /\ UNCHANGED <<sess, msgs, rejected>>

\* Variant: the reader's own messages are marked too.
MarkedByAnyReader(m, s, u) == msgs[m].session = s

\* What the UPDATE marks: what the session holds by now, not what was listed.
MarkedBy(m, s, u) == msgs[m].session = s /\ msgs[m].author # u

MarkMessagesAsRead(p) ==
  /\ req[p].pc = "mark"
  /\ msgs' = [m \in Messages |->
                IF MarkedBy(m, req[p].session, req[p].actor)
                THEN [msgs[m] EXCEPT !.read = TRUE] ELSE msgs[m]]
  /\ Become(p, Idle)
  /\ UNCHANGED <<sess, rejected, asked>>

--------------------------------------------------------------------------------
(* TakeSession, CloseSession, RejectSession, and deals about the session. *)

StartTake(p) ==
  /\ req[p].pc = "idle"
  /\ \E u \in Staff, s \in Sessions :
       /\ Exists(s)
       /\ sess[s].about
       /\ sess[s].employee = NULL
       /\ Become(p, [Idle EXCEPT !.pc = "take", !.actor = u, !.session = s])
  /\ UNCHANGED <<sess, msgs, rejected, asked>>

\* Variant: the statement relies on what the handler read.
TakeUnconditionally(p) ==
  /\ req[p].pc = "take"
  /\ sess' = [sess EXCEPT ![req[p].session].employee = req[p].actor,
                          ![req[p].session].status = "in_progress"]
  /\ Become(p, Idle)
  /\ UNCHANGED <<msgs, rejected, asked>>

\* The statement has its own condition; without a row the caller gets an error.
Take(p) ==
  /\ req[p].pc = "take"
  /\ IF sess[req[p].session].employee = NULL
     THEN sess' = [sess EXCEPT ![req[p].session].employee = req[p].actor,
                               ![req[p].session].status = "in_progress"]
     ELSE UNCHANGED sess
  /\ Become(p, Idle)
  /\ UNCHANGED <<msgs, rejected, asked>>

StartClose(p) ==
  /\ req[p].pc = "idle"
  /\ \E u \in Staff, s \in Sessions, pc \in {"close", "reject"} :
       /\ Exists(s)
       /\ CanManageSession(u, s)
       /\ Become(p, [Idle EXCEPT !.pc = pc, !.actor = u, !.session = s])
  /\ UNCHANGED <<sess, msgs, rejected, asked>>

\* The rejection is a statement of its own; the close that follows may fail.
Reject(p) ==
  /\ req[p].pc = "reject"
  /\ rejected' = rejected \cup {<<req[p].session, req[p].actor>>}
  /\ Become(p, [req[p] EXCEPT !.pc = "close"])
  /\ UNCHANGED <<sess, msgs, asked>>

CloseSession(p) ==
  /\ req[p].pc = "close"
  /\ sess' = [sess EXCEPT ![req[p].session].status = "close"]
  /\ Become(p, Idle)
  /\ UNCHANGED <<msgs, rejected, asked>>

\* A request about a deal of the session's client commits: the session follows
\* the deal, in any order of its moves, and a system message goes after it.
DealCommits(p) ==
  /\ req[p].pc = "idle"
  /\ \E s \in Sessions, to \in DealStages :
       /\ Exists(s) /\ sess[s].client # NULL
       /\ sess' = [sess EXCEPT ![s].status = to]
       /\ Become(p, [Idle EXCEPT !.pc = "say", !.session = s, !.sender = "system"])
  /\ UNCHANGED <<msgs, rejected, asked>>

\* The client goes away, a statement fails or the server stops.
Abandon(p) ==
  /\ req[p].pc # "idle"
  /\ Become(p, Idle)
  /\ UNCHANGED <<sess, msgs, rejected, asked>>

--------------------------------------------------------------------------------
(* Handlers of one statement, and what else writes these tables. *)

\* A deleted session only leaves the client's list.
DeleteSessionForUser(u, s) ==
  /\ Exists(s) /\ sess[s].client = u
  /\ sess' = [sess EXCEPT ![s].hidden = TRUE]
  /\ UNCHANGED <<msgs, rejected, req, asked>>

\* The foreign key is ON DELETE SET NULL.
DeleteApartment(s) ==
  /\ Exists(s)
  /\ sess' = [sess EXCEPT ![s].about = FALSE]
  /\ UNCHANGED <<msgs, rejected, req, asked>>

--------------------------------------------------------------------------------
Init ==
  /\ sess = [s \in Sessions |-> NoSession]
  /\ msgs = [m \in Messages |-> NoMessage]
  /\ rejected = {}
  /\ req = [p \in Requests |-> Idle]
  /\ asked = [s \in Sessions |-> {}]

RequestStep(p) ==
  \/ StartCreate(p) \/ FindGeneral(p) \/ InsertSession(p)
  \/ StartSend(p) \/ Say(p)
  \/ StartRead(p) \/ ListMessages(p) \/ MarkMessagesAsRead(p)
  \/ StartTake(p) \/ Take(p)
  \/ StartClose(p) \/ Reject(p) \/ CloseSession(p)
  \/ DealCommits(p)
  \/ Abandon(p)

Next ==
  \/ \E p \in Requests : RequestStep(p)
  \/ \E u \in Users, s \in Sessions : DeleteSessionForUser(u, s)
  \/ \E s \in Sessions : DeleteApartment(s)

Spec == Init /\ [][Next]_vars

--------------------------------------------------------------------------------
(* Properties. *)

\* Every row and every goroutine is of its type.
TypeOK ==
  /\ sess \in [Sessions -> SessionRow]
  /\ msgs \in [Messages -> MessageRow]
  /\ rejected \subseteq Sessions \X Staff
  /\ req \in [Requests -> Request]
  /\ asked \in [Sessions -> SUBSET Users]

\* The right of CanManageSession, as it stands now.
Entitled(u, s) == u \in Supervisors \/ ~sess[s].about \/ sess[s].employee = u

\* In an application about an apartment staff speak, and reject, only as its
\* employee or as a supervisor, although the right is checked on a session read
\* before the statement and sessions are taken and lose apartments in between.
StaffActWhereEntitled ==
  /\ \A m \in Messages : msgs[m].sender = "manager" => Entitled(msgs[m].author, msgs[m].session)
  /\ \A r \in rejected : Entitled(r[2], r[1])

\* A client's words are in a session of his own, and the words of a guest in a
\* guest's, also when creating a session continues one found by a list.
ClientsSpeakInTheirOwn ==
  \A m \in Messages : Sent(m) /\ msgs[m].sender = "client" =>
    msgs[m].author = sess[msgs[m].session].client

\* A message is marked read only when the messages of its session were given
\* to somebody who did not write it: no interleaving of readers and writers of
\* a session marks a message on behalf of its author alone.
MarkedByAnother ==
  \A m \in Messages : msgs[m].read =>
    \E u \in asked[msgs[m].session] : u # msgs[m].author

\* The handlers, which check first and write later, keep what staff rely on.
Desk ==
  INSTANCE SessionDesk WITH
    status <- [s \in Sessions |-> sess[s].status],
    employee <- [s \in Sessions |-> sess[s].employee],
    general <- {s \in Sessions : ~sess[s].about}

KeepsDesk == Desk!Spec
================================================================================
