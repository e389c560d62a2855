----------------------------- MODULE StaffReminders -----------------------------
(***************************************************************************)
(* The accounts, and the reminders that staff leave each other             *)
(* (backend/internal/handler/reminder.go, repository/reminder.go,          *)
(* migration 000008).                                                      *)
(*                                                                         *)
(* Every operation is one statement.  Nothing but the role in a token says *)
(* who may leave a reminder to whom and who may complete it: the handler   *)
(* of a creation and the statement of a completion each look at it.  The   *)
(* title, the date and the deal of a reminder are left out.                *)
(***************************************************************************)
EXTENDS Accounts

CONSTANT Reminders    \* pool of ids of the table staff_reminders

VARIABLES
  reminders,    \* reminders[r]: row of table staff_reminders, or NULL
  doneBy        \* history: doneBy[r], who was answered that r is completed

reminderVars == <<reminders, doneBy>>
vars == <<accountVars, reminderVars>>

ReminderRows == [assignedTo : Users, createdBy : Users, completed : BOOLEAN]

ASSUME NullIsNoReminder == NULL \notin ReminderRows

Left == {r \in Reminders : reminders[r] # NULL}

\* Rows with their types and foreign keys.
TypeOK ==
  /\ AccountTypeOK
  /\ reminders \in [Reminders -> [assignedTo : Known, createdBy : Known, completed : BOOLEAN] \cup {NULL}]
  /\ doneBy \in [Reminders -> SUBSET Known]

Init ==
  /\ AccountInit
  /\ reminders = [r \in Reminders |-> NULL]
  /\ doneBy = [r \in Reminders |-> {}]
--------------------------------------------------------------------------------
\* A manager's reminders are his own; a supervisor names an account, or means himself.
Assignee(t, asked) == IF RequireSupervisorRole(t) /\ asked # NULL THEN asked ELSE t.user

\* The foreign key refuses an unknown account; it may be a client's.
CreateReminder(r, t, asked) ==
  /\ AuthMiddleware(t) /\ RequireStaffRole(t)
  /\ r \notin Left
  /\ Assignee(t, asked) \in Known
  /\ reminders' = [reminders EXCEPT ![r] = [assignedTo |-> Assignee(t, asked), createdBy |-> t.user, completed |-> FALSE]]
  /\ UNCHANGED <<accountVars, doneBy>>

\* The rows a completion matches.
Completable(t) ==
  {r \in Left : ~ reminders[r].completed /\ (reminders[r].assignedTo = t.user \/ RequireSupervisorRole(t))}

CompleteReminder(r, t) ==
  /\ AuthMiddleware(t) /\ RequireStaffRole(t)
  /\ r \in Completable(t)
  /\ reminders' = [reminders EXCEPT ![r].completed = TRUE]
  /\ doneBy' = [doneBy EXCEPT ![r] = @ \cup {t.user}]
  /\ UNCHANGED accountVars

Next ==
  \/ AccountNext /\ UNCHANGED reminderVars
  \/ \E r \in Reminders, t \in signed :
       CompleteReminder(r, t) \/ (\E u \in Users \cup {NULL} : CreateReminder(r, t, u))

Spec == Init /\ [][Next]_vars
--------------------------------------------------------------------------------
\* What staff do to each other's lists is a supervisor's doing, by the account as it is
\* and not only by the token: a reminder left to another account was left by a
\* supervisor; a completed one was completed once, by its assignee or a supervisor
\* (handler/reminder.go:41, repository/reminder.go:41).
ListsAreGuarded ==
  \A r \in Left :
    LET row == reminders[r] IN
    /\ row.createdBy = row.assignedTo \/ users[row.createdBy].role = "supervisor"
    /\ row.completed <=> doneBy[r] # {}
    /\ \A u, v \in doneBy[r] : u = v /\ (u = row.assignedTo \/ users[u].role = "supervisor")

\* What only a supervisor may do was done by one, however requests and tokens
\* interleave: accounts got their roles from one, and so did other people's lists.
SupervisorsDoing == RolesAreGranted /\ ListsAreGuarded
================================================================================
