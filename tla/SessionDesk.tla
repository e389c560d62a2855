------------------------------ MODULE SessionDesk -------------------------------
(***************************************************************************)
(* What staff can rely on about the chat sessions they work on, whatever   *)
(* the handlers, goroutines and deals behind it: a session is assigned     *)
(* once, only its employee or a supervisor closes it, and everything else  *)
(* that moves it is a deal.  ChatSessions and DealBooking both implement   *)
(* this specification.                                                     *)
(***************************************************************************)
CONSTANTS
  Managers, Supervisors,
  Sessions,
  NULL

Staff == Managers \cup Supervisors

\* The stages a transaction on a deal puts its session in.
DealStages == {"pending_approval", "contract", "in_progress", "close"}

Stages == {"absent", "open"} \cup DealStages

VARIABLES
  status,    \* the stage of each session
  employee,  \* who works on it
  general    \* the sessions that are about no apartment

vars == <<status, employee, general>>

Init ==
  /\ status \in [Sessions -> {"absent", "open"}]
  /\ employee = [s \in Sessions |-> NULL]
  /\ general \in SUBSET Sessions

\* A session is opened, about an apartment or not.
Open(s) ==
  /\ status[s] = "absent"
  /\ status' = [status EXCEPT ![s] = "open"]
  /\ general' \in {general \ {s}, general \cup {s}}
  /\ UNCHANGED employee

\* Its apartment is withdrawn from the catalogue.
Generalise(s) ==
  /\ general' = general \cup {s}
  /\ UNCHANGED <<status, employee>>

Take(u, s) ==
  /\ status[s] # "absent"
  /\ employee[s] = NULL
  /\ employee' = [employee EXCEPT ![s] = u]
  /\ status' = [status EXCEPT ![s] = "in_progress"]
  /\ UNCHANGED general

MayClose(u, s) == u \in Supervisors \/ s \in general \/ employee[s] = u

Close(u, s) ==
  /\ status[s] # "absent"
  /\ MayClose(u, s)
  /\ status' = [status EXCEPT ![s] = "close"]
  /\ UNCHANGED <<employee, general>>

\* A deal about the session is committed.
Stage(s) ==
  /\ status[s] # "absent"
  /\ \E to \in DealStages : status' = [status EXCEPT ![s] = to]
  /\ UNCHANGED <<employee, general>>

Next ==
  \E s \in Sessions :
    \/ Open(s) \/ Generalise(s) \/ Stage(s)
    \/ \E u \in Staff : Take(u, s) \/ Close(u, s)

Spec == Init /\ [][Next]_vars

--------------------------------------------------------------------------------
(* Properties. *)

\* Every session has a stage, an employee or none, and is general or not.
TypeOK ==
  /\ status \in [Sessions -> Stages]
  /\ employee \in [Sessions -> Staff \cup {NULL}]
  /\ general \subseteq Sessions

\* The queue of open sessions holds none that somebody already works on.
QueueIsUnassigned ==
  \A s \in Sessions : status[s] \in {"absent", "open"} => employee[s] = NULL

\* Who works on a session is decided once.
AssignedOnce ==
  [][\A s \in Sessions : employee[s] # NULL => employee'[s] = employee[s]]_vars
================================================================================
