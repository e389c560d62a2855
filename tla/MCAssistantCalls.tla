--------------------------- MODULE MCAssistantCalls ---------------------------
(***************************************************************************)
(* Instances of AssistantCalls for TLC: a client and the manager of his    *)
(* deal share one session.                                                 *)
(***************************************************************************)
EXTENDS AssistantCalls

CONSTANTS client, manager, stranger, first

\* One of the requests is the client's.
ClientFirst == [c \in Requests |-> IF c = first THEN {client} ELSE Actors]

Roles == [a \in Actors |-> IF a = manager THEN "manager" ELSE "user"]
Shared == [s \in Sessions |-> [client |-> client, employee |-> manager, ofApartment |-> TRUE]]
TheirDeal == [d \in Deals |-> [employee |-> manager, session |-> CHOOSE s \in Sessions : TRUE]]
================================================================================
