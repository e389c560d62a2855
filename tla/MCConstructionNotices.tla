------------------------- MODULE MCConstructionNotices -------------------------
(***************************************************************************)
(* Instances of ConstructionNotices for TLC.                               *)
(***************************************************************************)
EXTENDS ConstructionNotices, TLC

\* One client and one apartment: a deal may end and the next one follow.
OneClient == [d \in Deals |-> CHOOSE c \in Clients : TRUE]
OneApartment == [d \in Deals |-> CHOOSE a \in Apartments : TRUE]

\* In plan, with the days left out and with none, and late.
Reports ==
  {[status |-> "in_progress", riskLevel |-> "low", delayDays |-> NULL],
   [status |-> "in_progress", riskLevel |-> "low", delayDays |-> 0],
   [status |-> "delayed", riskLevel |-> "high", delayDays |-> 5]}

\* A deal is signed, falls through and is taken up again.
Cycle == {<<"pending", "contract">>, <<"contract", "cancelled">>, <<"cancelled", "pending">>}
================================================================================
