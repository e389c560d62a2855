----------------------------- MODULE MCDealBooking -----------------------------
(***************************************************************************)
(* Instances of DealBooking for TLC.                                       *)
(***************************************************************************)
EXTENDS DealBooking, TLC

\* Every session belongs to one client, taken in turn from the set.
OneClient == [s \in Sessions |-> CHOOSE c \in Clients : TRUE]

\* The service accepts every change of status.
AllMoves == DealStatus \X DealStatus

\* Callers that treat cancelled and completed as final.
ForwardMoves ==
  {<<"pending", "contract">>, <<"pending", "cancelled">>,
   <<"contract", "completed">>, <<"contract", "cancelled">>}

\* Changes of the terms of a deal while it is negotiated, and its withdrawal.
Terms ==
  {<<"pending", "pending">>, <<"pending", "contract">>, <<"contract", "pending">>,
   <<"pending", "cancelled">>}

Symmetry == Permutations(Deals) \cup Permutations(Requests)
WithManagers == Symmetry \cup Permutations(Managers)

\* Nothing reads the notification and message logs: runs whose properties do
\* not name them identify states that differ only there.
WithoutLogs == <<dbVars, req, edited, pricedBy, inForce>>

\* No supervisor takes part in the run with Terms: nothing reads the policies
\* of supervisors there, and states that differ only in them are one.
ManagersOnly ==
  <<aptStatus, aptPrice, sessStatus, sessEmployee, deals,
    [a \in Apartments |-> policy[a].manager], logVars, req, edited, pricedBy,
    [a \in Apartments |-> inForce[a].manager], reached>>
================================================================================
