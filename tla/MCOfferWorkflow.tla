---------------------------- MODULE MCOfferWorkflow -----------------------------
(***************************************************************************)
(* Instances of OfferWorkflow for TLC.                                     *)
(***************************************************************************)
EXTENDS OfferWorkflow, TLC

\* The deals, shared out among the managers.
OneManager == [d \in Deals |-> CHOOSE u \in Managers : TRUE]

\* Every request id belongs to one creation, by a manager or by a supervisor.
OwnIds ==
  LET owner == CHOOSE f \in [RequestIds -> [actor : Staff, deal : Deals]] :
                 \A u \in Staff : \E r \in RequestIds : f[r].actor = u
  IN {[request |-> r, actor |-> owner[r].actor, deal |-> owner[r].deal] : r \in RequestIds}

Symmetry == Permutations(Offers) \cup Permutations(Requests)
================================================================================
