-------------------------- MODULE MCDiscountPolicies --------------------------
(***************************************************************************)
(* Instances of DiscountPolicies for TLC.                                  *)
(***************************************************************************)
EXTENDS DiscountPolicies, TLC

Symmetry == Permutations(Requests)
================================================================================
