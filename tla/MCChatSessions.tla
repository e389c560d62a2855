----------------------------- MODULE MCChatSessions -----------------------------
(***************************************************************************)
(* An instance of ChatSessions for TLC.                                    *)
(***************************************************************************)
EXTENDS ChatSessions, TLC

Symmetry ==
  Permutations(Clients) \cup Permutations(Managers) \cup Permutations(Messages)
    \cup Permutations(Requests)
================================================================================
