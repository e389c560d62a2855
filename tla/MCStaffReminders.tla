---------------------------- MODULE MCStaffReminders ----------------------------
(***************************************************************************)
(* Instances of StaffReminders for TLC.                                    *)
(***************************************************************************)
EXTENDS StaffReminders, TLC

CONSTANTS boss, mate, bossMail, mateMail, freeMail, word, newcomer

\* The migration leaves a supervisor and a manager.
Seed(email, role) == [email |-> email, password |-> word, role |-> role, prefs |-> NoPreferences]
Seeds ==
  [u \in Users |->
     CASE u = boss -> Seed(bossMail, "supervisor")
       [] u = mate -> Seed(mateMail, "manager")
       [] OTHER -> NULL]

\* Whoever edits his account asks for the one free e-mail.
OneEdit == {[email |-> freeMail, password |-> NULL]}

OnlyTheNewcomer == {newcomer}

AnyRequest == Permutations(Requests)
================================================================================
