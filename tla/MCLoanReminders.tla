-------------------------- MODULE MCLoanReminders --------------------------
(***************************************************************************)
(* Instances of LoanReminders for TLC.                                     *)
(***************************************************************************)
EXTENDS LoanReminders

LiveSpec == Spec /\ Fairness
=============================================================================
