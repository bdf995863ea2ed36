------------------------------ MODULE MCAdmission ------------------------------
(***************************************************************************)
(* Admission with the two modes of the enum.                               *)
(***************************************************************************)
EXTENDS Admission

FairSpec == Spec /\ Fairness

===============================================================================
