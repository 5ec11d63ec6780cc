-------------------------- MODULE MCRecoveryAdmission --------------------------
(***************************************************************************)
(* A small instance of RecoveryAdmission.  A routine condition uses both   *)
(* lanes, so its other bounds are smaller.                                 *)
(***************************************************************************)
EXTENDS RecoveryAdmission

BothKinds == {"routine", "complex"}
Revisions == [routine |-> 1, complex |-> 2]
Failures == [routine |-> 0, complex |-> 1]
OwnerResets == [routine |-> 0, complex |-> 1]

=============================================================================
