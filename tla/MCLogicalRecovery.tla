-------------------------- MODULE MCLogicalRecovery --------------------------
(* Model-checking instance of LogicalRecovery. *)
EXTENDS LogicalRecovery
=============================================================================
