-------------------------- MODULE MCReconciliation --------------------------
(* Model-checking instance of Reconciliation. *)
EXTENDS Reconciliation
=============================================================================
