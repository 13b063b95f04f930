-------------------------- MODULE MCProviderPolling --------------------------
(* Model-checking instances of ProviderPolling. *)
EXTENDS ProviderPolling
=============================================================================
