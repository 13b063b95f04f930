----------------------- MODULE MCRemoteBatchLifecycle -----------------------
(* Model-checking instances of RemoteBatchLifecycle. *)
EXTENDS RemoteBatchLifecycle, TLC

\* Clients and clock readings are interchangeable: nothing compares two readings.
Symmetry == Permutations(Clients) \cup Permutations(Times)
=============================================================================
