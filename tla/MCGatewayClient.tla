--------------------------- MODULE MCGatewayClient ---------------------------
(* Model-checking instance of GatewayClient. *)
EXTENDS GatewayClient

Symmetry == Permutations(Tasks) \cup Permutations(ValidUrls) \cup Permutations(FernetKeys)
=============================================================================
