------------------------- MODULE MCBatchPreparation -------------------------
(* Model-checking instances of BatchPreparation.  Requests are numbered. *)
EXTENDS BatchPreparation

\* Requests 1 and 2 were inserted by one transaction.  1, 2 and 3 together are within
\* every limit but that of two records, 1 and 2 exceed an override of 2 tokens, 4 has a
\* model of its own and more tokens than that override allows, and 5 leaves no byte of
\* four to another request.
MCModelOf   == [r \in Requests |-> IF r = 4 THEN "embedding" ELSE "chat"]
MCTokensOf  == [r \in Requests |-> <<1, 2, 0, 3, 0>>[r]]
MCBytesOf   == [r \in Requests |-> IF r = 5 THEN 4 ELSE 1]
MCCreatedAt == [r \in Requests |-> IF r <= 2 THEN 1 ELSE r]

Symmetry == Permutations(Workers)
=============================================================================
