------------------------ MODULE MCResultApplication ------------------------
(* Model-checking instances of ResultApplication. *)
EXTENDS ResultApplication

Applying(level) == [isolation |-> level, directSaves |-> FALSE]

\* Hosts that save directly are checked at the weaker isolation level.
EveryDeployment ==
  {Applying("READ COMMITTED"), Applying("REPEATABLE READ"),
   [isolation |-> "READ COMMITTED", directSaves |-> TRUE]}
DefaultIsolation == {Applying("READ COMMITTED")}
=============================================================================
