--------------------------- MODULE BatchProjection ---------------------------
(***************************************************************************)
(* What llm_remote_batch_jobs promises its readers, without clients,       *)
(* sequences or providers: per batch, a projection whose version and       *)
(* progress only grow, and that settles at most once.                      *)
(***************************************************************************)
EXTENDS Integers

CONSTANTS Keys, Statuses, Final, Instants, NULL

VARIABLE proj   \* per key, the projection a reader sees, or NULL

Projection ==
  [version : Nat, status : Statuses, completed : Nat, failed : Nat,
   settled_at : Instants \cup {NULL}]

\* A projection is stamped exactly when it is final.
WellFormed(p) == p.settled_at # NULL <=> p.status \in Final

Init == proj = [k \in Keys |-> NULL]

\* The first observation of a batch, whatever its status.
Discover(k) ==
  /\ proj[k] = NULL
  /\ proj'[k] \in Projection /\ WellFormed(proj'[k])

Grows(p, q) ==
  /\ q.version > p.version
  /\ q.completed >= p.completed /\ q.failed >= p.failed

\* A batch that is still open may move to any status.
Observe(k) ==
  /\ proj[k] # NULL /\ proj[k].status \notin Final
  /\ proj'[k] \in Projection /\ WellFormed(proj'[k])
  /\ Grows(proj[k], proj'[k])

\* A final one gains detail only.
Enrich(k) ==
  /\ proj[k] # NULL /\ proj[k].status \in Final
  /\ proj'[k] \in Projection
  /\ Grows(proj[k], proj'[k])
  /\ proj'[k].status = proj[k].status /\ proj'[k].settled_at = proj[k].settled_at

\* One batch at a time: an observation never touches another key.
Next == \E k \in Keys :
  /\ Discover(k) \/ Observe(k) \/ Enrich(k)
  /\ DOMAIN proj' = Keys
  /\ \A j \in Keys \ {k} : proj'[j] = proj[j]

Spec == Init /\ [][Next]_proj
=============================================================================
