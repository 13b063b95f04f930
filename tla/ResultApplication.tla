-------------------------- MODULE ResultApplication --------------------------
(***************************************************************************)
(* Applying a streamed result file record by record: the durable           *)
(* checkpoint of one consumer and one batch (checkpoint_store.py), and the *)
(* helper that runs a local effect and advances the checkpoint in one      *)
(* PostgreSQL transaction (result_application.py).                         *)
(*                                                                         *)
(* Workers are hosts of the same logical consumer, such as a restarted     *)
(* process and the one it replaces.  Each resumes the stream from the      *)
(* durable checkpoint, applies records in order, and starts over at the    *)
(* first error.  A statement is one step; the row lock and the pending     *)
(* insert of the unique key are both `lock`.                               *)
(*                                                                         *)
(* The provider may serve different versions of the files.  A prefix hash  *)
(* is modelled by what it identifies: the version, once the prefix is      *)
(* longer than what the versions share.                                    *)
(***************************************************************************)
EXTENDS Integers, FiniteSets

CONSTANTS
  Workers,        \* hosts of one checkpoint consumer
  Versions,       \* contents the provider may serve
  Base,           \* names the prefix that all versions share
  NULL,           \* no row, nobody
  Records,        \* records in the stream
  ResultRecords,  \* of which the first ones are in the result file
  Common,         \* length of the shared prefix
  Deployments,    \* how hosts use the library, see Deployment
  MaxFaults       \* bound: crashes, failing effects and lost acknowledgements

\* The isolation level of their transactions, and whether they call save() on its
\* own, after records they handled elsewhere.
Deployment == [isolation : {"READ COMMITTED", "REPEATABLE READ"}, directSaves : BOOLEAN]

ASSUME ConstantsAssumption ==
  /\ Deployments \subseteq Deployment
  /\ Records \in Nat /\ ResultRecords \in 0 .. Records /\ Common \in 0 .. Records
  /\ MaxFaults \in Nat /\ NULL \notin Workers /\ Base \notin Versions

Positions == 1 .. Records

\* BatchResultCheckpoint: the record count, and what the prefix hash identifies.
Checkpoints == [count : Positions, prefix : Versions \cup {Base}]
ASSUME NullAssumption == NULL \notin Checkpoints

\* The checkpoint of record i in version v, and the file that record is in.
At(v, i)  == [count |-> i, prefix |-> IF i <= Common THEN Base ELSE v]
FileOf(i) == IF i <= ResultRecords THEN "result" ELSE "error"

VARIABLES
  deployment,  \* how the hosts of this behaviour use the library
  durable,     \* the committed row of llm_result_stream_checkpoints
  lock,        \* the transaction that holds the row, or its pending insert
  applied,     \* committed effects: how often each record's effect took place
  worker,      \* the state of each host
  faults       \* faults so far

vars == <<deployment, durable, lock, applied, worker, faults>>

RepeatableRead == deployment.isolation = "REPEATABLE READ"
DirectSaves    == deployment.directSaves

\* prev: the predecessor the transaction loaded; snap: the row its snapshot
\* shows (REPEATABLE READ); effect: has the transaction run the record's effect?
Busy == {"streaming", "loaded", "select", "insert", "saved"}
Idle == [phase |-> "idle"]
Worker ==
  [phase : Busy, version : Versions, pos : 1 .. Records + 1,
   prev : Checkpoints \cup {NULL}, snap : Checkpoints \cup {NULL}, effect : BOOLEAN]
  \cup {Idle}

TypeOK ==
  /\ deployment \in Deployments
  /\ durable \in Checkpoints \cup {NULL}
  /\ lock \in Workers \cup {NULL}
  /\ applied \in [Checkpoints -> Nat]
  /\ worker \in [Workers -> Worker]
  /\ faults \in 0 .. MaxFaults

Init ==
  /\ deployment \in Deployments
  /\ durable = NULL
  /\ lock = NULL
  /\ applied = [c \in Checkpoints |-> 0]
  /\ worker = [w \in Workers |-> Idle]
  /\ faults = 0

Candidate(w) == At(worker[w].version, worker[w].pos)

\* Mutant of Count: off by one.
CountPastEnd(c) == IF c = NULL THEN 0 ELSE c.count + 1

Count(c)       == IF c = NULL THEN 0 ELSE c.count
Release(w)     == lock' = IF lock = w THEN NULL ELSE lock
Goto(w, phase) == worker' = [worker EXCEPT ![w].phase = phase]
GiveUp(w)      == worker' = [worker EXCEPT ![w] = Idle]

\* load(), then open_checkpointed_batch_records(resume_after): the stream must
\* reproduce the checkpoint, or the host fails before it sees a record.
Resume(w, v) ==
  /\ worker[w] = Idle
  /\ durable # NULL => At(v, durable.count) = durable
  /\ worker' = [worker EXCEPT ![w] =
       [phase |-> "streaming", version |-> v, pos |-> Count(durable) + 1,
        prev |-> durable, snap |-> NULL, effect |-> FALSE]]
  /\ UNCHANGED <<deployment, durable, lock, applied, faults>>

\* The stream is exhausted.
Finish(w) ==
  /\ worker[w].phase = "streaming" /\ worker[w].pos > Records
  /\ GiveUp(w)
  /\ UNCHANGED <<deployment, durable, lock, applied, faults>>

\* BEGIN and load_in_transaction: a plain SELECT, which takes no lock.  A host
\* applies the record after the last one it has a checkpoint of.
Load(w) ==
  /\ worker[w].phase = "streaming" /\ worker[w].pos <= Records
  /\ worker[w].pos = Count(worker[w].prev) + 1
  /\ worker' = [worker EXCEPT ![w].phase = "loaded", ![w].prev = durable,
                              ![w].snap = durable, ![w].effect = FALSE]
  /\ UNCHANGED <<deployment, durable, lock, applied, faults>>

\* The predecessor must be in the file of the candidate.
SameFile(prev, c) == prev # NULL => FileOf(prev.count) = FileOf(c.count)

\* Mutant of Regresses: a record behind the checkpoint is accepted.
NeverRegresses(prev, c) == FALSE

\* Mutant of Regresses: off by one.
RegressesByOne(prev, c) == prev # NULL /\ c.count <= prev.count + 1

\* The candidate must be ahead of the predecessor.
Regresses(prev, c) == prev # NULL /\ c.count <= prev.count

\* ResultApplicationError("checkpoint_load") or CheckpointConflictError: the
\* transaction is rolled back and the host starts over.
RefuseRecord(w) ==
  /\ worker[w].phase = "loaded"
  /\ \/ ~SameFile(worker[w].prev, Candidate(w))
     \/ worker[w].prev # Candidate(w) /\ Regresses(worker[w].prev, Candidate(w))
  /\ GiveUp(w)
  /\ UNCHANGED <<deployment, durable, lock, applied, faults>>

\* An exact replay: applied is False and the effect does not run.
SkipReplay(w) ==
  /\ worker[w].phase = "loaded"
  /\ worker[w].prev = Candidate(w)
  /\ worker' = [worker EXCEPT ![w].phase = "streaming", ![w].pos = @ + 1]
  /\ UNCHANGED <<deployment, durable, lock, applied, faults>>

\* apply_record runs through the cursor capability and returns None.
RunEffect(w) ==
  /\ worker[w].phase = "loaded"
  /\ SameFile(worker[w].prev, Candidate(w))
  /\ worker[w].prev # Candidate(w) /\ ~Regresses(worker[w].prev, Candidate(w))
  /\ worker' = [worker EXCEPT ![w].phase = "select", ![w].effect = TRUE]
  /\ UNCHANGED <<deployment, durable, lock, applied, faults>>

\* The host handles a record elsewhere and saves no checkpoint for it.
ReadOn(w) ==
  /\ DirectSaves
  /\ worker[w].phase = "streaming" /\ worker[w].pos < Records
  /\ worker' = [worker EXCEPT ![w].pos = @ + 1]
  /\ UNCHANGED <<deployment, durable, lock, applied, faults>>

\* save() in a transaction of its own, against the checkpoint the host knows.
BeginSave(w) ==
  /\ DirectSaves
  /\ worker[w].phase = "streaming" /\ worker[w].pos <= Records
  /\ worker' = [worker EXCEPT ![w].phase = "select", ![w].snap = durable,
                              ![w].effect = FALSE]
  /\ UNCHANGED <<deployment, durable, lock, applied, faults>>

-----------------------------------------------------------------------------
(* save_in_transaction                                                     *)

\* REPEATABLE READ refuses a row that changed since the snapshot.
Serializable(w) == RepeatableRead => durable = worker[w].snap

\* Mutant of Swaps: no comparison with the expected predecessor.
SwapsUnchecked(prev, c) == prev # NULL /\ ~Regresses(durable, c)

\* The compare-and-swap, on a row that is locked.
Swaps(prev, c) == prev # NULL /\ durable = prev /\ ~Regresses(durable, c)

\* SELECT ... FOR UPDATE sees no row.  Another transaction's pending insert is
\* invisible and does not block.
SelectNone(w) ==
  /\ worker[w].phase = "select"
  /\ (IF RepeatableRead THEN worker[w].snap ELSE durable) = NULL
  /\ worker[w].prev = NULL
  /\ Goto(w, "insert")
  /\ UNCHANGED <<deployment, durable, lock, applied, faults>>

\* SELECT ... FOR UPDATE locks the row, waiting for the transaction that holds
\* it, and an exact repeat or a valid advance succeeds.
SelectRow(w) ==
  /\ worker[w].phase = "select"
  /\ durable # NULL /\ lock = NULL /\ Serializable(w)
  /\ durable = Candidate(w) \/ Swaps(worker[w].prev, Candidate(w))
  /\ lock' = w
  /\ Goto(w, "saved")
  /\ UNCHANGED <<deployment, durable, applied, faults>>

\* INSERT ... ON CONFLICT DO NOTHING, waiting for a pending insert of the key:
\* the key is free, or READ COMMITTED re-reads the winner and finds it identical.
Insert(w) ==
  /\ worker[w].phase = "insert"
  /\ lock = NULL
  /\ durable = NULL \/ (~RepeatableRead /\ durable = Candidate(w))
  /\ lock' = w
  /\ Goto(w, "saved")
  /\ UNCHANGED <<deployment, durable, applied, faults>>

\* CheckpointConflictError, or a serialization failure.
Conflict(w) ==
  /\ lock = NULL /\ durable # NULL
  /\ \/ /\ worker[w].phase = "select"
        /\ RepeatableRead => worker[w].snap # NULL
        /\ ~Serializable(w)
             \/ (durable # Candidate(w) /\ ~Swaps(worker[w].prev, Candidate(w)))
     \/ /\ worker[w].phase = "insert"
        /\ RepeatableRead \/ durable # Candidate(w)
  /\ GiveUp(w)
  /\ UNCHANGED <<deployment, durable, lock, applied, faults>>

\* Mutant of Committed: the effect is not part of the transaction.
CommittedAlone(w) ==
  /\ worker[w].phase = "saved"
  /\ durable' = Candidate(w)
  /\ UNCHANGED <<deployment, applied>>
  /\ Release(w)

\* COMMIT: the checkpoint, and the effect if there was one.
Committed(w) ==
  /\ worker[w].phase = "saved"
  /\ durable' = Candidate(w)
  /\ applied' = [applied EXCEPT ![Candidate(w)] = IF worker[w].effect THEN @ + 1 ELSE @]
  /\ Release(w)
  /\ UNCHANGED deployment

Commit(w) ==
  /\ Committed(w)
  /\ worker' = [worker EXCEPT ![w].phase = "streaming", ![w].pos = @ + 1,
                              ![w].prev = Candidate(w)]
  /\ UNCHANGED faults

\* The commit succeeds and the host never hears of it.
CommitUnacknowledged(w) ==
  /\ faults < MaxFaults /\ faults' = faults + 1
  /\ Committed(w)
  /\ GiveUp(w)

\* The effect raises, the connection is lost, or the process ends: PostgreSQL
\* rolls the transaction back and releases its lock.
Abort(w) ==
  /\ faults < MaxFaults /\ faults' = faults + 1
  /\ worker[w] # Idle
  /\ GiveUp(w)
  /\ Release(w)
  /\ UNCHANGED <<deployment, durable, applied>>

Work(w) ==
  \/ \E v \in Versions : Resume(w, v)
  \/ Finish(w)
  \/ Load(w)
  \/ RefuseRecord(w)
  \/ SkipReplay(w)
  \/ RunEffect(w)
  \/ ReadOn(w)
  \/ BeginSave(w)
  \/ SelectNone(w)
  \/ SelectRow(w)
  \/ Insert(w)
  \/ Conflict(w)
  \/ Commit(w)

Next == \E w \in Workers : Work(w) \/ CommitUnacknowledged(w) \/ Abort(w)

Spec == Init /\ [][Next]_vars

\* A host that is running takes its next step; faults are not owed.
FairSpec == Spec /\ \A w \in Workers : WF_vars(Work(w))

-----------------------------------------------------------------------------
(* Properties.                                                             *)

\* c is the checkpoint of an earlier record, or the same, of d's own stream.
OnLineage(c, d) ==
  c.count <= d.count /\ c.prefix = IF c.count <= Common THEN Base ELSE d.prefix

Acknowledged(c) == durable # NULL /\ OnLineage(c, durable)

\* docs/doctoring/resumable-result-checkpoints.md: "For exactly-once sink
\* semantics, commit sink effects and checkpoint advancement in one host-owned
\* transaction".  Every record the checkpoint acknowledges took effect exactly
\* once, and no other record took effect at all.
EffectExactlyOnce ==
  \A c \in Checkpoints : applied[c] = IF Acknowledged(c) THEN 1 ELSE 0

\* apply_checkpointed_result_in_transaction is exactly-once for hosts that run it
\* under REPEATABLE READ, although they race, crash and repeat lost commits.
ExactlyOnceOnSnapshots == RepeatableRead /\ ~DirectSaves => EffectExactlyOnce

\* Whatever the isolation level: a record took effect if and only if it is
\* acknowledged, so a crash never separates an effect from its checkpoint.
EffectAtomicWithCheckpoint ==
  ~DirectSaves => \A c \in Checkpoints : applied[c] > 0 <=> Acknowledged(c)

\* The checkpoint moves forward along one stream: no writer moves it back or takes
\* it to a fork of the provider's files, and none that applies records skips one.
CheckpointFollowsStream ==
  [][durable' # durable =>
       /\ durable'.count > Count(durable)
       /\ durable # NULL => OnLineage(durable, durable')
       /\ ~DirectSaves => durable'.count = Count(durable) + 1]_vars

\* While hosts keep running, every record of the result file is eventually applied
\* and acknowledged, although they race, fail, start over, and read files that fork.
EveryRecordAcknowledged == DirectSaves \/ <>(Count(durable) >= ResultRecords)
=============================================================================
