--------------------------- MODULE BatchPreparation ---------------------------
(***************************************************************************)
(* PostgresBatchOrchestrator.prepare_batches (orchestrator.py) for one     *)
(* llm_batches row, with BatchAccumulator and the limits of TokenCounter   *)
(* (token_counter.py).                                                     *)
(*                                                                         *)
(* A call reads the queued requests in a transaction of its own, packs     *)
(* them into parts, and only then takes the advisory lock and the batch    *)
(* row and persists.  Schedulers deliver a call more than once, so any     *)
(* number of workers are at any of these steps, and hosts go on inserting  *)
(* and claiming requests.  While a worker holds the batch row FOR UPDATE,  *)
(* an INSERT of a request waits (its foreign key needs the row), and so    *)
(* does a DELETE of the batch.                                             *)
(***************************************************************************)
EXTENDS Integers, FiniteSets, Sequences, SequencesExt

CONSTANTS
  Workers,       \* callers of prepare_batches
  Requests,      \* requests of the batch
  ModelOf,       \* per request: the model name,
  TokensOf,      \*   the token count of its prompts,
  BytesOf,       \*   the size of its JSONL line with the newline,
  CreatedAt,     \*   created_at, equal for requests of one transaction
  PerBatch,      \* token_limits.per_batch
  Buffer,        \* token_limits.buffer_percentage
  Overrides,     \* values of effective_token_limit, NULL when not given
  MaxBytes,      \* azure_limits.max_bytes_per_file
  MaxRecords,    \* azure_limits.max_records_per_file
  MaxFiles,      \* azure_limits.max_files_per_job
  NULL,
  MaxQueued      \* bound: requests in the batch at one time

ASSUME ConstantsAssumption ==
  /\ IsFiniteSet(Requests)
  /\ TokensOf \in [Requests -> Nat] /\ BytesOf \in [Requests -> Nat \ {0}]
  /\ CreatedAt \in [Requests -> Nat] /\ DOMAIN ModelOf = Requests
  /\ PerBatch \in Nat \ {0} /\ Buffer \in 0 .. 50
  /\ Overrides \subseteq (Nat \ {0}) \cup {NULL}
  /\ MaxBytes \in Nat \ {0} /\ MaxRecords \in Nat \ {0} /\ MaxFiles \in Nat \ {0}
  /\ MaxQueued \in Nat
  /\ NULL \notin Nat /\ NULL \notin Workers

VARIABLES
  exists,   \* is the llm_batches row there?
  status,   \* request_status: "absent" before the INSERT, "claimed" when not queued
  file,     \* batch_file_uuid, as the part_index of the file
  files,    \* llm_batch_files of the batch, in part_index order
  totals,   \* total_requests and total_tokens of the llm_batches row
  lock,     \* the worker that holds the advisory lock and the batch row
  worker    \* the call each worker is executing

database == <<exists, status, file, files, totals>>
vars == <<exists, status, file, files, totals, lock, worker>>

-----------------------------------------------------------------------------
(* TokenCounter and BatchAccumulator.                                      *)

EffectiveLimit(override) ==
  LET configured == (PerBatch * (100 - Buffer)) \div 100
  IN IF override # NULL /\ override < configured THEN override ELSE configured

\* The sum of the numbers, and of the weights of the requests of s.
Total(numbers) == FoldLeft(LAMBDA a, n : a + n, 0, numbers)
SumOver(weight, s) == Total([i \in DOMAIN s |-> weight[s[i]]])

\* Mutant of WouldExceed: the record limit is off by one.
WouldExceedLate(s, r, limit) ==
  /\ s # << >>
  /\ \/ SumOver(TokensOf, s) + TokensOf[r] > limit
     \/ SumOver(BytesOf, s) + BytesOf[r] > MaxBytes
     \/ Len(s) > MaxRecords

\* would_exceed: an empty accumulator never drains.
WouldExceed(s, r, limit) ==
  /\ s # << >>
  /\ \/ SumOver(TokensOf, s) + TokensOf[r] > limit
     \/ SumOver(BytesOf, s) + BytesOf[r] > MaxBytes
     \/ Len(s) + 1 > MaxRecords

\* add_entry refuses one record that is too large on its own.
Oversize(r, limit) == TokensOf[r] > limit \/ BytesOf[r] > MaxBytes

\* drain, as one row of llm_batch_files and its lines.
Part(index, s) ==
  [part_index |-> index, requests |-> s, tokens |-> SumOver(TokensOf, s)]

Drain(st) ==
  IF st.acc = << >> THEN st.parts ELSE Append(st.parts, Part(Len(st.parts), st.acc))

\* The row has another model than the open part, or does not fit.
Closes(limit, st, r) ==
  (st.acc # << >> /\ ModelOf[Last(st.acc)] # ModelOf[r]) \/ WouldExceed(st.acc, r, limit)

\* Mutant of AssembleRow: the accumulator is not reset by drain.
DrainWithoutReset(limit, st, r) ==
  IF Closes(limit, st, r) THEN [parts |-> Drain(st), acc |-> Append(st.acc, r)]
                          ELSE [st EXCEPT !.acc = Append(@, r)]

\* One turn of the loop of _assemble_payloads.
AssembleRow(limit, st, r) ==
  IF Closes(limit, st, r) THEN [parts |-> Drain(st), acc |-> <<r>>]
                          ELSE [st EXCEPT !.acc = Append(@, r)]

\* The loop, and the drain that follows it.
Packed(limit, rows) ==
  FoldLeft(LAMBDA st, r : AssembleRow(limit, st, r), [parts |-> << >>, acc |-> << >>], rows)

Assembled(limit, rows) == Drain(Packed(limit, rows))

\* What a call returns, and what it returns when there is no file.
NoResult == [ready |-> << >>, overflow |-> << >>]

\* Mutant of Sorted: one file too many is ready.
SortedLate(result, f) ==
  IF f.part_index <= MaxFiles THEN [result EXCEPT !.ready = Append(@, f)]
                              ELSE [result EXCEPT !.overflow = Append(@, f)]

\* The first azure_max_files_per_job files can be submitted at once.
Sorted(result, f) ==
  IF f.part_index < MaxFiles THEN [result EXCEPT !.ready = Append(@, f)]
                             ELSE [result EXCEPT !.overflow = Append(@, f)]

Categorized(fs) == FoldLeft(Sorted, NoResult, fs)

-----------------------------------------------------------------------------
(* The database as a call sees it.                                         *)

Unassigned == {r \in Requests : status[r] = "queued" /\ file[r] = NULL}

\* Requests of S in created_at order; the order of equals is PostgreSQL's.
Listings(S) ==
  {s \in SetToSeqs(S) : IsSorted(s, LAMBDA a, b : CreatedAt[a] <= CreatedAt[b])}

\* pending: the parts written by the transaction so far.
Parts == [part_index : Nat, requests : Seq(Requests), tokens : Nat]
Outcomes == {"prepared", "existing", "error"}
Idle == [phase |-> "idle", limit |-> 0, rows |-> << >>, parts |-> << >>,
         pending |-> << >>, outcome |-> "error", result |-> NoResult]

TypeOK ==
  /\ exists \in BOOLEAN
  /\ status \in [Requests -> {"absent", "queued", "claimed"}]
  /\ file \in [Requests -> Nat \cup {NULL}]
  /\ files \in Seq(Parts)
  /\ totals \in [requests : Nat, tokens : Nat]
  /\ lock \in Workers \cup {NULL}
  /\ worker \in [Workers ->
       [phase : {"idle", "read", "waiting", "locked", "returned"}, limit : Nat,
        rows : Seq(Requests), parts : Seq(Parts), pending : Seq(Parts),
        outcome : Outcomes, result : [ready : Seq(Parts), overflow : Seq(Parts)]]]

Init ==
  /\ exists = TRUE
  /\ status = [r \in Requests |-> "absent"]
  /\ file = [r \in Requests |-> NULL]
  /\ files = << >>
  /\ totals = [requests |-> 0, tokens |-> 0]
  /\ lock = NULL
  /\ worker = [w \in Workers |-> Idle]

\* Mutant of Return: the lock outlives the call.
ReturnLocked(w, result, outcome) ==
  /\ worker' = [worker EXCEPT ![w].phase = "returned", ![w].outcome = outcome,
                              ![w].result = result, ![w].pending = << >>]
  /\ UNCHANGED lock

\* The call ends: its transaction is committed or rolled back.
Return(w, result, outcome) ==
  /\ lock' = IF lock = w THEN NULL ELSE lock
  /\ worker' = [worker EXCEPT ![w].phase = "returned", ![w].outcome = outcome,
                              ![w].result = result, ![w].pending = << >>]

Raise(w) == Return(w, NoResult, "error")

-----------------------------------------------------------------------------
(* prepare_batches                                                         *)

Read(w) ==
  /\ worker[w].phase = "idle"
  /\ \E rows \in Listings(Unassigned), override \in Overrides :
       worker' = [worker EXCEPT ![w].phase = "read", ![w].rows = rows,
                                ![w].limit = EffectiveLimit(override)]
  /\ UNCHANGED <<database, lock>>

Assemble(w) ==
  /\ worker[w].phase = "read"
  /\ \A i \in DOMAIN worker[w].rows : ~Oversize(worker[w].rows[i], worker[w].limit)
  /\ worker' = [worker EXCEPT ![w].phase = "waiting",
                              ![w].parts = Assembled(worker[w].limit, worker[w].rows)]
  /\ UNCHANGED <<database, lock>>

\* TokenLimitExceededError, or ValidationError on byte_size.
RefuseOversize(w) ==
  /\ worker[w].phase = "read"
  /\ \E i \in DOMAIN worker[w].rows : Oversize(worker[w].rows[i], worker[w].limit)
  /\ Raise(w)
  /\ UNCHANGED database

\* pg_advisory_xact_lock, then SELECT ... FOR UPDATE of the batch.
Lock(w) ==
  /\ worker[w].phase = "waiting" /\ lock = NULL
  /\ exists
  /\ lock' = w
  /\ worker' = [worker EXCEPT ![w].phase = "locked"]
  /\ UNCHANGED database

\* "batch disappeared before preparation could be persisted".
RefuseMissing(w) ==
  /\ worker[w].phase = "waiting" /\ lock = NULL
  /\ ~exists
  /\ Raise(w)
  /\ UNCHANGED database

\* Mutant of Prepared: existing files are not looked for.
NeverPrepared == FALSE

\* _load_existing_payloads finds files.
Prepared == files # << >>

ReturnExisting(w) ==
  /\ worker[w].phase = "locked" /\ Prepared
  /\ Unassigned = {}
  /\ Return(w, Categorized(files), "existing")
  /\ UNCHANGED database

\* "additional queued requests require a new batch".
RefuseAdditional(w) ==
  /\ worker[w].phase = "locked" /\ Prepared
  /\ Unassigned # {}
  /\ Raise(w)
  /\ UNCHANGED database

NextPart(w) == worker[w].parts[Len(worker[w].pending) + 1]
PartsLeft(w) == Len(worker[w].pending) < Len(worker[w].parts)

\* Payload, file, lines, and the UPDATE of the requests, which must all still be
\* queued and unassigned.
PersistPart(w) ==
  /\ worker[w].phase = "locked" /\ ~Prepared /\ PartsLeft(w)
  /\ ToSet(NextPart(w).requests) \subseteq Unassigned
  /\ worker' = [worker EXCEPT ![w].pending = Append(@, NextPart(w))]
  /\ UNCHANGED <<database, lock>>

\* "queued request assignment changed during batch preparation".
RefuseChanged(w) ==
  /\ worker[w].phase = "locked" /\ ~Prepared /\ PartsLeft(w)
  /\ ~(ToSet(NextPart(w).requests) \subseteq Unassigned)
  /\ Raise(w)
  /\ UNCHANGED database

\* Mutant of Totals: overflow files are left out.
TotalsOfReady(ps) ==
  LET ready == Categorized(ps).ready
  IN [requests |-> Total([i \in DOMAIN ready |-> Len(ready[i].requests)]),
      tokens   |-> Total([i \in DOMAIN ready |-> ready[i].tokens])]

\* UPDATE llm_batches: the totals over ready and overflow.
Totals(ps) == [requests |-> Total([i \in DOMAIN ps |-> Len(ps[i].requests)]),
               tokens   |-> Total([i \in DOMAIN ps |-> ps[i].tokens])]

\* The totals, and COMMIT.
Committed(w) ==
  /\ worker[w].phase = "locked" /\ ~Prepared /\ ~PartsLeft(w)
  /\ LET ps == worker[w].pending
     IN /\ files' = ps
        /\ file' = [r \in Requests |->
             IF \E i \in DOMAIN ps : r \in ToSet(ps[i].requests)
               THEN ps[CHOOSE i \in DOMAIN ps : r \in ToSet(ps[i].requests)].part_index
               ELSE file[r]]
        /\ totals' = Totals(ps)
  /\ UNCHANGED <<exists, status>>

Commit(w) ==
  /\ Committed(w)
  /\ LET ps == worker[w].pending
         n  == IF Len(ps) < MaxFiles THEN Len(ps) ELSE MaxFiles
     IN Return(w, [ready |-> SubSeq(ps, 1, n), overflow |-> SubSeq(ps, n + 1, Len(ps))],
               "prepared")

\* The commit succeeds and the caller sees an error.
CommitUnacknowledged(w) ==
  /\ Committed(w)
  /\ Raise(w)

\* A database error or the end of the process, before the commit.
Crash(w) ==
  /\ worker[w].phase \in {"read", "waiting", "locked"}
  /\ Raise(w)
  /\ UNCHANGED database

\* The worker is free for the next call.
Resume(w) ==
  /\ worker[w].phase = "returned"
  /\ worker' = [worker EXCEPT ![w] = Idle]
  /\ UNCHANGED <<database, lock>>

-----------------------------------------------------------------------------
(* Hosts of the library (external): they insert requests, claim them for   *)
(* submission, put them back, and may delete the batch.                    *)

Enqueue(r) ==
  /\ exists /\ lock = NULL
  /\ Cardinality({q \in Requests : status[q] # "absent"}) < MaxQueued
  /\ status[r] = "absent"
  /\ status' = [status EXCEPT ![r] = "queued"]
  /\ UNCHANGED <<exists, file, files, totals, lock, worker>>

\* A row that a preparation has updated is locked until it ends.
RowLocked(r) == \E w \in Workers : \E i \in DOMAIN worker[w].pending :
                  r \in ToSet(worker[w].pending[i].requests)

SetStatus(r, from, to) ==
  /\ status[r] = from /\ ~RowLocked(r)
  /\ status' = [status EXCEPT ![r] = to]
  /\ UNCHANGED <<exists, file, files, totals, lock, worker>>

DeleteBatch ==
  /\ exists /\ lock = NULL
  /\ exists' = FALSE
  /\ status' = [r \in Requests |-> "absent"]
  /\ file' = [r \in Requests |-> NULL]
  /\ files' = << >>
  /\ UNCHANGED <<totals, lock, worker>>

Host ==
  \/ \E r \in Requests :
       Enqueue(r) \/ SetStatus(r, "queued", "claimed") \/ SetStatus(r, "claimed", "queued")
  \/ DeleteBatch

Acquire(w) == Lock(w) \/ RefuseMissing(w)

Call(w) ==
  \/ Assemble(w)
  \/ RefuseOversize(w)
  \/ Acquire(w)
  \/ ReturnExisting(w)
  \/ RefuseAdditional(w)
  \/ PersistPart(w)
  \/ RefuseChanged(w)
  \/ Commit(w)

Fault(w) == CommitUnacknowledged(w) \/ Crash(w)

Next == Host \/ \E w \in Workers : Read(w) \/ Call(w) \/ Fault(w) \/ Resume(w)

Spec == Init /\ [][Next]_vars

\* A call that has started goes on, and PostgreSQL serves lock waits in turn.
FairSpec == Spec /\ \A w \in Workers : WF_vars(Call(w)) /\ SF_vars(Acquire(w))

-----------------------------------------------------------------------------
(* Properties.                                                             *)

RequestsOf(fs) == FoldLeft(LAMBDA before, f : before \o f.requests, << >>, fs)

\* A part of one model that is within every limit.
Fits(part, limit) ==
  LET s == part.requests
  IN /\ s # << >>
     /\ \A j \in DOMAIN s : ModelOf[s[j]] = ModelOf[s[1]]
     /\ Len(s) <= MaxRecords /\ SumOver(BytesOf, s) <= MaxBytes
     /\ part.tokens = SumOver(TokensOf, s) /\ part.tokens <= limit

\* The request r could not be added to the part.
Full(part, r, limit) ==
  LET s == part.requests
  IN \/ ModelOf[r] # ModelOf[s[1]]
     \/ Len(s) + 1 > MaxRecords
     \/ SumOver(BytesOf, s) + BytesOf[r] > MaxBytes
     \/ SumOver(TokensOf, s) + TokensOf[r] > limit

\* What _assemble_payloads promises: the parts are the rows it read, in order,
\* each part of one model and within every limit, and a part ends only where the
\* next row has another model or does not fit.
GreedyPartition(rows, parts, limit) ==
  /\ RequestsOf(parts) = rows
  /\ \A i \in DOMAIN parts :
       /\ Fits(parts[i], limit) /\ parts[i].part_index = i - 1
       /\ i < Len(parts) => Full(parts[i], parts[i + 1].requests[1], limit)

\* A caller that is told "prepared" finds exactly the requests it had read, in
\* their order and greedily packed, although requests arrived and changed while
\* it was assembling: the batch is never prepared in part.
PreparedAsRead ==
  \A w \in Workers :
    worker[w].phase = "returned" /\ worker[w].outcome = "prepared" /\ exists
      /\ worker[w].rows # << >> =>
    GreedyPartition(worker[w].rows, files, worker[w].limit)

\* No request is in two files or twice in one, and the assignment of a request
\* agrees with the lines of the files, although calls overlap.
EachRequestOnce ==
  /\ IsInjective(RequestsOf(files))
  /\ \A r \in Requests, i \in DOMAIN files :
       r \in ToSet(files[i].requests) <=> file[r] = files[i].part_index

\* docs/idempotent-preparation.md: "A concurrent or repeated call with no new
\* unassigned requests returns the already persisted `ready` and `overflow`
\* payloads."  Whoever returns files returns the persisted ones, split the same
\* way by the writer (position) and by a reader (part_index).
CallersAgree ==
  \A w \in Workers :
    worker[w].phase = "returned" /\ worker[w].outcome # "error" /\ exists =>
      \/ worker[w].result = Categorized(files)
      \/ worker[w].result = NoResult /\ worker[w].rows = << >>

\* The totals of the batch row are those of its files, even when a call that had
\* read no request persists after others.
TotalsMatchFiles ==
  exists => /\ totals.requests = Len(RequestsOf(files))
            /\ totals.tokens = SumOver(TokensOf, RequestsOf(files))

\* A preparation is written once: no later call appends a file, moves a request
\* or rewrites the totals.
PreparedOnce ==
  [][files # << >> /\ exists' => UNCHANGED <<files, file, totals>>]_vars

\* A call returns: no lock is left behind by an error or a crash of another.
CallReturns ==
  \A w \in Workers : worker[w].phase = "read" ~> worker[w].phase = "returned"
=============================================================================
