------------------------ MODULE RemoteBatchLifecycle ------------------------
(***************************************************************************)
(* The durable lifecycle of a remote batch: DurableBatchAPIClient          *)
(* (durable_client.py) over BatchAPIClient (batch_api_client.py), and the  *)
(* guarded upsert of llm_remote_batch_jobs (db.py, schema.sql).            *)
(*                                                                         *)
(* A client operation (create, poll, cancel) reserves an observation order *)
(* from a database sequence, talks to the provider, and then persists what *)
(* it saw in one statement.  Clients are concurrent tasks of any number of *)
(* processes: between two steps of one, any step of another may happen, so *)
(* orders are not the order in which the provider was read, and neither is *)
(* the order in which the observations reach PostgreSQL.                   *)
(*                                                                         *)
(* An endpoint alias and a provider batch id are folded into one batch:    *)
(* the table's unique key <<tenant_scope, alias, id>> is <<tenant, batch>>.*)
(***************************************************************************)
EXTENDS Integers, FiniteSets

CONSTANTS
  Clients,        \* concurrent client tasks
  Tenants,        \* tenant scopes
  Batches,        \* provider batch ids
  Fields,         \* the COALESCEd columns of the instance
  Values,         \* values of those columns
  Times,          \* readings of the clients' wall clocks
  NULL,           \* SQL NULL
  Total,          \* requests in one batch, for the provider that is honest
  MaxCount,       \* largest count a provider reports
  IntMax,         \* largest PostgreSQL INTEGER
  MaxOrder,       \* bound: observation orders reserved in a behaviour
  HonestProvider, \* does the provider report its own state?
  AnyStatuses     \* statuses a provider that is not honest may report

CoalescedFields == {"input_file_id", "batch_endpoint", "output_file_id",
                    "error_file_id", "provider_metadata"}

SupportedStatuses == {"validating", "failed", "in_progress", "finalizing",
                      "completed", "expired", "cancelling", "cancelled"}
TerminalStatuses  == {"completed", "failed", "expired", "cancelled"}

\* What a response may carry: "" stands for an absent, null or empty status,
\* "other" for any string outside the vocabulary.
RawStatuses == SupportedStatuses \cup {"", "unknown", "other"}

ASSUME ConstantsAssumption ==
  /\ Fields \subseteq CoalescedFields
  /\ Values # {} /\ NULL \notin Values /\ NULL \notin Times
  /\ Total \in Nat /\ MaxCount \in Nat /\ IntMax \in Nat /\ MaxOrder \in Nat
  /\ Total <= IntMax
  /\ HonestProvider \in BOOLEAN
  /\ AnyStatuses \subseteq RawStatuses

VARIABLES
  seq,       \* last value of llm_remote_batch_observation_sequence
  rows,      \* llm_remote_batch_jobs, NULL where there is no row
  provider,  \* the provider's batch objects, NULL before creation
  op         \* the operation each client is executing

vars == <<seq, rows, provider, op>>

Keys   == Tenants \X Batches
Orders == 1 .. MaxOrder
Kinds  == {"create", "poll", "cancel"}

\* A decoded response.  known says that request_counts.total is an integer.
Snapshot == [id : Batches, status : RawStatuses, known : BOOLEAN, total : Nat,
             completed : Nat, failed : Nat, cols : [Fields -> Values \cup {NULL}]]

Row == [order : Nat \ {0}, status : SupportedStatuses \cup {"unknown"},
        known : BOOLEAN, total : 0 .. IntMax, completed : 0 .. IntMax,
        failed : 0 .. IntMax, cols : [Fields -> Values \cup {NULL}],
        last_observed_at : Times, terminal_at : Times \cup {NULL}]

\* settled: the provider's batch was already terminal at the reservation.
Idle == [phase |-> "idle"]
Op == [phase : {"reserved"}, kind : Kinds, key : Keys, order : Orders,
       settled : BOOLEAN]
      \cup
      [phase : {"answered"}, kind : Kinds, key : Keys, order : Orders,
       settled : BOOLEAN, answer : Snapshot]
      \cup
      [phase : {"returned"}, kind : Kinds, key : Keys, order : Orders,
       settled : BOOLEAN, outcome : {"recorded", "declined", "error"}]
      \cup {Idle}

TypeOK ==
  /\ seq \in 0 .. MaxOrder
  /\ rows \in [Keys -> Row \cup {NULL}]
  /\ provider \in [Batches -> Snapshot \cup {NULL}]
  /\ op \in [Clients -> Op]

Terminal(status) == status \in TerminalStatuses
\* Mutant of GREATEST: counters are added up.
Adding(a, b) == a + b

\* Mutant of COALESCE: the new value wins even when it is NULL.
Overwrite(a, b) == a

GREATEST(a, b)   == IF a >= b THEN a ELSE b
COALESCE(a, b)   == IF a # NULL THEN a ELSE b

-----------------------------------------------------------------------------
(* The provider (external).                                                *)

Created(b, cols) ==
  [id |-> b, status |-> "validating", known |-> TRUE, total |-> 0,
   completed |-> 0, failed |-> 0, cols |-> cols]

\* The columns of a batch object before it has produced a file.
InitialCols == [f \in Fields |-> IF f \in {"output_file_id", "error_file_id"}
                                   THEN NULL ELSE CHOOSE v \in Values : TRUE]

\* The output file holds completed requests, the error file failed ones.
WithFiles(p) ==
  [f \in Fields |->
     IF (f = "output_file_id" /\ p.completed > 0) \/ (f = "error_file_id" /\ p.failed > 0)
       THEN CHOOSE v \in Values : TRUE ELSE p.cols[f]]

\* The states an honest provider may move a batch object to.
Evolutions(p) ==
  CASE p.status = "validating"  ->
         {[p EXCEPT !.status = "failed"],
          [p EXCEPT !.status = "in_progress", !.total = Total]}
    [] p.status = "in_progress" ->
         {[p EXCEPT !.status = "expired", !.cols = WithFiles(p)]}
         \cup (IF p.completed + p.failed < Total
                 THEN {[p EXCEPT !.completed = @ + 1], [p EXCEPT !.failed = @ + 1]}
                 ELSE {[p EXCEPT !.status = "finalizing"]})
    [] p.status = "finalizing"  -> {[p EXCEPT !.status = "completed", !.cols = WithFiles(p)]}
    [] p.status = "cancelling"  -> {[p EXCEPT !.status = "cancelled", !.cols = WithFiles(p)]}
    [] OTHER                    -> {}

ProviderStep(b) ==
  /\ provider[b] # NULL
  /\ \E p \in Evolutions(provider[b]) : provider' = [provider EXCEPT ![b] = p]
  /\ UNCHANGED <<seq, rows, op>>

\* Responses about p: an honest one is p, possibly without some columns and
\* without request_counts; any other is whatever the transport delivers.
Sparse(p) ==
  {[p EXCEPT !.cols = [f \in Fields |-> IF f \in S THEN NULL ELSE p.cols[f]]] : S \in SUBSET Fields}
Uncounted(p) == [p EXCEPT !.known = FALSE, !.total = 0, !.completed = 0, !.failed = 0]
AnySnapshot ==
  [id : Batches, status : AnyStatuses, known : BOOLEAN, total : 0 .. MaxCount,
   completed : 0 .. MaxCount, failed : 0 .. MaxCount, cols : [Fields -> Values \cup {NULL}]]

Answers(p) == IF HonestProvider THEN Sparse(p) \cup Sparse(Uncounted(p))
              ELSE {s \in AnySnapshot : s.known \/ s.total = 0}

-----------------------------------------------------------------------------
(* Validation and normalisation of one response.                           *)

\* BatchAPIClient.get_batch_status: counts default to 0, so progress without
\* a total is refused as well.
PollDecodes(s) == s.status # "" /\ s.completed + s.failed <= s.total

\* DurableBatchAPIClient.create_batch_job: setdefault from the request fills
\* what the response omits, and leaves an explicit null alone.
CreateSnapshots(s) ==
  {s, [s EXCEPT !.cols = [f \in Fields |-> COALESCE(s.cols[f], InitialCols[f])]]}

\* Mutant of CancelSnapshots: an accepted cancellation counts as done.
CancelledByDefault(b, s) ==
  {[id |-> b, status |-> IF s.status = "" THEN "cancelled" ELSE s.status, known |-> FALSE,
    total |-> 0, completed |-> 0, failed |-> 0, cols |-> [f \in Fields |-> NULL]]}

\* DurableBatchAPIClient.cancel_batch: only the id and the status survive.
\* A response that omits the status reads "cancelling"; an explicit null stays.
CancelSnapshots(b, s) ==
  {[id |-> b, status |-> st, known |-> FALSE, total |-> 0, completed |-> 0,
    failed |-> 0, cols |-> [f \in Fields |-> NULL]] :
      st \in IF s.status = "" THEN {"", "cancelling"} ELSE {s.status}}

\* _persist_snapshot: a status that is absent becomes the text "unknown".
ClientStatus(status) == IF status = "" THEN "unknown" ELSE status

\* _provider_batch_status.
StatusSupported(status) == status = "" \/ status \in SupportedStatuses
StoredStatus(status)    == IF status = "" THEN "unknown" ELSE status

\* Does the observation pass _persist_snapshot, _normalize_remote_batch_snapshot
\* and the INTEGER columns?
Normalizes(kind, key, s) ==
  /\ kind = "poll" => PollDecodes(s) /\ s.id = key[2]
  /\ StatusSupported(ClientStatus(s.status))
  /\ s.known => s.completed + s.failed <= s.total
  /\ s.total <= IntMax /\ s.completed <= IntMax /\ s.failed <= IntMax

\* The row an observation inserts when its key is new.
Inserted(s, n, t) ==
  [order |-> n, status |-> StoredStatus(ClientStatus(s.status)), known |-> s.known,
   total |-> s.total, completed |-> s.completed, failed |-> s.failed, cols |-> s.cols,
   last_observed_at |-> t,
   terminal_at |-> IF Terminal(s.status) THEN t ELSE NULL]

\* ON CONFLICT DO UPDATE SET.
Merged(old, new) ==
  [order |-> new.order, status |-> new.status, known |-> old.known \/ new.known,
   total |-> GREATEST(old.total, new.total),
   completed |-> GREATEST(old.completed, new.completed),
   failed |-> GREATEST(old.failed, new.failed),
   cols |-> [f \in Fields |-> COALESCE(new.cols[f], old.cols[f])],
   last_observed_at |-> new.last_observed_at,
   terminal_at |-> COALESCE(old.terminal_at, new.terminal_at)]

\* The merged counters stay within the merged total.
ProgressFits(old, new) ==
  GREATEST(old.completed, new.completed) + GREATEST(old.failed, new.failed)
    <= GREATEST(old.total, new.total)

\* Mutants of UpdateApplies, each without one of its guards or with one off by one.
AnyOrder(old, new) ==
  /\ old.known \/ new.known => ProgressFits(old, new)
  /\ Terminal(old.status) => new.status = old.status
NoProgressCheck(old, new) ==
  new.order > old.order /\ (Terminal(old.status) => new.status = old.status)
StrictProgress(old, new) ==
  /\ new.order > old.order
  /\ old.known \/ new.known =>
       GREATEST(old.completed, new.completed) + GREATEST(old.failed, new.failed)
         < GREATEST(old.total, new.total)
  /\ Terminal(old.status) => new.status = old.status
ReopensTerminal(old, new) ==
  new.order > old.order /\ (old.known \/ new.known => ProgressFits(old, new))

\* ... WHERE.
UpdateApplies(old, new) ==
  /\ new.order > old.order
  /\ old.known \/ new.known => ProgressFits(old, new)
  /\ Terminal(old.status) => new.status = old.status

\* The WHERE adds two INTEGERs without a cast, and the statement fails when the
\* sum does not fit.
Overflows(old, new) ==
  /\ old # NULL
  /\ new.order > old.order /\ (old.known \/ new.known)
  /\ GREATEST(old.completed, new.completed) + GREATEST(old.failed, new.failed) > IntMax

Upsert(old, new) ==
  IF old = NULL THEN new
  ELSE IF UpdateApplies(old, new) THEN Merged(old, new) ELSE old

-----------------------------------------------------------------------------
(* Client operations.                                                      *)

Init ==
  /\ seq = 0
  /\ rows = [k \in Keys |-> NULL]
  /\ provider = [b \in Batches |-> NULL]
  /\ op = [c \in Clients |-> Idle]

\* _reserve_observation_order: nextval before any provider I/O.  Only a batch
\* that exists is polled or cancelled; a create names the batch it will get.
Reserve(c, kind, k) ==
  /\ op[c] = Idle
  /\ seq < MaxOrder
  /\ kind = "create" <=> provider[k[2]] = NULL
  /\ seq' = seq + 1
  /\ op' = [op EXCEPT ![c] =
       [phase |-> "reserved", kind |-> kind, key |-> k, order |-> seq + 1,
        settled |-> provider[k[2]] # NULL /\ Terminal(provider[k[2]].status)]]
  /\ UNCHANGED <<rows, provider>>

Answer(c, s) ==
  op' = [op EXCEPT ![c] =
    [phase |-> "answered", kind |-> op[c].kind, key |-> op[c].key,
     order |-> op[c].order, settled |-> op[c].settled, answer |-> s]]

\* Mutant of Return: the operation stays in flight and is persisted again.
KeepInFlight(c, result) == UNCHANGED op

Return(c, result) ==
  op' = [op EXCEPT ![c] =
    [phase |-> "returned", kind |-> op[c].kind, key |-> op[c].key,
     order |-> op[c].order, settled |-> op[c].settled, outcome |-> result]]

\* POST /batches.  A sparse response may lack the status.
RespondCreate(c) ==
  /\ op[c].phase = "reserved" /\ op[c].kind = "create"
  /\ LET b == op[c].key[2]
         p == Created(b, InitialCols)
     IN /\ provider[b] = NULL
        /\ provider' = [provider EXCEPT ![b] = p]
        /\ \E s \in Answers(p), blank \in BOOLEAN :
           \E r \in CreateSnapshots(IF blank THEN [s EXCEPT !.status = ""] ELSE s) :
             Answer(c, r)
  /\ UNCHANGED <<seq, rows>>

\* GET /batches/{id}.
RespondPoll(c) ==
  /\ op[c].phase = "reserved" /\ op[c].kind = "poll"
  /\ \E s \in Answers(provider[op[c].key[2]]) : Answer(c, s)
  /\ UNCHANGED <<seq, rows, provider>>

\* POST /batches/{id}/cancel, accepted: the batch starts cancelling.
RespondCancel(c) ==
  /\ op[c].phase = "reserved" /\ op[c].kind = "cancel"
  /\ LET b == op[c].key[2]
         p == [provider[b] EXCEPT !.status = "cancelling"]
     IN /\ ~Terminal(provider[b].status)
        /\ provider' = [provider EXCEPT ![b] = p]
        /\ \E s \in Answers(p), blank \in BOOLEAN :
           \E r \in CancelSnapshots(b, IF blank THEN [s EXCEPT !.status = ""] ELSE s) :
             Answer(c, r)
  /\ UNCHANGED <<seq, rows>>

\* ... or declined: success is False and nothing is persisted.
DeclineCancel(c) ==
  /\ op[c].phase = "reserved" /\ op[c].kind = "cancel"
  /\ Return(c, "declined")
  /\ UNCHANGED <<seq, rows, provider>>

\* The observation reaches PostgreSQL: one transaction around one upsert.  The
\* commit may succeed and its acknowledgement be lost.
Persist(c) ==
  /\ op[c].phase = "answered"
  /\ LET s == op[c].answer
         k == <<op[c].key[1], s.id>>
     IN /\ Normalizes(op[c].kind, op[c].key, s)
        /\ \E t \in Times :
             LET new == Inserted(s, op[c].order, t)
             IN /\ ~Overflows(rows[k], new)
                /\ rows' = [rows EXCEPT ![k] = Upsert(@, new)]
  /\ \E result \in {"recorded", "error"} : Return(c, result)
  /\ UNCHANGED <<seq, provider>>

\* The observation is refused before it reaches PostgreSQL, or by it.
Refuse(c) ==
  /\ op[c].phase = "answered"
  /\ LET s == op[c].answer
         k == <<op[c].key[1], s.id>>
     IN \/ ~Normalizes(op[c].kind, op[c].key, s)
        \/ \E t \in Times : Overflows(rows[k], Inserted(s, op[c].order, t))
  /\ Return(c, "error")
  /\ UNCHANGED <<seq, rows, provider>>

\* Transport error, HTTP error, unreadable body, database failure, or the end
\* of the process: the reserved order becomes a gap.
Fail(c) ==
  /\ op[c].phase \in {"reserved", "answered"}
  /\ Return(c, "error")
  /\ UNCHANGED <<seq, rows, provider>>

\* The caller goes on to its next operation.
Resume(c) ==
  /\ op[c].phase = "returned"
  /\ op' = [op EXCEPT ![c] = Idle]
  /\ UNCHANGED <<seq, rows, provider>>

ClientStep(c) ==
  \/ \E kind \in Kinds, k \in Keys : Reserve(c, kind, k)
  \/ RespondCreate(c)
  \/ RespondPoll(c)
  \/ RespondCancel(c)
  \/ DeclineCancel(c)
  \/ Persist(c)
  \/ Refuse(c)
  \/ Fail(c)
  \/ Resume(c)

Next ==
  \/ \E c \in Clients : ClientStep(c)
  \/ \E b \in Batches : ProviderStep(b)

Spec == Init /\ [][Next]_vars

-----------------------------------------------------------------------------
(* Properties that hold whatever the provider answers.                     *)

Stored(k) == rows[k] # NULL
InFlight(c) == op[c].phase \in {"reserved", "answered"}

\* The upsert never produces a row that the table's known_progress CHECK would
\* refuse: merged counters stay within a known total.
KnownProgress ==
  \A k \in Keys : Stored(k) /\ rows[k].known =>
                    rows[k].completed + rows[k].failed <= rows[k].total

\* A row has a terminal timestamp exactly when its status is terminal, although
\* the status is overwritten and the timestamp is COALESCEd.
TerminalStamped ==
  \A k \in Keys : Stored(k) => (rows[k].terminal_at # NULL <=> Terminal(rows[k].status))

\* An observation order is used by one operation only, and the orders still in
\* flight are not the order of any row: no observation is compared with itself.
OrderUsedOnce ==
  \A c \in Clients : InFlight(c) =>
     /\ op[c].order <= seq
     /\ \A d \in Clients \ {c} : InFlight(d) => op[d].order # op[c].order
     /\ \A k \in Keys : Stored(k) => rows[k].order # op[c].order

\* A step never takes a terminal row to another status or moves its terminal
\* timestamp, however late the observation that reaches PostgreSQL.
Absorbing(old, new) == Terminal(old.status) =>
  new.status = old.status /\ new.terminal_at = old.terminal_at
TerminalIsFinal ==
  [][\A k \in Keys : Stored(k) => rows'[k] # NULL /\ Absorbing(rows[k], rows'[k])]_vars

\* A step that changes a row carries a newer observation, and loses no counter
\* and no identifier that an earlier observation had established.
Extends(old, new) ==
  /\ new # old => new.order > old.order
  /\ new.total >= old.total /\ new.completed >= old.completed /\ new.failed >= old.failed
  /\ old.known => new.known
  /\ \A f \in Fields : old.cols[f] # NULL => new.cols[f] # NULL
NothingForgotten ==
  [][\A k \in Keys : Stored(k) => rows'[k] # NULL /\ Extends(rows[k], rows'[k])]_vars

-----------------------------------------------------------------------------
(* Properties about an honest provider.                                    *)

\* The projection never runs ahead of the provider: a stored terminal status is
\* the provider's, and no stored counter exceeds the provider's.
ProjectionIsBacked ==
  \A k \in Keys : Stored(k) =>
    LET r == rows[k]  p == provider[k[2]]
    IN /\ p # NULL
       /\ Terminal(r.status) => p.status = r.status
       /\ r.total <= p.total /\ r.completed <= p.completed /\ r.failed <= p.failed

\* When an operation reports success, the row exists and holds an observation at
\* least as new, or a terminal one that this observation may not replace.
SuccessIsCovered ==
  \A c \in Clients : op[c].phase = "returned" /\ op[c].outcome = "recorded" =>
    LET k == op[c].key
    IN Stored(k) /\ (rows[k].order >= op[c].order \/ Terminal(rows[k].status))

\* A successful poll that was reserved after the provider had finished leaves
\* the provider's terminal status in the row, whatever else is in flight.
PollAfterFinishSettles ==
  \A c \in Clients :
    op[c].phase = "returned" /\ op[c].outcome = "recorded"
      /\ op[c].kind = "poll" /\ op[c].settled =>
    LET k == op[c].key
    IN Stored(k) /\ rows[k].status = provider[k[2]].status

-----------------------------------------------------------------------------
(* The table implements the projection its readers rely on.                *)

Projected(r) ==
  IF r = NULL THEN NULL
  ELSE [version |-> r.order, status |-> r.status, completed |-> r.completed,
        failed |-> r.failed, settled_at |-> r.terminal_at]

Abs == INSTANCE BatchProjection
         WITH Keys <- Keys, Statuses <- SupportedStatuses \cup {"unknown"},
              Final <- TerminalStatuses, Instants <- Times, NULL <- NULL,
              proj <- [k \in Keys |-> Projected(rows[k])]

ASSUME NullAssumption ==
  NULL \notin Row /\ NULL \notin Snapshot /\ NULL \notin Abs!Projection

\* Every step of the clients, the provider and PostgreSQL is one observation of
\* one batch in the abstract specification, or no step of it.
ImplementsProjection == Abs!Spec
=============================================================================
