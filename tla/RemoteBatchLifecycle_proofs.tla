--------------------- MODULE RemoteBatchLifecycle_proofs ---------------------
(***************************************************************************)
(* Proofs about RemoteBatchLifecycle, for every set of clients, tenants,   *)
(* batches and columns: first for any provider, then for an honest one.    *)
(***************************************************************************)
EXTENDS RemoteBatchLifecycle, TLAPS

-----------------------------------------------------------------------------
(* The operators the upsert is built from.                                 *)

\* A response of an honest provider is one of its states with columns or counts
\* left out; any other response is drawn from a set of decoded responses.
LEMMA AnswersType ==
  ASSUME NEW p \in Snapshot, NEW s \in Answers(p)
  PROVE  s \in Snapshot
<1>1. CASE HonestProvider
  <2>1. Uncounted(p) \in Snapshot
    BY DEF Uncounted, Snapshot
  <2>2. ASSUME NEW q \in Snapshot PROVE Sparse(q) \subseteq Snapshot
    BY DEF Sparse, Snapshot
  <2>3. QED BY <1>1, <2>1, <2>2 DEF Answers
<1>2. CASE ~HonestProvider
  <2>1. AnyStatuses \subseteq RawStatuses /\ MaxCount \in Nat
    BY ConstantsAssumption
  <2>2. 0 .. MaxCount \subseteq Nat
    BY <2>1
  <2>3. AnySnapshot \subseteq Snapshot
    BY <2>1, <2>2 DEF AnySnapshot, Snapshot
  <2>4. QED BY <1>2, <2>3 DEF Answers
<1>3. QED BY <1>1, <1>2

\* The column values the request itself supplies.
LEMMA InitialColsType == InitialCols \in [Fields -> Values \cup {NULL}]
BY ConstantsAssumption DEF InitialCols

\* An honest provider's moves are moves between decoded responses.
LEMMA EvolutionsType ==
  ASSUME NEW p \in Snapshot, NEW q \in Evolutions(p)
  PROVE  q \in Snapshot
<1>1. WithFiles(p) \in [Fields -> Values \cup {NULL}]
  BY ConstantsAssumption DEF WithFiles, Snapshot
<1>2. Total \in Nat /\ p.completed + 1 \in Nat /\ p.failed + 1 \in Nat
  BY ConstantsAssumption DEF Snapshot
<1>3. {"failed", "in_progress", "expired", "finalizing", "completed", "cancelled"}
        \subseteq RawStatuses
  BY DEF RawStatuses, SupportedStatuses
<1>4. \/ q \in {[p EXCEPT !.status = "failed"],
               [p EXCEPT !.status = "in_progress", !.total = Total]}
      \/ q = [p EXCEPT !.status = "expired", !.cols = WithFiles(p)]
      \/ q \in {[p EXCEPT !.completed = @ + 1], [p EXCEPT !.failed = @ + 1]}
      \/ q = [p EXCEPT !.status = "finalizing"]
      \/ q = [p EXCEPT !.status = "completed", !.cols = WithFiles(p)]
      \/ q = [p EXCEPT !.status = "cancelled", !.cols = WithFiles(p)]
  <2>1. CASE p.status = "validating"  BY <2>1 DEF Evolutions
  <2>2. CASE p.status = "in_progress" BY <2>2 DEF Evolutions
  <2>3. CASE p.status = "finalizing"  BY <2>3 DEF Evolutions
  <2>4. CASE p.status = "cancelling"  BY <2>4 DEF Evolutions
  <2>5. CASE p.status \notin {"validating", "in_progress", "finalizing", "cancelling"}
    BY <2>5 DEF Evolutions
  <2>6. QED BY <2>1, <2>2, <2>3, <2>4, <2>5
<1>5. QED BY <1>1, <1>2, <1>3, <1>4 DEF Snapshot

\* A normalized observation makes a row, consistent and stamped when terminal.
LEMMA InsertedRow ==
  ASSUME NEW s \in Snapshot, NEW kind \in Kinds, NEW k \in Keys,
         NEW n \in Nat \ {0}, NEW t \in Times, Normalizes(kind, k, s)
  PROVE  LET r == Inserted(s, n, t)
         IN /\ r \in Row /\ r.order = n
            /\ r.known => r.completed + r.failed <= r.total
            /\ r.terminal_at # NULL <=> Terminal(r.status)
<1>1. s.status \in SupportedStatuses
  BY DEF Normalizes, StatusSupported, ClientStatus, SupportedStatuses
<1>2. StoredStatus(ClientStatus(s.status)) = s.status
  BY <1>1 DEF StoredStatus, ClientStatus, SupportedStatuses
<1>3. t # NULL
  BY ConstantsAssumption
<1>4. /\ s.total \in 0 .. IntMax /\ s.completed \in 0 .. IntMax /\ s.failed \in 0 .. IntMax
      /\ s.known => s.completed + s.failed <= s.total
  BY ConstantsAssumption DEF Normalizes, Snapshot
<1>5. QED BY <1>1, <1>2, <1>3, <1>4 DEF Inserted, Row, Snapshot

\* Merging an observation that passes the WHERE clause into a row gives a row.
LEMMA MergedRow ==
  ASSUME NEW old \in Row, NEW new \in Row, UpdateApplies(old, new)
  PROVE  LET m == Merged(old, new)
         IN /\ m \in Row /\ m.order = new.order /\ m.order > old.order
            /\ m.status = new.status
            /\ m.total >= old.total /\ m.completed >= old.completed
            /\ m.failed >= old.failed
            /\ old.known => m.known
            /\ m.known => m.completed + m.failed <= m.total
            /\ \A f \in Fields : old.cols[f] # NULL => m.cols[f] # NULL
<1>1. Merged(old, new).cols \in [Fields -> Values \cup {NULL}]
  BY DEF Merged, COALESCE, Row
<1>2. /\ Merged(old, new).terminal_at \in Times \cup {NULL}
      /\ \A f \in Fields : old.cols[f] # NULL => Merged(old, new).cols[f] # NULL
  BY DEF Merged, COALESCE, Row
<1>3. /\ GREATEST(old.total, new.total) \in 0 .. IntMax
      /\ GREATEST(old.completed, new.completed) \in 0 .. IntMax
      /\ GREATEST(old.failed, new.failed) \in 0 .. IntMax
      /\ GREATEST(old.total, new.total) >= old.total
      /\ GREATEST(old.completed, new.completed) >= old.completed
      /\ GREATEST(old.failed, new.failed) >= old.failed
  BY ConstantsAssumption DEF GREATEST, Row
<1>4. Merged(old, new) \in Row
  BY <1>1, <1>2, <1>3 DEF Merged, Row
<1>5. QED BY <1>2, <1>3, <1>4 DEF Merged, UpdateApplies, ProgressFits, Row

-----------------------------------------------------------------------------
(* The inductive invariant.                                                *)

\* No row is newer than the sequence.
RowsReserved == \A k \in Keys : Stored(k) => rows[k].order <= seq

\* Only a batch the provider knows is polled or cancelled.
TargetExists ==
  \A c \in Clients : op[c].phase = "reserved" /\ op[c].kind # "create" =>
                     provider[op[c].key[2]] # NULL

IInv == TypeOK /\ KnownProgress /\ TerminalStamped /\ OrderUsedOnce
        /\ RowsReserved /\ TargetExists

\* The initial state satisfies the invariant.
LEMMA InitIInv == Init => IInv
BY ConstantsAssumption
DEF Init, IInv, TypeOK, KnownProgress, TerminalStamped, OrderUsedOnce, RowsReserved,
    TargetExists, Stored, InFlight, Idle, Op, Orders

\* What an operation is, seen from its phase.
LEMMA OpShape ==
  ASSUME TypeOK, NEW c \in Clients
  PROVE  /\ op[c].phase \in {"idle", "reserved", "answered", "returned"}
         /\ InFlight(c) => /\ op[c].kind \in Kinds /\ op[c].key \in Keys
                           /\ op[c].order \in Orders /\ op[c].settled \in BOOLEAN
         /\ op[c].phase = "answered" => op[c].answer \in Snapshot
BY DEF TypeOK, Op, Idle, InFlight

\* A step that only ends or resumes an operation keeps the invariant.
LEMMA OpOnlyStep ==
  ASSUME IInv, NEW c \in Clients, UNCHANGED <<seq, rows, provider>>,
         NEW o \in Op, o.phase \in {"idle", "returned"}, op' = [op EXCEPT ![c] = o]
  PROVE  IInv'
<1>1. TypeOK'
  BY DEF IInv, TypeOK
<1>2. /\ op'[c] = o
      /\ \A d \in Clients \ {c} : op'[d] = op[d]
  BY DEF IInv, TypeOK
<1>3. KnownProgress' /\ TerminalStamped' /\ RowsReserved'
  BY DEF IInv, KnownProgress, TerminalStamped, RowsReserved, Stored
<1>4. OrderUsedOnce' /\ TargetExists'
  BY <1>2 DEF IInv, OrderUsedOnce, TargetExists, Stored, InFlight
<1>5. QED BY <1>1, <1>3, <1>4 DEF IInv

\* Return makes an operation that has ended.
LEMMA ReturnStep ==
  ASSUME IInv, NEW c \in Clients, InFlight(c), UNCHANGED <<seq, rows, provider>>,
         NEW result \in {"recorded", "declined", "error"}, Return(c, result)
  PROVE  IInv'
<1> DEFINE o == [phase |-> "returned", kind |-> op[c].kind, key |-> op[c].key,
                 order |-> op[c].order, settled |-> op[c].settled, outcome |-> result]
<1>1. o \in Op /\ o.phase = "returned"
  BY OpShape DEF IInv, Op
<1>2. op' = [op EXCEPT ![c] = o]
  BY DEF Return
<1> HIDE DEF o
<1>3. QED BY <1>1, <1>2, OpOnlyStep

\* Answer keeps the invariant when the provider still has, or now has, the
\* batches it had.
LEMMA AnswerStep ==
  ASSUME IInv, NEW c \in Clients, op[c].phase = "reserved",
         NEW s \in Snapshot, Answer(c, s), UNCHANGED <<seq, rows>>,
         provider' \in [Batches -> Snapshot \cup {NULL}],
         \A b \in Batches : provider[b] # NULL => provider'[b] # NULL
  PROVE  IInv'
<1> DEFINE o == [phase |-> "answered", kind |-> op[c].kind, key |-> op[c].key,
                 order |-> op[c].order, settled |-> op[c].settled, answer |-> s]
<1>1. o \in Op /\ o.phase = "answered" /\ o.order = op[c].order
  BY OpShape DEF IInv, Op, InFlight
<1>2. op' = [op EXCEPT ![c] = o]
  BY DEF Answer
<1> HIDE DEF o
<1>3. /\ op'[c] = o
      /\ \A d \in Clients \ {c} : op'[d] = op[d]
      /\ op' \in [Clients -> Op]
  BY <1>1, <1>2 DEF IInv, TypeOK
<1>4. TypeOK'
  BY <1>3 DEF IInv, TypeOK
<1>5. KnownProgress' /\ TerminalStamped' /\ RowsReserved'
  BY DEF IInv, KnownProgress, TerminalStamped, RowsReserved, Stored
<1>6. OrderUsedOnce'
  BY <1>1, <1>3 DEF IInv, OrderUsedOnce, Stored, InFlight
<1>7. TargetExists'
  <2> SUFFICES ASSUME NEW d \in Clients, op'[d].phase = "reserved", op'[d].kind # "create"
               PROVE  provider'[op'[d].key[2]] # NULL
    BY DEF TargetExists
  <2>1. d # c /\ op'[d] = op[d]
    BY <1>1, <1>3
  <2>2. op[d].key[2] \in Batches /\ provider[op[d].key[2]] # NULL
    BY <2>1, OpShape DEF IInv, TargetExists, InFlight, Keys
  <2>3. QED BY <2>1, <2>2
<1>8. QED BY <1>4, <1>5, <1>6, <1>7 DEF IInv

\* The reservation takes an order nobody has.
LEMMA ReserveStep ==
  ASSUME IInv, NEW c \in Clients, NEW kind \in Kinds, NEW k \in Keys, Reserve(c, kind, k)
  PROVE  IInv'
<1> DEFINE o == [phase |-> "reserved", kind |-> kind, key |-> k, order |-> seq + 1,
                 settled |-> provider[k[2]] # NULL /\ Terminal(provider[k[2]].status)]
<1>1. seq + 1 \in Orders /\ seq' = seq + 1 /\ seq' \in 0 .. MaxOrder /\ seq \in Nat
  BY ConstantsAssumption DEF IInv, TypeOK, Reserve, Orders
<1>2. /\ o \in Op /\ o.phase = "reserved" /\ o.order = seq + 1
      /\ o.kind = kind /\ o.key = k
  BY <1>1 DEF Op
<1>3. op' = [op EXCEPT ![c] = o] /\ UNCHANGED <<rows, provider>> /\ op[c] = Idle
  BY DEF Reserve
<1>4. kind # "create" => provider[k[2]] # NULL
  BY DEF Reserve
<1> HIDE DEF o
<1>5. /\ op'[c] = o
      /\ \A d \in Clients \ {c} : op'[d] = op[d]
      /\ op' \in [Clients -> Op]
  BY <1>2, <1>3 DEF IInv, TypeOK
<1>6. TypeOK'
  BY <1>1, <1>3, <1>5 DEF IInv, TypeOK
<1>7. KnownProgress' /\ TerminalStamped'
  BY <1>3 DEF IInv, KnownProgress, TerminalStamped, Stored
<1>8. RowsReserved'
  <2> SUFFICES ASSUME NEW j \in Keys, rows[j] # NULL PROVE rows[j].order <= seq + 1
    BY <1>1, <1>3 DEF RowsReserved, Stored
  <2>1. rows[j].order <= seq /\ rows[j].order \in Nat
    BY DEF IInv, TypeOK, RowsReserved, Stored, Row
  <2>2. QED BY <2>1, <1>1
<1>9. OrderUsedOnce'
  <2>1. \A d \in Clients : InFlight(d) => op[d].order \in Nat /\ op[d].order <= seq
    BY OpShape DEF IInv, OrderUsedOnce, Orders
  <2>2. \A j \in Keys : rows[j] # NULL => rows[j].order \in Nat /\ rows[j].order <= seq
    BY DEF IInv, TypeOK, RowsReserved, Stored, Row
  <2>3. \A d \in Clients \ {c} : InFlight(d)' <=> InFlight(d)
    BY <1>5 DEF InFlight
  <2>4. QED BY <1>1, <1>2, <1>3, <1>5, <2>1, <2>2, <2>3 DEF IInv, OrderUsedOnce, Stored
<1>10. TargetExists'
  BY <1>2, <1>3, <1>4, <1>5 DEF IInv, TargetExists
<1>11. QED BY <1>6, <1>7, <1>8, <1>9, <1>10 DEF IInv

-----------------------------------------------------------------------------
(* The upsert.                                                             *)

\* A row respects its known total, and is stamped exactly when terminal.
Consistent(r) ==
  /\ r.known => r.completed + r.failed <= r.total
  /\ r.terminal_at # NULL <=> Terminal(r.status)

\* What a step may do to a row.
RowStep(old, new) ==
  /\ new \in Row /\ Consistent(new)
  /\ old # NULL => Extends(old, new) /\ Absorbing(old, new)

\* The upsert of a normalized observation keeps a row consistent, extends what
\* it knows, and never leaves a terminal status.
LEMMA UpsertRow ==
  ASSUME NEW old \in Row \cup {NULL}, NEW new \in Row,
         old # NULL => Consistent(old), Consistent(new)
  PROVE  /\ RowStep(old, Upsert(old, new))
         /\ Upsert(old, new).order = new.order \/ (old # NULL /\ Upsert(old, new) = old)
<1>1. CASE old = NULL
  <2>1. Upsert(old, new) = new
    BY <1>1 DEF Upsert
  <2>2. QED BY <1>1, <2>1 DEF RowStep
<1>2. CASE old # NULL /\ UpdateApplies(old, new)
  <2>1. Upsert(old, new) = Merged(old, new)
    BY <1>2 DEF Upsert
  <2>2. Merged(old, new) \in Row /\ Extends(old, Merged(old, new))
        /\ (Merged(old, new).known
             => Merged(old, new).completed + Merged(old, new).failed <= Merged(old, new).total)
    BY <1>2, MergedRow DEF Extends
  <2>3. Merged(old, new).terminal_at = COALESCE(old.terminal_at, new.terminal_at)
        /\ Merged(old, new).status = new.status /\ Merged(old, new).order = new.order
    BY DEF Merged
  <2>4. Absorbing(old, Merged(old, new))
    BY <1>2, <2>3 DEF Consistent, Absorbing, COALESCE, UpdateApplies, ProgressFits
  <2>5. Merged(old, new).terminal_at # NULL <=> Terminal(Merged(old, new).status)
    BY <1>2, <2>3 DEF Consistent, COALESCE, UpdateApplies, ProgressFits
  <2>6. QED BY <2>1, <2>2, <2>3, <2>4, <2>5 DEF RowStep, Consistent
<1>3. CASE old # NULL /\ ~UpdateApplies(old, new)
  <2>1. Upsert(old, new) = old
    BY <1>3 DEF Upsert
  <2>2. Extends(old, old) /\ Absorbing(old, old)
    BY <1>3 DEF Extends, Absorbing, Row
  <2>3. QED BY <1>3, <2>1, <2>2 DEF RowStep
<1>4. QED BY <1>1, <1>2, <1>3

\* One persisted observation changes one row of the operation's own tenant, as
\* RowStep allows, and either brings the operation's order or changes nothing.
LEMMA PersistRow ==
  ASSUME IInv, NEW c \in Clients, Persist(c)
  PROVE  \E k \in Keys :
           /\ k[1] = op[c].key[1]
           /\ rows' = [rows EXCEPT ![k] = rows'[k]]
           /\ RowStep(rows[k], rows'[k])
           /\ rows'[k].order = op[c].order \/ (Stored(k) /\ rows'[k] = rows[k])
<1> DEFINE s == op[c].answer
           k == <<op[c].key[1], s.id>>
<1>1. /\ op[c].kind \in Kinds /\ op[c].key \in Keys /\ op[c].order \in Nat \ {0}
      /\ s \in Snapshot
  BY OpShape DEF IInv, Persist, InFlight, Orders
<1>2. k \in Keys /\ k[1] = op[c].key[1]
  BY <1>1 DEF Keys, Snapshot
<1>3. PICK t \in Times : rows' = [rows EXCEPT ![k] = Upsert(@, Inserted(s, op[c].order, t))]
  BY DEF Persist
<1>4. Normalizes(op[c].kind, op[c].key, s)
  BY DEF Persist
<1> DEFINE new == Inserted(s, op[c].order, t)
<1>5. new \in Row /\ new.order = op[c].order /\ Consistent(new)
  BY <1>1, <1>4, InsertedRow DEF Consistent
<1>6. rows' = [rows EXCEPT ![k] = Upsert(rows[k], new)]
  BY <1>3
<1>7. /\ rows[k] \in Row \cup {NULL}
      /\ rows \in [Keys -> Row \cup {NULL}]
      /\ rows[k] # NULL => Consistent(rows[k])
  BY <1>2 DEF Consistent, IInv, TypeOK, KnownProgress, TerminalStamped, Stored
<1> HIDE DEF new, k, s
<1>8. /\ RowStep(rows[k], Upsert(rows[k], new))
      /\ Upsert(rows[k], new).order = new.order
           \/ (rows[k] # NULL /\ Upsert(rows[k], new) = rows[k])
  BY <1>5, <1>7, UpsertRow
<1>9. rows'[k] = Upsert(rows[k], new)
  BY <1>2, <1>6, <1>7
<1>10. QED BY <1>2, <1>5, <1>6, <1>8, <1>9 DEF Stored

\* Persisting an observation keeps the invariant.
LEMMA PersistStep ==
  ASSUME IInv, NEW c \in Clients, Persist(c)
  PROVE  IInv'
<1>1. PICK k \in Keys :
           /\ rows' = [rows EXCEPT ![k] = rows'[k]]
           /\ RowStep(rows[k], rows'[k])
           /\ rows'[k].order = op[c].order \/ (Stored(k) /\ rows'[k] = rows[k])
  BY PersistRow
<1>2. /\ \A j \in Keys \ {k} : rows'[j] = rows[j]
      /\ rows' \in [Keys -> Row \cup {NULL}]
      /\ rows'[k] \in Row /\ Consistent(rows'[k])
  BY <1>1 DEF IInv, TypeOK, RowStep
<1>3. PICK result \in {"recorded", "error"} : Return(c, result)
  BY DEF Persist
<1> DEFINE o == [phase |-> "returned", kind |-> op[c].kind, key |-> op[c].key,
                 order |-> op[c].order, settled |-> op[c].settled, outcome |-> result]
<1>4. o \in Op /\ o.phase = "returned" /\ InFlight(c)
  BY OpShape DEF IInv, Op, Persist, InFlight
<1>5. op' = [op EXCEPT ![c] = o] /\ UNCHANGED <<seq, provider>>
  BY <1>3 DEF Return, Persist
<1> HIDE DEF o
<1>6. /\ op'[c] = o
      /\ \A d \in Clients \ {c} : op'[d] = op[d]
      /\ op' \in [Clients -> Op]
  BY <1>4, <1>5 DEF IInv, TypeOK
<1>7. TypeOK'
  BY <1>2, <1>5, <1>6 DEF IInv, TypeOK
<1>8. KnownProgress' /\ TerminalStamped'
  BY <1>2 DEF IInv, KnownProgress, TerminalStamped, Stored, Consistent
<1>9. op[c].order <= seq
  BY <1>4 DEF IInv, OrderUsedOnce
<1>10. RowsReserved'
  BY <1>1, <1>2, <1>5, <1>9 DEF IInv, RowsReserved, Stored
<1>11. OrderUsedOnce'
  <2> SUFFICES ASSUME NEW d \in Clients, InFlight(d)'
               PROVE  /\ op'[d].order <= seq'
                      /\ \A e \in Clients \ {d} : InFlight(e)' => op'[e].order # op'[d].order
                      /\ \A j \in Keys : rows'[j] # NULL => rows'[j].order # op'[d].order
    BY DEF OrderUsedOnce, Stored
  <2>1. d # c /\ op'[d] = op[d] /\ InFlight(d)
    BY <1>4, <1>6 DEF InFlight
  <2>2. op'[d].order <= seq'
    BY <1>5, <2>1 DEF IInv, OrderUsedOnce
  <2>3. ASSUME NEW e \in Clients \ {d}, InFlight(e)' PROVE op'[e].order # op'[d].order
    BY <1>4, <1>6, <2>1, <2>3 DEF IInv, OrderUsedOnce, InFlight
  <2>4. ASSUME NEW j \in Keys, rows'[j] # NULL PROVE rows'[j].order # op'[d].order
    <3>1. op[c].order # op[d].order
      BY <1>4, <2>1 DEF IInv, OrderUsedOnce
    <3>2. rows[j] # NULL => rows[j].order # op[d].order
      BY <2>1 DEF IInv, OrderUsedOnce, Stored
    <3>3. QED BY <1>1, <1>2, <2>1, <2>4, <3>1, <3>2 DEF Stored
  <2>5. QED BY <2>2, <2>3, <2>4
<1>12. TargetExists'
  BY <1>4, <1>5, <1>6 DEF IInv, TargetExists
<1>13. QED BY <1>7, <1>8, <1>10, <1>11, <1>12 DEF IInv

\* A move of the provider keeps the invariant.
LEMMA ProviderKeeps ==
  ASSUME IInv, NEW b \in Batches, ProviderStep(b)
  PROVE  IInv'
<1>1. PICK p \in Evolutions(provider[b]) : provider' = [provider EXCEPT ![b] = p]
  BY DEF ProviderStep
<1>2. provider[b] \in Snapshot
  BY DEF IInv, TypeOK, ProviderStep
<1>3. p \in Snapshot /\ p # NULL
  BY <1>1, <1>2, EvolutionsType, NullAssumption
<1>4. /\ provider' \in [Batches -> Snapshot \cup {NULL}]
      /\ \A a \in Batches : provider[a] # NULL => provider'[a] # NULL
  BY <1>1, <1>3 DEF IInv, TypeOK
<1>5. UNCHANGED <<seq, rows, op>>
  BY DEF ProviderStep
<1>6. TypeOK' /\ KnownProgress' /\ TerminalStamped' /\ RowsReserved' /\ OrderUsedOnce'
  BY <1>4, <1>5 DEF IInv, TypeOK, KnownProgress, TerminalStamped, RowsReserved,
                    OrderUsedOnce, Stored, InFlight
<1>7. TargetExists'
  <2> SUFFICES ASSUME NEW d \in Clients, op[d].phase = "reserved", op[d].kind # "create"
               PROVE  provider'[op[d].key[2]] # NULL
    BY <1>5 DEF TargetExists
  <2>1. op[d].key[2] \in Batches /\ provider[op[d].key[2]] # NULL
    BY OpShape DEF IInv, TargetExists, InFlight, Keys
  <2>2. QED BY <1>4, <2>1
<1>8. QED BY <1>6, <1>7 DEF IInv

\* Every response step hands the client a decoded response.
LEMMA RespondStep ==
  ASSUME IInv, NEW c \in Clients,
         RespondCreate(c) \/ RespondPoll(c) \/ RespondCancel(c)
  PROVE  IInv'
<1> DEFINE b == op[c].key[2]
<1>1. op[c].phase = "reserved" /\ UNCHANGED <<seq, rows>>
  BY DEF RespondCreate, RespondPoll, RespondCancel
<1>2. b \in Batches
  BY <1>1, OpShape DEF IInv, InFlight, Keys
<1>3. ASSUME NEW s \in Snapshot PROVE [s EXCEPT !.status = ""] \in Snapshot
  BY DEF Snapshot, RawStatuses
<1>4. CASE RespondCreate(c)
  <2>1. Created(b, InitialCols) \in Snapshot
    BY <1>2, InitialColsType DEF Created, Snapshot, RawStatuses, SupportedStatuses
  <2>2. provider' = [provider EXCEPT ![b] = Created(b, InitialCols)]
    BY <1>4 DEF RespondCreate
  <2>3. PICK s \in Answers(Created(b, InitialCols)), blank \in BOOLEAN :
        \E r \in CreateSnapshots(IF blank THEN [s EXCEPT !.status = ""] ELSE s) : Answer(c, r)
    BY <1>4 DEF RespondCreate
  <2>4. PICK r \in CreateSnapshots(IF blank THEN [s EXCEPT !.status = ""] ELSE s) : Answer(c, r)
    BY <2>3
  <2>5. (IF blank THEN [s EXCEPT !.status = ""] ELSE s) \in Snapshot
    BY <1>3, <2>1, AnswersType
  <2>6. ASSUME NEW q \in Snapshot PROVE CreateSnapshots(q) \subseteq Snapshot
    <3> DEFINE filled == [f \in Fields |-> COALESCE(q.cols[f], InitialCols[f])]
    <3>1. q.cols \in [Fields -> Values \cup {NULL}]
      BY DEF Snapshot
    <3>2. filled \in [Fields -> Values \cup {NULL}]
      BY <3>1, InitialColsType DEF COALESCE
    <3>3. CreateSnapshots(q) = {q, [q EXCEPT !.cols = filled]}
      BY DEF CreateSnapshots
    <3> HIDE DEF filled
    <3>4. [q EXCEPT !.cols = filled] \in Snapshot
      BY <3>2 DEF Snapshot
    <3>5. QED BY <3>3, <3>4
  <2>7. r \in Snapshot
    BY <2>4, <2>5, <2>6
  <2>8. /\ provider' \in [Batches -> Snapshot \cup {NULL}]
        /\ \A a \in Batches : provider[a] # NULL => provider'[a] # NULL
    BY <1>2, <2>1, <2>2, NullAssumption DEF IInv, TypeOK
  <2>9. QED BY <1>1, <2>4, <2>7, <2>8, AnswerStep
<1>5. CASE RespondPoll(c)
  <2>1. PICK s \in Answers(provider[b]) : Answer(c, s)
    BY <1>5 DEF RespondPoll
  <2>2. provider[b] \in Snapshot
    BY <1>1, <1>2, <1>5 DEF IInv, TypeOK, TargetExists, RespondPoll
  <2>3. s \in Snapshot
    BY <2>1, <2>2, AnswersType
  <2>4. provider' = provider
    BY <1>5 DEF RespondPoll
  <2>5. QED BY <1>1, <2>1, <2>3, <2>4, AnswerStep DEF IInv, TypeOK
<1>6. CASE RespondCancel(c)
  <2> DEFINE p == [provider[b] EXCEPT !.status = "cancelling"]
  <2>1. provider[b] \in Snapshot
    BY <1>1, <1>2, <1>6 DEF IInv, TypeOK, TargetExists, RespondCancel
  <2>2. p \in Snapshot
    BY <2>1 DEF Snapshot, RawStatuses, SupportedStatuses
  <2>3. provider' = [provider EXCEPT ![b] = p]
    BY <1>6 DEF RespondCancel
  <2>4. PICK s \in Answers(p), blank \in BOOLEAN :
        \E r \in CancelSnapshots(b, IF blank THEN [s EXCEPT !.status = ""] ELSE s) : Answer(c, r)
    BY <1>6 DEF RespondCancel
  <2>5. PICK r \in CancelSnapshots(b, IF blank THEN [s EXCEPT !.status = ""] ELSE s) : Answer(c, r)
    BY <2>4
  <2>6. (IF blank THEN [s EXCEPT !.status = ""] ELSE s) \in Snapshot
    BY <1>3, <2>2, <2>4, AnswersType
  <2>7. ASSUME NEW q \in Snapshot PROVE CancelSnapshots(b, q) \subseteq Snapshot
    <3> DEFINE Sent(st) == [id |-> b, status |-> st, known |-> FALSE, total |-> 0,
                            completed |-> 0, failed |-> 0, cols |-> [f \in Fields |-> NULL]]
    <3>1. ASSUME NEW st \in RawStatuses PROVE Sent(st) \in Snapshot
      BY <1>2 DEF Snapshot
    <3>2. (IF q.status = "" THEN {"", "cancelling"} ELSE {q.status}) \subseteq RawStatuses
      BY DEF Snapshot, RawStatuses, SupportedStatuses
    <3>3. CancelSnapshots(b, q)
            = {Sent(st) : st \in IF q.status = "" THEN {"", "cancelling"} ELSE {q.status}}
      BY DEF CancelSnapshots
    <3> HIDE DEF Sent
    <3>4. QED BY <3>1, <3>2, <3>3
  <2>8. r \in Snapshot
    BY <2>5, <2>6, <2>7
  <2>9. /\ provider' \in [Batches -> Snapshot \cup {NULL}]
        /\ \A a \in Batches : provider[a] # NULL => provider'[a] # NULL
    BY <1>2, <2>2, <2>3, NullAssumption DEF IInv, TypeOK
  <2>10. QED BY <1>1, <2>5, <2>8, <2>9, AnswerStep
<1>7. QED BY <1>4, <1>5, <1>6

\* Every step of the specification keeps the invariant.
LEMMA NextIInv == IInv /\ [Next]_vars => IInv'
<1> SUFFICES ASSUME IInv, [Next]_vars PROVE IInv'
  OBVIOUS
<1>1. ASSUME NEW c \in Clients, NEW kind \in Kinds, NEW k \in Keys, Reserve(c, kind, k)
      PROVE  IInv'
  BY <1>1, ReserveStep
<1>2. ASSUME NEW c \in Clients, RespondCreate(c) \/ RespondPoll(c) \/ RespondCancel(c)
      PROVE  IInv'
  BY <1>2, RespondStep
<1>3. ASSUME NEW c \in Clients, DeclineCancel(c) PROVE IInv'
  BY <1>3, ReturnStep DEF DeclineCancel, InFlight
<1>4. ASSUME NEW c \in Clients, Persist(c) PROVE IInv'
  BY <1>4, PersistStep
<1>5. ASSUME NEW c \in Clients, Refuse(c) PROVE IInv'
  BY <1>5, ReturnStep DEF Refuse, InFlight
<1>6. ASSUME NEW c \in Clients, Fail(c) PROVE IInv'
  BY <1>6, ReturnStep DEF Fail, InFlight
<1>7. ASSUME NEW c \in Clients, Resume(c) PROVE IInv'
  <2>1. Idle \in Op /\ Idle.phase = "idle"
    BY DEF Op, Idle
  <2>2. QED BY <1>7, <2>1, OpOnlyStep DEF Resume
<1>8. ASSUME NEW b \in Batches, ProviderStep(b) PROVE IInv'
  BY <1>8, ProviderKeeps
<1>9. ASSUME UNCHANGED vars PROVE IInv'
  BY <1>9 DEF vars, IInv, TypeOK, KnownProgress, TerminalStamped, OrderUsedOnce,
              RowsReserved, TargetExists, Stored, InFlight
<1>10. QED
  BY <1>1, <1>2, <1>3, <1>4, <1>5, <1>6, <1>7, <1>8, <1>9 DEF Next, ClientStep

\* The invariant holds in every state of every behaviour.
THEOREM Invariance == Spec => []IInv
BY InitIInv, NextIInv, PTL DEF Spec

\* State stays well typed: in particular the counters a row merges still fit
\* the INTEGER columns, and no step invents a status outside the vocabulary.
THEOREM TypeCorrect == Spec => []TypeOK
<1>1. IInv => TypeOK
  BY DEF IInv
<1>2. QED BY <1>1, Invariance, PTL

\* The WHERE clause of the upsert keeps merged progress within the known total,
\* so that the known_progress CHECK of the table can never fire on an update.
THEOREM ProgressStaysConsistent == Spec => []KnownProgress
<1>1. IInv => KnownProgress
  BY DEF IInv
<1>2. QED BY <1>1, Invariance, PTL

\* terminal_at is set exactly on the rows whose status is terminal.
THEOREM StampMatchesStatus == Spec => []TerminalStamped
<1>1. IInv => TerminalStamped
  BY DEF IInv
<1>2. QED BY <1>1, Invariance, PTL

\* Reservation gives each observation an order of its own.
THEOREM OrdersAreUnique == Spec => []OrderUsedOnce
<1>1. IInv => OrderUsedOnce
  BY DEF IInv
<1>2. QED BY <1>1, Invariance, PTL

-----------------------------------------------------------------------------
(* What a step may do to the table.                                        *)

\* A step leaves the table alone, or takes one row as RowStep allows.
LEMMA TableStep ==
  ASSUME IInv, [Next]_vars
  PROVE  \/ rows' = rows
         \/ \E k \in Keys : /\ rows' = [rows EXCEPT ![k] = rows'[k]]
                             /\ RowStep(rows[k], rows'[k])
<1>1. CASE \E c \in Clients : Persist(c)
  BY <1>1, PersistRow
<1>2. CASE ~\E c \in Clients : Persist(c)
  BY <1>2 DEF Next, ClientStep, vars, Reserve, RespondCreate, RespondPoll, RespondCancel,
              DeclineCancel, Refuse, Fail, Resume, ProviderStep
<1>3. QED BY <1>1, <1>2

\* A row that exists goes on existing, extended and with its terminal status.
LEMMA RowsPersist ==
  ASSUME IInv, [Next]_vars, NEW k \in Keys, Stored(k)
  PROVE  rows'[k] # NULL /\ Extends(rows[k], rows'[k]) /\ Absorbing(rows[k], rows'[k])
<1>1. rows[k] \in Row
  BY DEF IInv, TypeOK, Stored
<1>2. Extends(rows[k], rows[k]) /\ Absorbing(rows[k], rows[k])
  BY <1>1 DEF Extends, Absorbing, Row
<1>3. CASE rows' = rows
  BY <1>2, <1>3 DEF Stored
<1>4. ASSUME NEW j \in Keys, rows' = [rows EXCEPT ![j] = rows'[j]], RowStep(rows[j], rows'[j])
      PROVE  rows'[k] # NULL /\ Extends(rows[k], rows'[k]) /\ Absorbing(rows[k], rows'[k])
  <2>1. CASE j = k
    BY <1>4, <2>1, NullAssumption DEF RowStep, Stored
  <2>2. CASE j # k
    <3>1. rows'[k] = rows[k]
      BY <1>4, <2>2 DEF IInv, TypeOK
    <3>2. QED BY <1>2, <3>1 DEF Stored
  <2>3. QED BY <2>1, <2>2
<1>5. QED BY <1>3, <1>4, TableStep

\* No interleaving of clients, crashes and provider answers, however late an
\* observation arrives, takes a row out of a terminal status or restamps it.
THEOREM TerminalIsFinalHolds == Spec => TerminalIsFinal
<1> DEFINE A == \A k \in Keys : Stored(k) => rows'[k] # NULL /\ Absorbing(rows[k], rows'[k])
<1>1. IInv /\ [Next]_vars => [A]_vars
  BY RowsPersist
<1> HIDE DEF A
<1>2. Spec => [][A]_vars
  BY <1>1, Invariance, PTL DEF Spec
<1>3. QED BY <1>2 DEF A, TerminalIsFinal

\* Nor does any step lose a counter, a known total or an identifier of a row.
THEOREM NothingForgottenHolds == Spec => NothingForgotten
<1> DEFINE A == \A k \in Keys : Stored(k) => rows'[k] # NULL /\ Extends(rows[k], rows'[k])
<1>1. IInv /\ [Next]_vars => [A]_vars
  BY RowsPersist
<1> HIDE DEF A
<1>2. Spec => [][A]_vars
  BY <1>1, Invariance, PTL DEF Spec
<1>3. QED BY <1>2 DEF A, NothingForgotten

-----------------------------------------------------------------------------
(* The refinement.                                                         *)

\* A row is seen as a well-formed projection.
LEMMA ProjectedRow ==
  ASSUME NEW r \in Row
  PROVE  /\ Projected(r) \in Abs!Projection /\ Projected(r) # NULL
         /\ Consistent(r) => Abs!WellFormed(Projected(r))
         /\ Projected(r).status = r.status /\ Projected(r).settled_at = r.terminal_at
         /\ Projected(r).version = r.order /\ Projected(r).completed = r.completed
         /\ Projected(r).failed = r.failed
<1>1. Projected(r) = [version |-> r.order, status |-> r.status, completed |-> r.completed,
                      failed |-> r.failed, settled_at |-> r.terminal_at]
  BY NullAssumption DEF Projected
<1>2. r.completed \in Nat /\ r.failed \in Nat /\ r.order \in Nat
  BY ConstantsAssumption DEF Row
<1>3. Projected(r) \in Abs!Projection
  BY <1>1, <1>2 DEF Abs!Projection, Row
<1>4. QED BY <1>1, <1>3, NullAssumption DEF Consistent, Abs!WellFormed, Terminal

\* The concrete initial state is the abstract one, and every concrete step is an
\* abstract Discover, Observe or Enrich of one batch, or a stutter.
THEOREM Refinement == Spec => ImplementsProjection
<1> DEFINE proj == [k \in Keys |-> Projected(rows[k])]
<1>1. Init => Abs!Init
  BY DEF Init, Abs!Init, Projected
<1>2. IInv /\ [Next]_vars => [Abs!Next]_proj
  <2> SUFFICES ASSUME IInv, [Next]_vars, proj' # proj PROVE Abs!Next
    OBVIOUS
  <2>1. rows' # rows
    OBVIOUS
  <2>2. PICK k \in Keys : /\ rows' = [rows EXCEPT ![k] = rows'[k]]
                          /\ RowStep(rows[k], rows'[k])
    BY <2>1, TableStep
  <2>3. rows'[k] \in Row /\ Consistent(rows'[k])
    BY <2>2 DEF RowStep
  <2>4. /\ proj[k] = Projected(rows[k]) /\ proj'[k] = Projected(rows'[k])
        /\ DOMAIN proj' = Keys
    OBVIOUS
  <2>5. \A j \in Keys \ {k} : proj'[j] = proj[j]
    <3>1. \A j \in Keys \ {k} : rows'[j] = rows[j]
      BY <2>2 DEF IInv, TypeOK
    <3>2. QED BY <3>1
  <2>6. CASE rows[k] = NULL
    <3>1. proj[k] = NULL
      BY <2>4, <2>6 DEF Projected
    <3>2. proj'[k] \in Abs!Projection /\ Abs!WellFormed(proj'[k])
      BY <2>3, <2>4, ProjectedRow
    <3>3. Abs!Discover(k)
      BY <3>1, <3>2 DEF Abs!Discover
    <3>4. QED BY <2>4, <2>5, <3>3 DEF Abs!Next
  <2>7. CASE rows[k] # NULL
    <3>1. rows[k] \in Row
      BY <2>7 DEF IInv, TypeOK
    <3>2. Extends(rows[k], rows'[k]) /\ Absorbing(rows[k], rows'[k])
      BY <2>2, <2>7 DEF RowStep
    <3>3. rows'[k] # rows[k]
      BY <2>1, <2>2 DEF IInv, TypeOK
    <3>4. Abs!Grows(proj[k], proj'[k])
      BY <2>3, <2>4, <3>1, <3>2, <3>3, ProjectedRow DEF Abs!Grows, Extends
    <3>5. CASE Terminal(rows[k].status)
      <4>1. Abs!Enrich(k)
        BY <2>3, <2>4, <3>1, <3>2, <3>4, <3>5, ProjectedRow DEF Abs!Enrich, Absorbing, Terminal
      <4>2. QED BY <2>4, <2>5, <4>1 DEF Abs!Next
    <3>6. CASE ~Terminal(rows[k].status)
      <4>1. Abs!Observe(k)
        BY <2>3, <2>4, <3>1, <3>4, <3>6, ProjectedRow DEF Abs!Observe, Terminal
      <4>2. QED BY <2>4, <2>5, <4>1 DEF Abs!Next
    <3>7. QED BY <3>5, <3>6
  <2>8. QED BY <2>6, <2>7
<1>3. QED BY <1>1, <1>2, Invariance, PTL DEF Spec, ImplementsProjection, Abs!Spec

-----------------------------------------------------------------------------
(* Properties about an honest provider.                                    *)

\* The operation is in flight or has returned and not been resumed.
Active(c) == op[c].phase # "idle"

\* Counts of an honest provider: none before the total is known, then within it.
Progress(q) == q.total \in {0, Total} /\ q.completed + q.failed <= q.total

\* A batch object of the provider.
Sound(p, b) ==
  /\ p.id = b /\ p.status \in SupportedStatuses /\ Progress(p)
  /\ p.status = "validating" => p.total = 0
  /\ p.status = "in_progress" => p.total = Total

\* What q says was true of the batch, and still is of the object p.
BackedBy(q, p) ==
  /\ p # NULL
  /\ Terminal(q.status) => p.status = q.status
  /\ q.total <= p.total /\ q.completed <= p.completed /\ q.failed <= p.failed

\* The provider's objects count consistently.
ProviderSound == \A b \in Batches : provider[b] # NULL => Sound(provider[b], b)

\* An answer in flight is about the batch of its operation and not ahead of it; after
\* a reservation that found the batch terminal it carries the terminal status.
AnswersBacked ==
  \A c \in Clients : op[c].phase = "answered" =>
    LET a == op[c].answer  p == provider[op[c].key[2]]
    IN /\ a.id = op[c].key[2] /\ Progress(a) /\ BackedBy(a, p)
       /\ op[c].settled => a.status = p.status

\* So are the rows.
RowsBacked ==
  \A k \in Keys : Stored(k) => Progress(rows[k]) /\ BackedBy(rows[k], provider[k[2]])

\* A batch that was terminal is terminal.
SettledStays ==
  \A c \in Clients : Active(c) /\ op[c].settled =>
    LET p == provider[op[c].key[2]] IN p # NULL /\ Terminal(p.status)

\* Whoever reserves after an operation that found its batch terminal finds it terminal too.
SettledInOrder ==
  \A c, d \in Clients :
    Active(c) /\ op[c].settled /\ InFlight(d) /\ op[d].key[2] = op[c].key[2]
      /\ op[d].order > op[c].order => op[d].settled

\* ... and so does a row that such an operation wrote.
NewerRowsSettled ==
  \A c \in Clients, k \in Keys :
    Active(c) /\ op[c].settled /\ k[2] = op[c].key[2] /\ Stored(k)
      /\ rows[k].order > op[c].order => rows[k].status = provider[k[2]].status

\* What an honest provider adds to IInv.
HInv == /\ ProviderSound /\ AnswersBacked /\ RowsBacked /\ SettledStays /\ SettledInOrder
        /\ NewerRowsSettled /\ SuccessIsCovered /\ PollAfterFinishSettles

\* What the provider may do to an object that exists.
ProviderMove(p, q) ==
  /\ q # NULL
  /\ q.total >= p.total /\ q.completed >= p.completed /\ q.failed >= p.failed
  /\ Terminal(p.status) => q = p

\* An honest provider keeps its objects sound, counts upwards and never leaves a
\* terminal status.
LEMMA EvolutionsSound ==
  ASSUME NEW b \in Batches, NEW p \in Snapshot, Sound(p, b), NEW q \in Evolutions(p)
  PROVE  Sound(q, b) /\ ProviderMove(p, q)
<1>1. q \in Snapshot /\ q # NULL
  BY EvolutionsType, NullAssumption
<1>2. Total \in Nat /\ p.total \in Nat /\ p.completed \in Nat /\ p.failed \in Nat
  BY ConstantsAssumption DEF Snapshot
<1>3. ASSUME q.id = p.id, q.status \in SupportedStatuses, ~Terminal(p.status),
             q.total >= p.total, q.completed >= p.completed, q.failed >= p.failed,
             Progress(q), q.status # "validating", q.status = "in_progress" => q.total = Total
      PROVE  Sound(q, b) /\ ProviderMove(p, q)
  BY <1>1, <1>3 DEF Sound, ProviderMove
<1>4. CASE p.status = "validating"
  <2>1. q \in {[p EXCEPT !.status = "failed"],
               [p EXCEPT !.status = "in_progress", !.total = Total]}
    BY <1>4 DEF Evolutions
  <2>2. /\ q.id = p.id /\ q.completed = p.completed /\ q.failed = p.failed
        /\ \/ q.status = "failed" /\ q.total = p.total
           \/ q.status = "in_progress" /\ q.total = Total
    BY <2>1 DEF Snapshot
  <2>3. p.total = 0 /\ p.completed + p.failed <= 0
    BY <1>4 DEF Sound, Progress
  <2>4. Progress(q)
    BY <1>2, <2>2, <2>3 DEF Progress
  <2>5. q.status \in SupportedStatuses /\ ~Terminal(p.status)
    BY <1>4, <2>2 DEF SupportedStatuses, Terminal, TerminalStatuses
  <2>6. QED BY <1>2, <1>3, <2>2, <2>3, <2>4, <2>5
<1>5. CASE p.status = "in_progress"
  <2>1. \/ q = [p EXCEPT !.status = "expired", !.cols = WithFiles(p)]
        \/ p.completed + p.failed < Total
             /\ q \in {[p EXCEPT !.completed = @ + 1], [p EXCEPT !.failed = @ + 1]}
        \/ q = [p EXCEPT !.status = "finalizing"]
    BY <1>5 DEF Evolutions
  <2>2. /\ q.id = p.id /\ q.total = p.total
        /\ \/ /\ q.status \in {"expired", "finalizing"}
              /\ q.completed = p.completed /\ q.failed = p.failed
           \/ /\ q.status = "in_progress" /\ p.completed + p.failed < Total
              /\ \/ q.completed = p.completed + 1 /\ q.failed = p.failed
                 \/ q.completed = p.completed /\ q.failed = p.failed + 1
    BY <1>5, <2>1 DEF Snapshot
  <2>3. p.total = Total /\ p.completed + p.failed <= Total
    BY <1>5 DEF Sound, Progress
  <2>4. Progress(q)
    BY <1>2, <2>2, <2>3 DEF Progress
  <2>5. q.status \in SupportedStatuses /\ ~Terminal(p.status)
    BY <1>5, <2>2 DEF SupportedStatuses, Terminal, TerminalStatuses
  <2>6. q.status # "validating" /\ q.completed >= p.completed /\ q.failed >= p.failed
    BY <1>2, <2>2
  <2>7. QED BY <1>2, <1>3, <2>2, <2>3, <2>4, <2>5, <2>6
<1>6. CASE p.status \in {"finalizing", "cancelling"}
  <2>1. q \in {[p EXCEPT !.status = "completed", !.cols = WithFiles(p)],
               [p EXCEPT !.status = "cancelled", !.cols = WithFiles(p)]}
    BY <1>6 DEF Evolutions
  <2>2. /\ q.id = p.id /\ q.total = p.total /\ q.completed = p.completed /\ q.failed = p.failed
        /\ q.status \in {"completed", "cancelled"}
    BY <2>1 DEF Snapshot
  <2>3. Progress(q)
    BY <2>2 DEF Sound, Progress
  <2>4. q.status \in SupportedStatuses /\ ~Terminal(p.status)
    BY <1>6, <2>2 DEF SupportedStatuses, Terminal, TerminalStatuses
  <2>5. QED BY <1>2, <1>3, <2>2, <2>3, <2>4
<1>7. CASE p.status \notin {"validating", "in_progress", "finalizing", "cancelling"}
  BY <1>7 DEF Evolutions
<1>8. QED BY <1>4, <1>5, <1>6, <1>7

\* An honest answer is the object, possibly without columns and without counts.
LEMMA HonestAnswer ==
  ASSUME HonestProvider, NEW b \in Batches, NEW p \in Snapshot, Sound(p, b), NEW s \in Answers(p)
  PROVE  s.id = b /\ s.status = p.status /\ Progress(s) /\ BackedBy(s, p)
<1>1. Total \in Nat /\ p.total \in Nat /\ p.completed \in Nat /\ p.failed \in Nat /\ p # NULL
  BY ConstantsAssumption, NullAssumption DEF Snapshot
<1>2. ASSUME NEW q \in Snapshot, NEW r \in Sparse(q)
      PROVE  /\ r.id = q.id /\ r.status = q.status
             /\ r.total = q.total /\ r.completed = q.completed /\ r.failed = q.failed
  BY <1>2 DEF Sparse, Snapshot
<1>3. /\ Uncounted(p) \in Snapshot
      /\ Uncounted(p).id = p.id /\ Uncounted(p).status = p.status
      /\ Uncounted(p).total = 0 /\ Uncounted(p).completed = 0 /\ Uncounted(p).failed = 0
  BY DEF Uncounted, Snapshot
<1>4. /\ s.id = p.id /\ s.status = p.status
      /\ \/ s.total = p.total /\ s.completed = p.completed /\ s.failed = p.failed
         \/ s.total = 0 /\ s.completed = 0 /\ s.failed = 0
  BY <1>2, <1>3 DEF Answers
<1>5. QED BY <1>1, <1>4 DEF Sound, Progress, BackedBy

\* The provider's part of a step.
LEMMA ProviderMoves ==
  ASSUME IInv, ProviderSound, [Next]_vars
  PROVE  /\ ProviderSound'
         /\ \A b \in Batches : provider[b] # NULL => ProviderMove(provider[b], provider'[b])
<1>1. ASSUME NEW p \in Snapshot PROVE ProviderMove(p, p)
  BY NullAssumption DEF ProviderMove, Snapshot
<1>2. CASE provider' = provider
  BY <1>1, <1>2 DEF ProviderSound, IInv, TypeOK
<1>3. ASSUME NEW b \in Batches, NEW q, provider' = [provider EXCEPT ![b] = q], Sound(q, b),
             provider[b] # NULL => ProviderMove(provider[b], q)
      PROVE  /\ ProviderSound'
             /\ \A a \in Batches : provider[a] # NULL => ProviderMove(provider[a], provider'[a])
  <2>1. provider'[b] = q /\ \A a \in Batches \ {b} : provider'[a] = provider[a]
    BY <1>3 DEF IInv, TypeOK
  <2>2. \A a \in Batches : provider[a] # NULL => provider[a] \in Snapshot
    BY DEF IInv, TypeOK
  <2>3. QED BY <1>1, <1>3, <2>1, <2>2 DEF ProviderSound
<1>4. ASSUME NEW b \in Batches, ProviderStep(b)
      PROVE  \E q : /\ provider' = [provider EXCEPT ![b] = q] /\ Sound(q, b)
                    /\ ProviderMove(provider[b], q)
  <2>1. provider[b] \in Snapshot /\ Sound(provider[b], b)
    BY <1>4 DEF ProviderStep, IInv, TypeOK, ProviderSound
  <2>2. PICK q \in Evolutions(provider[b]) : provider' = [provider EXCEPT ![b] = q]
    BY <1>4 DEF ProviderStep
  <2>3. QED BY <2>1, <2>2, EvolutionsSound
<1>5. ASSUME NEW c \in Clients, RespondCreate(c)
      PROVE  \E b \in Batches : \E q :
               /\ provider' = [provider EXCEPT ![b] = q] /\ Sound(q, b)
               /\ provider[b] = NULL
  <2> DEFINE b == op[c].key[2]
             q == Created(b, InitialCols)
  <2>1. b \in Batches
    BY <1>5, OpShape DEF IInv, RespondCreate, InFlight, Keys
  <2>2. Sound(q, b)
    BY ConstantsAssumption DEF Sound, Created, Progress, SupportedStatuses
  <2>3. provider' = [provider EXCEPT ![b] = q] /\ provider[b] = NULL
    BY <1>5 DEF RespondCreate
  <2> HIDE DEF b, q
  <2>4. QED BY <2>1, <2>2, <2>3
<1>6. ASSUME NEW c \in Clients, RespondCancel(c)
      PROVE  \E b \in Batches : \E q :
               /\ provider' = [provider EXCEPT ![b] = q] /\ Sound(q, b)
               /\ ProviderMove(provider[b], q)
  <2> DEFINE b == op[c].key[2]
             q == [provider[b] EXCEPT !.status = "cancelling"]
  <2>1. b \in Batches /\ op[c].phase = "reserved" /\ op[c].kind = "cancel"
    BY <1>6, OpShape DEF IInv, RespondCancel, InFlight, Keys
  <2>2. provider[b] \in Snapshot /\ Sound(provider[b], b)
    BY <2>1 DEF IInv, TypeOK, TargetExists, ProviderSound
  <2>3. q \in Snapshot /\ q # NULL
    BY <2>2, NullAssumption DEF Snapshot, RawStatuses, SupportedStatuses
  <2>4. provider' = [provider EXCEPT ![b] = q] /\ ~Terminal(provider[b].status)
    BY <1>6 DEF RespondCancel
  <2>5. Sound(q, b) /\ ProviderMove(provider[b], q)
    BY <2>2, <2>3, <2>4, ConstantsAssumption, SMTT(30) DEF Sound, Progress, ProviderMove, SupportedStatuses, Snapshot
  <2> HIDE DEF b, q
  <2>6. QED BY <2>1, <2>4, <2>5
<1>7. QED
  BY <1>2, <1>3, <1>4, <1>5, <1>6
  DEF Next, ClientStep, vars, Reserve, RespondPoll, DeclineCancel, Persist, Refuse, Fail, Resume

\* What was true of an object is true of it after a move.
LEMMA StillBacked ==
  ASSUME NEW q, q.total \in Nat, q.completed \in Nat, q.failed \in Nat,
         NEW p \in Snapshot, NEW r \in Snapshot, BackedBy(q, p), ProviderMove(p, r)
  PROVE  BackedBy(q, r)
BY DEF BackedBy, ProviderMove, Snapshot

\* An operation goes on with its kind, key, order and reading of the batch.
Goes(c) ==
  /\ Active(c)
  /\ InFlight(c)' => InFlight(c)
  /\ op'[c].kind = op[c].kind /\ op'[c].key = op[c].key
  /\ op'[c].order = op[c].order /\ op'[c].settled = op[c].settled

\* It reserves now, with an order above all others and a fresh look at the batch.
Starts(c) ==
  /\ op'[c].phase = "reserved" /\ op'[c].key \in Keys /\ op'[c].order = seq + 1
  /\ op'[c].settled <=> LET p == provider[op'[c].key[2]] IN p # NULL /\ Terminal(p.status)
  /\ UNCHANGED <<rows, provider>>

\* An operation that is active after a step was so before, or has just reserved.
LEMMA OperationMoves ==
  ASSUME IInv, [Next]_vars, NEW c \in Clients, Active(c)'
  PROVE  Goes(c) \/ Starts(c)
<1>1. op \in [Clients -> Op]
  BY DEF IInv, TypeOK
<1>2. ASSUME NEW d \in Clients, NEW o, op' = [op EXCEPT ![d] = o],
             c = d => /\ InFlight(c) /\ o.kind = op[c].kind /\ o.key = op[c].key
                      /\ o.order = op[c].order /\ o.settled = op[c].settled
      PROVE  Goes(c)
  <2>1. op'[d] = o /\ (c # d => op'[c] = op[c])
    BY <1>1, <1>2
  <2>2. CASE c = d
    BY <1>2, <2>1, <2>2 DEF Goes, Active, InFlight
  <2>3. CASE c # d
    BY <2>1, <2>3 DEF Goes, Active, InFlight
  <2>4. QED BY <2>2, <2>3
<1>3. ASSUME NEW d \in Clients, NEW s, op[d].phase = "reserved", Answer(d, s) PROVE Goes(c)
  BY <1>2, <1>3 DEF Answer, InFlight
<1>4. ASSUME NEW d \in Clients, NEW result, op[d].phase \in {"reserved", "answered"},
             Return(d, result)
      PROVE  Goes(c)
  BY <1>2, <1>4 DEF Return, InFlight
<1>5. ASSUME NEW d \in Clients, NEW kind \in Kinds, NEW k \in Keys, Reserve(d, kind, k)
      PROVE  Goes(c) \/ Starts(c)
  <2> DEFINE o == [phase |-> "reserved", kind |-> kind, key |-> k, order |-> seq + 1,
                   settled |-> provider[k[2]] # NULL /\ Terminal(provider[k[2]].status)]
  <2>1. op' = [op EXCEPT ![d] = o] /\ UNCHANGED <<rows, provider>>
    BY <1>5 DEF Reserve
  <2>2. /\ o.phase = "reserved" /\ o.key = k /\ o.order = seq + 1
        /\ o.settled <=> provider[k[2]] # NULL /\ Terminal(provider[k[2]].status)
    OBVIOUS
  <2> HIDE DEF o
  <2>3. CASE c = d
    <3>1. op'[c] = o
      BY <1>1, <2>1, <2>3
    <3>2. QED BY <2>1, <2>2, <3>1 DEF Starts
  <2>4. CASE c # d
    BY <1>2, <2>1, <2>4
  <2>5. QED BY <2>3, <2>4
<1>6. ASSUME NEW d \in Clients, Resume(d) PROVE Goes(c)
  <2>1. c # d
    BY <1>1, <1>6 DEF Resume, Active, Idle
  <2>2. QED BY <1>2, <1>6, <2>1 DEF Resume
<1>7. ASSUME op' = op PROVE Goes(c)
  BY <1>7 DEF Goes, Active, InFlight
<1>8. ASSUME NEW d \in Clients, RespondCreate(d) \/ RespondPoll(d) \/ RespondCancel(d) PROVE Goes(c)
  <2>1. op[d].phase = "reserved" /\ \E s : Answer(d, s)
    BY <1>8 DEF RespondCreate, RespondPoll, RespondCancel
  <2>2. QED BY <1>3, <2>1
<1>9. ASSUME NEW d \in Clients, DeclineCancel(d) \/ Persist(d) \/ Refuse(d) \/ Fail(d) PROVE Goes(c)
  <2>1. op[d].phase \in {"reserved", "answered"} /\ \E result : Return(d, result)
    BY <1>9 DEF DeclineCancel, Persist, Refuse, Fail
  <2>2. QED BY <1>4, <2>1
<1>10. QED
  BY <1>5, <1>6, <1>7, <1>8, <1>9 DEF Next, ClientStep, ProviderStep, vars

\* An observation of an honest provider is dropped only for the sake of a newer one or
\* of another terminal status: its counts always fit.
LEMMA PersistHonest ==
  ASSUME IInv, AnswersBacked, RowsBacked, ProviderSound, NEW c \in Clients, Persist(c)
  PROVE  LET k == op[c].key
         IN /\ k \in Keys
            /\ rows' = [rows EXCEPT ![k] = rows'[k]] /\ rows'[k] \in Row
            /\ Progress(rows'[k]) /\ BackedBy(rows'[k], provider[k[2]])
            /\ \/ rows'[k].order = op[c].order /\ rows'[k].status = op[c].answer.status
               \/ /\ Stored(k) /\ rows'[k] = rows[k]
                  /\ \/ rows[k].order > op[c].order
                     \/ Terminal(rows[k].status) /\ rows[k].status # op[c].answer.status
<1> DEFINE k == op[c].key
           s == op[c].answer
           p == provider[k[2]]
<1>1. /\ op[c].phase = "answered" /\ op[c].kind \in Kinds /\ k \in Keys
      /\ op[c].order \in Nat \ {0} /\ s \in Snapshot
  BY OpShape DEF IInv, Persist, InFlight, Orders
<1>2. s.id = k[2] /\ Progress(s) /\ BackedBy(s, p) /\ k[2] \in Batches
  BY <1>1 DEF AnswersBacked, Keys
<1>3. <<k[1], s.id>> = k
  BY <1>1, <1>2 DEF Keys
<1>4. PICK t \in Times : rows' = [rows EXCEPT ![k] = Upsert(rows[k], Inserted(s, op[c].order, t))]
  BY <1>3 DEF Persist
<1>5. Normalizes(op[c].kind, k, s)
  BY DEF Persist
<1> DEFINE new == Inserted(s, op[c].order, t)
           old == rows[k]
<1>6. new \in Row /\ new.order = op[c].order /\ Consistent(new)
  BY <1>1, <1>5, InsertedRow DEF Consistent
<1>7. /\ new.status = s.status /\ new.total = s.total /\ new.completed = s.completed
      /\ new.failed = s.failed
  BY <1>5 DEF Inserted, Normalizes, StatusSupported, StoredStatus, ClientStatus, SupportedStatuses
<1>8. Progress(new) /\ BackedBy(new, p)
  BY <1>2, <1>7 DEF Progress, BackedBy
<1>9. /\ old \in Row \cup {NULL} /\ rows \in [Keys -> Row \cup {NULL}]
      /\ old # NULL => Consistent(old) /\ Progress(old) /\ BackedBy(old, p)
      /\ old # NULL => old.order # op[c].order
  BY <1>1 DEF Consistent, IInv, TypeOK, KnownProgress, TerminalStamped, Stored, RowsBacked,
              OrderUsedOnce, InFlight
<1>10. p \in Snapshot /\ Progress(p) /\ Total \in Nat /\ IntMax \in Nat
  BY <1>2, ConstantsAssumption DEF IInv, TypeOK, ProviderSound, Sound, BackedBy
<1>11. rows'[k] = Upsert(old, new) /\ rows' = [rows EXCEPT ![k] = Upsert(old, new)]
  BY <1>1, <1>4, <1>9
<1>12. Upsert(old, new) \in Row
  BY <1>6, <1>9, UpsertRow DEF RowStep
<1> HIDE DEF k, s, p, new, old
<1>13. CASE old = NULL
  <2>1. Upsert(old, new) = new
    BY <1>13 DEF Upsert
  <2>2. QED BY <1>1, <1>6, <1>7, <1>8, <1>11, <1>12, <2>1 DEF k, s, p
<1>14. CASE old # NULL
  <2>1. old \in Row
    BY <1>9, <1>14
  <2>2. /\ old.total \in Nat /\ old.completed \in Nat /\ old.failed \in Nat /\ old.order \in Nat
        /\ new.total \in Nat /\ new.completed \in Nat /\ new.failed \in Nat /\ new.order \in Nat
        /\ p.total \in Nat /\ p.completed \in Nat /\ p.failed \in Nat
    BY <1>6, <1>10, <2>1 DEF Row, Snapshot
  <2>3. /\ GREATEST(old.total, new.total) \in {0, Total}
        /\ GREATEST(old.total, new.total) <= p.total
        /\ GREATEST(old.completed, new.completed) <= p.completed
        /\ GREATEST(old.failed, new.failed) <= p.failed
        /\ GREATEST(old.completed, new.completed) + GREATEST(old.failed, new.failed)
             <= GREATEST(old.total, new.total)
    BY <1>8, <1>9, <1>10, <1>14, <2>2 DEF Progress, BackedBy, GREATEST
  <2>4. CASE UpdateApplies(old, new)
    <3>1. Upsert(old, new) = Merged(old, new)
      BY <1>14, <2>4 DEF Upsert
    <3>2. /\ Merged(old, new).order = new.order /\ Merged(old, new).status = new.status
          /\ Merged(old, new).total = GREATEST(old.total, new.total)
          /\ Merged(old, new).completed = GREATEST(old.completed, new.completed)
          /\ Merged(old, new).failed = GREATEST(old.failed, new.failed)
      BY DEF Merged
    <3>3. Progress(Merged(old, new)) /\ BackedBy(Merged(old, new), p)
      BY <1>8, <2>3, <3>2 DEF Progress, BackedBy
    <3>4. QED BY <1>1, <1>6, <1>7, <1>11, <1>12, <3>1, <3>2, <3>3 DEF k, s, p
  <2>5. CASE ~UpdateApplies(old, new)
    <3>1. Upsert(old, new) = old
      BY <1>14, <2>5 DEF Upsert
    <3>2. ProgressFits(old, new)
      BY <2>3 DEF ProgressFits
    <3>3. old.order > new.order \/ (Terminal(old.status) /\ new.status # old.status)
      BY <1>6, <1>9, <1>14, <2>2, <2>5, <3>2 DEF UpdateApplies
    <3>4. QED BY <1>1, <1>6, <1>7, <1>9, <1>11, <1>12, <1>14, <3>1, <3>3 DEF k, s, p, old, Stored
  <2>6. QED BY <2>4, <2>5
<1>15. QED BY <1>13, <1>14

\* A change of the table is a persisted observation.
LEMMA TableChanges ==
  ASSUME IInv, [Next]_vars
  PROVE  rows' = rows \/ \E c \in Clients : Persist(c)
BY DEF Next, ClientStep, vars, Reserve, RespondCreate, RespondPoll, RespondCancel,
       DeclineCancel, Refuse, Fail, Resume, ProviderStep

\* Rows stay backed: the upsert brings nothing that the answer did not carry.
LEMMA HInvRows ==
  ASSUME HonestProvider, IInv, HInv, [Next]_vars
  PROVE  RowsBacked'
<1> SUFFICES ASSUME NEW k \in Keys, rows'[k] # NULL
             PROVE  Progress(rows'[k]) /\ BackedBy(rows'[k], provider'[k[2]])
  BY DEF RowsBacked, Stored
<1>1. TypeOK'
  BY NextIInv DEF IInv
<1>2. k[2] \in Batches
  BY DEF Keys
<1>3. rows \in [Keys -> Row \cup {NULL}]
  BY DEF IInv, TypeOK
<1>4. Progress(rows'[k]) /\ BackedBy(rows'[k], provider[k[2]])
  <2>1. CASE rows' = rows
    BY <2>1 DEF HInv, RowsBacked, Stored
  <2>2. ASSUME NEW c \in Clients, Persist(c)
        PROVE  Progress(rows'[k]) /\ BackedBy(rows'[k], provider[k[2]])
    <3>1. CASE k = op[c].key
      BY <2>2, <3>1, PersistHonest DEF HInv
    <3>2. CASE k # op[c].key
      <4>1. rows'[k] = rows[k]
        BY <1>3, <2>2, <3>2, PersistHonest DEF HInv
      <4>2. QED BY <4>1 DEF HInv, RowsBacked, Stored
    <3>3. QED BY <3>1, <3>2
  <2>3. QED BY <2>1, <2>2, TableChanges
<1>5. provider[k[2]] # NULL /\ ProviderMove(provider[k[2]], provider'[k[2]])
  BY <1>2, <1>4, ProviderMoves DEF HInv, BackedBy
<1>6. provider[k[2]] \in Snapshot /\ provider'[k[2]] \in Snapshot
  BY <1>1, <1>2, <1>5 DEF IInv, TypeOK, ProviderMove
<1>7. rows'[k].total \in Nat /\ rows'[k].completed \in Nat /\ rows'[k].failed \in Nat
  BY <1>1, ConstantsAssumption DEF TypeOK, Row
<1>8. QED BY <1>4, <1>5, <1>6, <1>7, StillBacked

\* The object of a batch that was terminal at a reservation stays as it was.
LEMMA HInvSettledStays ==
  ASSUME HonestProvider, IInv, HInv, [Next]_vars
  PROVE  /\ SettledStays'
         /\ \A c \in Clients : Goes(c) /\ op[c].settled =>
              provider'[op[c].key[2]] = provider[op[c].key[2]]
<1>1. ASSUME NEW c \in Clients, Goes(c), op[c].settled
      PROVE  LET p == provider[op[c].key[2]]
             IN provider'[op[c].key[2]] = p /\ p # NULL /\ Terminal(p.status)
  <2>1. op[c].key[2] \in Batches
    BY <1>1 DEF Goes, Active, IInv, TypeOK, Op, Idle, Keys
  <2>2. provider[op[c].key[2]] # NULL /\ Terminal(provider[op[c].key[2]].status)
    BY <1>1 DEF Goes, HInv, SettledStays
  <2>3. QED BY <2>1, <2>2, ProviderMoves DEF HInv, ProviderMove
<1>2. SettledStays'
  <2> SUFFICES ASSUME NEW c \in Clients, Active(c)', op'[c].settled
               PROVE  LET p == provider'[op'[c].key[2]] IN p # NULL /\ Terminal(p.status)
    BY DEF SettledStays
  <2>1. CASE Goes(c)
    BY <1>1, <2>1 DEF Goes
  <2>2. CASE Starts(c)
    BY <2>2 DEF Starts
  <2>3. QED BY <2>1, <2>2, OperationMoves
<1>3. QED BY <1>1, <1>2

\* The sequence is the order of the reservations, so a later one finds the batch as
\* terminal as an earlier one did.
LEMMA HInvSettledInOrder ==
  ASSUME HonestProvider, IInv, HInv, [Next]_vars
  PROVE  SettledInOrder'
<1> SUFFICES ASSUME NEW c \in Clients, NEW d \in Clients,
                    Active(c)', op'[c].settled, InFlight(d)', op'[d].key[2] = op'[c].key[2],
                    op'[d].order > op'[c].order
             PROVE  op'[d].settled
  BY DEF SettledInOrder
<1>1. Active(d)' /\ seq \in Nat
  BY DEF Active, InFlight, IInv, TypeOK
<1>2. CASE Goes(c) /\ Goes(d)
  BY <1>2 DEF HInv, SettledInOrder, Goes
<1>3. CASE Starts(c) /\ Goes(d)
  <2>1. op[d].order <= seq /\ op[d].order \in Nat
    BY <1>3, OpShape DEF Goes, IInv, OrderUsedOnce, Orders
  <2>2. QED BY <1>1, <1>3, <2>1 DEF Starts, Goes
<1>4. CASE Goes(c) /\ Starts(d)
  BY <1>4 DEF Starts, Goes, HInv, SettledStays
<1>5. CASE Starts(c) /\ Starts(d)
  BY <1>1, <1>5 DEF Starts
<1>6. QED BY <1>1, <1>2, <1>3, <1>4, <1>5, OperationMoves

\* A row newer than an operation that found its batch terminal was written by another
\* that did.
LEMMA HInvNewerRows ==
  ASSUME HonestProvider, IInv, HInv, [Next]_vars
  PROVE  NewerRowsSettled'
<1> SUFFICES ASSUME NEW c \in Clients, NEW k \in Keys, Active(c)', op'[c].settled,
                    k[2] = op'[c].key[2], rows'[k] # NULL, rows'[k].order > op'[c].order
             PROVE  rows'[k].status = provider'[k[2]].status
  BY DEF NewerRowsSettled, Stored
<1>1. CASE Starts(c)
  <2>1. rows[k] # NULL /\ rows[k].order <= seq /\ rows[k].order \in Nat /\ seq \in Nat
    BY <1>1 DEF Starts, IInv, RowsReserved, Stored, TypeOK, Row
  <2>2. QED BY <1>1, <2>1 DEF Starts
<1>2. CASE Goes(c)
  <2>1. /\ op[c].settled /\ k[2] = op[c].key[2] /\ rows'[k].order > op[c].order /\ Active(c)
        /\ provider'[k[2]] = provider[k[2]]
    BY <1>2, HInvSettledStays DEF Goes
  <2>2. CASE rows'[k] = rows[k]
    BY <2>1, <2>2 DEF HInv, NewerRowsSettled, Stored
  <2>3. ASSUME NEW d \in Clients, Persist(d), rows'[k] # rows[k]
        PROVE  rows'[k].status = provider[k[2]].status
    <3>1. k = op[d].key
      BY <2>3, PersistHonest DEF HInv, IInv, TypeOK
    <3>2. rows'[k].order = op[d].order /\ rows'[k].status = op[d].answer.status
      BY <2>3, <3>1, PersistHonest DEF HInv
    <3>3. InFlight(d) /\ op[d].phase = "answered"
      BY <2>3 DEF Persist, InFlight
    <3>4. op[d].settled
      BY <2>1, <3>1, <3>2, <3>3 DEF HInv, SettledInOrder
    <3>5. QED BY <3>1, <3>2, <3>3, <3>4 DEF HInv, AnswersBacked
  <2>4. QED BY <2>1, <2>2, <2>3, TableChanges
<1>3. QED BY <1>1, <1>2, OperationMoves

\* Who answers an operation, and who reports its success.
LEMMA WhoMoves ==
  ASSUME IInv, [Next]_vars, NEW c \in Clients, op'[c] # op[c]
  PROVE  /\ op'[c].phase = "answered" =>
              op[c].phase = "reserved" /\ (RespondCreate(c) \/ RespondPoll(c) \/ RespondCancel(c))
         /\ op'[c].phase = "returned" /\ op'[c].outcome = "recorded" => Persist(c)
<1>1. op \in [Clients -> Op]
  BY DEF IInv, TypeOK
<1>2. ASSUME NEW d \in Clients, NEW o, op' = [op EXCEPT ![d] = o] PROVE d = c /\ op'[c] = o
  BY <1>1, <1>2
<1>3. ASSUME NEW d \in Clients, NEW s, Answer(d, s) PROVE d = c /\ op'[c].phase = "answered"
  BY <1>2, <1>3 DEF Answer
<1>4. ASSUME NEW d \in Clients, NEW result, Return(d, result)
      PROVE  d = c /\ op'[c].phase = "returned" /\ op'[c].outcome = result
  BY <1>2, <1>4 DEF Return
<1>5. ASSUME NEW d \in Clients, NEW kind \in Kinds, NEW k \in Keys, Reserve(d, kind, k)
      PROVE  op'[c].phase = "reserved"
  <2> DEFINE o == [phase |-> "reserved", kind |-> kind, key |-> k, order |-> seq + 1,
                   settled |-> provider[k[2]] # NULL /\ Terminal(provider[k[2]].status)]
  <2>1. op' = [op EXCEPT ![d] = o] /\ o.phase = "reserved"
    BY <1>5 DEF Reserve
  <2> HIDE DEF o
  <2>2. QED BY <1>2, <2>1
<1>6. ASSUME NEW d \in Clients, Resume(d) PROVE op'[c].phase = "idle"
  BY <1>2, <1>6 DEF Resume, Idle
<1>7. ASSUME NEW d \in Clients, RespondCreate(d) \/ RespondPoll(d) \/ RespondCancel(d)
      PROVE  d = c /\ op'[c].phase = "answered" /\ op[d].phase = "reserved"
  <2>1. op[d].phase = "reserved" /\ \E s : Answer(d, s)
    BY <1>7 DEF RespondCreate, RespondPoll, RespondCancel
  <2>2. QED BY <1>3, <2>1
<1>8. ASSUME NEW d \in Clients, DeclineCancel(d) \/ Refuse(d) \/ Fail(d)
      PROVE  op'[c].phase = "returned" /\ op'[c].outcome # "recorded"
  <2>1. Return(d, "declined") \/ Return(d, "error")
    BY <1>8 DEF DeclineCancel, Refuse, Fail
  <2>2. QED BY <1>4, <2>1
<1>9. ASSUME NEW d \in Clients, Persist(d)
      PROVE  d = c /\ op'[c].phase = "returned"
  <2>1. \E result : Return(d, result)
    BY <1>9 DEF Persist
  <2>2. QED BY <1>4, <2>1
<1>10. QED
  BY <1>5, <1>6, <1>7, <1>8, <1>9 DEF Next, ClientStep, ProviderStep, vars

\* An answer without counts is never ahead of the object.
LEMMA NoCounts ==
  ASSUME NEW r, r.total = 0, r.completed = 0, r.failed = 0, ~Terminal(r.status),
         NEW p \in Snapshot
  PROVE  Progress(r) /\ BackedBy(r, p)
<1>1. p.total >= 0 /\ p.completed >= 0 /\ p.failed >= 0 /\ p # NULL
  BY NullAssumption DEF Snapshot
<1>2. QED BY <1>1 DEF Progress, BackedBy

\* Answers are backed when they arrive and as long as they are in flight.
LEMMA HInvAnswers ==
  ASSUME HonestProvider, IInv, HInv, [Next]_vars
  PROVE  AnswersBacked'
<1> SUFFICES ASSUME NEW c \in Clients, op'[c].phase = "answered"
             PROVE  LET a == op'[c].answer  p == provider'[op'[c].key[2]]
                    IN /\ a.id = op'[c].key[2] /\ Progress(a) /\ BackedBy(a, p)
                       /\ op'[c].settled => a.status = p.status
  BY DEF AnswersBacked
<1> DEFINE b == op[c].key[2]
<1>1. TypeOK' /\ ProviderSound'
  BY NextIInv, ProviderMoves DEF IInv, HInv
<1>2. CASE op'[c] = op[c]
  <2>1. /\ b \in Batches /\ op[c].answer \in Snapshot /\ Goes(c)
    BY <1>2, OpShape DEF Goes, Active, InFlight, IInv, Keys
  <2>2. /\ op[c].answer.id = b /\ Progress(op[c].answer) /\ BackedBy(op[c].answer, provider[b])
        /\ op[c].settled => op[c].answer.status = provider[b].status
    BY <1>2 DEF HInv, AnswersBacked
  <2>3. provider[b] # NULL /\ ProviderMove(provider[b], provider'[b])
    BY <2>1, <2>2, ProviderMoves DEF HInv, BackedBy
  <2>4. provider[b] \in Snapshot /\ provider'[b] \in Snapshot
    BY <1>1, <2>1, <2>3 DEF IInv, TypeOK, ProviderMove
  <2>5. BackedBy(op[c].answer, provider'[b])
    BY <2>1, <2>2, <2>3, <2>4, StillBacked DEF Snapshot
  <2>6. op[c].settled => provider'[b] = provider[b]
    BY <2>1, HInvSettledStays
  <2>7. QED BY <1>2, <2>2, <2>5, <2>6
<1>3. CASE op'[c] # op[c]
  <2>1. op[c].phase = "reserved" /\ b \in Batches
    BY <1>3, WhoMoves, OpShape DEF IInv, InFlight, Keys
  <2>2. ASSUME NEW a, Answer(c, a), a.id = b, Progress(a), BackedBy(a, provider'[b]),
               op[c].settled => a.status = provider'[b].status
        PROVE  LET p == provider'[op'[c].key[2]]
               IN /\ op'[c].answer.id = op'[c].key[2] /\ Progress(op'[c].answer)
                  /\ BackedBy(op'[c].answer, p)
                  /\ op'[c].settled => op'[c].answer.status = p.status
    <3>1. op'[c].answer = a /\ op'[c].key = op[c].key /\ op'[c].settled = op[c].settled
      BY <2>2 DEF Answer, IInv, TypeOK
    <3>2. QED BY <2>2, <3>1
  <2>3. op[c].settled => provider[b] # NULL /\ Terminal(provider[b].status)
    BY <2>1 DEF HInv, SettledStays, Active
  <2>4. ASSUME NEW s, s \in Answers(provider'[b]), provider'[b] \in Snapshot
        PROVE  s.id = b /\ s.status = provider'[b].status /\ Progress(s)
               /\ BackedBy(s, provider'[b]) /\ s \in Snapshot
    <3>1. Sound(provider'[b], b)
      BY <1>1, <2>1, <2>4, NullAssumption DEF ProviderSound
    <3>2. QED BY <2>1, <2>4, <3>1, HonestAnswer, AnswersType
  <2>5. CASE RespondCreate(c)
    <3> DEFINE p == Created(b, InitialCols)
    <3>1. provider[b] = NULL /\ provider' = [provider EXCEPT ![b] = p]
      BY <2>5 DEF RespondCreate
    <3>2. p \in Snapshot /\ p.status = "validating"
      BY <2>1, InitialColsType DEF Created, Snapshot, RawStatuses, SupportedStatuses
    <3>3. provider'[b] = p
      BY <2>1, <3>1 DEF IInv, TypeOK
    <3>4. PICK s \in Answers(p), blank \in BOOLEAN :
          \E r \in CreateSnapshots(IF blank THEN [s EXCEPT !.status = ""] ELSE s) : Answer(c, r)
      BY <2>5 DEF RespondCreate
    <3>5. PICK r \in CreateSnapshots(IF blank THEN [s EXCEPT !.status = ""] ELSE s) : Answer(c, r)
      BY <3>4
    <3> HIDE DEF p
    <3>6. /\ s.id = b /\ s.status = p.status /\ Progress(s) /\ BackedBy(s, p) /\ s \in Snapshot
      BY <2>4, <3>2, <3>3
    <3> DEFINE q == IF blank THEN [s EXCEPT !.status = ""] ELSE s
    <3>7. /\ q \in Snapshot /\ q.id = b /\ q.status \in {"", "validating"} /\ q.total = s.total
          /\ q.completed = s.completed /\ q.failed = s.failed
      BY <3>2, <3>6 DEF Snapshot, RawStatuses
    <3>8. r \in CreateSnapshots(q)
      BY <3>5
    <3> HIDE DEF q
    <3>9. /\ r.id = b /\ r.status = q.status /\ r.total = s.total
          /\ r.completed = s.completed /\ r.failed = s.failed
      BY <3>7, <3>8 DEF CreateSnapshots, Snapshot
    <3>10. ~Terminal(r.status) /\ Progress(r)
      BY <3>6, <3>7, <3>9 DEF Terminal, TerminalStatuses, Progress
    <3>11. BackedBy(r, provider'[b])
      BY <3>3, <3>6, <3>9, <3>10 DEF BackedBy
    <3>12. QED BY <2>2, <2>3, <3>1, <3>5, <3>9, <3>10, <3>11
  <2>6. CASE RespondPoll(c)
    <3>1. provider' = provider /\ provider[b] # NULL
      BY <2>1, <2>6 DEF RespondPoll, IInv, TargetExists
    <3>2. provider'[b] \in Snapshot
      BY <2>1, <3>1 DEF IInv, TypeOK
    <3>3. PICK s \in Answers(provider'[b]) : Answer(c, s)
      BY <2>6, <3>1 DEF RespondPoll
    <3>4. QED BY <2>2, <2>4, <3>2, <3>3
  <2>7. CASE RespondCancel(c)
    <3> DEFINE p == [provider[b] EXCEPT !.status = "cancelling"]
    <3>1. provider[b] \in Snapshot
      BY <2>1, <2>7 DEF IInv, TypeOK, TargetExists, RespondCancel
    <3>2. ~Terminal(provider[b].status) /\ provider' = [provider EXCEPT ![b] = p]
      BY <2>7 DEF RespondCancel
    <3>3. p \in Snapshot /\ p.status = "cancelling" /\ p # NULL
      BY <3>1, NullAssumption DEF Snapshot, RawStatuses, SupportedStatuses
    <3>4. provider'[b] = p
      BY <2>1, <3>2 DEF IInv, TypeOK
    <3>5. PICK s \in Answers(p), blank \in BOOLEAN :
          \E r \in CancelSnapshots(b, IF blank THEN [s EXCEPT !.status = ""] ELSE s) : Answer(c, r)
      BY <2>7 DEF RespondCancel
    <3>6. PICK r : /\ r \in CancelSnapshots(b, IF blank THEN [s EXCEPT !.status = ""] ELSE s)
                   /\ Answer(c, r)
      BY <3>5
    <3> HIDE DEF p
    <3>7. s.status = p.status /\ s \in Snapshot
      BY <2>4, <3>3, <3>4
    <3> DEFINE q == IF blank THEN [s EXCEPT !.status = ""] ELSE s
    <3>8. q.status \in {"", "cancelling"}
      BY <3>3, <3>7 DEF Snapshot
    <3>9. r \in CancelSnapshots(b, q)
      BY <3>6
    <3> HIDE DEF q
    <3>10. PICK st \in {"", "cancelling"} :
             r = [id |-> b, status |-> st, known |-> FALSE, total |-> 0, completed |-> 0,
                  failed |-> 0, cols |-> [f \in Fields |-> NULL]]
      <4>1. (IF q.status = "" THEN {"", "cancelling"} ELSE {q.status}) \subseteq {"", "cancelling"}
        BY <3>8
      <4>2. QED BY <3>9, <4>1, Zenon DEF CancelSnapshots
    <3>11. /\ r.id = b /\ r.status \in {"", "cancelling"}
           /\ r.total = 0 /\ r.completed = 0 /\ r.failed = 0
      BY <3>10
    <3>12. ~Terminal(r.status)
      BY <3>11 DEF Terminal, TerminalStatuses
    <3>13. Progress(r) /\ BackedBy(r, provider'[b])
      BY <3>3, <3>4, <3>11, <3>12, NoCounts
    <3>14. QED BY <2>2, <2>3, <3>2, <3>6, <3>11, <3>12, <3>13
  <2>8. QED BY <1>3, <2>5, <2>6, <2>7, WhoMoves
<1>4. QED BY <1>2, <1>3

\* What a success promises holds when it is reported and at every later step.
LEMMA HInvOutcomes ==
  ASSUME HonestProvider, IInv, HInv, [Next]_vars
  PROVE  SuccessIsCovered' /\ PollAfterFinishSettles'
<1>1. ASSUME NEW c \in Clients, op'[c] = op[c], op[c].phase = "returned",
             op[c].outcome = "recorded"
      PROVE  LET k == op[c].key
             IN /\ rows'[k] # NULL /\ (rows'[k].order >= op[c].order \/ Terminal(rows'[k].status))
                /\ op[c].kind = "poll" /\ op[c].settled =>
                     rows'[k].status = provider'[k[2]].status
  <2> DEFINE k == op[c].key
  <2>1. k \in Keys /\ op[c].order \in Nat /\ Goes(c)
    BY <1>1 DEF IInv, TypeOK, Op, Idle, Orders, Goes, Active, InFlight
  <2>2. /\ Stored(k) /\ (rows[k].order >= op[c].order \/ Terminal(rows[k].status))
        /\ op[c].kind = "poll" /\ op[c].settled => rows[k].status = provider[k[2]].status
    BY <1>1 DEF HInv, SuccessIsCovered, PollAfterFinishSettles
  <2>3. rows'[k] # NULL /\ Extends(rows[k], rows'[k]) /\ Absorbing(rows[k], rows'[k])
    BY <2>1, <2>2, RowsPersist
  <2>4. TypeOK'
    BY NextIInv DEF IInv
  <2>5. rows[k].order \in Nat /\ rows'[k].order \in Nat
    BY <2>1, <2>2, <2>3, <2>4 DEF IInv, TypeOK, Stored, Row
  <2>6. rows'[k].order >= op[c].order \/ Terminal(rows'[k].status)
    BY <2>1, <2>2, <2>3, <2>5 DEF Extends, Absorbing
  <2>7. op[c].settled => /\ provider'[k[2]] = provider[k[2]] /\ Terminal(provider[k[2]].status)
    BY <2>1, HInvSettledStays DEF HInv, SettledStays, Goes
  <2>8. QED BY <2>2, <2>3, <2>6, <2>7 DEF Absorbing
<1>2. ASSUME NEW c \in Clients, Persist(c)
      PROVE  LET k == op[c].key
             IN /\ rows'[k] # NULL /\ (rows'[k].order >= op[c].order \/ Terminal(rows'[k].status))
                /\ op[c].settled => rows'[k].status = provider'[k[2]].status
                /\ op'[c].key = k /\ op'[c].order = op[c].order /\ op'[c].settled = op[c].settled
  <2> DEFINE k == op[c].key
             p == provider[k[2]]
  <2>1. /\ op[c].phase = "answered" /\ InFlight(c) /\ Active(c) /\ provider' = provider
        /\ op[c].order \in Nat /\ k \in Keys
    BY <1>2, OpShape DEF Persist, InFlight, Active, IInv, Orders
  <2>2. op'[c].key = k /\ op'[c].order = op[c].order /\ op'[c].settled = op[c].settled
    BY <1>2 DEF Persist, Return, IInv, TypeOK
  <2>3. op[c].settled => /\ op[c].answer.status = p.status /\ Terminal(p.status)
    BY <2>1 DEF HInv, AnswersBacked, SettledStays
  <2>4. rows'[k] \in Row /\ rows'[k] # NULL
    BY <1>2, PersistHonest, NullAssumption DEF HInv
  <2>5. CASE rows'[k].order = op[c].order /\ rows'[k].status = op[c].answer.status
    BY <2>1, <2>2, <2>3, <2>4, <2>5
  <2>6. CASE Stored(k) /\ rows'[k] = rows[k] /\ rows[k].order > op[c].order
    <3>1. op[c].settled => rows[k].status = p.status
      BY <2>1, <2>6 DEF HInv, NewerRowsSettled
    <3>2. rows'[k].order \in Nat
      BY <2>4 DEF Row
    <3>3. QED BY <2>1, <2>2, <2>4, <2>6, <3>1, <3>2
  <2>7. CASE /\ Stored(k) /\ rows'[k] = rows[k] /\ Terminal(rows[k].status)
             /\ rows[k].status # op[c].answer.status
    <3>1. rows[k].status = p.status
      BY <2>1, <2>7 DEF HInv, RowsBacked, BackedBy
    <3>2. QED BY <2>1, <2>2, <2>4, <2>7, <3>1
  <2>8. QED BY <1>2, <2>5, <2>6, <2>7, PersistHonest DEF HInv
<1>3. SuccessIsCovered'
  <2> SUFFICES ASSUME NEW c \in Clients, op'[c].phase = "returned", op'[c].outcome = "recorded"
               PROVE  LET k == op'[c].key
                      IN rows'[k] # NULL
                         /\ (rows'[k].order >= op'[c].order \/ Terminal(rows'[k].status))
    BY DEF SuccessIsCovered, Stored
  <2>1. QED BY <1>1, <1>2, WhoMoves
<1>4. PollAfterFinishSettles'
  <2> SUFFICES ASSUME NEW c \in Clients, op'[c].phase = "returned", op'[c].outcome = "recorded",
                      op'[c].kind = "poll", op'[c].settled
               PROVE  LET k == op'[c].key
                      IN rows'[k] # NULL /\ rows'[k].status = provider'[k[2]].status
    BY DEF PollAfterFinishSettles, Stored
  <2>1. QED BY <1>1, <1>2, WhoMoves
<1>5. QED BY <1>3, <1>4

\* Initially there is nothing to back.
LEMMA HonestInit == Init => HInv
BY DEF Init, HInv, ProviderSound, AnswersBacked, RowsBacked, SettledStays, SettledInOrder,
       NewerRowsSettled, SuccessIsCovered, PollAfterFinishSettles, Stored, InFlight, Active, Idle

\* Every step keeps the strengthened invariant.
LEMMA HonestNext ==
  ASSUME HonestProvider
  PROVE  IInv /\ HInv /\ [Next]_vars => HInv'
BY ProviderMoves, HInvRows, HInvSettledStays, HInvSettledInOrder, HInvNewerRows, HInvAnswers,
   HInvOutcomes DEF HInv

\* With an honest provider the strengthened invariant holds in every behaviour.
THEOREM HonestInvariance ==
  ASSUME HonestProvider
  PROVE  Spec => []HInv
BY HonestInit, HonestNext, Invariance, PTL DEF Spec

\* The table never runs ahead of an honest provider: neither a terminal status nor a
\* counter of a row is one that the provider does not have.
THEOREM ProjectionBacked ==
  ASSUME HonestProvider
  PROVE  Spec => []ProjectionIsBacked
<1>1. HInv => ProjectionIsBacked
  BY DEF HInv, RowsBacked, BackedBy, ProjectionIsBacked
<1>2. QED BY <1>1, HonestInvariance, PTL

\* When an operation reports success, its observation is in the row, or a newer one or
\* a terminal one is: the upsert never drops an honest provider's counts.
THEOREM SuccessCovered ==
  ASSUME HonestProvider
  PROVE  Spec => []SuccessIsCovered
<1>1. HInv => SuccessIsCovered
  BY DEF HInv
<1>2. QED BY <1>1, HonestInvariance, PTL

\* A successful poll that was reserved when the batch was terminal leaves the terminal
\* status in the row, whatever other clients still have in flight.
THEOREM FinishSettles ==
  ASSUME HonestProvider
  PROVE  Spec => []PollAfterFinishSettles
<1>1. HInv => PollAfterFinishSettles
  BY DEF HInv
<1>2. QED BY <1>1, HonestInvariance, PTL
=============================================================================
