----------------------- MODULE ResultApplication_proofs -----------------------
(***************************************************************************)
(* Proofs about ResultApplication, for any number of hosts, versions,      *)
(* records and faults, and every mix of deployments.                       *)
(***************************************************************************)
EXTENDS ResultApplication, TLAPS

-----------------------------------------------------------------------------
(* Checkpoints.                                                            *)

\* A prefix hash names a version exactly when the prefix is past the shared part.
WellFormed(c) == c.count <= Common <=> c.prefix = Base

\* The checkpoint of a record of a served stream is one.
LEMMA CheckpointOf ==
  ASSUME NEW v \in Versions, NEW i \in Positions
  PROVE  At(v, i) \in Checkpoints /\ WellFormed(At(v, i)) /\ At(v, i).count = i
BY ConstantsAssumption DEF At, Checkpoints, Positions, WellFormed

\* Records of one stream form a lineage: it is reflexive and transitive.
LEMMA LineageOrder ==
  /\ \A c \in Checkpoints : WellFormed(c) => OnLineage(c, c)
  /\ \A c, d, e \in Checkpoints : OnLineage(c, d) /\ OnLineage(d, e) => OnLineage(c, e)
BY ConstantsAssumption DEF OnLineage, WellFormed, Checkpoints, Positions

\* One stream has one checkpoint per record.
LEMMA LineageUnique ==
  ASSUME NEW c \in Checkpoints, NEW d \in Checkpoints, WellFormed(d),
         OnLineage(c, d), c.count = d.count
  PROVE  c = d
BY ConstantsAssumption DEF OnLineage, WellFormed, Checkpoints, Positions

\* Advancing by one record acknowledges that record and nothing else.
LEMMA AdvanceByOne ==
  ASSUME NEW e \in Checkpoints, WellFormed(e), NEW d \in Checkpoints \cup {NULL},
         e.count = Count(d) + 1, d # NULL => OnLineage(d, e), NEW c \in Checkpoints
  PROVE  OnLineage(c, e) <=> c = e \/ (d # NULL /\ OnLineage(c, d))
<1> USE NullAssumption, ConstantsAssumption
<1>1. ASSUME OnLineage(c, e), c # e PROVE d # NULL /\ OnLineage(c, d)
  <2>1. c.count # e.count
    BY <1>1, LineageUnique
  <2>2. c.count <= Count(d) /\ c.count \in Positions
    BY <1>1, <2>1 DEF OnLineage, Count, Checkpoints, Positions
  <2>3. d # NULL /\ d \in Checkpoints
    BY <2>2 DEF Count, Positions
  <2>4. QED BY <1>1, <2>2, <2>3 DEF OnLineage, Count, Checkpoints, Positions
<1>2. ASSUME d # NULL, OnLineage(c, d) PROVE OnLineage(c, e)
  BY <1>2, LineageOrder
<1>3. OnLineage(e, e)
  BY LineageOrder
<1>4. QED BY <1>1, <1>2, <1>3

-----------------------------------------------------------------------------
(* The inductive invariant.                                                *)

\* A host that is working.
BusyHost ==
  [phase : Busy, version : Versions, pos : 1 .. Records + 1,
   prev : Checkpoints \cup {NULL}, snap : Checkpoints \cup {NULL}, effect : BOOLEAN]

\* The predecessor a host knows is of the stream it reads.
Own(r) == r.prev # NULL => r.prev = At(r.version, r.prev.count)

\* What a working host r knows, while the durable checkpoint is d.  Its predecessor is
\* in the durable checkpoint's past; it is on the stream the host reads and behind its
\* record, except that a transaction may have loaded one that overtook the record.
Knows(r, d) ==
  /\ r.phase # "streaming" => r.pos <= Records
  /\ r.prev # NULL => d # NULL /\ OnLineage(r.prev, d)
  /\ r.phase # "loaded" => Own(r) /\ r.pos > Count(r.prev)
  /\ r.phase = "loaded" => /\ Count(r.prev) >= r.pos - 1
                           /\ Count(r.prev) = r.pos - 1 => Own(r)
  /\ r.phase = "insert" => r.prev = NULL

\* What only hosts that apply records guarantee: none skips a record or saves without
\* its effect, and under REPEATABLE READ the predecessor is the snapshot's.
Applies(r) ==
  ~DirectSaves =>
    /\ r.phase # "loaded" => r.pos = Count(r.prev) + 1
    /\ r.phase \in {"select", "insert", "saved"} => r.effect
    /\ RepeatableRead /\ r.phase # "streaming" => r.snap = r.prev

\* The transaction that holds the row saw d pass the compare-and-swap, or found its own
\* record there; the latter cannot be on a snapshot.
Saved(r, d) ==
  /\ \/ d = NULL /\ r.prev = NULL
     \/ d = r.prev /\ d # NULL
     \/ d = At(r.version, r.pos) /\ ~(RepeatableRead /\ ~DirectSaves)

HostOK(r, d) == Knows(r, d) /\ Applies(r) /\ (r.phase = "saved" => Saved(r, d))

\* The row is held by the transaction that saved, if there is one.
LockIsHeld == \A w \in Workers : lock = w <=> worker[w].phase = "saved"

IInv ==
  /\ TypeOK
  /\ durable # NULL => WellFormed(durable)
  /\ LockIsHeld
  /\ \A w \in Workers : worker[w] # Idle => HostOK(worker[w], durable)
  /\ EffectAtomicWithCheckpoint
  /\ ExactlyOnceOnSnapshots

\* A host is working exactly when its phase says so.
LEMMA HostShape ==
  ASSUME TypeOK, NEW w \in Workers
  PROVE  /\ worker[w] = Idle <=> worker[w].phase = "idle"
         /\ worker[w] # Idle => worker[w] \in BusyHost
         /\ worker[w].phase \in Busy => worker[w] # Idle
BY DEF TypeOK, Worker, BusyHost, Idle, Busy

\* The initial state satisfies the invariant.
LEMMA InitIInv == Init => IInv
<1> SUFFICES ASSUME Init PROVE IInv
  OBVIOUS
<1>1. TypeOK
  BY ConstantsAssumption DEF Init, TypeOK, Worker
<1>2. LockIsHeld
  BY ConstantsAssumption DEF Init, LockIsHeld, Idle
<1>3. EffectAtomicWithCheckpoint /\ ExactlyOnceOnSnapshots
  BY DEF Init, EffectAtomicWithCheckpoint, ExactlyOnceOnSnapshots, EffectExactlyOnce, Acknowledged
<1>4. QED BY <1>1, <1>2, <1>3 DEF IInv, Init

\* A step of one host that commits nothing keeps the invariant if what the host knows
\* is right, and it holds the row exactly when it has saved.
LEMMA HostStep ==
  ASSUME IInv, NEW w \in Workers, NEW r \in Worker, worker' = [worker EXCEPT ![w] = r],
         r # Idle => HostOK(r, durable),
         lock' \in Workers \cup {NULL}, lock' = w <=> r.phase = "saved",
         lock' # lock => lock \in {w, NULL} /\ lock' \in {w, NULL},
         faults' \in 0 .. MaxFaults, UNCHANGED <<deployment, durable, applied>>
  PROVE  IInv'
<1>1. /\ worker' \in [Workers -> Worker] /\ worker'[w] = r
      /\ \A v \in Workers \ {w} : worker'[v] = worker[v]
  BY DEF IInv, TypeOK
<1>2. TypeOK' /\ (durable' # NULL => WellFormed(durable'))
  BY <1>1 DEF IInv, TypeOK
<1>3. LockIsHeld'
  BY <1>1, ConstantsAssumption DEF IInv, LockIsHeld
<1>4. ASSUME NEW v \in Workers, worker'[v] # Idle PROVE HostOK(worker[v], durable)'
  <2>1. HostOK(worker'[v], durable)
    BY <1>1, <1>4 DEF IInv
  <2>2. QED
    BY <2>1 DEF HostOK, Knows, Applies, Saved, Own, DirectSaves, RepeatableRead
<1>5. EffectAtomicWithCheckpoint' /\ ExactlyOnceOnSnapshots'
  BY DEF IInv, EffectAtomicWithCheckpoint, ExactlyOnceOnSnapshots, EffectExactlyOnce, Acknowledged,
         DirectSaves, RepeatableRead
<1>6. QED BY <1>2, <1>3, <1>4, <1>5 DEF IInv

\* The same for a step that leaves the row alone and does not save.
LEMMA RowFreeStep ==
  ASSUME IInv, NEW w \in Workers, NEW r \in Worker, worker' = [worker EXCEPT ![w] = r],
         r # Idle => HostOK(r, durable), r.phase # "saved", worker[w].phase # "saved",
         UNCHANGED <<deployment, durable, lock, applied, faults>>
  PROVE  IInv'
BY HostStep DEF IInv, TypeOK, LockIsHeld

\* A host that gives up knows nothing, and rolls back what it had saved.
LEMMA GiveUpStep ==
  ASSUME IInv, NEW w \in Workers, GiveUp(w),
         \/ UNCHANGED lock /\ worker[w].phase # "saved"
         \/ Release(w),
         faults' \in 0 .. MaxFaults, UNCHANGED <<deployment, durable, applied>>
  PROVE  IInv'
<1>1. Idle \in Worker /\ Idle.phase = "idle"
  BY DEF Worker, Idle
<1>2. lock' # w /\ lock' \in Workers \cup {NULL}
      /\ (lock' # lock => lock \in {w, NULL} /\ lock' \in {w, NULL})
  BY ConstantsAssumption DEF Release, IInv, TypeOK, LockIsHeld
<1>3. QED BY <1>1, <1>2, HostStep DEF GiveUp

\* A transaction that saved will move the checkpoint forward on its stream, by one
\* record if hosts apply records, or find it where it would move it.
LEMMA SavedAdvances ==
  ASSUME IInv, NEW w \in Workers, worker[w].phase = "saved"
  PROVE  /\ Candidate(w) \in Checkpoints /\ WellFormed(Candidate(w))
         /\ durable # Candidate(w) =>
              /\ Candidate(w).count > Count(durable)
              /\ durable # NULL => OnLineage(durable, Candidate(w))
              /\ ~DirectSaves => Candidate(w).count = Count(durable) + 1
         /\ ~DirectSaves => worker[w].effect
         /\ ~DirectSaves /\ RepeatableRead => durable # Candidate(w)
<1> DEFINE q == worker[w]
<1>1. q \in BusyHost /\ HostOK(q, durable)
  BY HostShape DEF IInv, Busy
<1>2. q.pos \in Positions /\ q.version \in Versions /\ Candidate(w) = At(q.version, q.pos)
  BY <1>1, ConstantsAssumption DEF BusyHost, HostOK, Knows, Positions, Candidate
<1>3. /\ Candidate(w) \in Checkpoints /\ WellFormed(Candidate(w))
      /\ Candidate(w).count = q.pos
  BY <1>2, CheckpointOf
<1>4. q.pos > Count(q.prev) /\ Own(q) /\ (~DirectSaves => q.pos = Count(q.prev) + 1 /\ q.effect)
  BY <1>1 DEF HostOK, Knows, Applies
<1>5. CASE durable = NULL /\ q.prev = NULL
  <2>1. durable # Candidate(w)
    BY <1>3, <1>5, NullAssumption
  <2>2. QED BY <1>3, <1>4, <1>5, <2>1
<1>6. CASE durable = q.prev /\ durable # NULL
  <2>1. durable \in Checkpoints /\ durable = At(q.version, durable.count) /\ Count(durable) = durable.count
    BY <1>4, <1>6 DEF IInv, TypeOK, Own, Count
  <2>2. durable # Candidate(w)
    BY <1>3, <1>4, <1>6, <2>1 DEF Checkpoints, Positions
  <2>3. OnLineage(durable, Candidate(w))
    BY <1>2, <1>4, <1>6, <2>1, ConstantsAssumption DEF OnLineage, At, Checkpoints, Positions
  <2>4. QED BY <1>3, <1>4, <1>6, <2>1, <2>2, <2>3
<1>7. CASE durable = Candidate(w) /\ ~(RepeatableRead /\ ~DirectSaves)
  BY <1>3, <1>4, <1>7
<1>8. QED BY <1>1, <1>2, <1>5, <1>6, <1>7 DEF HostOK, Saved

\* COMMIT keeps the invariant: what every other host knows stays in the past of the
\* checkpoint, and the effects that took place are those it acknowledges.
LEMMA CommitStep ==
  ASSUME IInv, NEW w \in Workers, Committed(w), NEW r \in Worker,
         worker' = [worker EXCEPT ![w] = r],
         r = Idle \/ (r.phase = "streaming" /\ HostOK(r, Candidate(w))),
         faults' \in 0 .. MaxFaults
  PROVE  IInv'
<1> DEFINE e == Candidate(w)
<1>1. worker[w].phase = "saved" /\ durable' = e /\ deployment' = deployment
      /\ applied' = [applied EXCEPT ![e] = IF worker[w].effect THEN @ + 1 ELSE @]
  BY DEF Committed
<1>2. /\ e \in Checkpoints /\ WellFormed(e)
      /\ durable # e => /\ e.count > Count(durable)
                        /\ durable # NULL => OnLineage(durable, e)
                        /\ ~DirectSaves => e.count = Count(durable) + 1
      /\ ~DirectSaves => worker[w].effect
      /\ ~DirectSaves /\ RepeatableRead => durable # e
  BY <1>1, SavedAdvances
<1>3. DirectSaves' = DirectSaves /\ RepeatableRead' = RepeatableRead /\ worker[w].effect \in BOOLEAN
  BY <1>1, HostShape DEF DirectSaves, RepeatableRead, IInv, Busy, BusyHost
<1>4. e # NULL /\ durable \in Checkpoints \cup {NULL} /\ applied \in [Checkpoints -> Nat]
  BY <1>2, NullAssumption DEF IInv, TypeOK
<1>5. lock = w /\ lock' = NULL
  BY <1>1 DEF IInv, LockIsHeld, Committed, Release
<1>6. /\ worker' \in [Workers -> Worker] /\ worker'[w] = r /\ r.phase # "saved"
      /\ \A v \in Workers \ {w} : worker'[v] = worker[v] /\ worker[v].phase # "saved"
  BY <1>5 DEF IInv, TypeOK, LockIsHeld, Idle
<1> HIDE DEF e
<1>7. applied' \in [Checkpoints -> Nat]
      /\ \A c \in Checkpoints :
           applied'[c] = IF c = e /\ worker[w].effect THEN applied[c] + 1 ELSE applied[c]
  BY <1>1, <1>2, <1>3, <1>4
<1>8. TypeOK' /\ LockIsHeld' /\ WellFormed(durable')
  <2>1. TypeOK'
    BY <1>1, <1>2, <1>5, <1>6, <1>7 DEF IInv, TypeOK
  <2>2. LockIsHeld'
    BY <1>5, <1>6, ConstantsAssumption DEF LockIsHeld
  <2>3. QED BY <1>1, <1>2, <2>1, <2>2
<1>9. ASSUME NEW v \in Workers, worker'[v] # Idle PROVE HostOK(worker[v], durable)'
  <2>1. HostOK(worker'[v], e)
    <3>1. CASE v = w
      BY <1>6, <1>9, <3>1 DEF e
    <3>2. CASE v # w
      <4> DEFINE q == worker[v]
      <4>1. q \in BusyHost /\ HostOK(q, durable) /\ worker'[v] = q /\ q.phase # "saved"
        BY <1>6, <1>9, <3>2, HostShape DEF IInv
      <4>2. q.prev # NULL => OnLineage(q.prev, e)
        <5> SUFFICES ASSUME q.prev # NULL PROVE OnLineage(q.prev, e)
          OBVIOUS
        <5>1. durable # NULL /\ OnLineage(q.prev, durable) /\ q.prev \in Checkpoints
          BY <4>1 DEF HostOK, Knows, BusyHost
        <5>2. CASE durable = e
          BY <5>1, <5>2
        <5>3. CASE durable # e
          BY <1>2, <1>4, <5>1, <5>3, LineageOrder
        <5>4. QED BY <5>2, <5>3
      <4>3. QED BY <1>4, <4>1, <4>2 DEF HostOK, Knows
    <3>3. QED BY <3>1, <3>2
  <2>2. QED
    BY <1>1, <2>1 DEF HostOK, Knows, Applies, Saved, Own, DirectSaves, RepeatableRead
<1>10. ASSUME ~DirectSaves, NEW c \in Checkpoints
       PROVE  Acknowledged(c)' <=> c = e \/ Acknowledged(c)
  <2>1. Acknowledged(c)' <=> OnLineage(c, e)
    BY <1>1, <1>4 DEF Acknowledged
  <2>2. CASE durable = e
    BY <1>2, <1>4, <2>1, <2>2, LineageOrder DEF Acknowledged
  <2>3. CASE durable # e
    BY <1>2, <1>4, <1>10, <2>1, <2>3, AdvanceByOne DEF Acknowledged
  <2>4. QED BY <2>2, <2>3
<1>11. EffectAtomicWithCheckpoint'
  <2> SUFFICES ASSUME ~DirectSaves, NEW c \in Checkpoints
               PROVE  applied'[c] > 0 <=> Acknowledged(c)'
    BY <1>3 DEF EffectAtomicWithCheckpoint
  <2>1. applied[c] \in Nat /\ (applied[c] > 0 <=> Acknowledged(c))
    BY <1>4 DEF IInv, EffectAtomicWithCheckpoint
  <2>2. applied'[c] = IF c = e THEN applied[c] + 1 ELSE applied[c]
    BY <1>2, <1>7
  <2>3. Acknowledged(c)' <=> c = e \/ Acknowledged(c)
    BY <1>10
  <2>4. QED BY <2>1, <2>2, <2>3
<1>12. ExactlyOnceOnSnapshots'
  <2> SUFFICES ASSUME ~DirectSaves, RepeatableRead, NEW c \in Checkpoints
               PROVE  applied'[c] = IF Acknowledged(c)' THEN 1 ELSE 0
    BY <1>3 DEF ExactlyOnceOnSnapshots, EffectExactlyOnce
  <2>1. applied[c] = IF Acknowledged(c) THEN 1 ELSE 0
    BY DEF IInv, ExactlyOnceOnSnapshots, EffectExactlyOnce
  <2>2. applied'[c] = IF c = e THEN applied[c] + 1 ELSE applied[c]
    BY <1>2, <1>7
  <2>3. ~Acknowledged(e)
    BY <1>2, <1>4 DEF Acknowledged, OnLineage, Count, Checkpoints, Positions
  <2>4. Acknowledged(c)' <=> c = e \/ Acknowledged(c)
    BY <1>10
  <2>5. QED BY <2>1, <2>2, <2>3, <2>4
<1>13. QED BY <1>8, <1>9, <1>11, <1>12 DEF IInv

\* load() and the resumed stream: what the host knows is the durable checkpoint.
LEMMA ResumeStep ==
  ASSUME IInv, NEW w \in Workers, NEW v \in Versions, Resume(w, v)
  PROVE  IInv'
<1> DEFINE r == [phase |-> "streaming", version |-> v, pos |-> Count(durable) + 1,
                 prev |-> durable, snap |-> NULL, effect |-> FALSE]
<1> USE NullAssumption, ConstantsAssumption
<1>1. durable \in Checkpoints \cup {NULL} /\ (durable # NULL => WellFormed(durable))
  BY DEF IInv, TypeOK
<1>2. Count(durable) \in 0 .. Records
  BY <1>1 DEF Count, Checkpoints, Positions
<1>3. r \in Worker /\ r.phase = "streaming"
  BY <1>1, <1>2 DEF Worker, Busy
<1>4. Own(r) /\ r.pos = Count(r.prev) + 1
  BY DEF Own, Resume
<1>5. HostOK(r, durable)
  BY <1>1, <1>2, <1>3, <1>4, LineageOrder DEF HostOK, Knows, Applies
<1>6. worker' = [worker EXCEPT ![w] = r] /\ worker[w].phase # "saved"
  BY DEF Resume, Idle
<1> HIDE DEF r
<1>7. QED BY <1>3, <1>5, <1>6, RowFreeStep DEF Resume

\* load_in_transaction: the checkpoint that is read is the host's own predecessor, or it
\* has overtaken the host's record.
LEMMA LoadStep ==
  ASSUME IInv, NEW w \in Workers, Load(w)
  PROVE  IInv'
<1> DEFINE q == worker[w]
           r == [q EXCEPT !.phase = "loaded", !.prev = durable, !.snap = durable, !.effect = FALSE]
<1> USE NullAssumption, ConstantsAssumption
<1>1. q \in BusyHost /\ HostOK(q, durable) /\ q.phase = "streaming" /\ q.pos <= Records
      /\ q.pos = Count(q.prev) + 1
  BY HostShape DEF Load, IInv, Busy
<1>2. durable \in Checkpoints \cup {NULL} /\ (durable # NULL => WellFormed(durable))
  BY DEF IInv, TypeOK
<1>3. r \in BusyHost /\ r.phase = "loaded" /\ r.prev = durable /\ r.pos = q.pos
      /\ r.version = q.version /\ r.snap = durable
  BY <1>1, <1>2 DEF BusyHost, Busy
<1>4. worker' = [worker EXCEPT ![w] = r]
  BY DEF Load, IInv, TypeOK
<1> HIDE DEF q, r
<1>5. q.prev # NULL => q.prev \in Checkpoints /\ durable \in Checkpoints /\ OnLineage(q.prev, durable)
                       /\ q.prev = At(q.version, q.prev.count)
  BY <1>1, <1>2 DEF HostOK, Knows, Own, BusyHost
<1>6. Count(durable) >= q.pos - 1 /\ (Count(durable) = q.pos - 1 => Own(r))
  <2>1. CASE q.prev = NULL
    BY <1>1, <1>2, <1>3, <2>1 DEF Count, Own, Checkpoints, Positions
  <2>2. CASE q.prev # NULL
    <3>1. Count(q.prev) = q.prev.count /\ Count(durable) = durable.count
      BY <1>5, <2>2 DEF Count
    <3>2. q.prev.count <= durable.count /\ q.prev.count \in Nat /\ durable.count \in Nat
      BY <1>5, <2>2 DEF OnLineage, Checkpoints, Positions
    <3>3. q.prev.count = durable.count => q.prev = durable
      BY <1>2, <1>5, <2>2, LineageUnique
    <3>4. QED BY <1>1, <1>3, <1>5, <2>2, <3>1, <3>2, <3>3 DEF Own
  <2>3. QED BY <2>1, <2>2
<1>7. HostOK(r, durable)
  BY <1>1, <1>2, <1>3, <1>6, LineageOrder DEF HostOK, Knows, Applies
<1>8. r \in Worker
  BY <1>3 DEF Worker, BusyHost
<1>9. QED BY <1>1, <1>3, <1>4, <1>7, <1>8, RowFreeStep DEF Load, q

\* Every step of a host keeps the invariant.
LEMMA WorkIInv ==
  ASSUME IInv, NEW w \in Workers, Work(w)
  PROVE  IInv'
<1> DEFINE q == worker[w]
<1> USE NullAssumption, ConstantsAssumption
<1>0. q.phase \in Busy => q \in BusyHost /\ HostOK(q, durable)
  BY HostShape DEF IInv
<1>1. ASSUME NEW v \in Versions, Resume(w, v) PROVE IInv'
  BY <1>1, ResumeStep
<1>2. CASE Finish(w)
  BY <1>2, GiveUpStep DEF Finish, IInv, TypeOK
<1>3. CASE Load(w)
  BY <1>3, LoadStep
<1>4. CASE RefuseRecord(w)
  BY <1>4, GiveUpStep DEF RefuseRecord, IInv, TypeOK
<1>5. CASE SkipReplay(w)
  <2> DEFINE r == [q EXCEPT !.phase = "streaming", !.pos = @ + 1]
  <2>1. q \in BusyHost /\ HostOK(q, durable) /\ q.phase = "loaded"
    BY <1>0, <1>5 DEF SkipReplay, Busy
  <2>2. worker' = [worker EXCEPT ![w] = r] /\ q.prev = At(q.version, q.pos)
    BY <1>5 DEF SkipReplay, Candidate, IInv, TypeOK
  <2> HIDE DEF q
  <2>3. q.pos \in Positions /\ q.version \in Versions
    BY <2>1 DEF HostOK, Knows, BusyHost, Positions
  <2>4. q.prev \in Checkpoints /\ q.prev.count = q.pos /\ q.prev # NULL
    BY <2>2, <2>3, CheckpointOf
  <2>5. r \in BusyHost /\ r.phase = "streaming" /\ r.pos = q.pos + 1 /\ r.prev = q.prev
        /\ r.version = q.version
    <3>1. q.pos + 1 \in 1 .. Records + 1
      BY <2>3 DEF Positions
    <3>2. \A i \in 1 .. Records + 1 :
            [q EXCEPT !.phase = "streaming", !.pos = i] \in BusyHost
      BY <2>1 DEF BusyHost, Busy
    <3>3. r = [q EXCEPT !.phase = "streaming", !.pos = q.pos + 1]
      BY <2>1 DEF BusyHost
    <3>4. r \in BusyHost
      BY <3>1, <3>2, <3>3, Zenon
    <3>5. QED BY <2>1, <3>3, <3>4 DEF BusyHost
  <2> HIDE DEF r
  <2>6. HostOK(r, durable)
    BY <2>1, <2>2, <2>3, <2>4, <2>5 DEF HostOK, Knows, Own, Count, Applies, Positions
  <2>7. r \in Worker
    BY <2>5 DEF Worker, BusyHost
  <2>8. QED BY <1>5, <2>1, <2>2, <2>5, <2>6, <2>7, RowFreeStep DEF SkipReplay, q
<1>6. CASE RunEffect(w)
  <2> DEFINE r == [q EXCEPT !.phase = "select", !.effect = TRUE]
  <2>1. q \in BusyHost /\ HostOK(q, durable) /\ q.phase = "loaded"
    BY <1>0, <1>6 DEF RunEffect, Busy
  <2>2. worker' = [worker EXCEPT ![w] = r] /\ ~Regresses(q.prev, At(q.version, q.pos))
    BY <1>6 DEF RunEffect, Candidate, IInv, TypeOK
  <2> HIDE DEF q
  <2>3. q.pos \in Positions /\ q.version \in Versions /\ q.prev \in Checkpoints \cup {NULL}
    BY <2>1 DEF HostOK, Knows, BusyHost, Positions
  <2>4. q.pos = Count(q.prev) + 1 /\ Own(q)
    <3>1. Count(q.prev) < q.pos /\ Count(q.prev) \in Nat
      BY <2>2, <2>3, CheckpointOf DEF Regresses, Count, Checkpoints, Positions
    <3>2. QED BY <2>1, <2>3, <3>1 DEF HostOK, Knows, Positions
  <2>5. r \in BusyHost /\ r.phase = "select" /\ r.pos = q.pos /\ r.prev = q.prev
        /\ r.version = q.version /\ r.effect = TRUE /\ r.snap = q.snap
    BY <2>1 DEF BusyHost, Busy
  <2> HIDE DEF r
  <2>6. Knows(r, durable)
    BY <2>1, <2>3, <2>4, <2>5 DEF HostOK, Knows, Own, Count, Checkpoints, Positions
  <2>7. Applies(r)
    BY <2>1, <2>4, <2>5 DEF HostOK, Applies
  <2>8. r \in Worker
    BY <2>5 DEF Worker, BusyHost
  <2>9. QED BY <1>6, <2>1, <2>2, <2>5, <2>6, <2>7, <2>8, RowFreeStep DEF RunEffect, HostOK, q
<1>7. CASE ReadOn(w)
  <2> DEFINE r == [q EXCEPT !.pos = @ + 1]
  <2>1. q \in BusyHost /\ HostOK(q, durable) /\ q.phase = "streaming" /\ q.pos < Records /\ DirectSaves
    BY <1>0, <1>7 DEF ReadOn, Busy
  <2>2. worker' = [worker EXCEPT ![w] = r]
    BY <1>7 DEF ReadOn, IInv, TypeOK
  <2> HIDE DEF q
  <2>3. r \in BusyHost /\ r.phase = "streaming" /\ r.pos = q.pos + 1 /\ r.prev = q.prev
        /\ r.version = q.version /\ q.pos \in Nat /\ q.prev \in Checkpoints \cup {NULL}
    BY <2>1 DEF BusyHost
  <2> HIDE DEF r
  <2>4. Count(q.prev) \in Nat
    BY <2>3 DEF Count, Checkpoints, Positions
  <2>5. HostOK(r, durable)
    BY <2>1, <2>3, <2>4 DEF HostOK, Knows, Own, Applies
  <2>6. r \in Worker
    BY <2>3 DEF Worker, BusyHost
  <2>7. QED BY <1>7, <2>1, <2>2, <2>3, <2>5, <2>6, RowFreeStep DEF ReadOn, q
<1>8. CASE BeginSave(w)
  <2> DEFINE r == [q EXCEPT !.phase = "select", !.snap = durable, !.effect = FALSE]
  <2>1. q \in BusyHost /\ HostOK(q, durable) /\ q.phase = "streaming" /\ q.pos <= Records /\ DirectSaves
    BY <1>0, <1>8 DEF BeginSave, Busy
  <2>2. worker' = [worker EXCEPT ![w] = r] /\ durable \in Checkpoints \cup {NULL}
    BY <1>8 DEF BeginSave, IInv, TypeOK
  <2> HIDE DEF q
  <2>3. r \in BusyHost /\ r.phase = "select" /\ r.pos = q.pos /\ r.prev = q.prev
        /\ r.version = q.version
    BY <2>1, <2>2 DEF BusyHost, Busy
  <2> HIDE DEF r
  <2>4. HostOK(r, durable)
    BY <2>1, <2>3 DEF HostOK, Knows, Own, Applies
  <2>5. r \in Worker
    BY <2>3 DEF Worker, BusyHost
  <2>6. QED BY <1>8, <2>1, <2>2, <2>3, <2>4, <2>5, RowFreeStep DEF BeginSave, q
<1>9. CASE SelectNone(w)
  <2> DEFINE r == [q EXCEPT !.phase = "insert"]
  <2>1. q \in BusyHost /\ HostOK(q, durable) /\ q.phase = "select" /\ q.prev = NULL
    BY <1>0, <1>9 DEF SelectNone, Busy
  <2>2. worker' = [worker EXCEPT ![w] = r]
    BY <1>9 DEF SelectNone, Goto, IInv, TypeOK
  <2> HIDE DEF q
  <2>3. r \in BusyHost /\ r.phase = "insert" /\ r.pos = q.pos /\ r.prev = q.prev
        /\ r.version = q.version /\ r.effect = q.effect /\ r.snap = q.snap
    BY <2>1 DEF BusyHost, Busy
  <2> HIDE DEF r
  <2>4. HostOK(r, durable)
    BY <2>1, <2>3 DEF HostOK, Knows, Own, Applies
  <2>5. r \in Worker
    BY <2>3 DEF Worker, BusyHost
  <2>6. QED BY <1>9, <2>1, <2>2, <2>3, <2>4, <2>5, RowFreeStep DEF SelectNone, q
<1>10. CASE SelectRow(w) \/ Insert(w)
  <2> DEFINE r == [q EXCEPT !.phase = "saved"]
  <2>1. q \in BusyHost /\ HostOK(q, durable) /\ q.phase \in {"select", "insert"}
    BY <1>0, <1>10 DEF SelectRow, Insert, Busy
  <2>2. worker' = [worker EXCEPT ![w] = r]
    BY <1>10 DEF SelectRow, Insert, Goto, IInv, TypeOK
  <2>3. q.pos \in Positions /\ q.version \in Versions /\ q.prev \in Checkpoints \cup {NULL}
    BY <2>1 DEF HostOK, Knows, BusyHost, Positions
  <2>4. q.prev # At(q.version, q.pos)
    BY <2>1, <2>3, CheckpointOf DEF HostOK, Knows, Count, Checkpoints, Positions
  <2>5. ~DirectSaves /\ RepeatableRead => q.snap = q.prev
    BY <2>1 DEF HostOK, Applies
  <2>6. Saved(q, durable)
    <3>1. CASE SelectRow(w)
      BY <2>4, <2>5, <3>1 DEF SelectRow, Serializable, Swaps, Saved, Candidate
    <3>2. CASE Insert(w)
      BY <2>1, <3>2 DEF Insert, HostOK, Knows, Saved, Candidate
    <3>3. QED BY <1>10, <3>1, <3>2
  <2> HIDE DEF q
  <2>7. r \in BusyHost /\ r.phase = "saved" /\ r.pos = q.pos /\ r.prev = q.prev
        /\ r.version = q.version /\ r.effect = q.effect /\ r.snap = q.snap
    BY <2>1 DEF BusyHost, Busy
  <2> HIDE DEF r
  <2>8. HostOK(r, durable)
    BY <2>1, <2>6, <2>7 DEF HostOK, Knows, Own, Applies, Saved
  <2>9. r \in Worker
    BY <2>7 DEF Worker, BusyHost
  <2>10. lock = NULL /\ lock' = w /\ UNCHANGED <<deployment, durable, applied, faults>>
    BY <1>10 DEF SelectRow, Insert
  <2>11. QED BY <2>2, <2>7, <2>8, <2>9, <2>10, HostStep DEF IInv, TypeOK
<1>11. CASE Conflict(w)
  BY <1>11, GiveUpStep DEF Conflict, IInv, TypeOK
<1>12. CASE Commit(w)
  <2> DEFINE e == Candidate(w)
             r == [q EXCEPT !.phase = "streaming", !.pos = @ + 1, !.prev = e]
  <2>1. q \in BusyHost /\ HostOK(q, durable) /\ q.phase = "saved"
    BY <1>0, <1>12 DEF Commit, Committed, Busy
  <2>2. worker' = [worker EXCEPT ![w] = r] /\ e = At(q.version, q.pos)
    BY <1>12 DEF Commit, Candidate, IInv, TypeOK
  <2> HIDE DEF q, e
  <2>3. q.pos \in Positions /\ q.version \in Versions
    BY <2>1 DEF HostOK, Knows, BusyHost, Positions
  <2>4. e \in Checkpoints /\ WellFormed(e) /\ e.count = q.pos /\ e # NULL
    BY <2>2, <2>3, CheckpointOf
  <2>5. r \in BusyHost /\ r.phase = "streaming" /\ r.pos = q.pos + 1 /\ r.prev = e
        /\ r.version = q.version
    <3>1. q.pos + 1 \in 1 .. Records + 1
      BY <2>3 DEF Positions
    <3>2. \A i \in 1 .. Records + 1, c \in Checkpoints :
            [q EXCEPT !.phase = "streaming", !.pos = i, !.prev = c] \in BusyHost
      BY <2>1 DEF BusyHost, Busy
    <3>3. r = [q EXCEPT !.phase = "streaming", !.pos = q.pos + 1, !.prev = e]
      BY <2>1 DEF BusyHost
    <3>4. r \in BusyHost
      BY <2>4, <3>1, <3>2, <3>3, Zenon
    <3>5. QED BY <2>1, <3>3, <3>4 DEF BusyHost
  <2> HIDE DEF r
  <2>6. HostOK(r, e)
    BY <2>2, <2>3, <2>4, <2>5, LineageOrder DEF HostOK, Knows, Own, Count, Applies, Positions
  <2>7. r \in Worker
    BY <2>5 DEF Worker, BusyHost
  <2>8. QED BY <1>12, <2>2, <2>5, <2>6, <2>7, CommitStep DEF Commit, e, IInv, TypeOK
<1>13. QED BY <1>1, <1>2, <1>3, <1>4, <1>5, <1>6, <1>7, <1>8, <1>9, <1>10, <1>11, <1>12 DEF Work

\* Every step keeps the invariant.
LEMMA NextIInv == IInv /\ [Next]_vars => IInv'
<1> SUFFICES ASSUME IInv, [Next]_vars PROVE IInv'
  OBVIOUS
<1>1. ASSUME NEW w \in Workers, Work(w) PROVE IInv'
  BY <1>1, WorkIInv
<1>2. ASSUME NEW w \in Workers, CommitUnacknowledged(w) PROVE IInv'
  <2>1. faults' \in 0 .. MaxFaults /\ Idle \in Worker
    BY <1>2, ConstantsAssumption DEF CommitUnacknowledged, IInv, TypeOK, Worker
  <2>2. QED BY <1>2, <2>1, CommitStep DEF CommitUnacknowledged, GiveUp
<1>3. ASSUME NEW w \in Workers, Abort(w) PROVE IInv'
  <2>1. faults' \in 0 .. MaxFaults
    BY <1>3, ConstantsAssumption DEF Abort, IInv, TypeOK
  <2>2. QED BY <1>3, <2>1, GiveUpStep DEF Abort
<1>4. CASE UNCHANGED vars
  BY <1>4 DEF vars, IInv, TypeOK, LockIsHeld, HostOK, Knows, Applies, Saved, Own, DirectSaves,
              RepeatableRead, EffectAtomicWithCheckpoint, ExactlyOnceOnSnapshots,
              EffectExactlyOnce, Acknowledged
<1>5. QED BY <1>1, <1>2, <1>3, <1>4 DEF Next

-----------------------------------------------------------------------------
(* Theorems.                                                               *)

\* The invariant holds of every behaviour of the hosts.
LEMMA Invariance == Spec => []IInv
BY InitIInv, NextIInv, PTL DEF Spec

\* Every variable keeps its type.
THEOREM TypeCorrect == Spec => []TypeOK
<1>1. IInv => TypeOK
  BY DEF IInv
<1>2. QED BY <1>1, Invariance, PTL

\* apply_checkpointed_result_in_transaction is exactly-once under REPEATABLE READ.
THEOREM ExactlyOnce == Spec => []ExactlyOnceOnSnapshots
<1>1. IInv => ExactlyOnceOnSnapshots
  BY DEF IInv
<1>2. QED BY <1>1, Invariance, PTL

\* At any isolation level the effects that took place are those of the records the
\* checkpoint acknowledges: no crash separates an effect from its checkpoint.
THEOREM EffectAtomicity == Spec => []EffectAtomicWithCheckpoint
<1>1. IInv => EffectAtomicWithCheckpoint
  BY DEF IInv
<1>2. QED BY <1>1, Invariance, PTL

\* save_in_transaction only moves the checkpoint forward along one stream, whoever
\* saves and at whatever isolation level; hosts that apply records skip none.
THEOREM CheckpointMonotonic == Spec => CheckpointFollowsStream
<1>1. IInv /\ [Next]_vars =>
        [durable' # durable =>
           /\ durable'.count > Count(durable)
           /\ durable # NULL => OnLineage(durable, durable')
           /\ ~DirectSaves => durable'.count = Count(durable) + 1]_vars
  <2> SUFFICES ASSUME IInv, Next, durable' # durable
               PROVE  /\ durable'.count > Count(durable)
                      /\ durable # NULL => OnLineage(durable, durable')
                      /\ ~DirectSaves => durable'.count = Count(durable) + 1
    BY DEF vars
  <2>1. PICK w \in Workers : Committed(w)
    BY DEF Next, Work, Resume, Finish, Load, RefuseRecord, SkipReplay, RunEffect, ReadOn, BeginSave,
           SelectNone, SelectRow, Insert, Conflict, Commit, CommitUnacknowledged, Abort
  <2>2. worker[w].phase = "saved" /\ durable' = Candidate(w)
    BY <2>1 DEF Committed
  <2>3. QED BY <2>2, SavedAdvances
<1>2. QED BY <1>1, Invariance, PTL DEF Spec, CheckpointFollowsStream

=============================================================================
