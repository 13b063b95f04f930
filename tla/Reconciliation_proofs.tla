------------------------- MODULE Reconciliation_proofs -------------------------
(***************************************************************************)
(* Proofs about Reconciliation, for every number of workers and batches,   *)
(* every page size and budget, and any number of faults.                   *)
(***************************************************************************)
EXTENDS Reconciliation, FiniteSetTheorems, SequenceTheorems, WellFoundedInduction, TLAPS

-----------------------------------------------------------------------------
(* What the scan of a candidate list selects.                              *)

\* A set of naturals that is not empty has a least element.  It stands for the
\* induction over the candidates.
LEMMA LeastElement ==
  ASSUME NEW T \in SUBSET Nat, T # {}
  PROVE  \E x \in T : \A y \in T : x <= y
<1> DEFINE R == OpToRel(<, Nat)
<1>1. \A x, y \in Nat : <<x, y>> \in R <=> x < y
  BY DEF OpToRel
<1>2. PICK x \in T : \A y \in T : ~(<<y, x>> \in R)
  BY WFMin, NatLessThanWellFounded, Zenon
<1>3. \A y \in T : ~(y < x)
  BY <1>1, <1>2, Zenon
<1> HIDE DEF R
<1>4. QED BY <1>3

\* The positions of F up to i.
Upto(F, i) == {k \in F : k <= i}

\* They go from none to all, one position at a time.
LEMMA UptoGrows ==
  ASSUME NEW l \in Nat, NEW F \in SUBSET (1 .. l)
  PROVE  /\ Upto(F, 0) = {} /\ Upto(F, l) = F
         /\ \A i \in 1 .. l :
              /\ i \notin F => Upto(F, i) = Upto(F, i - 1)
              /\ i \in F => Upto(F, i) = Upto(F, i - 1) \cup {i} /\ i \notin Upto(F, i - 1)
<1>1. \A k \in F : k \in Nat /\ 1 <= k /\ k <= l
  OBVIOUS
<1>2. Upto(F, 0) = {} /\ Upto(F, l) = F
  <2>1. \A k \in F : ~(k <= 0) /\ k <= l
    BY <1>1
  <2>2. QED BY <2>1, Zenon DEF Upto
<1>3. ASSUME NEW i \in 1 .. l, i \in F
      PROVE  Upto(F, i) = Upto(F, i - 1) \cup {i} /\ i \notin Upto(F, i - 1)
  <2>1. /\ \A k \in F : k <= i <=> (k <= i - 1 \/ k = i)
        /\ ~(i <= i - 1)
    BY <1>1
  <2>2. QED BY <1>3, <2>1, Zenon DEF Upto
<1>4. ASSUME NEW i \in 1 .. l, i \notin F
      PROVE  Upto(F, i) = Upto(F, i - 1)
  <2>1. \A k \in F : k <= i <=> k <= i - 1
    BY <1>1, <1>4
  <2>2. QED BY <2>1, Zenon DEF Upto
<1>5. QED BY <1>2, <1>3, <1>4, Zenon

\* A set of positions has an n-th element for every n up to its size.
LEMMA NthElement ==
  ASSUME NEW l \in Nat, NEW F \in SUBSET (1 .. l), NEW n \in 1 .. Cardinality(F)
  PROVE  \E i \in F : Cardinality({k \in F : k <= i}) = n
<1> DEFINE T == {i \in 1 .. l : Cardinality(Upto(F, i)) >= n}
<1>1. IsFiniteSet(F) /\ Cardinality(F) \in Nat
  <2>1. IsFiniteSet(1 .. l)
    BY FS_Interval
  <2>2. IsFiniteSet(F)
    BY <2>1, FS_Subset, Zenon
  <2>3. QED BY <2>2, FS_CardinalityType
<1>2. \A i \in 0 .. l : IsFiniteSet(Upto(F, i)) /\ Cardinality(Upto(F, i)) \in Nat
  BY <1>1, FS_Subset, FS_CardinalityType DEF Upto
<1>3. l \in T
  <2>1. F # {}
    BY FS_EmptySet
  <2>2. PICK k \in F : k \in 1 .. l
    BY <2>1, Zenon
  <2>3. l \in 1 .. l
    BY <2>2
  <2>4. Upto(F, l) = F
    BY UptoGrows
  <2>5. QED BY <1>1, <2>3, <2>4
<1>4. PICK i \in 1 .. l : i \in T /\ \A j \in T : i <= j
  <2>1. T \in SUBSET Nat /\ T \subseteq 1 .. l
    OBVIOUS
  <2> HIDE DEF T
  <2>2. QED BY <1>3, <2>1, LeastElement
<1>5. Cardinality(Upto(F, i - 1)) < n
  <2>1. CASE i = 1
    <3>1. Upto(F, 0) = {} /\ Cardinality({}) = 0
      BY UptoGrows, FS_EmptySet, Zenon
    <3>2. QED BY <2>1, <3>1
  <2>2. CASE i # 1
    <3>1. i - 1 \in 1 .. l /\ i - 1 \notin T
      BY <1>4, <2>2
    <3>2. QED BY <1>2, <3>1
  <2>3. QED BY <2>1, <2>2
<1>6. i \in F
  <2>1. i \notin F => Upto(F, i) = Upto(F, i - 1)
    BY UptoGrows
  <2>2. QED BY <1>2, <1>4, <1>5, <2>1
<1>7. Cardinality(Upto(F, i)) = n
  <2>1. Upto(F, i) = Upto(F, i - 1) \cup {i} /\ i \notin Upto(F, i - 1)
    BY <1>6, UptoGrows
  <2>2. i - 1 \in 0 .. l /\ i \in 0 .. l
    OBVIOUS
  <2>3. Cardinality(Upto(F, i)) = Cardinality(Upto(F, i - 1)) + 1
    BY <1>2, <2>1, <2>2, FS_AddElement
  <2>4. QED BY <1>2, <1>4, <1>5, <2>2, <2>3
<1>8. QED BY <1>6, <1>7 DEF Upto

\* The first n of a list are a list, no longer than n.
LEMMA FirstNType ==
  ASSUME NEW s \in Seq(Jobs), NEW n \in Nat
  PROVE  FirstN(s, n) \in Seq(Jobs)
<1>1. Len(s) \in Nat /\ \A i \in 1 .. Len(s) : s[i] \in Jobs
  BY LenProperties, ElementOfSeq
<1>2. CASE Len(s) < n
  BY <1>1, <1>2, SubSeqProperties DEF FirstN
<1>3. CASE ~(Len(s) < n)
  <2>1. \A i \in 1 .. n : s[i] \in Jobs
    BY <1>1, <1>3
  <2>2. QED BY <1>3, <2>1, SubSeqProperties DEF FirstN
<1>4. QED BY <1>2, <1>3

\* _select_candidates returns candidates of the list, none twice, and at most
\* max_jobs of them.
LEMMA ScannedIsSelection ==
  ASSUME NEW candidates \in Seq(Jobs)
  PROVE  /\ Scanned(candidates) \in Seq(Jobs)
         /\ IsInjective(Scanned(candidates))
         /\ Len(Scanned(candidates)) <= MaxJobs
<1> DEFINE seen   == FirstN(candidates, MaxScan)
           firsts == {i \in DOMAIN seen : \A k \in 1 .. i - 1 : seen[k] # seen[i]}
           found  == Cardinality(firsts)
           number == IF found < MaxJobs THEN found ELSE MaxJobs
           Nth(n) == CHOOSE i \in firsts : Cardinality({k \in firsts : k <= i}) = n
<1>1. seen \in Seq(Jobs)
  BY FirstNType, ConstantsAssumption
<1>2. Len(seen) \in Nat /\ DOMAIN seen = 1 .. Len(seen) /\ \A i \in 1 .. Len(seen) : seen[i] \in Jobs
  BY <1>1, LenProperties, ElementOfSeq
<1>3. firsts \in SUBSET (1 .. Len(seen)) /\ IsFiniteSet(firsts) /\ found \in Nat
  <2>1. firsts \in SUBSET (1 .. Len(seen)) /\ IsFiniteSet(1 .. Len(seen))
    BY <1>2, FS_Interval
  <2>2. IsFiniteSet(firsts)
    BY <2>1, FS_Subset, Zenon
  <2>3. QED BY <2>1, <2>2, FS_CardinalityType
<1>4. number \in Nat /\ number <= found /\ number <= MaxJobs
  BY <1>3, ConstantsAssumption
<1>5. ASSUME NEW n \in 1 .. number
      PROVE  Nth(n) \in firsts /\ Cardinality({k \in firsts : k <= Nth(n)}) = n
  <2>1. n \in 1 .. Cardinality(firsts)
    BY <1>4, <1>3
  <2> HIDE DEF firsts
  <2>2. \E i \in firsts : Cardinality({k \in firsts : k <= i}) = n
    BY <1>2, <1>3, <2>1, NthElement
  <2>3. QED BY <2>2
<1>6. Scanned(candidates) = [n \in 1 .. number |-> seen[Nth(n)]]
  BY DEF Scanned
<1>7. \A a, b \in firsts : seen[a] = seen[b] => a = b
  <2> SUFFICES ASSUME NEW a \in firsts, NEW b \in firsts, seen[a] = seen[b], a < b PROVE FALSE
    BY <1>3
  <2>1. a \in 1 .. b - 1
    BY <1>3
  <2>2. QED BY <2>1
<1> HIDE DEF seen, firsts, found, number, Nth
<1>8. Scanned(candidates) \in [1 .. number -> Jobs]
  BY <1>2, <1>3, <1>5, <1>6
<1>9. Scanned(candidates) \in Seq(Jobs) /\ Len(Scanned(candidates)) = number
  BY <1>4, <1>8
<1>10. IsInjective(Scanned(candidates))
  <2> SUFFICES ASSUME NEW a \in 1 .. number, NEW b \in 1 .. number, seen[Nth(a)] = seen[Nth(b)]
               PROVE  a = b
    BY <1>6 DEF IsInjective
  <2>1. Nth(a) = Nth(b)
    BY <1>5, <1>7
  <2>2. QED BY <1>5, <2>1
<1>11. QED BY <1>4, <1>9, <1>10

-----------------------------------------------------------------------------
(* The table in the order of last_observed_at.                             *)

\* The rows in some order: each batch has one.
Orderings == {f \in [1 .. Cardinality(Jobs) -> Jobs] : IsInjective(f)}

\* The number of rows is a number, and every batch is in an ordering.
LEMMA OrderingsCover ==
  /\ Cardinality(Jobs) \in Nat
  /\ \A f \in Orderings : f \in Seq(Jobs) /\ Len(f) = Cardinality(Jobs)
                          /\ \A j \in Jobs : \E i \in DOMAIN f : f[i] = j
<1>1. IsFiniteSet(Jobs) /\ Cardinality(Jobs) \in Nat
  BY ConstantsAssumption, FS_CardinalityType
<1>2. ASSUME NEW f \in Orderings
      PROVE  f \in Seq(Jobs) /\ Len(f) = Cardinality(Jobs)
             /\ \A j \in Jobs : \E i \in DOMAIN f : f[i] = j
  <2>1. f \in Injection(1 .. Cardinality(Jobs), Jobs)
    BY DEF Orderings, Injection
  <2>2. Cardinality(1 .. Cardinality(Jobs)) = Cardinality(Jobs)
    BY <1>1, FS_Interval
  <2>3. f \in Surjection(1 .. Cardinality(Jobs), Jobs)
    BY <1>1, <2>1, <2>2, FS_Injection
  <2>4. QED BY <1>1, <2>3 DEF Orderings, Surjection
<1>3. QED BY <1>1, <1>2

\* Recording an observation moves one row to the end and loses none.
LEMMA ObservedReorders ==
  ASSUME ages \in Orderings, NEW j \in Jobs, Observed(j)
  PROVE  ages' \in Orderings
<1> DEFINE N == Cardinality(Jobs)
           p == CHOOSE i \in DOMAIN ages : ages[i] = j
           rest == RemoveAt(ages, p)
<1>1. N \in Nat /\ ages \in Seq(Jobs) /\ Len(ages) = N /\ DOMAIN ages = 1 .. N
  BY OrderingsCover DEF Orderings
<1>2. p \in 1 .. N /\ ages[p] = j
  BY <1>1, OrderingsCover
<1>3. ages' = Append(rest, j)
  BY DEF Observed
<1> HIDE DEF p, N
<1>4. /\ rest \in Seq(Jobs) /\ Len(rest) = N - 1
      /\ \A i \in 1 .. N - 1 : rest[i] = IF i < p THEN ages[i] ELSE ages[i + 1]
  <2>0. \A i \in 1 .. N : ages[i] \in Jobs
    BY <1>1, ElementOfSeq
  <2> DEFINE s1 == SubSeq(ages, 1, p - 1)
             s2 == SubSeq(ages, p + 1, N)
  <2>1. /\ s1 \in Seq(Jobs) /\ Len(s1) = p - 1
        /\ \A i \in 1 .. p - 1 : s1[i] = ages[i]
    <3>1. 1 \in Int /\ p - 1 \in Int /\ \A i \in 1 .. p - 1 : ages[i] \in Jobs
      BY <1>1, <1>2, <2>0
    <3>2. /\ s1 \in Seq(Jobs) /\ Len(s1) = IF 1 <= p - 1 THEN p - 1 - 1 + 1 ELSE 0
          /\ \A i \in 1 .. p - 1 - 1 + 1 : s1[i] = ages[1 + i - 1]
      BY <3>1, SubSeqProperties
    <3>3. QED BY <1>1, <1>2, <3>2
  <2>2. /\ s2 \in Seq(Jobs) /\ Len(s2) = N - p
        /\ \A i \in 1 .. N - p : s2[i] = ages[p + i]
    <3>1. p + 1 \in Int /\ N \in Int /\ \A i \in p + 1 .. N : ages[i] \in Jobs
      BY <1>1, <1>2, <2>0
    <3>2. /\ s2 \in Seq(Jobs) /\ Len(s2) = IF p + 1 <= N THEN N - (p + 1) + 1 ELSE 0
          /\ \A i \in 1 .. N - (p + 1) + 1 : s2[i] = ages[p + 1 + i - 1]
      BY <3>1, SubSeqProperties
    <3>3. QED BY <1>1, <1>2, <3>2
  <2>3. rest = s1 \o s2
    BY <1>1 DEF RemoveAt
  <2> HIDE DEF s1, s2, rest
  <2>4. /\ rest \in Seq(Jobs) /\ Len(rest) = Len(s1) + Len(s2)
        /\ \A i \in 1 .. Len(s1) + Len(s2) :
             rest[i] = IF i <= Len(s1) THEN s1[i] ELSE s2[i - Len(s1)]
    BY <2>1, <2>2, <2>3, ConcatProperties
  <2>5. ASSUME NEW i \in 1 .. N - 1
        PROVE  rest[i] = IF i < p THEN ages[i] ELSE ages[i + 1]
    <3>1. CASE i < p
      BY <1>1, <1>2, <2>1, <2>2, <2>4, <3>1
    <3>2. CASE ~(i < p)
      <4>1. i - (p - 1) \in 1 .. N - p /\ p + (i - (p - 1)) = i + 1
        BY <1>1, <1>2, <3>2
      <4>2. rest[i] = s2[i - (p - 1)]
        BY <1>1, <1>2, <2>1, <2>2, <2>4, <3>2
      <4>3. QED BY <2>2, <3>2, <4>1, <4>2
    <3>3. QED BY <3>1, <3>2
  <2>6. QED BY <1>1, <1>2, <2>1, <2>2, <2>4, <2>5
<1> HIDE DEF rest
<1>5. /\ ages' \in Seq(Jobs) /\ Len(ages') = N /\ ages'[N] = j
      /\ \A i \in 1 .. N - 1 : ages'[i] = rest[i]
  BY <1>1, <1>2, <1>3, <1>4, AppendProperties
<1>6. ages' \in [1 .. N -> Jobs]
  BY <1>5, LenProperties
<1>7. \A a, b \in 1 .. N : ages[a] = ages[b] => a = b
  BY <1>1 DEF Orderings, IsInjective
<1>8. ASSUME NEW a \in 1 .. N, NEW b \in 1 .. N, ages'[a] = ages'[b] PROVE a = b
  <2> DEFINE from(i) == IF i = N THEN p ELSE IF i < p THEN i ELSE i + 1
  <2>1. ASSUME NEW i \in 1 .. N PROVE from(i) \in 1 .. N /\ ages'[i] = ages[from(i)]
    <3>1. CASE i = N
      BY <1>2, <1>5, <3>1
    <3>2. CASE i # N
      BY <1>1, <1>2, <1>4, <1>5, <3>2
    <3>3. QED BY <3>1, <3>2
  <2>2. from(a) \in 1 .. N /\ from(b) \in 1 .. N /\ ages[from(a)] = ages[from(b)]
    BY <1>8, <2>1
  <2>3. from(a) = from(b)
    BY <1>7, <2>2
  <2>4. QED BY <1>1, <1>2, <2>3
<1>9. QED BY <1>6, <1>8 DEF Orderings, IsInjective, N

-----------------------------------------------------------------------------
(* The inductive invariant.                                                *)

Phases == {"idle", "next", "poll", "download", "release", "done", "refused"}

\* What a worker knows of the pass it executes.
PassState ==
  [phase : Phases, session : BOOLEAN, locking : BOOLEAN, todo : Seq(Jobs), selected : Nat,
   processed : Nat, failed : Nat, deferred : Nat]

\* The accounts of one pass; a candidate that is in flight is in its list.
Balanced(r) ==
  /\ r.selected <= MaxJobs /\ IsInjective(r.todo)
  /\ r.phase # "idle" =>
       r.processed + r.deferred + Len(r.todo)
         = r.selected + (IF r.phase = "release" THEN 1 ELSE 0)
  /\ r.failed <= r.processed
  /\ r.phase \in {"poll", "download", "release"} => r.todo # << >>

\* Does a worker in this state work under the lock of j?
Holds(r, j) ==
  /\ r.locking /\ r.phase \in {"poll", "download", "release"} /\ r.session
  /\ Head(r.todo) = j

Own(r, j) == IF Holds(r, j) THEN 1 ELSE 0

\* A number per batch.
Counts == [Jobs -> Nat]

\* A session of a worker in state r holds what the worker works under, and beyond that at
\* most what its lock calls without a valid answer left.
Bounded(r, h, u) == \A j \in Jobs : Own(r, j) <= h[j] /\ h[j] <= Own(r, j) + u[j]

IInv ==
  /\ ages \in Orderings /\ finished \subseteq Jobs /\ retrieved \subseteq Jobs
  /\ holds \in [Workers -> Counts] /\ unproven \in [Workers -> Counts]
  /\ worker \in [Workers -> PassState]
  /\ faults \in 0 .. MaxFaults
  /\ \A w \in Workers : Balanced(worker[w]) /\ Bounded(worker[w], holds[w], unproven[w])
  /\ \A v, w \in Workers, j \in Jobs : v # w => holds[v][j] = 0 \/ holds[w][j] = 0

\* The invariant implies the properties of the module.
LEMMA IInvImplies == IInv => TypeOK /\ LocksAreOwned /\ PassAccountsForAll
<1> SUFFICES ASSUME IInv PROVE TypeOK /\ LocksAreOwned /\ PassAccountsForAll
  OBVIOUS
<1>1. TypeOK
  BY DEF IInv, TypeOK, Orderings, PassState, Phases, Counts
<1>2. LocksAreOwned
  <2> SUFFICES ASSUME NEW j \in Jobs, NEW w \in Workers
               PROVE  LET own == IF Working(w) /\ Current(w) = j THEN 1 ELSE 0
                      IN /\ holds[w][j] \in own .. own + unproven[w][j]
                         /\ holds[w][j] > 0 => \A v \in Workers \ {w} : holds[v][j] = 0
    BY DEF LocksAreOwned
  <2>1. Working(w) /\ Current(w) = j <=> Holds(worker[w], j)
    BY DEF Holds, Working, InFlight, Current
  <2>2. holds[w][j] \in Nat /\ unproven[w][j] \in Nat
    BY DEF IInv, Counts
  <2>3. Own(worker[w], j) <= holds[w][j] /\ holds[w][j] <= Own(worker[w], j) + unproven[w][j]
    BY DEF IInv, Bounded
  <2>4. \A v \in Workers \ {w} : holds[w][j] = 0 \/ holds[v][j] = 0
    BY DEF IInv
  <2>5. QED BY <2>1, <2>2, <2>3, <2>4 DEF Own
<1>3. PassAccountsForAll
  BY DEF IInv, PassAccountsForAll, Balanced
<1>4. QED BY <1>1, <1>2, <1>3

\* An idle worker: nothing selected, nothing held.
LEMMA IdlePass == Idle \in PassState /\ Balanced(Idle) /\ \A j : ~Holds(Idle, j)
<1>1. Idle \in PassState
  BY EmptySeq DEF Idle, PassState, Phases
<1>2. IsInjective(<< >>)
  BY DEF IsInjective
<1>3. QED BY <1>1, <1>2, ConstantsAssumption DEF Idle, Balanced, Holds

\* The initial state satisfies the invariant.
LEMMA InitIInv == Init => IInv
<1> SUFFICES ASSUME Init PROVE IInv
  OBVIOUS
<1>1. ages \in Orderings
  BY DEF Init, Orderings, SetToSeqs, IsInjective
<1>2. NoJobs \in Counts /\ \A j \in Jobs : NoJobs[j] = 0
  BY DEF NoJobs, Counts
<1>3. \A w \in Workers : /\ worker[w] = Idle /\ holds[w] = NoJobs /\ unproven[w] = NoJobs
                         /\ Bounded(worker[w], holds[w], unproven[w])
  BY <1>2, IdlePass DEF Init, Bounded, Own
<1>4. holds \in [Workers -> Counts] /\ unproven \in [Workers -> Counts]
  BY <1>2 DEF Init
<1>5. QED BY <1>1, <1>2, <1>3, <1>4, IdlePass, ConstantsAssumption DEF Init, IInv

\* A step of one worker keeps the invariant if its new state is balanced, its session holds
\* what it must and may, and no key that another session holds.
LEMMA WorkerStep ==
  ASSUME IInv, NEW w \in Workers, NEW r \in PassState, worker' = [worker EXCEPT ![w] = r],
         NEW h \in Counts, holds' = [holds EXCEPT ![w] = h],
         NEW u \in Counts, unproven' = [unproven EXCEPT ![w] = u],
         Balanced(r), Bounded(r, h, u),
         \A v \in Workers \ {w}, j \in Jobs : h[j] = 0 \/ holds[v][j] = 0,
         ages' \in Orderings, finished' \subseteq Jobs, retrieved' \subseteq Jobs,
         faults' \in 0 .. MaxFaults
  PROVE  IInv'
<1>1. /\ worker' \in [Workers -> PassState] /\ worker'[w] = r
      /\ \A v \in Workers \ {w} : worker'[v] = worker[v]
  BY DEF IInv
<1>2. /\ holds' \in [Workers -> Counts] /\ holds'[w] = h
      /\ \A v \in Workers \ {w} : holds'[v] = holds[v]
  BY DEF IInv
<1>3. /\ unproven' \in [Workers -> Counts] /\ unproven'[w] = u
      /\ \A v \in Workers \ {w} : unproven'[v] = unproven[v]
  BY DEF IInv
<1>4. ASSUME NEW v \in Workers
      PROVE  Balanced(worker'[v]) /\ Bounded(worker'[v], holds'[v], unproven'[v])
  BY <1>1, <1>2, <1>3 DEF IInv
<1>5. ASSUME NEW v \in Workers, NEW x \in Workers, NEW j \in Jobs, v # x
      PROVE  holds'[v][j] = 0 \/ holds'[x][j] = 0
  <2>1. CASE v = w
    BY <1>2, <1>5, <2>1
  <2>2. CASE x = w
    BY <1>2, <1>5, <2>2
  <2>3. CASE v # w /\ x # w
    BY <1>2, <1>5, <2>3 DEF IInv
  <2>4. QED BY <2>1, <2>2, <2>3
<1>6. QED BY <1>1, <1>2, <1>3, <1>4, <1>5 DEF IInv

\* What the session of a worker holds.
LEMMA SessionFacts ==
  ASSUME IInv, NEW w \in Workers
  PROVE  /\ holds[w] \in Counts /\ unproven[w] \in Counts
         /\ Bounded(worker[w], holds[w], unproven[w])
         /\ \A v \in Workers \ {w}, j \in Jobs : holds[w][j] = 0 \/ holds[v][j] = 0
         /\ holds = [holds EXCEPT ![w] = holds[w]]
         /\ unproven = [unproven EXCEPT ![w] = unproven[w]]
BY DEF IInv

\* The same for a step that leaves the locks alone and keeps what its worker holds.
LEMMA LocklessStep ==
  ASSUME IInv, NEW w \in Workers, NEW r \in PassState, worker' = [worker EXCEPT ![w] = r],
         Balanced(r), \A j \in Jobs : Holds(r, j) <=> Holds(worker[w], j),
         ages' \in Orderings, finished' \subseteq Jobs, retrieved' \subseteq Jobs,
         faults' \in 0 .. MaxFaults, UNCHANGED locks
  PROVE  IInv'
<1>1. Bounded(r, holds[w], unproven[w])
  BY SessionFacts DEF Bounded, Own
<1>2. holds' = [holds EXCEPT ![w] = holds[w]] /\ unproven' = [unproven EXCEPT ![w] = unproven[w]]
  BY SessionFacts DEF locks
<1>3. QED BY <1>1, <1>2, SessionFacts, WorkerStep

\* A candidate that was dealt with leaves the list, which keeps its other members.
LEMMA NextCandidate ==
  ASSUME NEW s \in Seq(Jobs), s # << >>, IsInjective(s)
  PROVE  /\ Head(s) \in Jobs /\ Tail(s) \in Seq(Jobs)
         /\ Len(s) \in Nat /\ Len(Tail(s)) = Len(s) - 1
         /\ IsInjective(Tail(s))
BY HeadTailProperties, LenProperties DEF IsInjective

\* Every list a host may hand to the worker is a list of batches.
LEMMA InputsType ==
  ASSUME ages \in Orderings
  PROVE  Inputs \subseteq Seq(Jobs)
<1>1. Page \in Seq(Jobs)
  <2>1. ages \in Seq(Jobs) /\ MaxCandidates \in Nat
    BY OrderingsCover, ConstantsAssumption
  <2>2. QED BY <2>1, FirstNType DEF Page
<1>2. \A j \in Prepended : <<j>> \o Page \in Seq(Jobs)
  BY <1>1, ConstantsAssumption, ConcatProperties
<1>3. QED BY <1>1, <1>2 DEF Inputs

\* Starting a pass: the selection of a candidate list, or a refusal.
LEMMA StartStep ==
  ASSUME IInv, NEW w \in Workers, StartPass(w)
  PROVE  IInv'
<1>1. PICK candidates \in Inputs, locking \in SingleFlight :
        worker' = [worker EXCEPT ![w] =
          IF Saturated(candidates) THEN [Idle EXCEPT !.phase = "refused"]
          ELSE [Idle EXCEPT !.phase = "next", !.locking = locking, !.todo = Scanned(candidates),
                            !.selected = Len(Scanned(candidates))]]
  BY DEF StartPass, StartWith
<1> DEFINE s == Scanned(candidates)
           r == IF Saturated(candidates) THEN [Idle EXCEPT !.phase = "refused"]
                ELSE [Idle EXCEPT !.phase = "next", !.locking = locking, !.todo = s,
                                  !.selected = Len(s)]
<1>2. s \in Seq(Jobs) /\ IsInjective(s) /\ Len(s) <= MaxJobs /\ Len(s) \in Nat
  BY InputsType, ScannedIsSelection, LenProperties DEF IInv
<1>3. locking \in BOOLEAN
  BY ConstantsAssumption
<1>4. << >> \in Seq(Jobs) /\ Len(<< >>) = 0 /\ IsInjective(<< >>)
  BY EmptySeq DEF IsInjective
<1> HIDE DEF s
<1>5. r \in PassState /\ Balanced(r)
  <2>1. CASE Saturated(candidates)
    <3>1. r = [Idle EXCEPT !.phase = "refused"]
      BY <2>1
    <3>2. r \in PassState
      BY <3>1, IdlePass DEF PassState, Phases
    <3>3. /\ r.selected = 0 /\ r.todo = << >> /\ r.phase = "refused" /\ r.processed = 0
          /\ r.deferred = 0 /\ r.failed = 0
      BY <3>1 DEF Idle
    <3>4. QED BY <1>4, <3>2, <3>3, ConstantsAssumption DEF Balanced
  <2>2. CASE ~Saturated(candidates)
    <3>1. r = [Idle EXCEPT !.phase = "next", !.locking = locking, !.todo = s, !.selected = Len(s)]
      BY <2>2
    <3>2. r \in PassState
      BY <1>2, <1>3, <3>1, IdlePass DEF PassState, Phases
    <3>3. /\ r.selected = Len(s) /\ r.todo = s /\ r.phase = "next" /\ r.processed = 0
          /\ r.deferred = 0 /\ r.failed = 0
      BY <3>1 DEF Idle
    <3>4. QED BY <1>2, <3>2, <3>3 DEF Balanced
  <2>3. QED BY <2>1, <2>2
<1>6. \A j \in Jobs : ~Holds(r, j) /\ ~Holds(worker[w], j)
  BY DEF Holds, Idle, StartPass, StartWith
<1>7. worker' = [worker EXCEPT ![w] = r]
  BY <1>1 DEF s
<1> HIDE DEF r
<1>8. QED BY <1>5, <1>6, <1>7, LocklessStep DEF StartPass, StartWith, IInv

\* A poll or a download that ends is counted, and its candidate is released next.
LEMMA CountStep ==
  ASSUME IInv, NEW w \in Workers, NEW outcome, Count(w, outcome),
         worker[w].phase \in {"poll", "download"},
         ages' \in Orderings, retrieved' \subseteq Jobs, faults' \in 0 .. MaxFaults,
         UNCHANGED <<finished, locks>>
  PROVE  IInv'
<1> DEFINE q == worker[w]
           r == [q EXCEPT !.phase = "release", !.processed = @ + 1,
                          !.failed = IF outcome = "failed" THEN @ + 1 ELSE @]
<1>1. q \in PassState /\ Balanced(q) /\ q.phase \in {"poll", "download"}
  BY DEF IInv
<1>2. worker' = [worker EXCEPT ![w] = r]
  BY DEF Count, IInv
<1> HIDE DEF q
<1>3. r \in PassState
  <2>1. q.processed + 1 \in Nat /\ (IF outcome = "failed" THEN q.failed + 1 ELSE q.failed) \in Nat
    BY <1>1 DEF PassState
  <2>2. \A n, m \in Nat : [q EXCEPT !.phase = "release", !.processed = n, !.failed = m] \in PassState
    BY <1>1 DEF PassState, Phases
  <2>3. r = [q EXCEPT !.phase = "release", !.processed = q.processed + 1,
                      !.failed = IF outcome = "failed" THEN q.failed + 1 ELSE q.failed]
    BY <1>1 DEF PassState
  <2>4. QED BY <2>1, <2>2, <2>3, Zenon
<1>4. \A j \in Jobs : Holds(r, j) <=> Holds(q, j)
  <2>1. /\ r.phase = "release" /\ r.locking = q.locking /\ r.session = q.session
        /\ r.todo = q.todo
    BY <1>1 DEF PassState
  <2>2. QED BY <1>1, <2>1 DEF Holds
<1>5. Balanced(r)
  <2>1. Len(q.todo) \in Nat
    BY <1>1, LenProperties DEF PassState
  <2>2. QED BY <1>1, <2>1 DEF PassState, Balanced
<1> HIDE DEF r
<1>6. QED BY <1>2, <1>3, <1>4, <1>5, LocklessStep DEF IInv, q

\* The end of a pass whose worker works under no lock.
LEMMA IdleStep ==
  ASSUME IInv, NEW w \in Workers, worker' = [worker EXCEPT ![w] = Idle],
         \A j \in Jobs : ~Holds(worker[w], j), UNCHANGED locks,
         faults' \in 0 .. MaxFaults, UNCHANGED <<ages, finished, retrieved>>
  PROVE  IInv'
BY IdlePass, LocklessStep DEF IInv

\* The end of a pass at a lock call for batch c, after which its session holds n grants
\* for c and has m calls for it without a valid answer.
LEMMA LockCallEndsPass ==
  ASSUME IInv, NEW w \in Workers, worker' = [worker EXCEPT ![w] = Idle],
         NEW c \in Jobs, \A j \in Jobs : Holds(worker[w], j) => j = c,
         NEW n \in Nat, holds' = [holds EXCEPT ![w][c] = n],
         NEW m \in Nat, unproven' = [unproven EXCEPT ![w][c] = m],
         n <= m, n > holds[w][c] => \A v \in Workers \ {w} : holds[v][c] = 0,
         faults' \in 0 .. MaxFaults, UNCHANGED <<ages, finished, retrieved>>
  PROVE  IInv'
<1> DEFINE h == [holds[w] EXCEPT ![c] = n]
           u == [unproven[w] EXCEPT ![c] = m]
<1>0. holds \in [Workers -> Counts] /\ unproven \in [Workers -> Counts]
  BY DEF IInv
<1>1. /\ holds' = [holds EXCEPT ![w] = h] /\ h \in Counts
      /\ \A j \in Jobs : h[j] = IF j = c THEN n ELSE holds[w][j]
  BY <1>0 DEF Counts
<1>2. /\ unproven' = [unproven EXCEPT ![w] = u] /\ u \in Counts
      /\ \A j \in Jobs : u[j] = IF j = c THEN m ELSE unproven[w][j]
  BY <1>0 DEF Counts
<1> HIDE DEF h, u
<1>3. holds[w][c] \in Nat /\ \A j \in Jobs : holds[w][j] \in Nat /\ unproven[w][j] \in Nat
  BY SessionFacts DEF Counts
<1>4. \A j \in Jobs : j # c => holds[w][j] <= unproven[w][j]
  BY <1>3, SessionFacts DEF Bounded, Own
<1>5. Bounded(Idle, h, u)
  BY <1>1, <1>2, <1>3, <1>4, IdlePass DEF Bounded, Own
<1>6. ASSUME NEW v \in Workers \ {w}, NEW j \in Jobs
      PROVE  h[j] = 0 \/ holds[v][j] = 0
  BY <1>1, <1>3, SessionFacts
<1>7. QED BY <1>1, <1>2, <1>5, <1>6, IdlePass, WorkerStep DEF IInv

\* The end of a session whose worker works under no lock any more.
LEMMA SessionEndsStep ==
  ASSUME IInv, NEW w \in Workers, SessionEnds(w),
         NEW r \in PassState, worker' = [worker EXCEPT ![w] = r],
         Balanced(r), \A j \in Jobs : ~Holds(r, j), faults' \in 0 .. MaxFaults
  PROVE  IInv'
<1>1. NoJobs \in Counts /\ \A j \in Jobs : NoJobs[j] = 0
  BY DEF NoJobs, Counts
<1>2. Bounded(r, NoJobs, NoJobs)
  BY <1>1 DEF Bounded, Own
<1>3. QED BY <1>1, <1>2, WorkerStep DEF SessionEnds, IInv

\* Every step of a worker keeps the invariant.
LEMMA PassIInv ==
  ASSUME IInv, NEW w \in Workers, Pass(w) \/ Fault(w)
  PROVE  IInv'
<1> DEFINE q == worker[w]
<1>0. q \in PassState /\ Balanced(q)
  BY DEF IInv
<1>1. q.todo \in Seq(Jobs) /\ Len(q.todo) \in Nat /\ IsInjective(q.todo)
  BY <1>0, LenProperties DEF PassState, Balanced
<1>2. q.todo # << >> => Current(w) \in Jobs /\ Tail(q.todo) \in Seq(Jobs)
                        /\ Len(Tail(q.todo)) = Len(q.todo) - 1 /\ IsInjective(Tail(q.todo))
  BY <1>1, NextCandidate DEF Current
<1>3. q.phase \in {"poll", "download", "release"} => q.todo # << >>
  BY <1>0 DEF Balanced
<1>h. /\ \A j \in Jobs : holds[w][j] \in Nat /\ unproven[w][j] \in Nat
      /\ \A j \in Jobs : Own(q, j) <= holds[w][j] /\ holds[w][j] <= Own(q, j) + unproven[w][j]
  BY SessionFacts DEF Bounded, Counts
<1>o. Working(w) => /\ Current(w) \in Jobs /\ \A j \in Jobs : Holds(q, j) <=> j = Current(w)
                    /\ holds[w][Current(w)] \in Nat \ {0}
                    /\ holds[w][Current(w)] <= 1 + unproven[w][Current(w)]
  <2> SUFFICES ASSUME Working(w)
               PROVE  /\ Current(w) \in Jobs /\ \A j \in Jobs : Holds(q, j) <=> j = Current(w)
                      /\ holds[w][Current(w)] \in Nat \ {0}
                      /\ holds[w][Current(w)] <= 1 + unproven[w][Current(w)]
    OBVIOUS
  <2>1. Current(w) \in Jobs
    BY <1>2, <1>3 DEF Working, InFlight
  <2>2. \A j \in Jobs : Holds(q, j) <=> j = Current(w)
    BY DEF Holds, Working, InFlight, Current
  <2> HIDE DEF q
  <2>3. QED BY <1>h, <2>1, <2>2 DEF Own
<1>i. ~Working(w) => \A j \in Jobs : ~Holds(q, j)
  BY DEF Holds, Working, InFlight
<1>u. Unproven(w) /\ Current(w) \in Jobs =>
        /\ unproven[w][Current(w)] + 1 \in Nat
        /\ unproven' = [unproven EXCEPT ![w][Current(w)] = unproven[w][Current(w)] + 1]
        /\ faults' \in 0 .. MaxFaults
  BY <1>h, ConstantsAssumption DEF Unproven, IInv, Counts
<1>4. CASE StartPass(w)
  BY <1>4, StartStep
<1>5. CASE Acquire(w)
  <2> DEFINE r == [q EXCEPT !.phase = "poll"]
             c == Current(w)
             n == holds[w][c] + 1
             h == [holds[w] EXCEPT ![c] = n]
  <2>1. /\ worker' = [worker EXCEPT ![w] = r] /\ q.todo # << >> /\ q.phase = "next" /\ q.locking
        /\ q.session
    BY <1>5 DEF Acquire, Trying, HasWork, IInv
  <2>2. r \in PassState /\ Balanced(r)
    BY <1>0, <1>1, <2>1 DEF PassState, Phases, Balanced
  <2>3. c \in Jobs /\ n \in Nat
    BY <1>2, <1>h, <2>1
  <2>4. holds' = [holds EXCEPT ![w][c] = n] /\ \A v \in Workers \ {w} : holds[v][c] = 0
    BY <1>5 DEF Acquire, Granted, Free, IInv, Counts
  <2>5. /\ holds' = [holds EXCEPT ![w] = h] /\ h \in Counts
        /\ \A j \in Jobs : h[j] = IF j = c THEN n ELSE holds[w][j]
    <3>1. holds \in [Workers -> Counts]
      BY DEF IInv
    <3> HIDE DEF n, c
    <3>2. QED BY <2>3, <2>4, <3>1 DEF Counts
  <2>6. \A j \in Jobs : (Holds(r, j) <=> j = c) /\ ~Holds(q, j)
    BY <1>0, <2>1 DEF Holds, Current, PassState
  <2> HIDE DEF r, q, c, h
  <2>7. Bounded(r, h, unproven[w])
    BY <1>h, <2>3, <2>5, <2>6 DEF Bounded, Own
  <2>8. \A v \in Workers \ {w}, j \in Jobs : h[j] = 0 \/ holds[v][j] = 0
    BY <2>4, <2>5, SessionFacts
  <2>9. unproven' = [unproven EXCEPT ![w] = unproven[w]] /\ unproven[w] \in Counts
    BY <1>5, SessionFacts DEF Acquire
  <2>10. QED BY <1>5, <2>1, <2>2, <2>5, <2>7, <2>8, <2>9, WorkerStep DEF Acquire, IInv
<1>6. CASE Defer(w)
  <2> DEFINE r == [q EXCEPT !.todo = Tail(@), !.deferred = @ + 1]
  <2>1. worker' = [worker EXCEPT ![w] = r] /\ q.todo # << >> /\ q.phase = "next"
    BY <1>6 DEF Defer, Trying, HasWork, IInv
  <2>2. r \in PassState /\ Balanced(r)
    <3>1. r \in PassState
      <4>1. q.deferred + 1 \in Nat /\ Tail(q.todo) \in Seq(Jobs)
        BY <1>0, <1>2, <2>1 DEF PassState
      <4>2. \A n \in Nat, t \in Seq(Jobs) : [q EXCEPT !.todo = t, !.deferred = n] \in PassState
        BY <1>0 DEF PassState
      <4>3. r = [q EXCEPT !.todo = Tail(q.todo), !.deferred = q.deferred + 1]
        BY <1>0 DEF PassState
      <4>4. QED BY <4>1, <4>2, <4>3, Zenon
    <3>2. /\ r.selected = q.selected /\ r.todo = Tail(q.todo) /\ r.phase = "next"
          /\ r.processed = q.processed /\ r.deferred = q.deferred + 1 /\ r.failed = q.failed
      BY <1>0, <2>1 DEF PassState
    <3> HIDE DEF q, r
    <3>3. Len(r.todo) = Len(q.todo) - 1 /\ IsInjective(r.todo)
      BY <1>2, <2>1, <3>2
    <3>4. /\ q.processed \in Nat /\ q.deferred \in Nat /\ q.failed \in Nat /\ q.selected \in Nat
      BY <1>0 DEF PassState
    <3>5. q.processed + q.deferred + Len(q.todo) = q.selected
      BY <1>0, <2>1, <3>4 DEF Balanced
    <3>6. r.processed + r.deferred + Len(r.todo) = r.selected
      <4>1. \A a, b, c \in Nat : a + (b + 1) + (c - 1) = a + b + c
        OBVIOUS
      <4>2. q.processed + (q.deferred + 1) + (Len(q.todo) - 1) = q.selected
        <5>1. q.processed \in Nat /\ q.deferred \in Nat /\ Len(q.todo) \in Nat
          BY <1>1, <3>4, Zenon
        <5>2. q.processed + (q.deferred + 1) + (Len(q.todo) - 1)
                = q.processed + q.deferred + Len(q.todo)
          BY <4>1, <5>1, Zenon
        <5>3. QED BY <3>5, <5>2, Zenon
      <4>3. QED BY <3>2, <3>3, <4>2, Zenon
    <3>7. r.selected <= MaxJobs /\ r.failed <= r.processed
      BY <1>0, <3>2 DEF Balanced
    <3>8. QED BY <3>1, <3>2, <3>3, <3>4, <3>6, <3>7 DEF Balanced
  <2>3. \A j \in Jobs : ~Holds(r, j) /\ ~Holds(q, j)
    BY <2>1 DEF Holds
  <2> HIDE DEF r
  <2>4. QED BY <1>6, <2>1, <2>2, <2>3, LocklessStep DEF Defer, IInv
<1>7. CASE Proceed(w)
  <2> DEFINE r == [q EXCEPT !.phase = "poll"]
  <2>1. worker' = [worker EXCEPT ![w] = r] /\ q.todo # << >> /\ q.phase = "next" /\ ~q.locking
    BY <1>7 DEF Proceed, HasWork, IInv
  <2>2. r \in PassState /\ Balanced(r)
    BY <1>0, <1>1, <2>1 DEF PassState, Phases, Balanced
  <2>3. \A j \in Jobs : ~Holds(r, j) /\ ~Holds(q, j)
    BY <1>0, <2>1 DEF Holds, PassState
  <2> HIDE DEF r
  <2>4. QED BY <1>7, <2>1, <2>2, <2>3, LocklessStep DEF Proceed, IInv
<1>8. CASE PollOpen(w)
  BY <1>2, <1>3, <1>8, CountStep, ObservedReorders DEF PollOpen, IInv
<1>9. CASE PollComplete(w)
  <2> DEFINE r == [q EXCEPT !.phase = "download"]
  <2>1. worker' = [worker EXCEPT ![w] = r] /\ q.phase = "poll"
    BY <1>9 DEF PollComplete, IInv
  <2>2. r \in PassState /\ Balanced(r) /\ (\A j \in Jobs : Holds(r, j) <=> Holds(q, j))
    BY <1>0, <1>1, <2>1 DEF PassState, Phases, Balanced, Holds
  <2>3. ages' \in Orderings
    BY <1>2, <1>3, <1>9, ObservedReorders DEF PollComplete, IInv
  <2> HIDE DEF r
  <2>4. QED BY <1>9, <2>1, <2>2, <2>3, LocklessStep DEF PollComplete, IInv
<1>10. CASE Download(w)
  <2>1. ages' \in Orderings /\ retrieved' \subseteq Jobs
    BY <1>2, <1>3, <1>10, ObservedReorders DEF Download, IInv
  <2>2. QED BY <1>10, <2>1, CountStep DEF Download, IInv
<1>11. CASE FailPermanently(w)
  BY <1>11, CountStep DEF FailPermanently, IInv
<1>12. CASE Release(w)
  <2> DEFINE r == [q EXCEPT !.phase = "next", !.todo = Tail(@)]
  <2>1. worker' = [worker EXCEPT ![w] = r] /\ q.phase = "release" /\ (q.locking => q.session)
    BY <1>12 DEF Release, IInv
  <2>2. r \in PassState /\ Balanced(r) /\ \A j \in Jobs : ~Holds(r, j)
    <3>1. r \in PassState
      BY <1>0, <1>2, <1>3, <2>1 DEF PassState, Phases
    <3>2. /\ r.selected = q.selected /\ r.todo = Tail(q.todo) /\ r.phase = "next"
          /\ r.processed = q.processed /\ r.deferred = q.deferred /\ r.failed = q.failed
      BY <1>0, <2>1 DEF PassState
    <3> HIDE DEF q, r
    <3>3. Len(r.todo) = Len(q.todo) - 1 /\ IsInjective(r.todo)
      BY <1>2, <1>3, <2>1, <3>2
    <3>4. /\ q.processed \in Nat /\ q.deferred \in Nat /\ q.failed \in Nat /\ q.selected \in Nat
      BY <1>0 DEF PassState
    <3>5. q.processed + q.deferred + Len(q.todo) = q.selected + 1
      BY <1>0, <2>1, <3>4 DEF Balanced
    <3>6. r.processed + r.deferred + Len(r.todo) = r.selected
      BY <1>1, <3>2, <3>3, <3>4, <3>5, SMTT(30)
    <3>7. r.selected <= MaxJobs /\ r.failed <= r.processed
      BY <1>0, <3>2 DEF Balanced
    <3>8. Balanced(r)
      BY <3>1, <3>2, <3>3, <3>4, <3>6, <3>7 DEF Balanced
    <3>9. QED BY <3>1, <3>2, <3>8 DEF Holds
  <2>3. CASE ~q.locking
    <3>1. UNCHANGED locks /\ \A j \in Jobs : ~Holds(q, j)
      BY <1>12, <2>3 DEF Release, locks, Holds
    <3> HIDE DEF r
    <3>2. QED BY <1>12, <2>1, <2>2, <3>1, LocklessStep DEF Release, IInv
  <2>4. CASE q.locking
    <3> DEFINE c == Current(w)
               n == holds[w][c] - 1
               h == [holds[w] EXCEPT ![c] = n]
    <3>1. Working(w)
      BY <2>1, <2>4 DEF Working, InFlight
    <3>2. c \in Jobs /\ n \in Nat /\ n <= unproven[w][c] /\ \A j \in Jobs : Holds(q, j) <=> j = c
      BY <1>h, <1>o, <3>1
    <3>3. holds' = [holds EXCEPT ![w][c] = n]
      BY <1>12, <2>4 DEF Release, Returned, IInv, Counts
    <3>4. /\ holds' = [holds EXCEPT ![w] = h] /\ h \in Counts
          /\ \A j \in Jobs : h[j] = IF j = c THEN n ELSE holds[w][j]
      <4>1. holds \in [Workers -> Counts]
        BY DEF IInv
      <4> HIDE DEF n, c
      <4>2. QED BY <3>2, <3>3, <4>1 DEF Counts
    <3>5. n + 1 = holds[w][c]
      BY <1>h, <3>2
    <3> HIDE DEF r, q, c, h, n
    <3>6. Bounded(r, h, unproven[w])
      BY <1>h, <2>2, <3>2, <3>4 DEF Bounded, Own
    <3>7. \A v \in Workers \ {w}, j \in Jobs : h[j] = 0 \/ holds[v][j] = 0
      BY <3>2, <3>4, <3>5, SessionFacts
    <3>8. unproven' = [unproven EXCEPT ![w] = unproven[w]] /\ unproven[w] \in Counts
      BY <1>12, SessionFacts DEF Release
    <3>9. QED BY <1>12, <2>1, <2>2, <3>4, <3>6, <3>7, <3>8, WorkerStep DEF Release, IInv
  <2>5. QED BY <2>3, <2>4
<1>13. CASE EndPass(w)
  <2> DEFINE r == [q EXCEPT !.phase = "done"]
  <2>1. worker' = [worker EXCEPT ![w] = r] /\ q.phase = "next"
    BY <1>13 DEF EndPass, IInv
  <2>2. r \in PassState /\ Balanced(r) /\ (\A j \in Jobs : Holds(r, j) <=> Holds(q, j))
    BY <1>0, <1>1, <2>1 DEF PassState, Phases, Balanced, Holds
  <2> HIDE DEF r
  <2>3. QED BY <1>13, <2>1, <2>2, LocklessStep DEF EndPass, IInv
<1>14. CASE FailOnSession(w)
  BY <1>14, IdleStep DEF FailOnSession, Holds, IInv
<1>15. CASE Resume(w)
  BY <1>15, IdleStep DEF Resume, Holds, IInv
<1>16. CASE FailTransiently(w)
  <2>1. ages' \in Orderings /\ faults' \in 0 .. MaxFaults
    BY <1>2, <1>3, <1>16, ObservedReorders, ConstantsAssumption DEF FailTransiently, IInv
  <2>2. QED BY <1>16, <2>1, CountStep DEF FailTransiently, IInv
<1>17. CASE FailToAcquire(w)
  <2> DEFINE c == Current(w)
  <2>1. c \in Jobs /\ ~Working(w) /\ Unproven(w)
    BY <1>2, <1>17 DEF FailToAcquire, Trying, HasWork, Working, InFlight
  <2>2. \A j \in Jobs : ~Holds(q, j)
    BY <1>i, <2>1
  <2>3. PICK n \in Nat :
          /\ holds' = [holds EXCEPT ![w][c] = n] /\ n <= holds[w][c] + 1
          /\ n > holds[w][c] => \A v \in Workers \ {w} : holds[v][c] = 0
    <3>1. CASE Granted(w)
      <4>1. /\ holds' = [holds EXCEPT ![w][c] = holds[w][c] + 1] /\ holds[w][c] + 1 \in Nat
            /\ \A v \in Workers \ {w} : holds[v][c] = 0
        BY <1>h, <2>1, <3>1 DEF Granted, Free, IInv, Counts
      <4>2. holds[w][c] + 1 <= holds[w][c] + 1
        BY <4>1
      <4>3. QED BY <4>1, <4>2, Zenon
    <3>2. CASE UNCHANGED holds
      <4>1. holds' = [holds EXCEPT ![w][c] = holds[w][c]]
        BY <2>1, <3>2 DEF IInv, Counts
      <4>2. holds[w][c] \in Nat /\ holds[w][c] <= holds[w][c] + 1 /\ ~(holds[w][c] > holds[w][c])
        BY <1>h, <2>1
      <4>3. QED BY <4>1, <4>2, Zenon
    <3>3. QED BY <1>17, <3>1, <3>2 DEF FailToAcquire
  <2>4. n <= unproven[w][c] + 1
    BY <1>h, <2>1, <2>2, <2>3 DEF Own
  <2> HIDE DEF c
  <2>5. QED BY <1>u, <2>1, <2>2, <2>3, <2>4, LockCallEndsPass DEF Unproven, c
<1>18. CASE FailToRelease(w)
  <2> DEFINE c == Current(w)
  <2>1. /\ Working(w) /\ Unproven(w) /\ c \in Jobs /\ \A j \in Jobs : Holds(q, j) => j = c
        /\ holds[w][c] \in Nat \ {0} /\ holds[w][c] <= 1 + unproven[w][c]
    BY <1>o, <1>18 DEF FailToRelease
  <2>2. PICK n \in Nat : holds' = [holds EXCEPT ![w][c] = n] /\ n <= holds[w][c]
    <3>1. CASE Returned(w)
      <4>1. holds' = [holds EXCEPT ![w][c] = holds[w][c] - 1]
        BY <3>1, Zenon DEF Returned
      <4>2. holds[w][c] - 1 \in Nat /\ holds[w][c] - 1 <= holds[w][c]
        BY <2>1
      <4>3. QED BY <4>1, <4>2, Zenon
    <3>2. CASE UNCHANGED holds
      <4>1. holds' = [holds EXCEPT ![w][c] = holds[w][c]]
        BY <2>1, <3>2 DEF IInv, Counts
      <4>2. holds[w][c] \in Nat /\ holds[w][c] <= holds[w][c]
        BY <2>1
      <4>3. QED BY <4>1, <4>2, Zenon
    <3>3. QED BY <1>18, <3>1, <3>2 DEF FailToRelease
  <2>3. n <= unproven[w][c] + 1 /\ ~(n > holds[w][c])
    BY <1>h, <2>1, <2>2
  <2> HIDE DEF c
  <2>4. QED BY <1>u, <2>1, <2>2, <2>3, LockCallEndsPass DEF Unproven, c
<1>19. CASE LoseSession(w)
  <2> DEFINE r == [q EXCEPT !.session = FALSE]
  <2>1. worker' = [worker EXCEPT ![w] = r] /\ faults' \in 0 .. MaxFaults
    BY <1>19, ConstantsAssumption DEF LoseSession, IInv
  <2>2. r \in PassState /\ Balanced(r) /\ \A j \in Jobs : ~Holds(r, j)
    BY <1>0, <1>1 DEF PassState, Phases, Balanced, Holds
  <2> HIDE DEF r
  <2>3. QED BY <1>19, <2>1, <2>2, SessionEndsStep DEF LoseSession
<1>20. CASE Interrupt(w)
  <2>1. faults' \in 0 .. MaxFaults
    BY <1>20, ConstantsAssumption DEF Interrupt, IInv
  <2>2. CASE ~Working(w)
    BY <1>20, <1>i, <2>1, <2>2, IdleStep DEF Interrupt, locks
  <2>3. CASE Working(w)
    <3> DEFINE c == Current(w)
               n == holds[w][c] - 1
    <3>1. /\ c \in Jobs /\ n \in Nat /\ n <= unproven[w][c] /\ ~(n > holds[w][c])
          /\ \A j \in Jobs : Holds(q, j) => j = c
      BY <1>h, <1>o, <2>3
    <3>2. holds' = [holds EXCEPT ![w][c] = n]
      BY <1>20, <2>3 DEF Interrupt, Returned, IInv, Counts
    <3>3. unproven' = [unproven EXCEPT ![w][c] = unproven[w][c]] /\ unproven[w][c] \in Nat
      BY <1>20, <1>h, <3>1 DEF Interrupt, IInv, Counts
    <3> HIDE DEF n, c
    <3>4. QED BY <1>20, <2>1, <3>1, <3>2, <3>3, LockCallEndsPass DEF Interrupt
  <2>4. QED BY <2>2, <2>3
<1>21. QED BY <1>4, <1>5, <1>6, <1>7, <1>8, <1>9, <1>10, <1>11, <1>12, <1>13, <1>14, <1>15,
              <1>16, <1>17, <1>18, <1>19, <1>20 DEF Pass, Fault

\* Every step keeps the invariant.
LEMMA NextIInv == IInv /\ [Next]_vars => IInv'
<1> SUFFICES ASSUME IInv, [Next]_vars PROVE IInv'
  OBVIOUS
<1>1. ASSUME NEW w \in Workers, Pass(w) \/ Fault(w) PROVE IInv'
  BY <1>1, PassIInv
<1>2. ASSUME NEW w \in Workers, ReplaceSession(w) PROVE IInv'
  <2>1. /\ worker[w] \in PassState /\ Balanced(worker[w]) /\ faults \in 0 .. MaxFaults
        /\ worker' = [worker EXCEPT ![w] = worker[w]]
    BY <1>2 DEF ReplaceSession, IInv
  <2>2. \A j \in Jobs : ~Holds(worker[w], j)
    BY <1>2 DEF ReplaceSession, Holds
  <2>3. QED BY <1>2, <2>1, <2>2, SessionEndsStep DEF ReplaceSession
<1>3. ASSUME NEW j \in Jobs, ProviderFinishes(j) PROVE IInv'
  BY <1>3 DEF ProviderFinishes, locks, IInv
<1>4. CASE UNCHANGED vars
  BY <1>4 DEF vars, IInv
<1>5. QED BY <1>1, <1>2, <1>3, <1>4 DEF Next

-----------------------------------------------------------------------------
(* Theorems.                                                               *)

\* The invariant holds of every behaviour of the workers and the provider.
LEMMA Invariance == Spec => []IInv
BY InitIInv, NextIInv, PTL DEF Spec

\* Every variable keeps its type: the table keeps one row per batch whatever is observed.
THEOREM TypeCorrect == Spec => []TypeOK
BY IInvImplies, Invariance, PTL

\* A key is held by one session at most and by the session of every pass in single flight
\* that is on its batch; what a session holds beyond that was left by one of its own lock
\* calls that ended without a valid answer, which ends the pass and not the session.
THEOREM LockOwnership == Spec => []LocksAreOwned
BY IInvImplies, Invariance, PTL

\* A pass deals with each selected candidate exactly once, within its budget, whatever
\* the list it was given and whichever candidates failed.
THEOREM PassAccounting == Spec => []PassAccountsForAll
BY IInvImplies, Invariance, PTL

=============================================================================
