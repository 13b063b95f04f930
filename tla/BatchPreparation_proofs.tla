------------------------ MODULE BatchPreparation_proofs ------------------------
(***************************************************************************)
(* Proofs about BatchPreparation, for every number of callers, any pool of *)
(* requests with any sizes, and every limit.                               *)
(***************************************************************************)
EXTENDS BatchPreparation, FiniteSetTheorems, SequenceTheorems, WellFoundedInduction, TLAPS

-----------------------------------------------------------------------------
(* Folds.  A fold over a sequence runs through the values of its prefixes. *)

\* A set of naturals that is not empty has a least element.  It stands for induction.
LEMMA LeastElement ==
  ASSUME NEW T \in SUBSET Nat, T # {}
  PROVE  \E x \in T : \A y \in T : x <= y
<1> DEFINE R == OpToRel(<, Nat)
<1>1. \A x, y \in Nat : <<x, y>> \in R <=> x < y
  BY DEF OpToRel
<1>2. PICK x \in T : \A y \in T : ~(<<y, x>> \in R)
  BY WFMin, NatLessThanWellFounded, Zenon
<1>3. \A y \in T : ~(y < x)
  BY <1>1, <1>2, Zenon
<1> HIDE DEF R
<1>4. QED BY <1>3

\* A set that has 0 and the successor of each of its elements below n has them all.
LEMMA Climb ==
  ASSUME NEW n \in Nat, NEW T, 0 \in T, \A k \in 1 .. n : k - 1 \in T => k \in T
  PROVE  \A k \in 0 .. n : k \in T
<1> DEFINE Missing == {k \in 0 .. n : k \notin T}
<1> SUFFICES ASSUME Missing # {} PROVE FALSE
  OBVIOUS
<1>1. Missing \in SUBSET Nat
  OBVIOUS
<1>2. PICK k \in Missing : \A y \in Missing : k <= y
  BY <1>1, LeastElement, Zenon
<1>3. k \in 1 .. n
  BY <1>2
<1>4. k - 1 \notin Missing /\ k - 1 \in 0 .. n
  BY <1>2, <1>3
<1>5. QED BY <1>2, <1>3, <1>4

\* The largest element of a set of positions.
LEMMA MaxPosition ==
  ASSUME NEW n \in Nat, NEW t \in SUBSET (1 .. n), t # {}
  PROVE  Max(t) \in t /\ \A y \in t : y <= Max(t)
<1> DEFINE Above == {k \in 0 .. n : \A y \in t : y <= k}
<1>1. Above \in SUBSET Nat /\ n \in Above
  OBVIOUS
<1>2. PICK k \in Above : \A y \in Above : k <= y
  BY <1>1, LeastElement, Zenon
<1>3. k \in t
  <2> SUFFICES ASSUME k \notin t PROVE FALSE
    OBVIOUS
  <2>1. \A y \in t : y \in Nat /\ 1 <= y /\ y <= k /\ y # k
    BY <1>2
  <2>2. k - 1 \in Above
    <3>1. PICK y \in t : TRUE
      OBVIOUS
    <3>2. k \in 0 .. n /\ k >= 1
      BY <1>2, <2>1, <3>1
    <3>3. k - 1 \in 0 .. n /\ \A z \in t : z <= k - 1
      BY <2>1, <3>2
    <3>4. QED BY <3>3
  <2>3. QED BY <1>2, <2>2
<1>4. \E x \in t : \A y \in t : x >= y
  BY <1>2, <1>3
<1>5. Max(t) \in t /\ \A y \in t : Max(t) >= y
  BY <1>4, Zenon DEF Max
<1>6. QED BY <1>5

\* The last position of an interval, and what is left without it.
LEMMA MaxInterval ==
  ASSUME NEW k \in Nat \ {0}
  PROVE  Max(1 .. k) = k /\ (1 .. k) \ {Max(1 .. k)} = 1 .. (k - 1)
<1>1. Max(1 .. k) \in 1 .. k /\ \A y \in 1 .. k : y <= Max(1 .. k)
  <2>1. k \in Nat /\ 1 .. k \in SUBSET (1 .. k) /\ 1 .. k # {}
    OBVIOUS
  <2>2. QED BY <2>1, MaxPosition, Zenon
<1>2. Max(1 .. k) = k
  BY <1>1
<1>3. QED BY <1>2

\* A run of n steps over V from base: step[k] leads to the k-th value.
IsRun(V, base, step, n, g) ==
  /\ g \in [0 .. n -> V] /\ g[0] = base
  /\ \A k \in 1 .. n : g[k] = step[k][g[k - 1]]

\* The values of a fold for the sets 1 .. k, and the recursion they follow.
Values(it, n) == [k \in 0 .. n |-> it[1 .. k]]

Follows(V, base, step, n, it) ==
  /\ it[{}] = base
  /\ \A t \in (SUBSET (1 .. n)) \ {{}} :
       it[t \ {Max(t)}] \in V => it[t] = step[Max(t)][it[t \ {Max(t)}]]

Solvable(V, base, step, n) ==
  \E it \in [SUBSET (1 .. n) -> V] : \A t \in SUBSET (1 .. n) :
    it[t] = IF t = {} THEN base ELSE step[Max(t)][it[t \ {Max(t)}]]

\* The recursion by which MapThenFoldSet is defined has a solution: it takes the largest
\* position off a set.
LEMMA FoldExists ==
  ASSUME NEW V, NEW base \in V, NEW n \in Nat, NEW step \in [1 .. n -> [V -> V]]
  PROVE  Solvable(V, base, step, n)
<1> SUFFICES \E it \in [SUBSET (1 .. n) -> V] : \A t \in SUBSET (1 .. n) :
               it[t] = IF t = {} THEN base ELSE step[Max(t)][it[t \ {Max(t)}]]
  BY DEF Solvable
<1> DEFINE Solves(m, it) == \A t \in SUBSET (1 .. m) :
             it[t] = IF t = {} THEN base ELSE step[Max(t)][it[t \ {Max(t)}]]
           T == {m \in 0 .. n : \E it \in [SUBSET (1 .. m) -> V] : Solves(m, it)}
<1>1. 0 \in T
  <2> DEFINE it == [t \in SUBSET (1 .. 0) |-> base]
  <2>1. \A t \in SUBSET (1 .. 0) : t = {}
    OBVIOUS
  <2>2. it \in [SUBSET (1 .. 0) -> V]
    OBVIOUS
  <2>3. Solves(0, it)
    BY <2>1
  <2> HIDE DEF it, Solves
  <2>4. \E f \in [SUBSET (1 .. 0) -> V] : Solves(0, f)
    BY <2>2, <2>3, Zenon
  <2>5. 0 \in 0 .. n
    OBVIOUS
  <2>6. QED BY <2>4, <2>5, Zenon
<1>2. ASSUME NEW m \in 1 .. n, m - 1 \in T PROVE m \in T
  <2>1. PICK old \in [SUBSET (1 .. (m - 1)) -> V] : Solves(m - 1, old)
    BY <1>2
  <2> DEFINE it == [t \in SUBSET (1 .. m) |-> IF m \in t THEN step[m][old[t \ {m}]] ELSE old[t]]
  <2>2. \A t \in SUBSET (1 .. m) :
          /\ t \ {m} \in SUBSET (1 .. (m - 1))
          /\ m \notin t => t \in SUBSET (1 .. (m - 1))
    <3>1. \A y \in 1 .. m : y # m => y \in 1 .. (m - 1)
      OBVIOUS
    <3>2. QED BY <3>1, Zenon
  <2>3. step[m] \in [V -> V]
    OBVIOUS
  <2>4. it \in [SUBSET (1 .. m) -> V]
    <3>1. \A t \in SUBSET (1 .. m) : (IF m \in t THEN step[m][old[t \ {m}]] ELSE old[t]) \in V
      BY <2>1, <2>2, <2>3
    <3>2. QED BY <3>1
  <2>5. ASSUME NEW t \in SUBSET (1 .. m)
        PROVE  it[t] = IF t = {} THEN base ELSE step[Max(t)][it[t \ {Max(t)}]]
    <3>1. CASE t = {}
      <4>1. it[t] = old[{}]
        BY <3>1
      <4>2. QED BY <2>1, <3>1, <4>1
    <3>2. CASE m \in t
      <4>1. Max(t) \in t /\ \A y \in t : y <= Max(t)
        <5>1. m \in Nat /\ t # {}
          BY <3>2
        <5>2. QED BY <5>1, MaxPosition, Zenon
      <4>2. Max(t) = m
        <5>1. Max(t) \in 1 .. m /\ m <= Max(t)
          BY <3>2, <4>1
        <5>2. QED BY <5>1
      <4>3. it[t] = step[m][old[t \ {m}]]
        BY <3>2
      <4>4. t \ {m} \in SUBSET (1 .. m) /\ it[t \ {m}] = old[t \ {m}]
        BY <2>2
      <4>5. QED BY <3>2, <4>2, <4>3, <4>4
    <3>3. CASE m \notin t /\ t # {}
      <4>1. t \in SUBSET (1 .. (m - 1)) /\ t \ {Max(t)} \in SUBSET (1 .. (m - 1))
        BY <2>2, <3>3
      <4>2. it[t] = old[t]
        BY <3>3
      <4>3. t \ {Max(t)} \in SUBSET (1 .. m) /\ m \notin t \ {Max(t)}
        BY <3>3
      <4>4. it[t \ {Max(t)}] = old[t \ {Max(t)}]
        BY <4>3
      <4>5. old[t] = step[Max(t)][old[t \ {Max(t)}]]
        BY <2>1, <3>3, <4>1
      <4>6. QED BY <3>3, <4>2, <4>4, <4>5
    <3>4. QED BY <3>1, <3>2, <3>3
  <2>6. Solves(m, it)
    BY <2>5
  <2> HIDE DEF it, Solves
  <2>7. QED BY <2>4, <2>6
<1>3. n \in T
  <2> HIDE DEF T
  <2>1. \A m \in 1 .. n : m - 1 \in T => m \in T
    BY <1>2
  <2>2. \A m \in 0 .. n : m \in T
    BY <1>1, <2>1, Climb, Zenon
  <2>3. QED BY <2>2
<1>4. QED BY <1>3

\* A solution of that recursion runs through the values of the prefixes.  The step is only
\* known to be op on values of V.
LEMMA FoldRun ==
  ASSUME NEW V, NEW base \in V, NEW n \in Nat, NEW step \in [1 .. n -> [V -> V]], NEW it,
         Follows(V, base, step, n, it)
  PROVE  IsRun(V, base, step, n, Values(it, n))
<1> USE DEF Follows, Values
<1> DEFINE T == {k \in 0 .. n : it[1 .. k] \in V}
<1>1. 1 .. 0 = {}
  OBVIOUS
<1>2. ASSUME NEW k \in 1 .. n, it[1 .. (k - 1)] \in V
      PROVE  it[1 .. k] = step[k][it[1 .. (k - 1)]] /\ it[1 .. k] \in V
  <2>1. 1 .. k \in (SUBSET (1 .. n)) \ {{}}
    OBVIOUS
  <2>2. Max(1 .. k) = k /\ (1 .. k) \ {Max(1 .. k)} = 1 .. (k - 1)
    BY MaxInterval
  <2>3. it[1 .. k] = step[k][it[1 .. (k - 1)]]
    BY <1>2, <2>1, <2>2
  <2>4. QED BY <1>2, <2>3
<1>3. 0 \in T
  BY <1>1
<1>4. \A k \in 1 .. n : k - 1 \in T => k \in T
  BY <1>2
<1>5. \A k \in 0 .. n : k \in T
  BY <1>3, <1>4, Climb
<1>6. QED BY <1>1, <1>2, <1>5 DEF IsRun

\* The first n steps of longer are those of step.
Agree(n, step, longer) == \A k \in 1 .. n : longer[k] = step[k]

\* A run that begins with the steps of another one continues its values.
LEMMA RunContinues ==
  ASSUME NEW V, NEW base, NEW n \in Nat, NEW step, NEW longer, Agree(n, step, longer),
         NEW g, NEW h, IsRun(V, base, step, n, g), IsRun(V, base, longer, n + 1, h)
  PROVE  g[n] \in V /\ h[n + 1] = longer[n + 1][g[n]]
<1> DEFINE T == {k \in 0 .. n : h[k] = g[k]}
<1>1. 0 \in T
  BY DEF IsRun
<1>2. \A k \in 1 .. n : k - 1 \in T => k \in T
  BY DEF IsRun, Agree
<1>3. n \in T
  <2>1. \A k \in 0 .. n : k \in T
    BY <1>1, <1>2, Climb
  <2>2. QED BY <2>1
<1>4. n + 1 \in 1 .. (n + 1) /\ (n + 1) - 1 = n /\ n \in 0 .. n
  OBVIOUS
<1>5. h[n + 1] = longer[n + 1][h[n]] /\ g[n] \in V
  BY <1>4 DEF IsRun
<1>6. QED BY <1>3, <1>5

-----------------------------------------------------------------------------
(* The folds of the preparation.                                           *)

Adding(q) == [k \in 1 .. Len(q) |-> [v \in Nat |-> v + q[k]]]

\* A total runs through the partial sums.
LEMMA TotalRun ==
  ASSUME NEW q \in Seq(Nat)
  PROVE  \E g : IsRun(Nat, 0, Adding(q), Len(q), g) /\ Total(q) = g[Len(q)]
<1> DEFINE n == Len(q)
<1>1. n \in Nat /\ DOMAIN q = 1 .. n /\ 0 \in Nat /\ \A k \in 1 .. n : q[k] \in Nat
  OBVIOUS
<1>2. /\ Adding(q) \in [1 .. n -> [Nat -> Nat]]
      /\ \A k \in 1 .. n, v \in Nat : Adding(q)[k][v] = v + q[k]
  BY <1>1 DEF Adding
<1> HIDE DEF n
<1>3. PICK f \in [SUBSET (1 .. n) -> Nat] : \A t \in SUBSET (1 .. n) :
        f[t] = IF t = {} THEN 0 ELSE Adding(q)[Max(t)][f[t \ {Max(t)}]]
  <2>1. Solvable(Nat, 0, Adding(q), n)
    BY <1>1, <1>2, FoldExists
  <2>2. QED BY <2>1, Zenon DEF Solvable
<1>4. f = [t \in SUBSET (1 .. n) |-> IF t = {} THEN 0
                                    ELSE f[t \ {Max(t)}] + q[Max(t)]]
  <2>1. ASSUME NEW t \in SUBSET (1 .. n), t # {}
        PROVE  f[t] = f[t \ {Max(t)}] + q[Max(t)]
    <3>1. Max(t) \in 1 .. n
      BY <1>1, <2>1, MaxPosition, Zenon
    <3>2. t \ {Max(t)} \in SUBSET (1 .. n)
      OBVIOUS
    <3>3. f[t \ {Max(t)}] \in Nat
      BY <1>3, <3>2
    <3>4. QED BY <1>2, <1>3, <2>1, <3>1, <3>3, Zenon
  <2>2. f[{}] = 0
    BY <1>3
  <2>3. QED BY <1>3, <2>1, <2>2
<1>5. PICK it : /\ it = [t \in SUBSET (1 .. n) |-> IF t = {} THEN 0
                             ELSE it[t \ {Max(t)}] + q[Max(t)]]
                /\ Total(q) = it[1 .. n]
  BY <1>1, <1>4, Zenon DEF Total, FoldLeft, MapThenFoldSet
<1>6. Follows(Nat, 0, Adding(q), n, it)
  <2>1. it[{}] = 0
    <3>1. {} \in SUBSET (1 .. n)
      OBVIOUS
    <3>2. QED BY <1>5, <3>1, Zenon
  <2>2. ASSUME NEW t \in SUBSET (1 .. n), t # {}, it[t \ {Max(t)}] \in Nat
        PROVE  it[t] = Adding(q)[Max(t)][it[t \ {Max(t)}]]
    <3>1. Max(t) \in 1 .. n
      BY <1>1, <2>2, MaxPosition, Zenon
    <3>2. it[t] = it[t \ {Max(t)}] + q[Max(t)]
      BY <1>5, <2>2, Zenon
    <3>3. QED BY <1>2, <2>2, <3>1, <3>2, Zenon
  <2>3. QED BY <2>1, <2>2 DEF Follows
<1>7. IsRun(Nat, 0, Adding(q), n, Values(it, n))
  BY <1>1, <1>2, <1>6, FoldRun
<1>8. Values(it, n)[n] = Total(q)
  <2>1. n \in 0 .. n
    BY <1>1
  <2>2. QED BY <1>5, <2>1, Zenon DEF Values
<1>9. QED BY <1>7, <1>8, Zenon DEF n

Joining(fs) == [k \in 1 .. Len(fs) |-> [v \in Seq(Requests) |-> v \o fs[k].requests]]

\* The requests of files are joined file by file.
LEMMA RequestsRun ==
  ASSUME NEW fs \in Seq(Parts)
  PROVE  \E g : IsRun(Seq(Requests), << >>, Joining(fs), Len(fs), g) /\ RequestsOf(fs) = g[Len(fs)]
<1> DEFINE n == Len(fs)
<1>1. n \in Nat /\ DOMAIN fs = 1 .. n /\ << >> \in Seq(Requests) /\ \A k \in 1 .. n : fs[k] \in Parts
  OBVIOUS
<1>2. /\ Joining(fs) \in [1 .. n -> [Seq(Requests) -> Seq(Requests)]]
      /\ \A k \in 1 .. n, v \in Seq(Requests) : Joining(fs)[k][v] = v \o fs[k].requests
  <2>1. \A k \in 1 .. n : fs[k].requests \in Seq(Requests)
    BY <1>1 DEF Parts
  <2>2. QED BY <1>1, <2>1 DEF Joining
<1> HIDE DEF n
<1>3. PICK f \in [SUBSET (1 .. n) -> Seq(Requests)] : \A t \in SUBSET (1 .. n) :
        f[t] = IF t = {} THEN << >> ELSE Joining(fs)[Max(t)][f[t \ {Max(t)}]]
  <2>1. Solvable(Seq(Requests), << >>, Joining(fs), n)
    BY <1>1, <1>2, FoldExists
  <2>2. QED BY <2>1, Zenon DEF Solvable
<1>4. f = [t \in SUBSET (1 .. n) |-> IF t = {} THEN << >>
                                    ELSE f[t \ {Max(t)}] \o fs[Max(t)].requests]
  <2>1. ASSUME NEW t \in SUBSET (1 .. n), t # {}
        PROVE  f[t] = f[t \ {Max(t)}] \o fs[Max(t)].requests
    <3>1. Max(t) \in 1 .. n
      BY <1>1, <2>1, MaxPosition, Zenon
    <3>2. t \ {Max(t)} \in SUBSET (1 .. n)
      OBVIOUS
    <3>3. f[t \ {Max(t)}] \in Seq(Requests)
      BY <1>3, <3>2
    <3>4. QED BY <1>2, <1>3, <2>1, <3>1, <3>3, Zenon
  <2>2. f[{}] = << >>
    BY <1>3
  <2>3. QED BY <1>3, <2>1, <2>2
<1>5. PICK it : /\ it = [t \in SUBSET (1 .. n) |-> IF t = {} THEN << >>
                             ELSE it[t \ {Max(t)}] \o fs[Max(t)].requests]
                /\ RequestsOf(fs) = it[1 .. n]
  BY <1>1, <1>4, Zenon DEF RequestsOf, FoldLeft, MapThenFoldSet
<1>6. Follows(Seq(Requests), << >>, Joining(fs), n, it)
  <2>1. it[{}] = << >>
    <3>1. {} \in SUBSET (1 .. n)
      OBVIOUS
    <3>2. QED BY <1>5, <3>1, Zenon
  <2>2. ASSUME NEW t \in SUBSET (1 .. n), t # {}, it[t \ {Max(t)}] \in Seq(Requests)
        PROVE  it[t] = Joining(fs)[Max(t)][it[t \ {Max(t)}]]
    <3>1. Max(t) \in 1 .. n
      BY <1>1, <2>2, MaxPosition, Zenon
    <3>2. it[t] = it[t \ {Max(t)}] \o fs[Max(t)].requests
      BY <1>5, <2>2, Zenon
    <3>3. QED BY <1>2, <2>2, <3>1, <3>2, Zenon
  <2>3. QED BY <2>1, <2>2 DEF Follows
<1>7. IsRun(Seq(Requests), << >>, Joining(fs), n, Values(it, n))
  BY <1>1, <1>2, <1>6, FoldRun
<1>8. Values(it, n)[n] = RequestsOf(fs)
  <2>1. n \in 0 .. n
    BY <1>1
  <2>2. QED BY <1>5, <2>1, Zenon DEF Values
<1>9. QED BY <1>7, <1>8, Zenon DEF n

Result == [ready : Seq(Parts), overflow : Seq(Parts)]
Sorting(fs) == [k \in 1 .. Len(fs) |-> [v \in Result |-> Sorted(v, fs[k])]]

\* Files are sorted one by one.
LEMMA CategorizedRun ==
  ASSUME NEW fs \in Seq(Parts)
  PROVE  \E g : IsRun(Result, NoResult, Sorting(fs), Len(fs), g) /\ Categorized(fs) = g[Len(fs)]
<1> DEFINE n == Len(fs)
<1>1. n \in Nat /\ DOMAIN fs = 1 .. n /\ NoResult \in Result /\ \A k \in 1 .. n : fs[k] \in Parts
  BY DEF NoResult, Result
<1>2. /\ Sorting(fs) \in [1 .. n -> [Result -> Result]]
      /\ \A k \in 1 .. n, v \in Result : Sorting(fs)[k][v] = Sorted(v, fs[k])
  <2>1. \A p \in Parts, v \in Result : Sorted(v, p) \in Result
    BY AppendProperties DEF Sorted, Result
  <2>2. QED BY <1>1, <2>1 DEF Sorting
<1> HIDE DEF n
<1>3. PICK f \in [SUBSET (1 .. n) -> Result] : \A t \in SUBSET (1 .. n) :
        f[t] = IF t = {} THEN NoResult ELSE Sorting(fs)[Max(t)][f[t \ {Max(t)}]]
  <2>1. Solvable(Result, NoResult, Sorting(fs), n)
    BY <1>1, <1>2, FoldExists
  <2>2. QED BY <2>1, Zenon DEF Solvable
<1>4. f = [t \in SUBSET (1 .. n) |-> IF t = {} THEN NoResult
                                    ELSE Sorted(f[t \ {Max(t)}], fs[Max(t)])]
  <2>1. ASSUME NEW t \in SUBSET (1 .. n), t # {}
        PROVE  f[t] = Sorted(f[t \ {Max(t)}], fs[Max(t)])
    <3>1. Max(t) \in 1 .. n
      BY <1>1, <2>1, MaxPosition, Zenon
    <3>2. t \ {Max(t)} \in SUBSET (1 .. n)
      OBVIOUS
    <3>3. f[t \ {Max(t)}] \in Result
      BY <1>3, <3>2
    <3>4. QED BY <1>2, <1>3, <2>1, <3>1, <3>3, Zenon
  <2>2. f[{}] = NoResult
    BY <1>3
  <2>3. QED BY <1>3, <2>1, <2>2
<1>5. PICK it : /\ it = [t \in SUBSET (1 .. n) |-> IF t = {} THEN NoResult
                             ELSE Sorted(it[t \ {Max(t)}], fs[Max(t)])]
                /\ Categorized(fs) = it[1 .. n]
  BY <1>1, <1>4, Zenon DEF Categorized, FoldLeft, MapThenFoldSet
<1>6. Follows(Result, NoResult, Sorting(fs), n, it)
  <2>1. it[{}] = NoResult
    <3>1. {} \in SUBSET (1 .. n)
      OBVIOUS
    <3>2. QED BY <1>5, <3>1, Zenon
  <2>2. ASSUME NEW t \in SUBSET (1 .. n), t # {}, it[t \ {Max(t)}] \in Result
        PROVE  it[t] = Sorting(fs)[Max(t)][it[t \ {Max(t)}]]
    <3>1. Max(t) \in 1 .. n
      BY <1>1, <2>2, MaxPosition, Zenon
    <3>2. it[t] = Sorted(it[t \ {Max(t)}], fs[Max(t)])
      BY <1>5, <2>2, Zenon
    <3>3. QED BY <1>2, <2>2, <3>1, <3>2, Zenon
  <2>3. QED BY <2>1, <2>2 DEF Follows
<1>7. IsRun(Result, NoResult, Sorting(fs), n, Values(it, n))
  BY <1>1, <1>2, <1>6, FoldRun
<1>8. Values(it, n)[n] = Categorized(fs)
  <2>1. n \in 0 .. n
    BY <1>1
  <2>2. QED BY <1>5, <2>1, Zenon DEF Values
<1>9. QED BY <1>7, <1>8, Zenon DEF n

\* The total of no numbers.
LEMMA TotalEmpty == Total(<< >>) = 0
<1>1. << >> \in Seq(Nat) /\ Len(<< >>) = 0
  OBVIOUS
<1>2. PICK g : IsRun(Nat, 0, Adding(<< >>), 0, g) /\ Total(<< >>) = g[0]
  BY <1>1, TotalRun
<1>3. QED BY <1>2 DEF IsRun

\* A total with one number more.
LEMMA TotalAppend ==
  ASSUME NEW q \in Seq(Nat), NEW x \in Nat
  PROVE  Total(q) \in Nat /\ Total(Append(q, x)) = Total(q) + x
<1> DEFINE p == Append(q, x)  n == Len(q)
<1>1. /\ n \in Nat /\ p \in Seq(Nat) /\ Len(p) = n + 1 /\ p[n + 1] = x
      /\ \A k \in 1 .. n : p[k] = q[k]
  OBVIOUS
<1> HIDE DEF p
<1>2. PICK g : IsRun(Nat, 0, Adding(q), n, g) /\ Total(q) = g[n]
  BY TotalRun, Zenon
<1>3. PICK h : IsRun(Nat, 0, Adding(p), n + 1, h) /\ Total(p) = h[n + 1]
  BY <1>1, TotalRun
<1>4. Agree(n, Adding(q), Adding(p))
  <2>1. ASSUME NEW k \in 1 .. n PROVE Adding(p)[k] = Adding(q)[k]
    <3>1. k \in 1 .. Len(p) /\ k \in 1 .. Len(q) /\ p[k] = q[k]
      BY <1>1
    <3>2. QED BY <3>1, Zenon DEF Adding
  <2>2. QED BY <2>1 DEF Agree
<1>5. g[n] \in Nat /\ h[n + 1] = Adding(p)[n + 1][g[n]]
  BY <1>1, <1>2, <1>3, <1>4, RunContinues
<1>6. Adding(p)[n + 1][g[n]] = g[n] + x
  <2>1. n + 1 \in 1 .. Len(p)
    BY <1>1
  <2>2. QED BY <1>1, <1>5, <2>1, Zenon DEF Adding
<1>7. QED BY <1>2, <1>3, <1>5, <1>6, Zenon DEF p

\* No files hold no requests.
LEMMA RequestsEmpty == RequestsOf(<< >>) = << >>
<1>1. << >> \in Seq(Parts) /\ Len(<< >>) = 0
  OBVIOUS
<1>2. PICK g : IsRun(Seq(Requests), << >>, Joining(<< >>), 0, g) /\ RequestsOf(<< >>) = g[0]
  BY <1>1, RequestsRun
<1>3. QED BY <1>2 DEF IsRun

\* The requests with one file more.
LEMMA RequestsAppend ==
  ASSUME NEW fs \in Seq(Parts), NEW x \in Parts
  PROVE  RequestsOf(fs) \in Seq(Requests) /\ RequestsOf(Append(fs, x)) = RequestsOf(fs) \o x.requests
<1> DEFINE p == Append(fs, x)  n == Len(fs)
<1>1. /\ n \in Nat /\ p \in Seq(Parts) /\ Len(p) = n + 1 /\ p[n + 1] = x
      /\ \A k \in 1 .. n : p[k] = fs[k]
  OBVIOUS
<1> HIDE DEF p
<1>2. PICK g : IsRun(Seq(Requests), << >>, Joining(fs), n, g) /\ RequestsOf(fs) = g[n]
  BY RequestsRun, Zenon
<1>3. PICK h : IsRun(Seq(Requests), << >>, Joining(p), n + 1, h) /\ RequestsOf(p) = h[n + 1]
  BY <1>1, RequestsRun
<1>4. Agree(n, Joining(fs), Joining(p))
  <2>1. ASSUME NEW k \in 1 .. n PROVE Joining(p)[k] = Joining(fs)[k]
    <3>1. k \in 1 .. Len(p) /\ k \in 1 .. Len(fs) /\ p[k] = fs[k]
      BY <1>1
    <3>2. QED BY <3>1, Zenon DEF Joining
  <2>2. QED BY <2>1 DEF Agree
<1>5. g[n] \in Seq(Requests) /\ h[n + 1] = Joining(p)[n + 1][g[n]]
  BY <1>1, <1>2, <1>3, <1>4, RunContinues
<1>6. Joining(p)[n + 1][g[n]] = g[n] \o x.requests
  <2>1. n + 1 \in 1 .. Len(p)
    BY <1>1
  <2>2. QED BY <1>1, <1>5, <2>1, Zenon DEF Joining
<1>7. QED BY <1>2, <1>3, <1>5, <1>6, Zenon DEF p

\* No files give the empty result.
LEMMA CategorizedEmpty == Categorized(<< >>) = NoResult
<1>1. << >> \in Seq(Parts) /\ Len(<< >>) = 0
  OBVIOUS
<1>2. PICK g : IsRun(Result, NoResult, Sorting(<< >>), 0, g) /\ Categorized(<< >>) = g[0]
  BY <1>1, CategorizedRun
<1>3. QED BY <1>2 DEF IsRun

\* The result with one file more.
LEMMA CategorizedAppend ==
  ASSUME NEW fs \in Seq(Parts), NEW x \in Parts
  PROVE  Categorized(fs) \in Result /\ Categorized(Append(fs, x)) = Sorted(Categorized(fs), x)
<1> DEFINE p == Append(fs, x)  n == Len(fs)
<1>1. /\ n \in Nat /\ p \in Seq(Parts) /\ Len(p) = n + 1 /\ p[n + 1] = x
      /\ \A k \in 1 .. n : p[k] = fs[k]
  OBVIOUS
<1> HIDE DEF p
<1>2. PICK g : IsRun(Result, NoResult, Sorting(fs), n, g) /\ Categorized(fs) = g[n]
  BY CategorizedRun, Zenon
<1>3. PICK h : IsRun(Result, NoResult, Sorting(p), n + 1, h) /\ Categorized(p) = h[n + 1]
  BY <1>1, CategorizedRun
<1>4. Agree(n, Sorting(fs), Sorting(p))
  <2>1. ASSUME NEW k \in 1 .. n PROVE Sorting(p)[k] = Sorting(fs)[k]
    <3>1. k \in 1 .. Len(p) /\ k \in 1 .. Len(fs) /\ p[k] = fs[k]
      BY <1>1
    <3>2. QED BY <3>1, Zenon DEF Sorting
  <2>2. QED BY <2>1 DEF Agree
<1>5. g[n] \in Result /\ h[n + 1] = Sorting(p)[n + 1][g[n]]
  BY <1>1, <1>2, <1>3, <1>4, RunContinues
<1>6. Sorting(p)[n + 1][g[n]] = Sorted(g[n], x)
  <2>1. n + 1 \in 1 .. Len(p)
    BY <1>1
  <2>2. QED BY <1>1, <1>5, <2>1, Zenon DEF Sorting
<1>7. QED BY <1>2, <1>3, <1>5, <1>6, Zenon DEF p

-----------------------------------------------------------------------------
(* Sums, the requests of files, and the split of a result.                 *)

\* A set that has the empty sequence and is closed under one more element.
Inductive(S, T) == << >> \in T /\ \A u \in Seq(S), x \in S : u \in T => Append(u, x) \in T

\* Such a set has every sequence: the induction by which the folds are reasoned about.
LEMMA SeqInduction ==
  ASSUME NEW S, NEW T, Inductive(S, T)
  PROVE  Seq(S) \subseteq T
<1> SUFFICES ASSUME NEW t \in Seq(S) PROVE t \in T
  OBVIOUS
<1> DEFINE K == {k \in 0 .. Len(t) : SubSeq(t, 1, k) \in T}
<1>1. Len(t) \in Nat /\ \A k \in 1 .. Len(t) : t[k] \in S
  OBVIOUS
<1>2. \A k \in 0 .. Len(t) : /\ SubSeq(t, 1, k) \in Seq(S) /\ Len(SubSeq(t, 1, k)) = k
                             /\ \A i \in 1 .. k : SubSeq(t, 1, k)[i] = t[i]
  OBVIOUS
<1>3. ASSUME NEW k \in 1 .. Len(t), k - 1 \in K PROVE k \in K
  <2>1. k \in 0 .. Len(t) /\ k - 1 \in 0 .. Len(t) /\ (k - 1) + 1 = k
    BY <1>1
  <2>2. /\ Append(SubSeq(t, 1, k - 1), t[k]) \in Seq(S)
        /\ Len(Append(SubSeq(t, 1, k - 1), t[k])) = k
        /\ \A i \in 1 .. k : Append(SubSeq(t, 1, k - 1), t[k])[i] = t[i]
    BY <1>1, <1>2, <2>1
  <2>3. SubSeq(t, 1, k) = Append(SubSeq(t, 1, k - 1), t[k])
    <3> DEFINE a == SubSeq(t, 1, k)  b == Append(SubSeq(t, 1, k - 1), t[k])
    <3>1. a \in Seq(S) /\ Len(a) = k /\ \A i \in 1 .. k : a[i] = t[i]
      BY <1>2, <2>1
    <3>2. b \in Seq(S) /\ Len(b) = k /\ \A i \in 1 .. k : b[i] = t[i]
      BY <2>2
    <3> HIDE DEF a, b
    <3>3. a = b
      BY <3>1, <3>2, SeqEqual
    <3>4. QED BY <3>3 DEF a, b
  <2>4. Append(SubSeq(t, 1, k - 1), t[k]) \in T
    BY <1>1, <1>2, <1>3, <2>1 DEF Inductive
  <2>5. QED BY <2>1, <2>3, <2>4
<1>4. 0 \in K
  <2>1. SubSeq(t, 1, 0) = << >>
    OBVIOUS
  <2>2. << >> \in T
    BY Zenon DEF Inductive
  <2>3. 0 \in 0 .. Len(t)
    BY <1>1
  <2>4. QED BY <2>1, <2>2, <2>3
<1>5. Len(t) \in K
  <2>1. \A k \in 1 .. Len(t) : k - 1 \in K => k \in K
    BY <1>3
  <2> HIDE DEF K
  <2>2. \A k \in 0 .. Len(t) : k \in K
    BY <1>1, <1>4, <2>1, Climb
  <2>3. QED BY <1>1, <2>2
<1>6. SubSeq(t, 1, Len(t)) = t
  <2>1. Len(t) \in 0 .. Len(t)
    BY <1>1
  <2>2. QED BY <1>2, <2>1, SeqEqual
<1>7. QED BY <1>5, <1>6

\* The sum over no requests.
LEMMA SumEmpty == \A weight : SumOver(weight, << >>) = 0
<1> SUFFICES ASSUME NEW weight PROVE SumOver(weight, << >>) = 0
  OBVIOUS
<1>1. [i \in DOMAIN << >> |-> weight[<< >>[i]]] = << >>
  OBVIOUS
<1>2. QED BY <1>1, TotalEmpty, Zenon DEF SumOver

\* A sum with one request more.
LEMMA SumAppend ==
  ASSUME NEW weight \in [Requests -> Nat], NEW s \in Seq(Requests), NEW r \in Requests
  PROVE  /\ SumOver(weight, s) \in Nat
         /\ SumOver(weight, Append(s, r)) = SumOver(weight, s) + weight[r]
<1> DEFINE q == [i \in DOMAIN s |-> weight[s[i]]]
           p == [i \in DOMAIN Append(s, r) |-> weight[Append(s, r)[i]]]
<1>1. q \in Seq(Nat) /\ Len(q) = Len(s) /\ weight[r] \in Nat
  OBVIOUS
<1>2. p = Append(q, weight[r])
  <2>1. p \in Seq(Nat) /\ Len(p) = Len(s) + 1
    OBVIOUS
  <2>2. Append(q, weight[r]) \in Seq(Nat) /\ Len(Append(q, weight[r])) = Len(s) + 1
    BY <1>1
  <2>3. \A i \in 1 .. (Len(s) + 1) : p[i] = Append(q, weight[r])[i]
    OBVIOUS
  <2> HIDE DEF p, q
  <2>4. QED BY <2>1, <2>2, <2>3, SeqEqual
<1>3. SumOver(weight, s) = Total(q) /\ SumOver(weight, Append(s, r)) = Total(p)
  BY Zenon DEF SumOver
<1> HIDE DEF p, q
<1>4. Total(q) \in Nat /\ Total(Append(q, weight[r])) = Total(q) + weight[r]
  BY <1>1, TotalAppend
<1>5. QED BY <1>2, <1>3, <1>4

\* A sum is a number.
LEMMA SumType ==
  ASSUME NEW weight \in [Requests -> Nat], NEW s \in Seq(Requests)
  PROVE  SumOver(weight, s) \in Nat
<1>1. CASE Requests = {}
  <2>1. s = << >>
    BY <1>1
  <2>2. QED BY <2>1, SumEmpty
<1>2. CASE Requests # {}
  BY <1>2, SumAppend
<1>3. QED BY <1>1, <1>2

\* The sum over a concatenation.
LEMMA SumConcat ==
  ASSUME NEW weight \in [Requests -> Nat], NEW s \in Seq(Requests), NEW t \in Seq(Requests)
  PROVE  SumOver(weight, s \o t) = SumOver(weight, s) + SumOver(weight, t)
<1> DEFINE T == {u \in Seq(Requests) :
                   SumOver(weight, s \o u) = SumOver(weight, s) + SumOver(weight, u)}
<1>1. << >> \in T
  <2>1. s \o << >> = s /\ << >> \in Seq(Requests)
    OBVIOUS
  <2>2. SumOver(weight, s) \in Nat
    BY SumType
  <2>3. QED BY <2>1, <2>2, SumEmpty
<1>2. ASSUME NEW u \in Seq(Requests), NEW r \in Requests, u \in T PROVE Append(u, r) \in T
  <2>1. s \o Append(u, r) = Append(s \o u, r) /\ s \o u \in Seq(Requests) /\ Append(u, r) \in Seq(Requests)
    OBVIOUS
  <2>2. /\ SumOver(weight, u) \in Nat
        /\ SumOver(weight, Append(u, r)) = SumOver(weight, u) + weight[r]
        /\ SumOver(weight, Append(s \o u, r)) = SumOver(weight, s \o u) + weight[r]
        /\ SumOver(weight, s) \in Nat /\ weight[r] \in Nat
    BY <2>1, SumAppend
  <2>3. SumOver(weight, s \o u) = SumOver(weight, s) + SumOver(weight, u)
    BY <1>2
  <2>4. SumOver(weight, s \o Append(u, r)) = SumOver(weight, s) + SumOver(weight, Append(u, r))
    BY <2>1, <2>2, <2>3
  <2>5. QED BY <2>1, <2>4
<1>3. Inductive(Requests, T)
  BY <1>1, <1>2 DEF Inductive
<1> HIDE DEF T
<1>4. t \in T
  BY <1>3, SeqInduction
<1>5. QED BY <1>4 DEF T

\* The fields of a file.
LEMMA PartFields ==
  ASSUME NEW p \in Parts
  PROVE  p.part_index \in Nat /\ p.requests \in Seq(Requests) /\ p.tokens \in Nat
BY DEF Parts

\* The requests of files are requests.
LEMMA RequestsType ==
  ASSUME NEW fs \in Seq(Parts)
  PROVE  RequestsOf(fs) \in Seq(Requests)
<1>1. PICK g : IsRun(Seq(Requests), << >>, Joining(fs), Len(fs), g) /\ RequestsOf(fs) = g[Len(fs)]
  BY RequestsRun, Zenon
<1>2. Len(fs) \in 0 .. Len(fs)
  OBVIOUS
<1>3. QED BY <1>1, <1>2 DEF IsRun

\* What one file adds to the totals.
LEMMA TotalsAppend ==
  ASSUME NEW ps \in Seq(Parts), NEW p \in Parts
  PROVE  /\ Totals(ps) \in [requests : Nat, tokens : Nat]
         /\ Totals(Append(ps, p)).requests = Totals(ps).requests + Len(p.requests)
         /\ Totals(Append(ps, p)).tokens = Totals(ps).tokens + p.tokens
<1> DEFINE a == Append(ps, p)
           lens == [i \in DOMAIN ps |-> Len(ps[i].requests)]
           toks == [i \in DOMAIN ps |-> ps[i].tokens]
           alens == [i \in DOMAIN a |-> Len(a[i].requests)]
           atoks == [i \in DOMAIN a |-> a[i].tokens]
<1>1. /\ Len(ps) \in Nat /\ DOMAIN ps = 1 .. Len(ps) /\ DOMAIN a = 1 .. (Len(ps) + 1)
      /\ \A i \in 1 .. Len(ps) : ps[i] \in Parts /\ a[i] = ps[i]
      /\ a[Len(ps) + 1] = p
  OBVIOUS
<1> HIDE DEF a
<1>2. \A x \in Parts : Len(x.requests) \in Nat /\ x.tokens \in Nat
  BY PartFields
<1>3. lens \in Seq(Nat) /\ Len(lens) = Len(ps) /\ \A i \in 1 .. Len(ps) : lens[i] = Len(ps[i].requests)
  BY <1>1, <1>2
<1>4. toks \in Seq(Nat) /\ Len(toks) = Len(ps) /\ \A i \in 1 .. Len(ps) : toks[i] = ps[i].tokens
  BY <1>1, <1>2
<1>5. \A i \in 1 .. (Len(ps) + 1) : a[i] \in Parts /\ (i = Len(ps) + 1 \/ i \in 1 .. Len(ps))
  BY <1>1
<1>6. alens = Append(lens, Len(p.requests))
  <2>1. /\ alens \in Seq(Nat) /\ Len(alens) = Len(ps) + 1
        /\ \A i \in 1 .. (Len(ps) + 1) : alens[i] = Len(a[i].requests)
    BY <1>1, <1>2, <1>5
  <2> HIDE DEF lens, alens
  <2>2. Len(p.requests) \in Nat
    BY <1>2
  <2>3. /\ Append(lens, Len(p.requests)) \in Seq(Nat)
        /\ Len(Append(lens, Len(p.requests))) = Len(ps) + 1
        /\ Append(lens, Len(p.requests))[Len(ps) + 1] = Len(p.requests)
        /\ \A i \in 1 .. Len(ps) : Append(lens, Len(p.requests))[i] = lens[i]
    BY <1>1, <1>3, <2>2
  <2>4. \A i \in 1 .. (Len(ps) + 1) : alens[i] = Append(lens, Len(p.requests))[i]
    BY <1>1, <1>3, <1>5, <2>1, <2>3
  <2>5. QED BY <2>1, <2>3, <2>4, SeqEqual
<1>7. atoks = Append(toks, p.tokens)
  <2>1. /\ atoks \in Seq(Nat) /\ Len(atoks) = Len(ps) + 1
        /\ \A i \in 1 .. (Len(ps) + 1) : atoks[i] = a[i].tokens
    BY <1>1, <1>2, <1>5
  <2> HIDE DEF toks, atoks
  <2>2. p.tokens \in Nat
    BY <1>2
  <2>3. /\ Append(toks, p.tokens) \in Seq(Nat)
        /\ Len(Append(toks, p.tokens)) = Len(ps) + 1
        /\ Append(toks, p.tokens)[Len(ps) + 1] = p.tokens
        /\ \A i \in 1 .. Len(ps) : Append(toks, p.tokens)[i] = toks[i]
    BY <1>1, <1>4, <2>2
  <2>4. \A i \in 1 .. (Len(ps) + 1) : atoks[i] = Append(toks, p.tokens)[i]
    BY <1>1, <1>4, <1>5, <2>1, <2>3
  <2>5. QED BY <2>1, <2>3, <2>4, SeqEqual
<1>8. Totals(ps) = [requests |-> Total(lens), tokens |-> Total(toks)]
      /\ Totals(a) = [requests |-> Total(alens), tokens |-> Total(atoks)]
  BY Zenon DEF Totals
<1> HIDE DEF lens, toks, alens, atoks
<1>9. /\ Total(lens) \in Nat /\ Total(alens) = Total(lens) + Len(p.requests)
      /\ Total(toks) \in Nat /\ Total(atoks) = Total(toks) + p.tokens
  BY <1>2, <1>3, <1>4, <1>6, <1>7, TotalAppend
<1>10. QED BY <1>8, <1>9 DEF a

\* The totals of no files.
LEMMA TotalsEmpty == Totals(<< >>) = [requests |-> 0, tokens |-> 0]
<1>1. [i \in DOMAIN << >> |-> Len(<< >>[i].requests)] = << >> /\ [i \in DOMAIN << >> |-> << >>[i].tokens] = << >>
  OBVIOUS
<1>2. QED BY <1>1, TotalEmpty, Zenon DEF Totals

\* Files whose tokens are those of their requests.
Counted(ps) == \A i \in DOMAIN ps : ps[i].tokens = SumOver(TokensOf, ps[i].requests)

\* The totals that are written are those of the requests in the files.
LEMMA TotalsOfParts ==
  ASSUME NEW ps \in Seq(Parts), Counted(ps)
  PROVE  /\ Totals(ps).requests = Len(RequestsOf(ps))
         /\ Totals(ps).tokens = SumOver(TokensOf, RequestsOf(ps))
<1> DEFINE Same(fs) == /\ Totals(fs).requests = Len(RequestsOf(fs))
                       /\ Totals(fs).tokens = SumOver(TokensOf, RequestsOf(fs))
           T == {fs \in Seq(Parts) : Counted(fs) => Same(fs)}
<1>1. << >> \in T
  <2>1. Totals(<< >>).requests = 0 /\ Totals(<< >>).tokens = 0
    BY TotalsEmpty
  <2>2. Same(<< >>)
    BY <2>1, RequestsEmpty, SumEmpty
  <2>3. QED BY <2>2
<1>2. ASSUME NEW fs \in Seq(Parts), NEW p \in Parts, fs \in T PROVE Append(fs, p) \in T
  <2>1. Append(fs, p) \in Seq(Parts)
    OBVIOUS
  <2> SUFFICES ASSUME Counted(Append(fs, p)) PROVE Same(Append(fs, p))
    BY <2>1
  <2>2. /\ \A i \in 1 .. Len(fs) : i \in DOMAIN Append(fs, p) /\ Append(fs, p)[i] = fs[i]
        /\ Len(fs) + 1 \in DOMAIN Append(fs, p) /\ Append(fs, p)[Len(fs) + 1] = p
        /\ DOMAIN fs = 1 .. Len(fs)
    OBVIOUS
  <2>3. Counted(fs) /\ p.tokens = SumOver(TokensOf, p.requests)
    BY <2>2, Zenon DEF Counted
  <2>4. Same(fs)
    BY <1>2, <2>3
  <2>5. RequestsOf(fs) \in Seq(Requests) /\ RequestsOf(Append(fs, p)) = RequestsOf(fs) \o p.requests
    BY RequestsAppend
  <2>6. p.requests \in Seq(Requests) /\ TokensOf \in [Requests -> Nat]
    BY PartFields, ConstantsAssumption
  <2>7. SumOver(TokensOf, RequestsOf(fs) \o p.requests)
           = SumOver(TokensOf, RequestsOf(fs)) + SumOver(TokensOf, p.requests)
    BY <2>5, <2>6, SumConcat
  <2>8. Len(RequestsOf(fs) \o p.requests) = Len(RequestsOf(fs)) + Len(p.requests)
    BY <2>5, <2>6
  <2>9. QED BY <2>3, <2>4, <2>5, <2>7, <2>8, TotalsAppend
<1>3. Inductive(Parts, T)
  BY <1>1, <1>2 DEF Inductive
<1> HIDE DEF T
<1>4. ps \in T
  BY <1>3, SeqInduction
<1>5. QED BY <1>4 DEF T

\* Files numbered in their order.
Numbered(ps) == \A i \in DOMAIN ps : ps[i].part_index = i - 1

\* A result split by position: the first MaxFiles files are ready.
SplitAt(n, ps) == [ready |-> SubSeq(ps, 1, n), overflow |-> SubSeq(ps, n + 1, Len(ps))]
Least(n) == IF n < MaxFiles THEN n ELSE MaxFiles

\* A file below the limit is ready ...
LEMMA SortedReady ==
  ASSUME NEW a, NEW b, NEW p, p.part_index < MaxFiles
  PROVE  Sorted([ready |-> a, overflow |-> b], p) = [ready |-> Append(a, p), overflow |-> b]
BY DEF Sorted

\* ... and any other overflows.
LEMMA SortedOverflow ==
  ASSUME NEW a, NEW b, NEW p, ~(p.part_index < MaxFiles)
  PROVE  Sorted([ready |-> a, overflow |-> b], p) = [ready |-> a, overflow |-> Append(b, p)]
BY DEF Sorted

\* A split by part_index is a split by position, when files are numbered in order.
LEMMA CategorizedSplit ==
  ASSUME NEW ps \in Seq(Parts), Numbered(ps)
  PROVE  Categorized(ps) = SplitAt(Least(Len(ps)), ps)
<1> DEFINE T == {fs \in Seq(Parts) : Numbered(fs) => Categorized(fs) = SplitAt(Least(Len(fs)), fs)}
<1>1. MaxFiles \in Nat \ {0}
  BY ConstantsAssumption
<1>2. << >> \in T
  <2>1. Least(Len(<< >>)) = 0
    BY <1>1 DEF Least
  <2>2. SplitAt(0, << >>) = NoResult
    BY DEF SplitAt, NoResult
  <2>3. QED BY <2>1, <2>2, CategorizedEmpty
<1>3. ASSUME NEW fs \in Seq(Parts), NEW p \in Parts, fs \in T PROVE Append(fs, p) \in T
  <2> DEFINE a == Append(fs, p)
  <2>1. a \in Seq(Parts) /\ Len(a) = Len(fs) + 1 /\ Len(fs) \in Nat /\ a[Len(fs) + 1] = p
        /\ \A i \in 1 .. Len(fs) : a[i] = fs[i]
    OBVIOUS
  <2> SUFFICES ASSUME Numbered(a) PROVE Categorized(a) = SplitAt(Least(Len(a)), a)
    BY <2>1
  <2>2. /\ \A i \in 1 .. Len(fs) : i \in DOMAIN a
        /\ Len(fs) + 1 \in DOMAIN a /\ (Len(fs) + 1) - 1 = Len(fs)
        /\ DOMAIN fs = 1 .. Len(fs)
    OBVIOUS
  <2>3. Categorized(a) = Sorted(Categorized(fs), p)
    BY CategorizedAppend
  <2> HIDE DEF a
  <2>4. Numbered(fs) /\ p.part_index = Len(fs)
    <3>1. \A i \in 1 .. Len(fs) : fs[i].part_index = i - 1
      BY <2>1, <2>2, Zenon DEF Numbered
    <3>2. p.part_index = (Len(fs) + 1) - 1
      BY <2>1, <2>2, Zenon DEF Numbered
    <3>3. QED BY <2>2, <3>1, <3>2, Zenon DEF Numbered
  <2>5. Categorized(fs) = SplitAt(Least(Len(fs)), fs)
    BY <1>3, <2>4
  <2>6. CASE Len(fs) < MaxFiles
    <3>1. Least(Len(fs)) = Len(fs) /\ Least(Len(a)) = Len(a)
      BY <1>1, <2>1, <2>6 DEF Least
    <3>2. SubSeq(fs, Len(fs) + 1, Len(fs)) = << >> /\ SubSeq(a, Len(a) + 1, Len(a)) = << >>
      BY <2>1
    <3>3. SubSeq(fs, 1, Len(fs)) = fs /\ SubSeq(a, 1, Len(a)) = a
      BY <2>1
    <3>4. Categorized(fs) = [ready |-> fs, overflow |-> << >>]
      BY <2>5, <3>1, <3>2, <3>3 DEF SplitAt
    <3>5. Sorted(Categorized(fs), p) = [ready |-> Append(fs, p), overflow |-> << >>]
      <4>1. p.part_index < MaxFiles
        BY <2>4, <2>6
      <4>2. Sorted([ready |-> fs, overflow |-> << >>], p)
              = [ready |-> Append(fs, p), overflow |-> << >>]
        BY <4>1, SortedReady
      <4>3. QED BY <3>4, <4>2, Zenon
    <3>6. QED BY <2>3, <3>1, <3>2, <3>3, <3>5 DEF SplitAt, a
  <2>7. CASE ~(Len(fs) < MaxFiles)
    <3>1. Least(Len(fs)) = MaxFiles /\ Least(Len(a)) = MaxFiles /\ MaxFiles + 1 \in 1 .. (Len(fs) + 1)
      BY <1>1, <2>1, <2>7 DEF Least
    <3>2. SubSeq(a, 1, MaxFiles) = SubSeq(fs, 1, MaxFiles)
      <4>1. /\ SubSeq(a, 1, MaxFiles) \in Seq(Parts) /\ Len(SubSeq(a, 1, MaxFiles)) = MaxFiles
            /\ \A i \in 1 .. MaxFiles : SubSeq(a, 1, MaxFiles)[i] = a[i] /\ a[i] = fs[i]
        BY <1>1, <2>1, <2>7, <3>1
      <4>2. /\ SubSeq(fs, 1, MaxFiles) \in Seq(Parts) /\ Len(SubSeq(fs, 1, MaxFiles)) = MaxFiles
            /\ \A i \in 1 .. MaxFiles : SubSeq(fs, 1, MaxFiles)[i] = fs[i]
        BY <1>1, <2>1, <2>7, <3>1
      <4>3. QED BY <4>1, <4>2, SeqEqual
    <3>3. SubSeq(a, MaxFiles + 1, Len(a)) = Append(SubSeq(fs, MaxFiles + 1, Len(fs)), p)
      <4> DEFINE b == SubSeq(a, MaxFiles + 1, Len(a))
                 c == SubSeq(fs, MaxFiles + 1, Len(fs))
                 d == Append(c, p)
                 m == Len(a) - MaxFiles
      <4>1. b \in Seq(Parts) /\ Len(b) = m /\ \A i \in 1 .. m : b[i] = a[MaxFiles + i]
        BY <1>1, <2>1, <2>7, <3>1
      <4>2. c \in Seq(Parts) /\ Len(c) = m - 1 /\ \A i \in 1 .. (m - 1) : c[i] = fs[MaxFiles + i]
        BY <1>1, <2>1, <2>7, <3>1
      <4> HIDE DEF b, c
      <4>3. m \in Nat \ {0} /\ MaxFiles + m = Len(fs) + 1
            /\ \A i \in 1 .. m : i = m \/ (i \in 1 .. (m - 1) /\ MaxFiles + i \in 1 .. Len(fs))
        BY <1>1, <2>1, <2>7, SMTT(30)
      <4>4. d \in Seq(Parts) /\ Len(d) = m /\ d[m] = p /\ \A i \in 1 .. (m - 1) : d[i] = c[i]
        BY <4>2, <4>3
      <4> HIDE DEF d, m
      <4>5. \A i \in 1 .. m : b[i] = d[i]
        BY <2>1, <4>1, <4>2, <4>3, <4>4
      <4>6. b = d
        BY <4>1, <4>4, <4>5, SeqEqual
      <4>7. QED BY <4>6 DEF b, c, d
    <3>4. Sorted(Categorized(fs), p)
            = [ready |-> SubSeq(fs, 1, MaxFiles),
               overflow |-> Append(SubSeq(fs, MaxFiles + 1, Len(fs)), p)]
      <4>1. ~(p.part_index < MaxFiles)
        BY <2>4, <2>7
      <4> DEFINE u == SubSeq(fs, 1, MaxFiles)  v == SubSeq(fs, MaxFiles + 1, Len(fs))
      <4> HIDE DEF u, v
      <4>2. Sorted([ready |-> u, overflow |-> v], p) = [ready |-> u, overflow |-> Append(v, p)]
        BY <4>1, SortedOverflow, Zenon
      <4>3. Categorized(fs) = [ready |-> SubSeq(fs, 1, MaxFiles),
                               overflow |-> SubSeq(fs, MaxFiles + 1, Len(fs))]
        BY <2>5, <3>1, Zenon DEF SplitAt
      <4>4. QED BY <4>2, <4>3, Zenon DEF u, v
    <3>5. QED BY <2>3, <3>1, <3>2, <3>3, <3>4 DEF SplitAt
  <2>8. QED BY <2>6, <2>7
<1>4. Inductive(Parts, T)
  BY <1>2, <1>3 DEF Inductive
<1> HIDE DEF T
<1>5. ps \in T
  BY <1>4, SeqInduction
<1>6. QED BY <1>5 DEF T

\* Files of which no two share a request, and all of whose requests are in s.
Apart(ps) == \A i, j \in 1 .. Len(ps) :
               i # j => ToSet(ps[i].requests) \cap ToSet(ps[j].requests) = {}
Among(ps, s) == \A i \in 1 .. Len(ps) : ToSet(ps[i].requests) \subseteq ToSet(s)

\* Files whose requests are all different share none.
LEMMA PartsDisjoint ==
  ASSUME NEW ps \in Seq(Parts)
  PROVE  Among(ps, RequestsOf(ps)) /\ (IsInjective(RequestsOf(ps)) => Apart(ps))
<1> DEFINE T == {fs \in Seq(Parts) :
                   Among(fs, RequestsOf(fs)) /\ (IsInjective(RequestsOf(fs)) => Apart(fs))}
<1>1. << >> \in T
  BY DEF Among, Apart
<1>2. ASSUME NEW fs \in Seq(Parts), NEW p \in Parts, fs \in T PROVE Append(fs, p) \in T
  <2> DEFINE c == Append(fs, p)  a == RequestsOf(fs)  b == p.requests
  <2>1. c \in Seq(Parts) /\ Len(c) = Len(fs) + 1 /\ Len(fs) \in Nat /\ c[Len(fs) + 1] = p
        /\ \A i \in 1 .. Len(fs) : c[i] = fs[i]
    OBVIOUS
  <2>2. a \in Seq(Requests) /\ RequestsOf(c) = a \o b
    BY RequestsAppend
  <2>3. b \in Seq(Requests)
    BY PartFields
  <2> HIDE DEF c, a, b
  <2>4. /\ Len(a) \in Nat /\ Len(b) \in Nat /\ DOMAIN a = 1 .. Len(a) /\ DOMAIN b = 1 .. Len(b)
        /\ DOMAIN (a \o b) = 1 .. (Len(a) + Len(b))
        /\ \A i \in 1 .. Len(a) : (a \o b)[i] = a[i]
        /\ \A i \in 1 .. Len(b) : (a \o b)[Len(a) + i] = b[i]
    BY <2>2, <2>3
  <2>5. \A i \in 1 .. Len(a) : i \in DOMAIN (a \o b)
    BY <2>4
  <2>6. \A i \in 1 .. Len(b) : Len(a) + i \in DOMAIN (a \o b)
    BY <2>4
  <2>7. ToSet(a) \subseteq ToSet(a \o b) /\ ToSet(b) \subseteq ToSet(a \o b)
    <3>1. \A i \in DOMAIN a : a[i] \in ToSet(a \o b)
      BY <2>4, <2>5, Zenon DEF ToSet
    <3>2. \A i \in DOMAIN b : b[i] \in ToSet(a \o b)
      BY <2>4, <2>6, Zenon DEF ToSet
    <3>3. QED BY <3>1, <3>2, Zenon DEF ToSet
  <2>8. ASSUME IsInjective(a \o b) PROVE IsInjective(a) /\ ToSet(a) \cap ToSet(b) = {}
    <3>1. \A i, j \in DOMAIN a : a[i] = a[j] => i = j
      BY <2>4, <2>5, <2>8, Zenon DEF IsInjective
    <3>2. \A i \in DOMAIN a, j \in DOMAIN b : a[i] # b[j]
      <4> SUFFICES ASSUME NEW i \in 1 .. Len(a), NEW j \in 1 .. Len(b), a[i] = b[j] PROVE FALSE
        BY <2>4
      <4>1. i \in DOMAIN (a \o b) /\ Len(a) + j \in DOMAIN (a \o b) /\ i # Len(a) + j
        BY <2>4
      <4>2. (a \o b)[i] = (a \o b)[Len(a) + j]
        BY <2>4
      <4>3. QED BY <2>8, <4>1, <4>2, Zenon DEF IsInjective
    <3>3. ToSet(a) \cap ToSet(b) = {}
      BY <3>2, Zenon DEF ToSet
    <3>4. QED BY <3>1, <3>3, Zenon DEF IsInjective
  <2>9. \A i \in 1 .. Len(c) : i = Len(fs) + 1 \/ i \in 1 .. Len(fs)
    BY <2>1
  <2>10. \A i \in 1 .. Len(fs) : ToSet(fs[i].requests) \subseteq ToSet(a)
    BY <1>2 DEF Among, a
  <2>11. Among(c, a \o b)
    <3>1. ASSUME NEW i \in 1 .. Len(c) PROVE ToSet(c[i].requests) \subseteq ToSet(a \o b)
      <4>1. CASE i = Len(fs) + 1
        BY <2>1, <2>7, <4>1 DEF b
      <4>2. CASE i \in 1 .. Len(fs)
        <5>1. c[i] = fs[i]
          BY <2>1, <4>2
        <5>2. QED BY <2>7, <2>10, <4>2, <5>1, Zenon
      <4>3. QED BY <2>9, <4>1, <4>2
    <3>2. QED BY <3>1 DEF Among
  <2>12. ASSUME IsInjective(a \o b) PROVE Apart(c)
    <3>1. IsInjective(a) /\ ToSet(a) \cap ToSet(b) = {}
      BY <2>8, <2>12
    <3>2. Apart(fs)
      BY <1>2, <3>1 DEF a
    <3>3. \A i \in 1 .. Len(fs) : ToSet(fs[i].requests) \cap ToSet(b) = {}
      BY <2>10, <3>1, Zenon
    <3>4. ASSUME NEW i \in 1 .. Len(c), NEW j \in 1 .. Len(c), i # j
          PROVE  ToSet(c[i].requests) \cap ToSet(c[j].requests) = {}
      <4>1. CASE i = Len(fs) + 1
        <5>1. j \in 1 .. Len(fs) /\ c[j] = fs[j] /\ c[i].requests = b
          BY <2>1, <2>9, <3>4, <4>1 DEF b
        <5>2. QED BY <3>3, <5>1, Zenon
      <4>2. CASE j = Len(fs) + 1
        <5>1. i \in 1 .. Len(fs) /\ c[i] = fs[i] /\ c[j].requests = b
          BY <2>1, <2>9, <3>4, <4>2 DEF b
        <5>2. QED BY <3>3, <5>1, Zenon
      <4>3. CASE i \in 1 .. Len(fs) /\ j \in 1 .. Len(fs)
        <5>1. c[i] = fs[i] /\ c[j] = fs[j]
          BY <2>1, <4>3
        <5>2. QED BY <3>2, <3>4, <4>3, <5>1, Zenon DEF Apart
      <4>4. QED BY <2>9, <4>1, <4>2, <4>3
    <3>5. QED BY <3>4 DEF Apart
  <2>13. QED BY <2>1, <2>2, <2>11, <2>12 DEF c
<1>3. Inductive(Parts, T)
  BY <1>1, <1>2 DEF Inductive
<1> HIDE DEF T
<1>4. ps \in T
  BY <1>3, SeqInduction
<1>5. QED BY <1>4 DEF T

-----------------------------------------------------------------------------
(* _assemble_payloads packs greedily.                                      *)

\* The fields of a drained part.
LEMMA PartType ==
  ASSUME NEW n \in Nat, NEW s \in Seq(Requests)
  PROVE  /\ Part(n, s) \in Parts /\ Part(n, s).part_index = n
         /\ Part(n, s).requests = s /\ Part(n, s).tokens = SumOver(TokensOf, s)
<1>1. TokensOf \in [Requests -> Nat]
  BY ConstantsAssumption
<1>2. SumOver(TokensOf, s) \in Nat
  BY <1>1, SumType
<1>3. QED BY <1>2 DEF Part, Parts

Packing == [parts : Seq(Parts), acc : Seq(Requests)]
Nothing == [parts |-> << >>, acc |-> << >>]
Assembling(limit, rows) ==
  [k \in 1 .. Len(rows) |-> [v \in Packing |-> AssembleRow(limit, v, rows[k])]]

\* Draining gives a list of parts.
LEMMA DrainType ==
  ASSUME NEW st \in Packing
  PROVE  Drain(st) \in Seq(Parts)
<1>1. st.parts \in Seq(Parts) /\ st.acc \in Seq(Requests)
  BY DEF Packing
<1>2. Len(st.parts) \in Nat
  BY <1>1
<1>3. Part(Len(st.parts), st.acc) \in Parts
  BY <1>1, <1>2, PartType
<1>4. QED BY <1>1, <1>3 DEF Drain

\* A row that is added to the open part leaves the closed ones.
LEMMA AccUpdate ==
  ASSUME NEW st \in Packing, NEW r
  PROVE  [st EXCEPT !.acc = Append(@, r)] = [parts |-> st.parts, acc |-> Append(st.acc, r)]
<1>1. \A v : [st EXCEPT !.acc = v] = [parts |-> st.parts, acc |-> v]
  BY DEF Packing
<1>2. [st EXCEPT !.acc = Append(@, r)] = [st EXCEPT !.acc = Append(st.acc, r)]
  BY Zenon
<1>3. QED BY <1>1, <1>2

\* A turn of the loop leaves parts and an accumulator.
LEMMA RowType ==
  ASSUME NEW limit, NEW st \in Packing, NEW r \in Requests
  PROVE  AssembleRow(limit, st, r) \in Packing
<1>1. st.parts \in Seq(Parts) /\ st.acc \in Seq(Requests)
  BY DEF Packing
<1>2. \/ AssembleRow(limit, st, r) = [parts |-> Drain(st), acc |-> <<r>>]
      \/ AssembleRow(limit, st, r) = [parts |-> st.parts, acc |-> Append(st.acc, r)]
  <2>1. AssembleRow(limit, st, r) = [parts |-> Drain(st), acc |-> <<r>>] \/
        AssembleRow(limit, st, r) = [st EXCEPT !.acc = Append(@, r)]
    BY Zenon DEF AssembleRow
  <2>2. QED BY <2>1, AccUpdate, Zenon
<1>3. <<r>> \in Seq(Requests) /\ Append(st.acc, r) \in Seq(Requests)
  BY <1>1
<1>4. \A ps \in Seq(Parts), s \in Seq(Requests) : [parts |-> ps, acc |-> s] \in Packing
  BY DEF Packing
<1>5. QED BY <1>1, <1>2, <1>3, <1>4, DrainType, Zenon

\* Rows are packed one by one.
LEMMA PackedRun ==
  ASSUME NEW limit, NEW rows \in Seq(Requests)
  PROVE  \E g : /\ IsRun(Packing, Nothing, Assembling(limit, rows), Len(rows), g)
              /\ Packed(limit, rows) = g[Len(rows)]
<1> DEFINE n == Len(rows)
<1>1. n \in Nat /\ DOMAIN rows = 1 .. n /\ Nothing \in Packing /\ \A k \in 1 .. n : rows[k] \in Requests
  BY DEF Nothing, Packing
<1>2. /\ Assembling(limit, rows) \in [1 .. n -> [Packing -> Packing]]
      /\ \A k \in 1 .. n, v \in Packing : Assembling(limit, rows)[k][v] = AssembleRow(limit, v, rows[k])
  <2>1. \A r \in Requests, v \in Packing : AssembleRow(limit, v, r) \in Packing
    BY RowType
  <2>2. QED BY <1>1, <2>1 DEF Assembling
<1> HIDE DEF n
<1>3. PICK f \in [SUBSET (1 .. n) -> Packing] : \A t \in SUBSET (1 .. n) :
        f[t] = IF t = {} THEN Nothing ELSE Assembling(limit, rows)[Max(t)][f[t \ {Max(t)}]]
  <2>1. Solvable(Packing, Nothing, Assembling(limit, rows), n)
    BY <1>1, <1>2, FoldExists
  <2>2. QED BY <2>1, Zenon DEF Solvable
<1>4. f = [t \in SUBSET (1 .. n) |-> IF t = {} THEN Nothing
                                    ELSE AssembleRow(limit, f[t \ {Max(t)}], rows[Max(t)])]
  <2>1. ASSUME NEW t \in SUBSET (1 .. n), t # {}
        PROVE  f[t] = AssembleRow(limit, f[t \ {Max(t)}], rows[Max(t)])
    <3>1. Max(t) \in 1 .. n
      BY <1>1, <2>1, MaxPosition, Zenon
    <3>2. t \ {Max(t)} \in SUBSET (1 .. n)
      OBVIOUS
    <3>3. f[t \ {Max(t)}] \in Packing
      BY <1>3, <3>2
    <3>4. QED BY <1>2, <1>3, <2>1, <3>1, <3>3, Zenon
  <2>2. f[{}] = Nothing
    BY <1>3
  <2>3. QED BY <1>3, <2>1, <2>2
<1>5. PICK it : /\ it = [t \in SUBSET (1 .. n) |-> IF t = {} THEN Nothing
                             ELSE AssembleRow(limit, it[t \ {Max(t)}], rows[Max(t)])]
                /\ Packed(limit, rows) = it[1 .. n]
  BY <1>1, <1>4, Zenon DEF Packed, Nothing, FoldLeft, MapThenFoldSet
<1>6. Follows(Packing, Nothing, Assembling(limit, rows), n, it)
  <2>1. it[{}] = Nothing
    <3>1. {} \in SUBSET (1 .. n)
      OBVIOUS
    <3>2. QED BY <1>5, <3>1, Zenon
  <2>2. ASSUME NEW t \in SUBSET (1 .. n), t # {}, it[t \ {Max(t)}] \in Packing
        PROVE  it[t] = Assembling(limit, rows)[Max(t)][it[t \ {Max(t)}]]
    <3>1. Max(t) \in 1 .. n
      BY <1>1, <2>2, MaxPosition, Zenon
    <3>2. it[t] = AssembleRow(limit, it[t \ {Max(t)}], rows[Max(t)])
      BY <1>5, <2>2, Zenon
    <3>3. QED BY <1>2, <2>2, <3>1, <3>2, Zenon
  <2>3. QED BY <2>1, <2>2 DEF Follows
<1>7. IsRun(Packing, Nothing, Assembling(limit, rows), n, Values(it, n))
  BY <1>1, <1>2, <1>6, FoldRun
<1>8. Values(it, n)[n] = Packed(limit, rows)
  <2>1. n \in 0 .. n
    BY <1>1
  <2>2. QED BY <1>5, <2>1, Zenon DEF Values
<1>9. QED BY <1>7, <1>8, Zenon DEF n

\* Before the first row nothing is packed.
LEMMA PackedEmpty == \A limit : Packed(limit, << >>) = Nothing
<1> SUFFICES ASSUME NEW limit PROVE Packed(limit, << >>) = Nothing
  OBVIOUS
<1>1. << >> \in Seq(Requests) /\ Len(<< >>) = 0
  OBVIOUS
<1>2. PICK g : IsRun(Packing, Nothing, Assembling(limit, << >>), 0, g) /\ Packed(limit, << >>) = g[0]
  BY <1>1, PackedRun
<1>3. QED BY <1>2 DEF IsRun

\* The loop over one row more.
LEMMA PackedAppend ==
  ASSUME NEW limit, NEW rows \in Seq(Requests), NEW x \in Requests
  PROVE  Packed(limit, rows) \in Packing /\ Packed(limit, Append(rows, x)) = AssembleRow(limit, Packed(limit, rows), x)
<1> DEFINE p == Append(rows, x)  n == Len(rows)
<1>1. /\ n \in Nat /\ p \in Seq(Requests) /\ Len(p) = n + 1 /\ p[n + 1] = x
      /\ \A k \in 1 .. n : p[k] = rows[k]
  OBVIOUS
<1> HIDE DEF p
<1>2. PICK g : IsRun(Packing, Nothing, Assembling(limit, rows), n, g) /\ Packed(limit, rows) = g[n]
  BY PackedRun, Zenon
<1>3. PICK h : IsRun(Packing, Nothing, Assembling(limit, p), n + 1, h) /\ Packed(limit, p) = h[n + 1]
  BY <1>1, PackedRun
<1>4. Agree(n, Assembling(limit, rows), Assembling(limit, p))
  <2>1. ASSUME NEW k \in 1 .. n PROVE Assembling(limit, p)[k] = Assembling(limit, rows)[k]
    <3>1. k \in 1 .. Len(p) /\ k \in 1 .. Len(rows) /\ p[k] = rows[k]
      BY <1>1
    <3>2. QED BY <3>1, Zenon DEF Assembling
  <2>2. QED BY <2>1 DEF Agree
<1>5. g[n] \in Packing /\ h[n + 1] = Assembling(limit, p)[n + 1][g[n]]
  BY <1>1, <1>2, <1>3, <1>4, RunContinues
<1>6. Assembling(limit, p)[n + 1][g[n]] = AssembleRow(limit, g[n], x)
  <2>1. n + 1 \in 1 .. Len(p)
    BY <1>1
  <2>2. QED BY <1>1, <1>5, <2>1, Zenon DEF Assembling
<1>7. QED BY <1>2, <1>3, <1>5, <1>6, Zenon DEF p

\* Parts within the limits, numbered in order, each closed only when it was full.
Chain(ps, limit) ==
  \A i \in DOMAIN ps :
    /\ Fits(ps[i], limit) /\ ps[i].part_index = i - 1
    /\ i < Len(ps) => Full(ps[i], ps[i + 1].requests[1], limit)

\* The weights of requests are numbers.
LEMMA WeightsType == TokensOf \in [Requests -> Nat] /\ BytesOf \in [Requests -> Nat]
<1>1. TokensOf \in [Requests -> Nat] /\ BytesOf \in [Requests -> Nat \ {0}]
  BY ConstantsAssumption
<1>2. QED BY <1>1

\* A chain with one part more.
LEMMA ChainAppend ==
  ASSUME NEW limit, NEW ps \in Seq(Parts), NEW p \in Parts, Chain(ps, limit),
         Fits(p, limit), p.part_index = Len(ps),
         ps # << >> => Full(ps[Len(ps)], p.requests[1], limit)
  PROVE  Chain(Append(ps, p), limit)
<1> DEFINE a == Append(ps, p)  n == Len(ps)
<1>1. /\ DOMAIN a = 1 .. (n + 1) /\ Len(a) = n + 1 /\ n \in Nat /\ a[n + 1] = p
      /\ \A i \in 1 .. n : a[i] = ps[i]
      /\ DOMAIN ps = 1 .. n /\ (ps = << >> => n = 0)
  OBVIOUS
<1> HIDE DEF a, n
<1> SUFFICES ASSUME NEW i \in 1 .. (n + 1)
             PROVE  /\ Fits(a[i], limit) /\ a[i].part_index = i - 1
                    /\ i < Len(a) => Full(a[i], a[i + 1].requests[1], limit)
  BY <1>1, Zenon DEF Chain, a
<1>2. CASE i = n + 1
  <2>1. a[i] = p /\ i - 1 = n /\ ~(i < Len(a))
    BY <1>1, <1>2
  <2>2. QED BY <2>1 DEF n
<1>3. CASE i \in 1 .. n /\ i # n
  <2>1. i + 1 \in 1 .. n /\ i < n /\ a[i] = ps[i] /\ a[i + 1] = ps[i + 1] /\ i \in DOMAIN ps
    BY <1>1, <1>3
  <2>2. /\ Fits(ps[i], limit) /\ ps[i].part_index = i - 1
        /\ i < n => Full(ps[i], ps[i + 1].requests[1], limit)
    BY <2>1, Zenon DEF Chain, n
  <2>3. QED BY <2>1, <2>2
<1>4. CASE i = n /\ n # 0
  <2>1. a[i] = ps[n] /\ a[i + 1] = p /\ i \in DOMAIN ps /\ ps # << >>
    BY <1>1, <1>4
  <2>2. Fits(ps[i], limit) /\ ps[i].part_index = i - 1
    BY <2>1, Zenon DEF Chain
  <2>3. Full(ps[n], p.requests[1], limit)
    BY <2>1 DEF n
  <2>4. QED BY <1>4, <2>1, <2>2, <2>3
<1>5. QED BY <1>1, <1>2, <1>3, <1>4

\* The parts of a chain before its last one.
LEMMA ChainFront ==
  ASSUME NEW limit, NEW ps \in Seq(Parts), NEW p \in Parts, Chain(Append(ps, p), limit)
  PROVE  /\ Chain(ps, limit) /\ Fits(p, limit) /\ p.part_index = Len(ps)
         /\ ps # << >> => Full(ps[Len(ps)], p.requests[1], limit)
<1> DEFINE a == Append(ps, p)  n == Len(ps)
<1>1. /\ DOMAIN a = 1 .. (n + 1) /\ Len(a) = n + 1 /\ n \in Nat /\ a[n + 1] = p
      /\ \A i \in 1 .. n : a[i] = ps[i]
      /\ DOMAIN ps = 1 .. n /\ (ps # << >> => n # 0)
  OBVIOUS
<1> HIDE DEF a, n
<1>2. \A i \in 1 .. (n + 1) :
        /\ Fits(a[i], limit) /\ a[i].part_index = i - 1
        /\ i < n + 1 => Full(a[i], a[i + 1].requests[1], limit)
  BY <1>1, Zenon DEF Chain, a
<1>3. Fits(p, limit) /\ p.part_index = n
  <2>1. n + 1 \in 1 .. (n + 1) /\ (n + 1) - 1 = n
    BY <1>1
  <2>2. QED BY <1>1, <1>2, <2>1
<1>4. ASSUME ps # << >> PROVE Full(ps[n], p.requests[1], limit)
  <2>1. n \in 1 .. (n + 1) /\ n < n + 1 /\ n \in 1 .. n
    BY <1>1, <1>4
  <2>2. a[n] = ps[n]
    BY <1>1, <2>1
  <2>3. Full(a[n], a[n + 1].requests[1], limit)
    BY <1>2, <2>1
  <2>4. QED BY <1>1, <2>2, <2>3
<1>5. ASSUME NEW i \in DOMAIN ps
      PROVE  /\ Fits(ps[i], limit) /\ ps[i].part_index = i - 1
             /\ i < n => Full(ps[i], ps[i + 1].requests[1], limit)
  <2>1. i \in 1 .. (n + 1) /\ i < n + 1 /\ a[i] = ps[i] /\ (i < n => a[i + 1] = ps[i + 1])
    BY <1>1
  <2>2. QED BY <1>2, <2>1
<1>6. Chain(ps, limit)
  BY <1>5, Zenon DEF Chain, n
<1>7. QED BY <1>3, <1>4, <1>6 DEF n

\* The open part is closed exactly when the row does not fit.
LEMMA ClosesFull ==
  ASSUME NEW limit \in Nat, NEW st \in Packing, NEW r \in Requests, NEW p \in Parts,
         st.acc # << >>, p.requests = st.acc, Fits(p, limit)
  PROVE  Closes(limit, st, r) <=> Full(p, r, limit)
<1> DEFINE s == st.acc
<1>1. s \in Seq(Requests) /\ s # << >>
  BY DEF Packing
<1> HIDE DEF s
<1>2. Len(s) \in DOMAIN s
  BY <1>1
<1>3. ModelOf[Last(s)] = ModelOf[s[1]]
  BY <1>2 DEF Fits, Last, s
<1>4. Closes(limit, st, r) <=> (ModelOf[s[1]] # ModelOf[r] \/ WouldExceed(s, r, limit))
  BY <1>1, <1>3, Zenon DEF Closes, s
<1>5. QED BY <1>1, <1>4, Zenon DEF WouldExceed, Full, s

\* One row that is not too large on its own fits in an empty part.
LEMMA SingleFits ==
  ASSUME NEW limit \in Nat, NEW n \in Nat, NEW r \in Requests, ~Oversize(r, limit)
  PROVE  Fits(Part(n, <<r>>), limit)
<1>1. <<r>> \in Seq(Requests) /\ Append(<< >>, r) = <<r>> /\ << >> \in Seq(Requests)
  OBVIOUS
<1>2. SumOver(TokensOf, Append(<< >>, r)) = SumOver(TokensOf, << >>) + TokensOf[r]
  BY <1>1, WeightsType, SumAppend
<1>3. SumOver(BytesOf, Append(<< >>, r)) = SumOver(BytesOf, << >>) + BytesOf[r]
  BY <1>1, WeightsType, SumAppend
<1>4. SumOver(TokensOf, << >>) = 0 /\ SumOver(BytesOf, << >>) = 0
  BY SumEmpty
<1>5. TokensOf[r] \in Nat /\ BytesOf[r] \in Nat
  BY WeightsType
<1>6. SumOver(TokensOf, <<r>>) = TokensOf[r] /\ SumOver(BytesOf, <<r>>) = BytesOf[r]
  BY <1>1, <1>2, <1>3, <1>4, <1>5
<1>7. MaxBytes \in Nat /\ MaxRecords \in Nat \ {0}
  BY ConstantsAssumption
<1>8. Part(n, <<r>>).requests = <<r>> /\ Part(n, <<r>>).tokens = SumOver(TokensOf, <<r>>)
  BY <1>1, PartType
<1>9. <<r>> # << >> /\ Len(<<r>>) = 1 /\ \A j \in DOMAIN <<r>> : <<r>>[j] = <<r>>[1]
  OBVIOUS
<1>10. TokensOf[r] <= limit /\ BytesOf[r] <= MaxBytes /\ 1 <= MaxRecords
  BY <1>5, <1>7 DEF Oversize
<1>11. QED BY <1>6, <1>8, <1>9, <1>10 DEF Fits

\* A row that does not make the part full fits.
LEMMA GrownFits ==
  ASSUME NEW limit \in Nat, NEW n \in Nat, NEW r \in Requests, NEW s \in Seq(Requests),
         Fits(Part(n, s), limit), ~Full(Part(n, s), r, limit)
  PROVE  Fits(Part(n, Append(s, r)), limit)
<1> DEFINE a == Append(s, r)
<1>0. a \in Seq(Requests)
  OBVIOUS
<1>1. /\ Part(n, s).requests = s /\ Part(n, s).tokens = SumOver(TokensOf, s)
      /\ Part(n, a).requests = a /\ Part(n, a).tokens = SumOver(TokensOf, a)
  <2> HIDE DEF a
  <2>1. QED BY <1>0, PartType
<1>2. /\ s # << >> /\ \A j \in DOMAIN s : ModelOf[s[j]] = ModelOf[s[1]]
  BY <1>1 DEF Fits
<1>3. /\ ModelOf[r] = ModelOf[s[1]] /\ ~(Len(s) + 1 > MaxRecords)
      /\ ~(SumOver(BytesOf, s) + BytesOf[r] > MaxBytes)
      /\ ~(SumOver(TokensOf, s) + TokensOf[r] > limit)
  BY <1>1, Zenon DEF Full
<1>4. /\ SumOver(TokensOf, a) = SumOver(TokensOf, s) + TokensOf[r]
      /\ SumOver(BytesOf, a) = SumOver(BytesOf, s) + BytesOf[r]
      /\ SumOver(TokensOf, s) \in Nat /\ SumOver(BytesOf, s) \in Nat
  BY WeightsType, SumAppend
<1>5. TokensOf[r] \in Nat /\ BytesOf[r] \in Nat /\ MaxBytes \in Nat /\ MaxRecords \in Nat
  BY WeightsType, ConstantsAssumption
<1>6. /\ a # << >> /\ Len(a) = Len(s) + 1 /\ Len(s) \in Nat /\ a[1] = s[1]
      /\ \A j \in DOMAIN a : a[j] = r \/ (j \in DOMAIN s /\ a[j] = s[j])
  BY <1>2
<1> HIDE DEF a
<1>7. \A j \in DOMAIN a : ModelOf[a[j]] = ModelOf[a[1]]
  BY <1>2, <1>3, <1>6
<1>8. Len(a) <= MaxRecords /\ SumOver(BytesOf, a) <= MaxBytes /\ SumOver(TokensOf, a) <= limit
  BY <1>3, <1>4, <1>5, <1>6, SMTT(30)
<1>9. QED BY <1>1, <1>6, <1>7, <1>8 DEF Fits, a

\* Appending to the second of two lists appends to both.
LEMMA ConcatAppend ==
  ASSUME NEW a \in Seq(Requests), NEW b \in Seq(Requests), NEW r \in Requests
  PROVE  a \o Append(b, r) = Append(a \o b, r)
OBVIOUS

\* The state of the loop after some rows: draining it gives a greedy partition of them.
Packs(limit, rows, st) ==
  /\ GreedyPartition(rows, Drain(st), limit)
  /\ st.acc = << >> => st.parts = << >>

\* A state with an open part packs the rows when the closed parts and that one do.
LEMMA PacksIf ==
  ASSUME NEW limit, NEW rows, NEW st, NEW qs, NEW q, NEW p, q # << >>, p = Part(Len(qs), q),
         st = [parts |-> qs, acc |-> q], RequestsOf(Append(qs, p)) = rows, Chain(Append(qs, p), limit)
  PROVE  Packs(limit, rows, st)
<1>1. st.parts = qs /\ st.acc = q
  OBVIOUS
<1>2. Drain(st) = Append(qs, p)
  BY <1>1, Zenon DEF Drain
<1>3. GreedyPartition(rows, Drain(st), limit)
  BY <1>2, Zenon DEF GreedyPartition, Chain
<1>4. QED BY <1>1, <1>3, Zenon DEF Packs

\* A turn of the loop keeps the partition greedy.
LEMMA RowPacks ==
  ASSUME NEW limit \in Nat, NEW rows \in Seq(Requests), NEW st \in Packing, NEW r \in Requests,
         Packs(limit, rows, st), ~Oversize(r, limit)
  PROVE  Packs(limit, Append(rows, r), AssembleRow(limit, st, r))
<1> DEFINE ps == st.parts  s == st.acc  n == Len(st.parts)
           new == AssembleRow(limit, st, r)
<1>1. ps \in Seq(Parts) /\ s \in Seq(Requests) /\ n \in Nat
  BY DEF Packing
<1>2. RequestsOf(Drain(st)) = rows /\ Chain(Drain(st), limit)
  BY Zenon DEF Packs, GreedyPartition, Chain
<1>3. CASE Closes(limit, st, r) \/ s = << >>
  <2> DEFINE qs == Drain(st)
  <2>1. qs \in Seq(Parts) /\ <<r>> \in Seq(Requests) /\ <<r>> # << >> /\ Len(qs) \in Nat
    <3>1. qs \in Seq(Parts)
      BY DrainType
    <3> HIDE DEF qs
    <3>2. QED BY <3>1
  <2>2. new = [parts |-> qs, acc |-> <<r>>]
    <3>1. CASE Closes(limit, st, r)
      BY <3>1, Zenon DEF AssembleRow
    <3>2. CASE ~Closes(limit, st, r)
      <4>1. s = << >> /\ ps = << >> /\ qs = << >>
        BY <1>3, <3>2 DEF Packs, Drain
      <4>2. new = [st EXCEPT !.acc = Append(@, r)]
        BY <3>2, Zenon DEF AssembleRow
      <4>3. new = [parts |-> ps, acc |-> Append(s, r)]
        BY <4>2, AccUpdate, Zenon
      <4>4. Append(<< >>, r) = <<r>>
        OBVIOUS
      <4> HIDE DEF new, qs
      <4>5. QED BY <4>1, <4>3, <4>4, Zenon
    <3>3. QED BY <3>1, <3>2
  <2> DEFINE p == Part(Len(qs), <<r>>)
  <2>3. /\ p \in Parts /\ p.requests = <<r>> /\ p.part_index = Len(qs) /\ p.requests[1] = r
        /\ Fits(p, limit)
    <3> HIDE DEF qs
    <3>1. p \in Parts /\ p.requests = <<r>> /\ p.part_index = Len(qs)
      BY <2>1, PartType
    <3>2. Fits(p, limit)
      BY <2>1, SingleFits
    <3>3. <<r>>[1] = r
      OBVIOUS
    <3> HIDE DEF p
    <3>4. QED BY <3>1, <3>2, <3>3
  <2>4. ASSUME qs # << >> PROVE Full(qs[Len(qs)], r, limit)
    <3>1. s # << >> /\ Closes(limit, st, r)
      BY <1>3, <2>4 DEF Packs, Drain
    <3>2. Drain(st) = Append(ps, Part(n, s)) /\ Part(n, s) \in Parts /\ Part(n, s).requests = s
      <4>1. Part(n, s) \in Parts /\ Part(n, s).requests = s
        BY <1>1, PartType
      <4>2. QED BY <3>1, <4>1, Zenon DEF Drain
    <3>3. Fits(Part(n, s), limit)
      <4>1. Chain(Append(ps, Part(n, s)), limit)
        BY <1>2, <3>2, Zenon
      <4>2. QED BY <1>1, <3>2, <4>1, ChainFront, Zenon
    <3>4. Full(Part(n, s), r, limit)
      BY <3>1, <3>2, <3>3, ClosesFull
    <3>5. qs[Len(qs)] = Part(n, s)
      <4>1. Append(ps, Part(n, s))[Len(Append(ps, Part(n, s)))] = Part(n, s)
        BY <1>1, <3>2
      <4>2. QED BY <3>2, <4>1, Zenon
    <3>6. QED BY <3>4, <3>5
  <2> HIDE DEF qs, p, new
  <2>5. Chain(Append(qs, p), limit)
    <3>1. Chain(qs, limit)
      BY <1>2 DEF qs
    <3>2. QED BY <2>1, <2>3, <2>4, <3>1, ChainAppend
  <2>6. RequestsOf(Append(qs, p)) = Append(rows, r)
    <3>1. RequestsOf(Append(qs, p)) = RequestsOf(qs) \o <<r>>
      BY <2>1, <2>3, RequestsAppend
    <3>2. RequestsOf(qs) = rows
      BY <1>2 DEF qs
    <3>3. rows \o <<r>> = Append(rows, r)
      OBVIOUS
    <3>4. QED BY <3>1, <3>2, <3>3
  <2>7. p = Part(Len(qs), <<r>>)
    BY DEF p
  <2>8. Packs(limit, Append(rows, r), new)
    BY <2>1, <2>2, <2>5, <2>6, <2>7, PacksIf, Zenon
  <2>9. QED BY <2>8 DEF new
<1>4. CASE ~Closes(limit, st, r) /\ s # << >>
  <2> DEFINE q == Append(s, r)  p == Part(n, s)  g == Part(n, q)
  <2>1. q \in Seq(Requests) /\ q # << >> /\ q[1] = s[1]
    BY <1>1, <1>4
  <2>2. /\ p \in Parts /\ p.requests = s
        /\ g \in Parts /\ g.requests = q /\ g.part_index = n
    <3>1. p \in Parts /\ p.requests = s
      BY <1>1, PartType, Zenon
    <3> HIDE DEF q
    <3>2. g \in Parts /\ g.requests = q /\ g.part_index = n
      BY <1>1, <2>1, PartType, Zenon
    <3>3. QED BY <3>1, <3>2, Zenon
  <2>3. Drain(st) = Append(ps, p)
    BY <1>4, Zenon DEF Drain
  <2>4. new = [parts |-> ps, acc |-> q]
    <3>1. new = [st EXCEPT !.acc = Append(@, r)]
      BY <1>4, Zenon DEF AssembleRow
    <3>2. QED BY <3>1, AccUpdate, Zenon
  <2>5. /\ Chain(ps, limit) /\ Fits(p, limit)
        /\ ps # << >> => Full(ps[n], s[1], limit)
    <3>1. Chain(Append(ps, p), limit)
      BY <1>2, <2>3
    <3> HIDE DEF p
    <3>2. QED BY <1>1, <2>2, <3>1, ChainFront
  <2>6. ~Full(p, r, limit)
    BY <1>4, <2>2, <2>5, ClosesFull
  <2>7. Fits(g, limit)
    BY <1>1, <2>5, <2>6, GrownFits
  <2>8. RequestsOf(ps) \in Seq(Requests) /\ RequestsOf(ps) \o s = rows
    <3>1. RequestsOf(ps) \in Seq(Requests) /\ RequestsOf(Append(ps, p)) = RequestsOf(ps) \o p.requests
      BY <1>1, <2>2, RequestsAppend
    <3>2. QED BY <1>2, <2>2, <2>3, <3>1
  <2> HIDE DEF g, p, q, new
  <2>9. Chain(Append(ps, g), limit)
    BY <1>1, <2>1, <2>2, <2>5, <2>7, ChainAppend
  <2>10. RequestsOf(Append(ps, g)) = Append(rows, r)
    <3>1. RequestsOf(Append(ps, g)) = RequestsOf(ps) \o q
      BY <1>1, <2>2, RequestsAppend
    <3>2. RequestsOf(ps) \o Append(s, r) = Append(RequestsOf(ps) \o s, r)
      BY <1>1, <2>8, ConcatAppend, Zenon
    <3>3. QED BY <2>8, <3>1, <3>2 DEF q
  <2>11. g = Part(Len(ps), q)
    BY DEF g
  <2>12. Packs(limit, Append(rows, r), new)
    BY <2>1, <2>4, <2>9, <2>10, <2>11, PacksIf, Zenon
  <2>13. QED BY <2>12 DEF new
<1>5. QED BY <1>3, <1>4

\* Rows of which none is too large on its own are packed greedily.
LEMMA AssembledGreedy ==
  ASSUME NEW limit \in Nat, NEW rows \in Seq(Requests),
         \A i \in DOMAIN rows : ~Oversize(rows[i], limit)
  PROVE  Assembled(limit, rows) \in Seq(Parts) /\ GreedyPartition(rows, Assembled(limit, rows), limit)
<1> DEFINE Small(s) == \A i \in DOMAIN s : ~Oversize(s[i], limit)
           T == {s \in Seq(Requests) : Small(s) => Packs(limit, s, Packed(limit, s))}
<1>1. << >> \in T
  <2>1. Packed(limit, << >>) = Nothing /\ Nothing.acc = << >> /\ Nothing.parts = << >>
    BY PackedEmpty DEF Nothing
  <2>2. Drain(Nothing) = << >>
    BY <2>1 DEF Drain
  <2>3. GreedyPartition(<< >>, << >>, limit)
    BY RequestsEmpty DEF GreedyPartition
  <2>4. Packs(limit, << >>, Nothing)
    BY <2>1, <2>2, <2>3, Zenon DEF Packs
  <2>5. QED BY <2>1, <2>4
<1>2. ASSUME NEW s \in Seq(Requests), NEW r \in Requests, s \in T PROVE Append(s, r) \in T
  <2>1. Append(s, r) \in Seq(Requests)
    OBVIOUS
  <2> SUFFICES ASSUME Small(Append(s, r)) PROVE Packs(limit, Append(s, r), Packed(limit, Append(s, r)))
    BY <2>1
  <2>2. /\ \A i \in DOMAIN s : i \in DOMAIN Append(s, r) /\ Append(s, r)[i] = s[i]
        /\ Len(s) + 1 \in DOMAIN Append(s, r) /\ Append(s, r)[Len(s) + 1] = r
    OBVIOUS
  <2>3. Small(s) /\ ~Oversize(r, limit)
    BY <2>2, Zenon
  <2>4. Packs(limit, s, Packed(limit, s))
    BY <1>2, <2>3
  <2>5. Packed(limit, s) \in Packing /\ Packed(limit, Append(s, r)) = AssembleRow(limit, Packed(limit, s), r)
    BY PackedAppend
  <2>6. QED BY <2>3, <2>4, <2>5, RowPacks
<1>3. Inductive(Requests, T)
  BY <1>1, <1>2 DEF Inductive
<1>4. Packs(limit, rows, Packed(limit, rows))
  <2> HIDE DEF T
  <2>1. rows \in T
    BY <1>3, SeqInduction
  <2>2. QED BY <2>1 DEF T
<1>5. Packed(limit, rows) \in Packing
  <2>1. PICK g : IsRun(Packing, Nothing, Assembling(limit, rows), Len(rows), g)
                 /\ Packed(limit, rows) = g[Len(rows)]
    BY PackedRun, Zenon
  <2>2. Len(rows) \in 0 .. Len(rows)
    OBVIOUS
  <2>3. QED BY <2>1, <2>2 DEF IsRun
<1>6. Assembled(limit, rows) \in Seq(Parts)
  BY <1>5, DrainType DEF Assembled
<1>7. QED BY <1>4, <1>6 DEF Packs, Assembled

-----------------------------------------------------------------------------
(* The inductive invariant.                                                *)

Phases == {"idle", "read", "waiting", "locked", "returned"}
Calls == [phase : Phases, limit : Nat, rows : Seq(Requests), parts : Seq(Parts),
          pending : Seq(Parts), outcome : Outcomes, result : Result]

\* What a transaction has written is a prefix of the parts, and their requests are
\* still queued and unassigned.
Writes(c, unassigned) ==
  /\ c.phase # "locked" => c.pending = << >>
  /\ Len(c.pending) <= Len(c.parts)
  /\ \A i \in DOMAIN c.pending :
       c.pending[i] = c.parts[i] /\ ToSet(c.pending[i].requests) \subseteq unassigned

\* A call has read each request once, and packed what it read.
Assembles(c) ==
  /\ IsInjective(c.rows)
  /\ c.phase \in {"waiting", "locked"} => GreedyPartition(c.rows, c.parts, c.limit)

\* What a call that returned knows of the files fs.
Answers(c, fs) ==
  /\ c.outcome = "existing" => fs # << >>
  /\ c.outcome = "prepared" /\ c.rows # << >> => GreedyPartition(c.rows, fs, c.limit)
  /\ c.outcome # "error" =>
       c.result = Categorized(fs) \/ (c.result = NoResult /\ c.rows = << >>)

CallInv(c, unassigned, there, fs) ==
  /\ Writes(c, unassigned)
  /\ Assembles(c)
  /\ c.phase = "returned" /\ there => Answers(c, fs)

CallsInv == \A w \in Workers : CallInv(worker[w], Unassigned, exists, files)

\* The lock is held by the call that is persisting, and the batch is there.
LockInv ==
  /\ \A w \in Workers : worker[w].phase = "locked" <=> lock = w
  /\ lock # NULL => exists

\* Only files assign requests.
NoneAssigned == files = << >> => \A r \in Requests : file[r] = NULL

IInv ==
  /\ TypeOK
  /\ LockInv
  /\ CallsInv
  /\ NoneAssigned
  /\ EachRequestOnce
  /\ TotalsMatchFiles

\* Only a queued request is given to a file: a request that a host claims while
\* a call assembles is never pulled into the batch.
AssignedWhileQueued ==
  [][\A r \in Requests : file'[r] # file[r] /\ file'[r] # NULL => r \in Unassigned]_vars

\* The fields of a call.
LEMMA CallFields ==
  ASSUME NEW c \in Calls
  PROVE  /\ c.phase \in Phases /\ c.limit \in Nat /\ c.rows \in Seq(Requests)
         /\ c.parts \in Seq(Parts) /\ c.pending \in Seq(Parts)
         /\ c.outcome \in Outcomes /\ c.result \in Result
BY DEF Calls

\* The type invariant, with the type of a call named.
LEMMA WorkersTyped ==
  TypeOK <=> /\ exists \in BOOLEAN
             /\ status \in [Requests -> {"absent", "queued", "claimed"}]
             /\ file \in [Requests -> Nat \cup {NULL}]
             /\ files \in Seq(Parts)
             /\ totals \in [requests : Nat, tokens : Nat]
             /\ lock \in Workers \cup {NULL}
             /\ worker \in [Workers -> Calls]
BY Zenon DEF TypeOK, Calls, Phases, Result

\* Nothing is lost for the transactions when unassigned requests they have not
\* written change.
LEMMA WritesKept ==
  ASSUME NEW c \in Calls, NEW u, NEW u2, Writes(c, u),
         \A i \in DOMAIN c.pending : ToSet(c.pending[i].requests) \cap u \subseteq u2
  PROVE  Writes(c, u2)
<1>1. ASSUME NEW i \in DOMAIN c.pending
      PROVE  c.pending[i] = c.parts[i] /\ ToSet(c.pending[i].requests) \subseteq u2
  <2>1. c.pending[i] = c.parts[i] /\ ToSet(c.pending[i].requests) \subseteq u
    BY <1>1, Zenon DEF Writes
  <2>2. QED BY <2>1, Zenon
<1>2. QED BY <1>1, Zenon DEF Writes

\* A call that has written nothing claims nothing.
LEMMA NothingWritten ==
  ASSUME NEW c \in Calls, NEW u, c.pending = << >>
  PROVE  Writes(c, u)
<1>1. Len(c.parts) \in Nat
  BY CallFields
<1>2. Len(c.pending) <= Len(c.parts) /\ DOMAIN c.pending = {}
  BY <1>1
<1>3. QED BY <1>2, Zenon DEF Writes

\* A call that returned before there was a file had read nothing.
LEMMA AnswersEmpty ==
  ASSUME NEW c \in Calls, Answers(c, << >>), NEW fs
  PROVE  Answers(c, fs)
<1>1. c.outcome \in {"prepared", "existing", "error"}
  BY CallFields DEF Outcomes
<1>2. c.outcome # "existing"
  BY DEF Answers
<1>3. c.outcome = "prepared" => c.rows = << >>
  <2>1. GreedyPartition(c.rows, << >>, c.limit) => RequestsOf(<< >>) = c.rows
    BY Zenon DEF GreedyPartition
  <2>2. QED BY <2>1, RequestsEmpty DEF Answers
<1>4. c.outcome = "prepared" => c.result = NoResult
  BY CategorizedEmpty DEF Answers
<1>5. QED BY <1>1, <1>2, <1>3, <1>4 DEF Answers

\* A step of one call that changes nothing but the call and the lock.
LEMMA WorkerStep ==
  ASSUME IInv, NEW w \in Workers, UNCHANGED database,
         worker' \in [Workers -> Calls], \A v \in Workers : v # w => worker'[v] = worker[v],
         lock' \in Workers \cup {NULL}, LockInv',
         CallInv(worker'[w], Unassigned, exists, files)
  PROVE  IInv'
<1>1. /\ exists' = exists /\ status' = status /\ file' = file /\ files' = files
      /\ totals' = totals
  BY DEF database
<1>2. Unassigned' = Unassigned
  BY <1>1 DEF Unassigned
<1>3. TypeOK'
  BY <1>1, WorkersTyped DEF IInv, TypeOK, Calls, Phases, Result
<1>4. CallsInv'
  <2>1. ASSUME NEW v \in Workers PROVE CallInv(worker'[v], Unassigned, exists, files)
    <3>1. CASE v = w
      BY <3>1
    <3>2. CASE v # w
      BY <3>2 DEF IInv, CallsInv
    <3>3. QED BY <3>1, <3>2
  <2>2. QED BY <1>1, <1>2, <2>1, Zenon DEF CallsInv
<1>5. NoneAssigned' /\ EachRequestOnce' /\ TotalsMatchFiles'
  BY <1>1, Zenon DEF IInv, NoneAssigned, EachRequestOnce, TotalsMatchFiles
<1>6. QED BY <1>3, <1>4, <1>5, Zenon DEF IInv

\* What Return writes.
LEMMA ReturnFields ==
  ASSUME TypeOK, NEW w \in Workers, NEW result \in Result, NEW outcome \in Outcomes,
         Return(w, result, outcome)
  PROVE  /\ worker' \in [Workers -> Calls] /\ \A v \in Workers : v # w => worker'[v] = worker[v]
         /\ worker'[w].phase = "returned" /\ worker'[w].outcome = outcome
         /\ worker'[w].result = result /\ worker'[w].pending = << >>
         /\ worker'[w].rows = worker[w].rows /\ worker'[w].limit = worker[w].limit
         /\ lock' \in Workers \cup {NULL}
<1>1. worker \in [Workers -> Calls] /\ lock \in Workers \cup {NULL}
  BY WorkersTyped
<1>2. << >> \in Seq(Parts) /\ "returned" \in Phases
  BY DEF Phases
<1>3. lock' \in Workers \cup {NULL}
  BY <1>1 DEF Return
<1>4. \A v \in Workers : v # w => worker'[v] = worker[v]
  BY <1>1 DEF Return
<1>5. /\ worker'[w] \in Calls
      /\ worker'[w].phase = "returned" /\ worker'[w].outcome = outcome
      /\ worker'[w].result = result /\ worker'[w].pending = << >>
      /\ worker'[w].rows = worker[w].rows /\ worker'[w].limit = worker[w].limit
  BY <1>1, <1>2 DEF Return, Calls
<1>6. worker' \in [Workers -> Calls]
  <2>1. \A v \in Workers : worker'[v] \in Calls
    BY <1>1, <1>4, <1>5
  <2>2. worker' = [v \in Workers |-> worker'[v]]
    BY <1>1 DEF Return
  <2>3. QED BY <2>1, <2>2
<1>7. QED BY <1>3, <1>4, <1>5, <1>6

\* Return gives up the lock.
LEMMA ReturnLock ==
  ASSUME TypeOK, LockInv, NEW w \in Workers, NEW result \in Result, NEW outcome \in Outcomes,
         Return(w, result, outcome), exists' = exists
  PROVE  LockInv'
<1>1. /\ \A v \in Workers : v # w => worker'[v] = worker[v]
      /\ worker'[w].phase = "returned"
  BY ReturnFields
<1>2. lock' = IF lock = w THEN NULL ELSE lock
  BY DEF Return
<1>3. NULL \notin Workers
  BY ConstantsAssumption
<1>4. ASSUME NEW v \in Workers PROVE worker'[v].phase = "locked" <=> lock' = v
  <2>1. CASE v = w
    BY <1>1, <1>2, <1>3, <2>1
  <2>2. CASE v # w
    BY <1>1, <1>2, <1>3, <2>2 DEF LockInv
  <2>3. QED BY <2>1, <2>2
<1>5. lock' # NULL => exists'
  BY <1>2 DEF LockInv
<1>6. QED BY <1>4, <1>5 DEF LockInv

\* A call that returns without writing.
LEMMA ReturnStep ==
  ASSUME IInv, NEW w \in Workers, NEW result \in Result, NEW outcome \in Outcomes,
         Return(w, result, outcome), UNCHANGED database,
         exists => Answers(worker'[w], files)
  PROVE  IInv'
<1>1. TypeOK /\ LockInv /\ CallInv(worker[w], Unassigned, exists, files)
  BY DEF IInv, CallsInv
<1>2. exists' = exists
  BY DEF database
<1>3. LockInv'
  BY <1>1, <1>2, ReturnLock
<1>4. /\ worker' \in [Workers -> Calls] /\ \A v \in Workers : v # w => worker'[v] = worker[v]
      /\ worker'[w].phase = "returned" /\ worker'[w].pending = << >>
      /\ worker'[w].rows = worker[w].rows /\ lock' \in Workers \cup {NULL}
  BY <1>1, ReturnFields
<1>5. worker'[w] \in Calls
  BY <1>4
<1>6. Writes(worker'[w], Unassigned)
  BY <1>4, <1>5, NothingWritten
<1>7. Assembles(worker'[w])
  BY <1>1, <1>4 DEF CallInv, Assembles
<1>8. CallInv(worker'[w], Unassigned, exists, files)
  BY <1>6, <1>7, Zenon DEF CallInv
<1>9. QED BY <1>3, <1>4, <1>8, WorkerStep

\* A call that raises leaves the database as it was.
LEMMA RaiseStep ==
  ASSUME IInv, NEW w \in Workers, Raise(w), UNCHANGED database
  PROVE  IInv'
<1>1. NoResult \in Result /\ "error" \in Outcomes
  BY DEF NoResult, Result, Outcomes
<1>2. Return(w, NoResult, "error") /\ TypeOK
  BY DEF Raise, IInv
<1>3. worker'[w].outcome = "error"
  BY <1>1, <1>2, ReturnFields
<1>4. Answers(worker'[w], files)
  BY <1>3 DEF Answers
<1>5. QED BY <1>1, <1>2, <1>4, ReturnStep

\* The limit of a call.
LEMMA LimitType ==
  ASSUME NEW override \in Overrides
  PROVE  EffectiveLimit(override) \in Nat
<1>1. PerBatch \in Nat /\ 100 - Buffer \in Nat /\ override \in Nat \cup {NULL}
  BY ConstantsAssumption
<1>2. \A a, b \in Nat : (a * b) \div 100 \in Nat
  <2>1. \A a, b \in Nat : a * b \in Nat
    OBVIOUS
  <2>2. \A n \in Nat : n \div 100 \in Nat
    OBVIOUS
  <2>3. QED BY <2>1, <2>2, Zenon
<1>3. (PerBatch * (100 - Buffer)) \div 100 \in Nat
  BY <1>1, <1>2
<1>4. QED BY <1>1, <1>3 DEF EffectiveLimit

\* A listing has each request once.
LEMMA ListingType ==
  ASSUME NEW rows \in Listings(Unassigned)
  PROVE  rows \in Seq(Requests) /\ IsInjective(rows)
<1>1. Unassigned \subseteq Requests
  BY DEF Unassigned
<1>2. Cardinality(Unassigned) \in Nat
  <2>1. IsFiniteSet(Unassigned)
    BY <1>1, ConstantsAssumption, FS_Subset
  <2>2. QED BY <2>1, FS_CardinalityType
<1>3. rows \in SetToSeqs(Unassigned)
  BY Zenon DEF Listings
<1> DEFINE n == Cardinality(Unassigned)
<1>4. rows \in [1 .. n -> Unassigned] /\ \A i, j \in 1 .. n : i # j => rows[i] # rows[j]
  BY <1>3, Zenon DEF SetToSeqs
<1> HIDE DEF n
<1>5. rows \in [1 .. n -> Requests] /\ n \in Nat
  BY <1>1, <1>2, <1>4 DEF n
<1>6. rows \in Seq(Requests)
  BY <1>5
<1>7. DOMAIN rows = 1 .. n
  BY <1>5
<1>8. QED BY <1>4, <1>6, <1>7, Zenon DEF IsInjective

-----------------------------------------------------------------------------
(* The steps of a call.                                                    *)

\* A step that neither takes nor gives up the lock.
LEMMA LockKept ==
  ASSUME LockInv, NEW w \in Workers, lock' = lock, exists' = exists,
         \A v \in Workers : v # w => worker'[v] = worker[v],
         worker'[w].phase = "locked" <=> worker[w].phase = "locked"
  PROVE  LockInv'
BY DEF LockInv

\* The rows that a call reads are distinct.
LEMMA ReadStep ==
  ASSUME IInv, NEW w \in Workers, Read(w)
  PROVE  IInv'
<1>1. TypeOK /\ LockInv /\ CallInv(worker[w], Unassigned, exists, files) /\ worker \in [Workers -> Calls]
      /\ lock \in Workers \cup {NULL}
  BY WorkersTyped DEF IInv, CallsInv
<1>2. PICK rows \in Listings(Unassigned), override \in Overrides :
        worker' = [worker EXCEPT ![w].phase = "read", ![w].rows = rows,
                                 ![w].limit = EffectiveLimit(override)]
  BY DEF Read
<1>3. worker[w].phase = "idle" /\ UNCHANGED <<database, lock>>
  BY DEF Read
<1>4. rows \in Seq(Requests) /\ IsInjective(rows) /\ EffectiveLimit(override) \in Nat
  BY ListingType, LimitType
<1>5. /\ worker' \in [Workers -> Calls] /\ \A v \in Workers : v # w => worker'[v] = worker[v]
      /\ worker'[w].phase = "read" /\ worker'[w].pending = worker[w].pending
      /\ worker'[w].rows = rows
  <2>1. "read" \in Phases
    BY DEF Phases
  <2>2. QED BY <1>1, <1>2, <1>4, <2>1 DEF Calls
<1>6. LockInv'
  <2>1. lock' = lock /\ exists' = exists
    BY <1>3 DEF database
  <2>2. QED BY <1>1, <1>3, <1>5, <2>1, LockKept
<1>7. worker'[w] \in Calls
  BY <1>5
<1>8. Writes(worker'[w], Unassigned)
  <2>1. worker[w].pending = << >>
    BY <1>1, <1>3 DEF CallInv, Writes
  <2>2. QED BY <1>5, <1>7, <2>1, NothingWritten
<1>9. Assembles(worker'[w])
  BY <1>4, <1>5 DEF Assembles
<1>10. CallInv(worker'[w], Unassigned, exists, files)
  BY <1>5, <1>8, <1>9 DEF CallInv
<1>11. QED BY <1>1, <1>3, <1>5, <1>6, <1>10, WorkerStep

\* The parts that a call assembles are the greedy partition of its rows.
LEMMA AssembleStep ==
  ASSUME IInv, NEW w \in Workers, Assemble(w)
  PROVE  IInv'
<1> DEFINE c == worker[w]  ps == Assembled(c.limit, c.rows)
<1>1. TypeOK /\ LockInv /\ CallInv(c, Unassigned, exists, files) /\ worker \in [Workers -> Calls]
      /\ lock \in Workers \cup {NULL}
  BY WorkersTyped DEF IInv, CallsInv
<1>2. /\ c.phase = "read" /\ UNCHANGED <<database, lock>>
      /\ \A i \in DOMAIN c.rows : ~Oversize(c.rows[i], c.limit)
      /\ worker' = [worker EXCEPT ![w].phase = "waiting", ![w].parts = ps]
  BY DEF Assemble
<1>3. c.limit \in Nat /\ c.rows \in Seq(Requests)
  BY <1>1, CallFields
<1>4. ps \in Seq(Parts) /\ GreedyPartition(c.rows, ps, c.limit)
  BY <1>2, <1>3, AssembledGreedy
<1> HIDE DEF ps
<1>5. /\ worker' \in [Workers -> Calls] /\ \A v \in Workers : v # w => worker'[v] = worker[v]
      /\ worker'[w].phase = "waiting" /\ worker'[w].pending = c.pending
      /\ worker'[w].rows = c.rows /\ worker'[w].parts = ps /\ worker'[w].limit = c.limit
  <2>1. "waiting" \in Phases
    BY DEF Phases
  <2>2. QED BY <1>1, <1>2, <1>4, <2>1 DEF Calls
<1>6. LockInv'
  <2>1. lock' = lock /\ exists' = exists
    BY <1>2 DEF database
  <2>2. QED BY <1>1, <1>2, <1>5, <2>1, LockKept
<1>7. worker'[w] \in Calls
  BY <1>5
<1>8. Writes(worker'[w], Unassigned)
  <2>1. c.pending = << >>
    BY <1>1, <1>2 DEF CallInv, Writes
  <2>2. QED BY <1>5, <1>7, <2>1, NothingWritten
<1>9. Assembles(worker'[w])
  BY <1>1, <1>4, <1>5 DEF Assembles, CallInv
<1>10. CallInv(worker'[w], Unassigned, exists, files)
  BY <1>5, <1>8, <1>9 DEF CallInv
<1>11. QED BY <1>1, <1>2, <1>5, <1>6, <1>10, WorkerStep

\* A call that takes the lock is its only holder.
LEMMA LockStep ==
  ASSUME IInv, NEW w \in Workers, Lock(w)
  PROVE  IInv'
<1> DEFINE c == worker[w]
<1>1. TypeOK /\ LockInv /\ CallInv(c, Unassigned, exists, files) /\ worker \in [Workers -> Calls]
  BY WorkersTyped DEF IInv, CallsInv
<1>2. /\ c.phase = "waiting" /\ lock = NULL /\ exists /\ lock' = w /\ UNCHANGED database
      /\ worker' = [worker EXCEPT ![w].phase = "locked"]
  BY DEF Lock
<1>3. /\ worker' \in [Workers -> Calls] /\ \A v \in Workers : v # w => worker'[v] = worker[v]
      /\ worker'[w].phase = "locked" /\ worker'[w].pending = c.pending
      /\ worker'[w].rows = c.rows /\ worker'[w].parts = c.parts /\ worker'[w].limit = c.limit
  <2>1. "locked" \in Phases
    BY DEF Phases
  <2>2. QED BY <1>1, <1>2, <2>1 DEF Calls
<1>4. LockInv'
  <2>1. NULL \notin Workers /\ exists' = exists
    BY <1>2, ConstantsAssumption DEF database
  <2>2. ASSUME NEW v \in Workers PROVE worker'[v].phase = "locked" <=> lock' = v
    <3>1. worker[v].phase # "locked"
      BY <1>1, <1>2, <2>1 DEF LockInv
    <3>2. QED BY <1>2, <1>3, <3>1
  <2>3. QED BY <1>2, <2>1, <2>2 DEF LockInv
<1>5. worker'[w] \in Calls
  BY <1>3
<1>6. Writes(worker'[w], Unassigned)
  <2>1. c.pending = << >>
    BY <1>1, <1>2 DEF CallInv, Writes
  <2>2. QED BY <1>3, <1>5, <2>1, NothingWritten
<1>7. Assembles(worker'[w])
  BY <1>1, <1>2, <1>3 DEF Assembles, CallInv
<1>8. CallInv(worker'[w], Unassigned, exists, files)
  BY <1>3, <1>6, <1>7 DEF CallInv
<1>9. lock' \in Workers \cup {NULL}
  BY <1>2
<1>10. QED BY <1>2, <1>3, <1>4, <1>8, <1>9, WorkerStep

\* A part that is written holds requests that are queued and in no other part written.
LEMMA PersistStep ==
  ASSUME IInv, NEW w \in Workers, PersistPart(w)
  PROVE  IInv'
<1> DEFINE c == worker[w]  n == Len(c.pending)  p == c.parts[n + 1]
<1>1. TypeOK /\ LockInv /\ CallInv(c, Unassigned, exists, files) /\ worker \in [Workers -> Calls]
      /\ lock \in Workers \cup {NULL}
  BY WorkersTyped DEF IInv, CallsInv
<1>2. /\ c.phase = "locked" /\ n < Len(c.parts) /\ UNCHANGED <<database, lock>>
      /\ ToSet(p.requests) \subseteq Unassigned
      /\ worker' = [worker EXCEPT ![w].pending = Append(@, p)]
  BY Zenon DEF PersistPart, NextPart, PartsLeft
<1>3. c.parts \in Seq(Parts) /\ c.pending \in Seq(Parts) /\ c \in Calls
  BY <1>1, CallFields
<1>4. n \in Nat /\ n + 1 \in 1 .. Len(c.parts) /\ p \in Parts
  BY <1>2, <1>3
<1> DEFINE a == Append(c.pending, p)
<1>5. /\ a \in Seq(Parts) /\ Len(a) = n + 1 /\ DOMAIN a = 1 .. (n + 1) /\ a[n + 1] = p
      /\ \A i \in 1 .. n : a[i] = c.pending[i]
      /\ DOMAIN c.pending = 1 .. n
  BY <1>3, <1>4
<1>6. worker' = [worker EXCEPT ![w].pending = a]
  BY <1>1, <1>2
<1> HIDE DEF a
<1>7. /\ worker' \in [Workers -> Calls] /\ \A v \in Workers : v # w => worker'[v] = worker[v]
      /\ worker'[w].phase = "locked" /\ worker'[w].pending = a
      /\ worker'[w].rows = c.rows /\ worker'[w].parts = c.parts /\ worker'[w].limit = c.limit
  <2>1. worker \in [Workers -> Calls] /\ c.phase = "locked" /\ a \in Seq(Parts)
    BY <1>1, <1>2, <1>5
  <2>2. QED BY <1>6, <2>1 DEF Calls
<1>8. LockInv'
  <2>1. lock' = lock /\ exists' = exists
    BY <1>2 DEF database
  <2>2. QED BY <1>1, <1>2, <1>7, <2>1, LockKept
<1>9. Writes(worker'[w], Unassigned)
  <2>1. ASSUME NEW i \in 1 .. (n + 1)
        PROVE  a[i] = c.parts[i] /\ ToSet(a[i].requests) \subseteq Unassigned
    <3>1. CASE i = n + 1
      <4>1. a[i] = p
        BY <1>5, <3>1
      <4>2. QED BY <1>2, <3>1, <4>1
    <3>2. CASE i \in 1 .. n
      <4>1. c.pending[i] = c.parts[i] /\ ToSet(c.pending[i].requests) \subseteq Unassigned
        BY <1>1, <1>5, <3>2, Zenon DEF CallInv, Writes
      <4>2. a[i] = c.pending[i]
        BY <1>5, <3>2
      <4>3. QED BY <4>1, <4>2
    <3>3. QED BY <1>4, <3>1, <3>2
  <2>2. Len(a) <= Len(c.parts)
    BY <1>4, <1>5
  <2>3. QED BY <1>5, <1>7, <2>1, <2>2, Zenon DEF Writes
<1>10. Assembles(worker'[w])
  BY <1>1, <1>2, <1>7 DEF Assembles, CallInv
<1>11. CallInv(worker'[w], Unassigned, exists, files)
  BY <1>7, <1>9, <1>10 DEF CallInv
<1>12. QED BY <1>1, <1>2, <1>7, <1>8, <1>11, WorkerStep

\* An idle call satisfies the invariant of calls in any database.
LEMMA IdleCall == Idle \in Calls /\ \A u, there, fs : CallInv(Idle, u, there, fs)
<1>1. Idle \in Calls
  BY DEF Idle, Calls, Phases, Outcomes, Result, NoResult
<1>2. Idle.phase = "idle" /\ Idle.pending = << >> /\ Idle.rows = << >>
  BY DEF Idle
<1>3. IsInjective(<< >>)
  BY DEF IsInjective
<1>4. Assembles(Idle)
  BY <1>2, <1>3 DEF Assembles
<1>5. \A u : Writes(Idle, u)
  BY <1>1, <1>2, NothingWritten
<1>6. QED BY <1>1, <1>2, <1>4, <1>5, Zenon DEF CallInv

\* A worker that is free again has no call.
LEMMA ResumeStep ==
  ASSUME IInv, NEW w \in Workers, Resume(w)
  PROVE  IInv'
<1>1. TypeOK /\ LockInv /\ worker \in [Workers -> Calls] /\ lock \in Workers \cup {NULL}
  BY WorkersTyped DEF IInv
<1>2. worker[w].phase = "returned" /\ UNCHANGED <<database, lock>> /\ worker' = [worker EXCEPT ![w] = Idle]
  BY DEF Resume
<1>3. /\ worker' \in [Workers -> Calls] /\ \A v \in Workers : v # w => worker'[v] = worker[v]
      /\ worker'[w] = Idle
  BY <1>1, <1>2, IdleCall
<1>4. LockInv'
  <2>1. lock' = lock /\ exists' = exists
    BY <1>2 DEF database
  <2>2. Idle.phase = "idle"
    BY DEF Idle
  <2>3. QED BY <1>1, <1>2, <1>3, <2>1, <2>2, LockKept
<1>5. CallInv(worker'[w], Unassigned, exists, files)
  BY <1>3, IdleCall
<1>6. QED BY <1>1, <1>2, <1>3, <1>4, <1>5, WorkerStep

\* The files of a returned result are files.
LEMMA CategorizedType ==
  ASSUME NEW fs \in Seq(Parts)
  PROVE  Categorized(fs) \in Result
<1>1. PICK g : IsRun(Result, NoResult, Sorting(fs), Len(fs), g) /\ Categorized(fs) = g[Len(fs)]
  BY CategorizedRun, Zenon
<1>2. Len(fs) \in 0 .. Len(fs)
  OBVIOUS
<1>3. QED BY <1>1, <1>2 DEF IsRun

\* A caller that finds files returns them.
LEMMA ExistingStep ==
  ASSUME IInv, NEW w \in Workers, ReturnExisting(w)
  PROVE  IInv'
<1>1. TypeOK /\ files \in Seq(Parts)
  BY WorkersTyped DEF IInv
<1>2. files # << >> /\ Return(w, Categorized(files), "existing") /\ UNCHANGED database
  BY DEF ReturnExisting, Prepared
<1>3. Categorized(files) \in Result /\ "existing" \in Outcomes
  BY <1>1, CategorizedType DEF Outcomes
<1>4. worker'[w].outcome = "existing" /\ worker'[w].result = Categorized(files)
  BY <1>1, <1>2, <1>3, ReturnFields
<1>5. Answers(worker'[w], files)
  BY <1>2, <1>4 DEF Answers
<1>6. QED BY <1>2, <1>3, <1>5, ReturnStep

-----------------------------------------------------------------------------
(* The commit.                                                             *)

\* What is written is everything the call has packed.
LEMMA WrittenParts ==
  ASSUME NEW c \in Calls, NEW u, Writes(c, u), ~(Len(c.pending) < Len(c.parts))
  PROVE  c.pending = c.parts
<1>1. c.pending \in Seq(Parts) /\ c.parts \in Seq(Parts)
  BY CallFields
<1>2. Len(c.pending) = Len(c.parts)
  <2>1. Len(c.pending) \in Nat /\ Len(c.parts) \in Nat /\ Len(c.pending) <= Len(c.parts)
    BY <1>1 DEF Writes
  <2>2. QED BY <2>1
<1>3. \A i \in 1 .. Len(c.pending) : c.pending[i] = c.parts[i]
  <2>1. DOMAIN c.pending = 1 .. Len(c.pending)
    BY <1>1
  <2>2. QED BY <2>1, Zenon DEF Writes
<1>4. QED BY <1>1, <1>2, <1>3, SeqEqual

\* The parts of a greedy partition are numbered and counted.
LEMMA GreedyParts ==
  ASSUME NEW rows, NEW ps \in Seq(Parts), NEW limit, GreedyPartition(rows, ps, limit)
  PROVE  Numbered(ps) /\ Counted(ps) /\ RequestsOf(ps) = rows
BY DEF GreedyPartition, Numbered, Counted, Fits

\* The assignment of the requests agrees with the files that were written.
LEMMA AssignmentAgrees ==
  ASSUME NEW ps \in Seq(Parts), Numbered(ps), Apart(ps), NEW fl,
         fl = [r \in Requests |->
             IF \E i \in DOMAIN ps : r \in ToSet(ps[i].requests)
               THEN ps[CHOOSE i \in DOMAIN ps : r \in ToSet(ps[i].requests)].part_index
               ELSE NULL]
  PROVE  /\ fl \in [Requests -> Nat \cup {NULL}]
         /\ \A r \in Requests, i \in DOMAIN ps :
              r \in ToSet(ps[i].requests) <=> fl[r] = ps[i].part_index
         /\ \A r \in Requests : fl[r] # NULL => \E i \in DOMAIN ps : r \in ToSet(ps[i].requests)
<1> DEFINE Pick(r) == CHOOSE i \in DOMAIN ps : r \in ToSet(ps[i].requests)
           Has(r) == \E i \in DOMAIN ps : r \in ToSet(ps[i].requests)
<1>1. \A r \in Requests : Has(r) => Pick(r) \in DOMAIN ps /\ r \in ToSet(ps[Pick(r)].requests)
  BY Zenon
<1>2. \A r \in Requests : fl[r] = IF Has(r) THEN ps[Pick(r)].part_index ELSE NULL
  BY Zenon
<1>3. DOMAIN fl = Requests /\ fl = [r \in Requests |-> fl[r]]
  BY Zenon
<1> HIDE DEF Pick
<1>4. DOMAIN ps = 1 .. Len(ps) /\ \A i \in DOMAIN ps : ps[i] \in Parts /\ i \in Nat
  OBVIOUS
<1>5. \A i \in DOMAIN ps : ps[i].part_index = i - 1 /\ ps[i].part_index \in Nat
  BY <1>4, PartFields DEF Numbered
<1>6. NULL \notin Nat
  BY ConstantsAssumption
<1>7. ASSUME NEW r \in Requests, NEW i \in DOMAIN ps, r \in ToSet(ps[i].requests)
      PROVE  fl[r] = ps[i].part_index
  <2>1. Has(r)
    BY <1>7
  <2>2. Pick(r) \in DOMAIN ps /\ r \in ToSet(ps[Pick(r)].requests)
    BY <1>1, <2>1, Zenon
  <2>3. Pick(r) = i
    BY <1>4, <1>7, <2>2, Zenon DEF Apart
  <2> HIDE DEF Has
  <2>4. fl[r] = ps[Pick(r)].part_index
    BY <1>2, <2>1, Zenon
  <2>5. QED BY <2>3, <2>4
<1>8. ASSUME NEW r \in Requests, fl[r] # NULL PROVE Has(r)
  <2> HIDE DEF Has
  <2>1. QED BY <1>2, <1>8, Zenon
<1>9. ASSUME NEW r \in Requests, NEW i \in DOMAIN ps, fl[r] = ps[i].part_index
      PROVE  r \in ToSet(ps[i].requests)
  <2>1. Has(r)
    <3>1. fl[r] # NULL
      BY <1>5, <1>6, <1>9
    <3>2. QED BY <1>8, <3>1, Zenon
  <2>2. Pick(r) \in DOMAIN ps /\ r \in ToSet(ps[Pick(r)].requests)
    BY <1>1, <2>1, Zenon
  <2>3. fl[r] = ps[Pick(r)].part_index
    BY <1>7, <2>2
  <2>4. Pick(r) = i
    <3>1. ps[Pick(r)].part_index = Pick(r) - 1 /\ Pick(r) \in Nat /\ ps[i].part_index = i - 1 /\ i \in Nat
      BY <1>4, <1>5, <2>2, Zenon
    <3>2. Pick(r) - 1 = i - 1
      BY <1>9, <2>3, <3>1, Zenon
    <3>3. QED BY <3>1, <3>2
  <2>5. QED BY <2>2, <2>4
<1>10. ASSUME NEW r \in Requests PROVE fl[r] \in Nat \cup {NULL}
  <2>1. CASE Has(r)
    <3>1. Pick(r) \in DOMAIN ps /\ r \in ToSet(ps[Pick(r)].requests)
      BY <1>1, <2>1, Zenon
    <3>2. fl[r] = ps[Pick(r)].part_index
      BY <1>7, <3>1
    <3>3. QED BY <1>5, <3>1, <3>2
  <2>2. CASE ~Has(r)
    BY <1>8, <2>2, Zenon
  <2>3. QED BY <2>1, <2>2
<1>11. fl \in [Requests -> Nat \cup {NULL}]
  BY <1>3, <1>10, Zenon
<1>12. QED BY <1>7, <1>8, <1>9, <1>11

\* The commit of a call, whether or not its caller hears of it.
LEMMA CommitStep ==
  ASSUME IInv, NEW w \in Workers, NEW result \in Result, NEW outcome \in Outcomes,
         Committed(w), Return(w, result, outcome),
         outcome = "error" \/ (outcome = "prepared" /\ result = Categorized(worker[w].pending))
  PROVE  IInv'
<1> DEFINE c == worker[w]  ps == worker[w].pending
<1>1. /\ TypeOK /\ LockInv /\ NoneAssigned /\ worker \in [Workers -> Calls]
      /\ file \in [Requests -> Nat \cup {NULL}]
      /\ \A v \in Workers : CallInv(worker[v], Unassigned, exists, files)
  BY WorkersTyped DEF IInv, CallsInv
<1>2. /\ c.phase = "locked" /\ files = << >> /\ ~(Len(ps) < Len(c.parts))
      /\ files' = ps /\ totals' = Totals(ps) /\ exists' = exists /\ status' = status
  BY DEF Committed, Prepared, PartsLeft
<1>3. c \in Calls /\ ps \in Seq(Parts) /\ Writes(c, Unassigned) /\ Assembles(c)
  <2>1. c \in Calls /\ CallInv(c, Unassigned, exists, files)
    BY <1>1
  <2>2. ps \in Seq(Parts)
    BY <2>1, CallFields
  <2>3. QED BY <2>1, <2>2, Zenon DEF CallInv
<1>4. ps = c.parts
  BY <1>2, <1>3, WrittenParts
<1>5. GreedyPartition(c.rows, ps, c.limit) /\ IsInjective(c.rows)
  BY <1>2, <1>3, <1>4 DEF Assembles
<1>6. Numbered(ps) /\ Counted(ps) /\ RequestsOf(ps) = c.rows
  BY <1>3, <1>5, GreedyParts
<1>7. Apart(ps)
  <2>1. IsInjective(RequestsOf(ps))
    BY <1>5, <1>6
  <2>2. QED BY <1>3, <2>1, PartsDisjoint
<1>8. file' = [r \in Requests |->
             IF \E i \in DOMAIN ps : r \in ToSet(ps[i].requests)
               THEN ps[CHOOSE i \in DOMAIN ps : r \in ToSet(ps[i].requests)].part_index
               ELSE NULL]
  <2>1. \A r \in Requests : file[r] = NULL
    BY <1>1, <1>2 DEF NoneAssigned
  <2>2. file' = [r \in Requests |->
             IF \E i \in DOMAIN ps : r \in ToSet(ps[i].requests)
               THEN ps[CHOOSE i \in DOMAIN ps : r \in ToSet(ps[i].requests)].part_index
               ELSE file[r]]
    BY Zenon DEF Committed
  <2>3. QED BY <2>1, <2>2, Zenon
<1>9. /\ file' \in [Requests -> Nat \cup {NULL}]
      /\ \A r \in Requests, i \in DOMAIN ps :
           r \in ToSet(ps[i].requests) <=> file'[r] = ps[i].part_index
      /\ \A r \in Requests : file'[r] # NULL => \E i \in DOMAIN ps : r \in ToSet(ps[i].requests)
  <2> HIDE DEF ps
  <2>1. QED BY <1>3, <1>6, <1>7, <1>8, AssignmentAgrees
<1>10. /\ worker' \in [Workers -> Calls] /\ \A v \in Workers : v # w => worker'[v] = worker[v]
       /\ worker'[w].phase = "returned" /\ worker'[w].outcome = outcome
       /\ worker'[w].result = result /\ worker'[w].pending = << >>
       /\ worker'[w].rows = c.rows /\ worker'[w].limit = c.limit
       /\ lock' \in Workers \cup {NULL}
  BY <1>1, ReturnFields
<1>11. LockInv'
  BY <1>1, <1>2, ReturnLock
<1> HIDE DEF ps, c
<1>12. /\ totals'.requests = Len(RequestsOf(ps)) /\ totals'.tokens = SumOver(TokensOf, RequestsOf(ps))
       /\ totals' \in [requests : Nat, tokens : Nat]
  <2>1. Totals(ps).requests = Len(RequestsOf(ps)) /\ Totals(ps).tokens = SumOver(TokensOf, RequestsOf(ps))
    BY <1>3, <1>6, TotalsOfParts
  <2>2. RequestsOf(ps) \in Seq(Requests)
    BY <1>3, RequestsType
  <2>3. Len(RequestsOf(ps)) \in Nat /\ SumOver(TokensOf, RequestsOf(ps)) \in Nat
    BY <2>2, WeightsType, SumType
  <2>4. \E a, b : Totals(ps) = [requests |-> a, tokens |-> b]
    BY Zenon DEF Totals
  <2>5. QED BY <1>2, <2>1, <2>3, <2>4
<1>13. TypeOK'
  <2>1. /\ exists' \in BOOLEAN /\ status' \in [Requests -> {"absent", "queued", "claimed"}]
        /\ files' \in Seq(Parts)
    BY <1>1, <1>2, <1>3 DEF TypeOK
  <2>2. QED BY <1>9, <1>10, <1>12, <2>1, Zenon DEF TypeOK, Calls, Phases, Result
<1>14. CallsInv'
  <2>1. ASSUME NEW v \in Workers, v # w PROVE CallInv(worker[v], Unassigned', exists, ps)
    <3>1. worker[v] \in Calls /\ CallInv(worker[v], Unassigned, exists, files)
      BY <1>1
    <3>2. worker[v].phase # "locked"
      BY <1>1, <1>2, <2>1 DEF LockInv, c
    <3>3. worker[v].pending = << >>
      BY <3>1, <3>2 DEF CallInv, Writes
    <3>4. Writes(worker[v], Unassigned')
      BY <3>1, <3>3, NothingWritten
    <3>5. worker[v].phase = "returned" /\ exists => Answers(worker[v], ps)
      <4>1. worker[v].phase = "returned" /\ exists => Answers(worker[v], << >>)
        BY <1>2, <3>1 DEF CallInv
      <4>2. QED BY <3>1, <4>1, AnswersEmpty
    <3>6. QED BY <3>1, <3>4, <3>5, Zenon DEF CallInv
  <2>2. CallInv(worker'[w], Unassigned', exists, ps)
    <3>1. worker'[w] \in Calls
      BY <1>10
    <3>2. Writes(worker'[w], Unassigned')
      BY <1>10, <3>1, NothingWritten
    <3>3. Assembles(worker'[w])
      BY <1>5, <1>10 DEF Assembles
    <3>4. Answers(worker'[w], ps)
      <4>1. CASE outcome = "error"
        BY <1>10, <4>1 DEF Answers
      <4>2. CASE outcome = "prepared" /\ result = Categorized(ps)
        BY <1>5, <1>10, <4>2 DEF Answers
      <4>3. QED BY <4>1, <4>2 DEF ps
    <3>5. QED BY <3>2, <3>3, <3>4, Zenon DEF CallInv
  <2>3. ASSUME NEW v \in Workers PROVE CallInv(worker'[v], Unassigned', exists', files')
    <3>1. CASE v = w
      BY <1>2, <2>2, <3>1
    <3>2. CASE v # w
      <4>1. worker'[v] = worker[v]
        BY <1>10, <3>2
      <4>2. QED BY <1>2, <2>1, <3>2, <4>1
    <3>3. QED BY <3>1, <3>2
  <2>4. QED BY <2>3, Zenon DEF CallsInv
<1>15. NoneAssigned'
  <2>1. ASSUME ps = << >>, NEW r \in Requests PROVE file'[r] = NULL
    <3>1. DOMAIN ps = {}
      BY <2>1
    <3>2. QED BY <1>9, <3>1, Zenon
  <2>2. QED BY <1>2, <2>1, Zenon DEF NoneAssigned
<1>16. EachRequestOnce'
  <2>1. IsInjective(RequestsOf(files'))
    BY <1>2, <1>5, <1>6
  <2>2. QED BY <1>2, <1>9, <2>1, Zenon DEF EachRequestOnce
<1>17. TotalsMatchFiles'
  BY <1>2, <1>12, Zenon DEF TotalsMatchFiles
<1>18. QED BY <1>11, <1>13, <1>14, <1>15, <1>16, <1>17, Zenon DEF IInv

-----------------------------------------------------------------------------
(* The steps of the hosts.                                                 *)

\* Where files, assignments and totals stay, so does what relates them.
LEMMA FilesKept ==
  ASSUME IInv, exists' = exists, file' = file, files' = files, totals' = totals
  PROVE  NoneAssigned' /\ EachRequestOnce' /\ TotalsMatchFiles'
BY Zenon DEF IInv, NoneAssigned, EachRequestOnce, TotalsMatchFiles

\* The status of a request that no transaction has written changes.
LEMMA StatusStep ==
  ASSUME IInv, NEW r \in Requests, ~RowLocked(r),
         NEW to \in {"absent", "queued", "claimed"}, status' = [status EXCEPT ![r] = to],
         UNCHANGED <<exists, file, files, totals, lock, worker>>
  PROVE  IInv'
<1>1. /\ exists' = exists /\ file' = file /\ files' = files /\ totals' = totals
      /\ lock' = lock /\ worker' = worker
  OBVIOUS
<1>2. TypeOK'
  BY <1>1 DEF IInv, TypeOK
<1>3. Unassigned \ {r} \subseteq Unassigned'
  BY <1>1 DEF IInv, TypeOK, Unassigned
<1>4. ASSUME NEW v \in Workers PROVE CallInv(worker[v], Unassigned', exists, files)
  <2>1. worker[v] \in Calls /\ CallInv(worker[v], Unassigned, exists, files)
    BY WorkersTyped DEF IInv, CallsInv
  <2>2. \A i \in DOMAIN worker[v].pending : r \notin ToSet(worker[v].pending[i].requests)
    BY Zenon DEF RowLocked
  <2>3. \A i \in DOMAIN worker[v].pending :
          ToSet(worker[v].pending[i].requests) \cap Unassigned \subseteq Unassigned'
    BY <1>3, <2>2, Zenon
  <2>4. Writes(worker[v], Unassigned)
    BY <2>1, Zenon DEF CallInv
  <2>5. Writes(worker[v], Unassigned')
    BY <2>1, <2>3, <2>4, WritesKept, Zenon
  <2>6. QED BY <2>1, <2>5, Zenon DEF CallInv
<1>5. CallsInv'
  BY <1>1, <1>4, Zenon DEF CallsInv
<1>6. LockInv'
  BY <1>1 DEF IInv, LockInv
<1>7. NoneAssigned' /\ EachRequestOnce' /\ TotalsMatchFiles'
  BY <1>1, FilesKept
<1>8. QED BY <1>2, <1>5, <1>6, <1>7, Zenon DEF IInv

\* Nothing is written by a transaction that is not open.
LEMMA NothingPending ==
  ASSUME IInv, lock = NULL, NEW v \in Workers
  PROVE  worker[v].pending = << >>
<1>1. worker[v].phase # "locked"
  <2>1. v # NULL
    BY ConstantsAssumption
  <2>2. QED BY <2>1 DEF IInv, LockInv
<1>2. QED BY <1>1, Zenon DEF IInv, CallsInv, CallInv, Writes

\* An insert waits for the lock, so no transaction has written.
LEMMA EnqueueStep ==
  ASSUME IInv, NEW r \in Requests, Enqueue(r)
  PROVE  IInv'
<1>1. /\ lock = NULL /\ status' = [status EXCEPT ![r] = "queued"]
      /\ UNCHANGED <<exists, file, files, totals, lock, worker>>
  BY DEF Enqueue
<1>2. \A v \in Workers : DOMAIN worker[v].pending = {}
  <2>1. \A v \in Workers : worker[v].pending = << >>
    BY <1>1, NothingPending
  <2>2. DOMAIN << >> = {}
    OBVIOUS
  <2>3. QED BY <2>1, <2>2, Zenon
<1>3. ~RowLocked(r)
  BY <1>2, Zenon DEF RowLocked
<1>4. QED BY <1>1, <1>3, StatusStep

\* A claim waits for the rows that a transaction has written.
LEMMA SetStatusStep ==
  ASSUME IInv, NEW r \in Requests, NEW from, NEW to \in {"absent", "queued", "claimed"},
         SetStatus(r, from, to)
  PROVE  IInv'
<1>1. /\ ~RowLocked(r) /\ status' = [status EXCEPT ![r] = to]
      /\ UNCHANGED <<exists, file, files, totals, lock, worker>>
  BY DEF SetStatus
<1>2. QED BY <1>1, StatusStep

\* A delete waits for the lock and removes every file and assignment.
LEMMA DeleteStep ==
  ASSUME IInv, DeleteBatch
  PROVE  IInv'
<1>1. /\ lock = NULL /\ exists' = FALSE /\ status' = [r \in Requests |-> "absent"]
      /\ file' = [r \in Requests |-> NULL] /\ files' = << >>
      /\ totals' = totals /\ lock' = lock /\ worker' = worker
  BY DEF DeleteBatch
<1>2. TypeOK'
  <2>1. << >> \in Seq(Parts)
    OBVIOUS
  <2>2. /\ status' \in [Requests -> {"absent", "queued", "claimed"}]
        /\ file' \in [Requests -> Nat \cup {NULL}]
    BY <1>1
  <2>3. QED BY <1>1, <2>1, <2>2 DEF IInv, TypeOK
<1>3. ASSUME NEW v \in Workers PROVE CallInv(worker[v], Unassigned', FALSE, << >>)
  <2>1. worker[v] \in Calls /\ CallInv(worker[v], Unassigned, exists, files)
    BY WorkersTyped DEF IInv, CallsInv
  <2>2. Writes(worker[v], Unassigned')
    BY <1>1, <2>1, NothingPending, NothingWritten
  <2>3. QED BY <2>1, <2>2, Zenon DEF CallInv
<1>4. CallsInv'
  BY <1>1, <1>3, Zenon DEF CallsInv
<1>5. LockInv'
  BY <1>1 DEF IInv, LockInv
<1>6. NoneAssigned'
  BY <1>1 DEF NoneAssigned
<1>7. EachRequestOnce'
  <2>1. IsInjective(<< >>) /\ DOMAIN << >> = {}
    BY DEF IsInjective
  <2>2. QED BY <1>1, <2>1, RequestsEmpty, Zenon DEF EachRequestOnce
<1>8. TotalsMatchFiles'
  BY <1>1, Zenon DEF TotalsMatchFiles
<1>9. QED BY <1>2, <1>4, <1>5, <1>6, <1>7, <1>8, Zenon DEF IInv

-----------------------------------------------------------------------------
(* The theorems.                                                           *)

\* The invariant holds at the start ...
LEMMA InitInv == Init => IInv
<1> SUFFICES ASSUME Init PROVE IInv
  OBVIOUS
<1>1. TypeOK
  <2>1. worker \in [Workers -> Calls]
    BY IdleCall DEF Init
  <2>2. /\ status \in [Requests -> {"absent", "queued", "claimed"}]
        /\ file \in [Requests -> Nat \cup {NULL}] /\ files \in Seq(Parts)
        /\ totals \in [requests : Nat, tokens : Nat] /\ exists \in BOOLEAN
        /\ lock \in Workers \cup {NULL}
    BY DEF Init
  <2>3. QED BY <2>1, <2>2, WorkersTyped
<1>2. LockInv
  <2>1. NULL \notin Workers /\ Idle.phase = "idle"
    BY ConstantsAssumption DEF Idle
  <2>2. QED BY <2>1 DEF Init, LockInv
<1>3. CallsInv
  BY IdleCall DEF Init, CallsInv
<1>4. NoneAssigned
  BY DEF Init, NoneAssigned
<1>5. EachRequestOnce
  <2>1. IsInjective(<< >>) /\ DOMAIN << >> = {}
    BY DEF IsInjective
  <2>2. QED BY <2>1, RequestsEmpty, Zenon DEF EachRequestOnce, Init
<1>6. TotalsMatchFiles
  <2>1. totals.requests = 0 /\ totals.tokens = 0 /\ files = << >> /\ Len(<< >>) = 0
    BY DEF Init
  <2>2. QED BY <2>1, RequestsEmpty, SumEmpty, Zenon DEF TotalsMatchFiles
<1>7. QED BY <1>1, <1>2, <1>3, <1>4, <1>5, <1>6, Zenon DEF IInv

\* The result of a commit is the split that a reader would make.
LEMMA CommitResult ==
  ASSUME IInv, NEW w \in Workers, Committed(w)
  PROVE  SplitAt(Least(Len(worker[w].pending)), worker[w].pending) = Categorized(worker[w].pending)
<1> DEFINE c == worker[w]  ps == worker[w].pending
<1>1. c \in Calls /\ CallInv(c, Unassigned, exists, files)
  BY WorkersTyped DEF IInv, CallsInv
<1>2. c.phase = "locked" /\ ~(Len(ps) < Len(c.parts))
  BY DEF Committed, PartsLeft
<1>3. ps \in Seq(Parts) /\ Writes(c, Unassigned) /\ Assembles(c)
  <2>1. ps \in Seq(Parts)
    BY <1>1, CallFields
  <2>2. QED BY <1>1, <2>1, Zenon DEF CallInv
<1>4. ps = c.parts
  BY <1>1, <1>2, <1>3, WrittenParts
<1>5. GreedyPartition(c.rows, ps, c.limit)
  BY <1>2, <1>3, <1>4 DEF Assembles
<1>6. Numbered(ps)
  BY <1>3, <1>5, GreedyParts
<1>7. QED BY <1>3, <1>6, CategorizedSplit

\* ... and every step keeps it.
LEMMA NextInv == IInv /\ [Next]_vars => IInv'
<1> SUFFICES ASSUME IInv, [Next]_vars PROVE IInv'
  OBVIOUS
<1>1. CASE UNCHANGED vars
  <2>1. /\ exists' = exists /\ status' = status /\ file' = file /\ files' = files
        /\ totals' = totals /\ lock' = lock /\ worker' = worker
    BY <1>1 DEF vars
  <2>2. QED BY <2>1, Zenon DEF IInv, TypeOK, LockInv, CallsInv, Unassigned, NoneAssigned,
                    EachRequestOnce, TotalsMatchFiles
<1>2. ASSUME NEW r \in Requests, Enqueue(r) PROVE IInv'
  BY <1>2, EnqueueStep
<1>3. ASSUME NEW r \in Requests, SetStatus(r, "queued", "claimed") \/ SetStatus(r, "claimed", "queued")
      PROVE  IInv'
  <2>1. "queued" \in {"absent", "queued", "claimed"} /\ "claimed" \in {"absent", "queued", "claimed"}
    OBVIOUS
  <2>2. QED BY <1>3, <2>1, SetStatusStep
<1>4. CASE DeleteBatch
  BY <1>4, DeleteStep
<1>5. ASSUME NEW w \in Workers, Read(w) PROVE IInv'
  BY <1>5, ReadStep
<1>6. ASSUME NEW w \in Workers, Assemble(w) PROVE IInv'
  BY <1>6, AssembleStep
<1>7. ASSUME NEW w \in Workers,
             RefuseOversize(w) \/ RefuseMissing(w) \/ RefuseAdditional(w) \/ RefuseChanged(w) \/ Crash(w)
      PROVE  IInv'
  <2>1. Raise(w) /\ UNCHANGED database
    BY <1>7, Zenon DEF RefuseOversize, RefuseMissing, RefuseAdditional, RefuseChanged, Crash
  <2>2. QED BY <2>1, RaiseStep
<1>8. ASSUME NEW w \in Workers, Lock(w) PROVE IInv'
  BY <1>8, LockStep
<1>9. ASSUME NEW w \in Workers, ReturnExisting(w) PROVE IInv'
  BY <1>9, ExistingStep
<1>10. ASSUME NEW w \in Workers, PersistPart(w) PROVE IInv'
  BY <1>10, PersistStep
<1>11. ASSUME NEW w \in Workers, Commit(w) PROVE IInv'
  <2> DEFINE ps == worker[w].pending
  <2>1. Committed(w) /\ Return(w, SplitAt(Least(Len(ps)), ps), "prepared")
    BY <1>11, Zenon DEF Commit, SplitAt, Least
  <2>2. SplitAt(Least(Len(ps)), ps) = Categorized(ps)
    BY <2>1, CommitResult
  <2>3. ps \in Seq(Parts)
    <3>1. worker[w] \in Calls
      BY WorkersTyped DEF IInv
    <3>2. QED BY <3>1, CallFields
  <2>4. Categorized(ps) \in Result /\ "prepared" \in Outcomes
    BY <2>3, CategorizedType DEF Outcomes
  <2>5. Return(w, Categorized(ps), "prepared")
    BY <2>1, <2>2
  <2>6. QED BY <2>1, <2>4, <2>5, CommitStep
<1>12. ASSUME NEW w \in Workers, CommitUnacknowledged(w) PROVE IInv'
  <2>1. Committed(w) /\ Return(w, NoResult, "error")
    BY <1>12 DEF CommitUnacknowledged, Raise
  <2>2. NoResult \in Result /\ "error" \in Outcomes
    BY DEF NoResult, Result, Outcomes
  <2>3. QED BY <2>1, <2>2, CommitStep
<1>13. ASSUME NEW w \in Workers, Resume(w) PROVE IInv'
  BY <1>13, ResumeStep
<1>14. CASE Host
  BY <1>2, <1>3, <1>4, <1>14 DEF Host
<1>15. ASSUME NEW w \in Workers, Call(w) PROVE IInv'
  BY <1>6, <1>7, <1>8, <1>9, <1>10, <1>11, <1>15 DEF Call, Acquire
<1>16. ASSUME NEW w \in Workers, Fault(w) PROVE IInv'
  BY <1>7, <1>12, <1>16 DEF Fault
<1>17. QED BY <1>1, <1>5, <1>13, <1>14, <1>15, <1>16 DEF Next

\* The invariant holds in every reachable state.
THEOREM Invariance == Spec => []IInv
BY InitInv, NextInv, PTL DEF Spec

\* Every variable keeps its type.
THEOREM TypeCorrect == Spec => []TypeOK
<1>1. IInv => TypeOK
  BY DEF IInv
<1>2. QED BY <1>1, Invariance, PTL

\* PreparedAsRead: a caller of prepare_batches that is told "prepared" finds in the files
\* exactly the requests it had read, in order and greedily packed within every limit.
THEOREM PreparedAsReadHolds == Spec => []PreparedAsRead
<1>1. IInv => PreparedAsRead
  BY Zenon DEF IInv, CallsInv, CallInv, Answers, PreparedAsRead
<1>2. QED BY <1>1, Invariance, PTL

\* EachRequestOnce: overlapping calls put no request into two files or twice into one, and
\* batch_file_uuid agrees with the lines of the files.
THEOREM EachRequestOnceHolds == Spec => []EachRequestOnce
<1>1. IInv => EachRequestOnce
  BY DEF IInv
<1>2. QED BY <1>1, Invariance, PTL

\* CallersAgree: whoever returns files, the writer or a later reader, returns the persisted
\* ones with the same split into ready and overflow.
THEOREM CallersAgreeHolds == Spec => []CallersAgree
<1>1. IInv => CallersAgree
  BY Zenon DEF IInv, CallsInv, CallInv, Answers, CallersAgree
<1>2. QED BY <1>1, Invariance, PTL

\* TotalsMatchFiles: total_requests and total_tokens of the batch row are those of its files.
THEOREM TotalsMatchFilesHolds == Spec => []TotalsMatchFiles
<1>1. IInv => TotalsMatchFiles
  BY DEF IInv
<1>2. QED BY <1>1, Invariance, PTL

\* What a step may do to the files, the assignment and the totals.
LEMMA DatabaseWriters ==
  ASSUME Next, ~DeleteBatch
  PROVE  UNCHANGED <<files, file, totals>> \/ \E w \in Workers : Committed(w)
<1>1. ASSUME NEW w \in Workers, Read(w) \/ Call(w) \/ Fault(w) \/ Resume(w)
      PROVE  UNCHANGED <<files, file, totals>> \/ Committed(w)
  <2>1. UNCHANGED database \/ Committed(w)
    BY <1>1, Zenon DEF Read, Call, Acquire, Fault, Resume, Assemble, RefuseOversize, RefuseMissing,
                RefuseAdditional, RefuseChanged, Crash, Lock, ReturnExisting, PersistPart, Commit,
                CommitUnacknowledged
  <2>2. QED BY <2>1 DEF database
<1>2. CASE Host
  <2>1. PICK r \in Requests :
          Enqueue(r) \/ SetStatus(r, "queued", "claimed") \/ SetStatus(r, "claimed", "queued")
    BY <1>2 DEF Host
  <2>2. QED BY <2>1 DEF Enqueue, SetStatus
<1>3. QED BY <1>1, <1>2 DEF Next

\* PreparedOnce: once files are persisted no later call appends a file, moves a request or
\* rewrites the totals.
THEOREM PreparedOnceHolds == Spec => PreparedOnce
<1>1. [Next]_vars => [files # << >> /\ exists' => UNCHANGED <<files, file, totals>>]_vars
  <2> SUFFICES ASSUME Next, files # << >>, exists' PROVE UNCHANGED <<files, file, totals>>
    BY Zenon
  <2>1. ~DeleteBatch
    BY DEF DeleteBatch
  <2>2. \A w \in Workers : ~Committed(w)
    BY DEF Committed, Prepared
  <2>3. QED BY <2>1, <2>2, DatabaseWriters
<1>2. QED BY <1>1, PTL DEF Spec, PreparedOnce

\* AssignedWhileQueued: the UPDATE of the requests reaches only requests that are queued and
\* unassigned at the commit, although they were read in an earlier transaction.
THEOREM AssignedWhileQueuedHolds == Spec => AssignedWhileQueued
<1> DEFINE Fair(r) == file'[r] # file[r] /\ file'[r] # NULL => r \in Unassigned
<1>1. IInv /\ [Next]_vars => [\A r \in Requests : Fair(r)]_vars
  <2> SUFFICES ASSUME IInv, Next, NEW r \in Requests, file'[r] # file[r], file'[r] # NULL
               PROVE  r \in Unassigned
    BY Zenon
  <2>1. ~DeleteBatch
    BY DEF DeleteBatch
  <2>2. PICK w \in Workers : Committed(w)
    BY <2>1, DatabaseWriters
  <2> DEFINE ps == worker[w].pending
  <2>3. \E i \in DOMAIN ps : r \in ToSet(ps[i].requests)
    <3>1. file'[r] = IF \E i \in DOMAIN ps : r \in ToSet(ps[i].requests)
               THEN ps[CHOOSE i \in DOMAIN ps : r \in ToSet(ps[i].requests)].part_index
               ELSE file[r]
      BY <2>2, Zenon DEF Committed
    <3>2. QED BY <3>1, Zenon
  <2>4. \A i \in DOMAIN ps : ToSet(ps[i].requests) \subseteq Unassigned
    BY Zenon DEF IInv, CallsInv, CallInv, Writes
  <2>5. QED BY <2>3, <2>4, Zenon
<1>2. QED BY <1>1, Invariance, PTL DEF Spec, AssignedWhileQueued
=============================================================================
