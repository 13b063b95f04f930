-------------------------- MODULE ResultStream_proofs --------------------------
(***************************************************************************)
(* Proofs about ResultStream, for every content of the files, every limit  *)
(* and every way to cut a response into chunks.                            *)
(***************************************************************************)
EXTENDS ResultStream, FiniteSetTheorems, SequenceTheorems, WellFoundedInduction, TLAPS

-----------------------------------------------------------------------------
(* The inductive invariant.                                                *)

Item == [record : Seq(Bytes), at : Checkpoint]
StreamRec ==
  [phase : {"open", "reading", "yielded"}, listed : SUBSET {"result", "error"}, file : 0 .. 2,
   body : Seq(Bytes), offset : Nat, pending : Seq(Bytes), line : Nat, lines : Nat, records : Nat,
   prefix : Seq(Frame), matched : BOOLEAN, item : Item \cup {NULL}]

LineFrames(prefix) == {i \in DOMAIN prefix : prefix[i].line > 0}

\* The counts of an open stream are those of the frames it has hashed, within the limits.
Counted(st) ==
  /\ st.lines = Cardinality(LineFrames(st.prefix)) /\ st.lines <= MaxLines
  /\ st.records = Cardinality(RecordFrames(st.prefix)) /\ st.records <= MaxRecords
  /\ st.offset <= MaxBytes /\ Len(st.pending) <= MaxLineBytes + MaxChunk
  /\ st.phase # "open" => st.file \in 1 .. 2

\* A stream that is behind the durable checkpoint continues it: it has read what the
\* consumer has, and one record more while that one is being yielded.
Continues(st, at, records) ==
  /\ st.matched \/ at # NULL
  /\ st.phase = "yielded" => st.matched /\ st.item \in Item /\ st.item.at = CheckpointOf(st)
  /\ st.matched =>
       /\ at # NULL => IsPrefix(at.prefix, st.prefix)
       /\ RecordsIn(st.prefix) = IF st.phase = "yielded" THEN Append(records, st.item.record)
                                 ELSE records

\* The durable checkpoint is within the limits.
Durable == Len(acked) <= MaxRecords

IInv ==
  /\ TypeOK
  /\ Active => Counted(s) /\ Continues(s, checkpoint, acked)
  /\ AckedIsCheckpointed
  /\ Durable

-----------------------------------------------------------------------------
(* The second invariant: what has been hashed are the lines of the files.  *)

\* A file that the status did not name has no lines.
FileLines(body) == IF body = NULL THEN << >> ELSE Lines(body)

\* The bytes of the body that are behind the lines taken so far.
Taken(st) == st.offset - Len(st.pending)

\* The buffer is what follows the lines taken so far, which end at a newline or with the
\* file, and they are the first lines of the body.
Reads(st) ==
  /\ st.offset <= Len(st.body) /\ Len(st.pending) <= st.offset
  /\ st.pending = SubSeq(st.body, Taken(st) + 1, st.offset)
  /\ Taken(st) \in {0, Len(st.body)} \/ st.body[Taken(st)] = "n"
  /\ st.line = Cardinality({i \in Starts(st.body) : i <= Taken(st)})
  /\ LinesOf(st.prefix, Kinds[st.file]) = SubSeq(Lines(st.body), 1, st.line)

\* The records hashed are those of the lines of the two files, in their order.
Framed(st) ==
  /\ RecordsIn(st.prefix)
       = RecordsOf(LinesOf(st.prefix, "result")) \o RecordsOf(LinesOf(st.prefix, "error"))
  /\ st.file < 2 => LinesOf(st.prefix, "error") = << >>
  /\ st.file < 1 => LinesOf(st.prefix, "result") = << >>
  /\ st.phase # "open" => Reads(st)

\* While the provider serves the files now, a file that is behind the reader has been
\* hashed to its last line.
Whole(st, now) ==
  /\ st.listed = {kind \in {"result", "error"} : now[kind] # NULL}
  /\ st.phase # "open" => st.body = now[Kinds[st.file]] /\ st.body # NULL
  /\ st.file = 2 \/ (st.file = 1 /\ st.phase = "open") =>
       LinesOf(st.prefix, "result") = FileLines(now.result)
  /\ st.file = 2 /\ st.phase = "open" => LinesOf(st.prefix, "error") = FileLines(now.error)

LinesInv ==
  /\ Active => Framed(s) /\ (served \notin Revisions => Whole(s, served))
  /\ s.phase = "complete" /\ served \notin Revisions =>
       acked = RecordsOf(FileLines(served.result)) \o RecordsOf(FileLines(served.error))

-----------------------------------------------------------------------------
(* Positions in a sequence.                                                *)

\* Every set of numbers that is not empty has a least element.
LEMMA LeastElement ==
  ASSUME NEW T \in SUBSET Nat, T # {}
  PROVE  \E x \in T : \A y \in T : x <= y
<1> DEFINE R == OpToRel(<, Nat)
<1>1. \A x, y \in Nat : <<x, y>> \in R <=> x < y
  BY DEF OpToRel
<1>2. PICK x \in T : \A y \in T : ~(<<y, x>> \in R)
  BY WFMin, NatLessThanWellFounded, Zenon
<1>3. \A y \in T : ~(y < x)
  BY <1>1, <1>2, Zenon
<1> HIDE DEF R
<1>4. QED BY <1>3

\* Where the first newline of the buffer is.
LEMMA NewlineIsInside ==
  ASSUME s.pending \in Seq(Bytes)
  PROVE  NewlineAt \in 0 .. Len(s.pending)
<1> DEFINE I == {i \in 1 .. Len(s.pending) : s.pending[i] = "n"}
<1>1. NewlineAt = IF I # {} THEN Min(I) ELSE 0
  BY DEF NewlineAt, SelectInSeq
<1>2. Len(s.pending) \in Nat
  OBVIOUS
<1>3. CASE I = {}
  BY <1>1, <1>2, <1>3
<1>4. CASE I # {}
  <2>1. I \in SUBSET Nat
    BY <1>2
  <2>2. \E x \in I : \A y \in I : x <= y
    <3> HIDE DEF I
    <3>1. QED BY <1>4, <2>1, LeastElement
  <2>3. Min(I) \in I
    <3> HIDE DEF I
    <3>1. QED BY <2>2 DEF Min
  <2>4. QED BY <1>1, <1>2, <1>4, <2>3
<1>5. QED BY <1>3, <1>4

\* A set of positions in a sequence of length n, and the next position.
LEMMA PositionsGrow ==
  ASSUME NEW n \in Nat, NEW P \in SUBSET (1 .. n)
  PROVE  /\ IsFiniteSet(P) /\ Cardinality(P) \in Nat
         /\ Cardinality(P \cup {n + 1}) = Cardinality(P) + 1
         /\ \A k \in 1 .. Cardinality(P) : Ranked(P \cup {n + 1}, k) = Ranked(P, k)
         /\ Ranked(P \cup {n + 1}, Cardinality(P) + 1) = {n + 1}
<1> DEFINE m == n + 1
           Q == P \cup {m}
           Below(S, i) == {j \in S : j <= i}
<1>1. IsFiniteSet(P) /\ Cardinality(P) \in Nat
  <2>1. IsFiniteSet(1 .. n)
    BY FS_Interval
  <2>2. QED BY <2>1, FS_Subset, FS_CardinalityType
<1>2. m \notin P /\ \A i \in P : i \in Nat /\ i <= n /\ i < m
  OBVIOUS
<1>3. Cardinality(Q) = Cardinality(P) + 1
  BY <1>1, <1>2, FS_AddElement
<1>4. \A i \in P : Below(Q, i) = Below(P, i)
  BY <1>2
<1>5. Below(Q, m) = Q
  <2>1. m \in Nat /\ \A i \in P : i <= m
    BY <1>2
  <2>2. m <= m
    BY <2>1
  <2> HIDE DEF m
  <2>3. QED BY <2>1, <2>2
<1>6. ASSUME NEW i \in P
      PROVE  Cardinality(Below(P, i)) \in Nat /\ Cardinality(Below(P, i)) <= Cardinality(P)
  <2>1. Below(P, i) \subseteq P
    OBVIOUS
  <2>2. IsFiniteSet(Below(P, i)) /\ Cardinality(Below(P, i)) <= Cardinality(P)
    BY <1>1, <2>1, FS_Subset
  <2>3. QED BY <2>2, FS_CardinalityType
<1> HIDE DEF m
<1>7. \A S, k : Ranked(S, k) = {i \in S : Cardinality(Below(S, i)) = k}
  BY DEF Ranked
<1>8. ASSUME NEW k \in 1 .. Cardinality(P)
      PROVE  Ranked(Q, k) = Ranked(P, k)
  <2>0. Cardinality(Below(Q, m)) = Cardinality(P) + 1
    BY <1>3, <1>5
  <2>1. Cardinality(Below(Q, m)) # k
    BY <1>1, <1>8, <2>0
  <2>2. \A i \in P : Cardinality(Below(Q, i)) = Cardinality(Below(P, i))
    BY <1>4
  <2> HIDE DEF Below
  <2>3. QED BY <1>7, <2>1, <2>2
<1>9. Ranked(Q, Cardinality(P) + 1) = {m}
  <2>1. Cardinality(Below(Q, m)) = Cardinality(P) + 1
    BY <1>3, <1>5
  <2>2. \A i \in P : Cardinality(Below(Q, i)) # Cardinality(P) + 1
    <3>1. \A i \in P : Cardinality(Below(Q, i)) = Cardinality(Below(P, i))
      BY <1>4
    <3> HIDE DEF Below
    <3>2. QED BY <1>1, <1>6, <3>1
  <2> HIDE DEF Below
  <2>3. QED BY <1>7, <2>1, <2>2
<1>10. QED BY <1>1, <1>3, <1>8, <1>9 DEF m

\* Every rank up to the number of positions is taken: there is no least length at which
\* a set of positions would lack one.
LEMMA RankedExists ==
  ASSUME NEW n \in Nat, NEW P \in SUBSET (1 .. n), NEW k \in 1 .. Cardinality(P)
  PROVE  Ranked(P, k) # {}
<1> DEFINE Full(l) == \A S \in SUBSET (1 .. l) : \A r \in 1 .. Cardinality(S) : Ranked(S, r) # {}
           T == {l \in Nat : ~Full(l)}
<1>1. SUFFICES ASSUME T # {}
               PROVE  FALSE
  OBVIOUS
<1>2. PICK x \in T : \A y \in T : x <= y
  <2>1. T \in SUBSET Nat
    OBVIOUS
  <2> HIDE DEF T
  <2>2. QED BY <1>1, <2>1, LeastElement
<1>3. x \in Nat /\ ~Full(x)
  BY <1>2
<1>4. PICK S \in SUBSET (1 .. x) : \E r \in 1 .. Cardinality(S) : Ranked(S, r) = {}
  BY <1>3
<1>5. PICK r \in 1 .. Cardinality(S) : Ranked(S, r) = {}
  BY <1>4
<1>6. x # 0
  <2>1. SUFFICES ASSUME x = 0
                 PROVE  FALSE
    OBVIOUS
  <2>2. S = {}
    BY <2>1
  <2>3. Cardinality(S) = 0
    BY <2>2, FS_EmptySet
  <2>4. QED BY <1>5, <2>3
<1> DEFINE y == x - 1
           U == S \ {x}
<1>7. y \in Nat /\ U \in SUBSET (1 .. y) /\ y < x /\ y + 1 = x
  BY <1>3, <1>6
<1>8. Full(y)
  <2>1. y \notin T
    <3> HIDE DEF T
    <3>1. QED BY <1>2, <1>3, <1>7
  <2>2. QED BY <1>7, <2>1
<1>9. /\ Cardinality(U) \in Nat /\ Cardinality(U \cup {y + 1}) = Cardinality(U) + 1
      /\ \A j \in 1 .. Cardinality(U) : Ranked(U \cup {y + 1}, j) = Ranked(U, j)
      /\ Ranked(U \cup {y + 1}, Cardinality(U) + 1) = {y + 1}
  <2> HIDE DEF y, U
  <2>1. QED BY <1>7, PositionsGrow
<1>10. \A j \in 1 .. Cardinality(U) : Ranked(U, j) # {}
  <2> HIDE DEF U, y
  <2>1. QED BY <1>7, <1>8
<1>11. CASE x \notin S
  <2>1. U = S
    BY <1>11
  <2>2. QED BY <1>5, <1>10, <2>1
<1>12. CASE x \in S
  <2>1. S = U \cup {y + 1}
    BY <1>7, <1>12
  <2> HIDE DEF U, y, T, Full
  <2>2. r \in 1 .. Cardinality(U) \/ r = Cardinality(U) + 1
    BY <1>5, <1>9, <2>1
  <2>3. Ranked(S, r) # {}
    BY <1>9, <1>10, <2>1, <2>2
  <2>4. QED BY <1>5, <2>3
<1>13. QED BY <1>11, <1>12

\* The frames of a prefix that hold a line, and those that hold a record.
LEMMA FramesInside ==
  ASSUME NEW p \in Seq(Frame)
  PROVE  /\ Len(p) \in Nat /\ DOMAIN p = 1 .. Len(p)
         /\ LineFrames(p) \in SUBSET (1 .. Len(p)) /\ RecordFrames(p) \in SUBSET (1 .. Len(p))
BY DEF LineFrames, RecordFrames

IsRecord(f) == f.line > 0 /\ ~Blank(f.raw)

\* What one more frame adds to the frames with a line and to those with a record.
LEMMA FramesGrow ==
  ASSUME NEW p \in Seq(Frame), NEW f \in Frame
  PROVE  /\ Append(p, f) \in Seq(Frame)
         /\ LineFrames(Append(p, f)) = IF f.line > 0 THEN LineFrames(p) \cup {Len(p) + 1}
                                       ELSE LineFrames(p)
         /\ RecordFrames(Append(p, f)) = IF IsRecord(f) THEN RecordFrames(p) \cup {Len(p) + 1}
                                         ELSE RecordFrames(p)
<1> DEFINE q == Append(p, f)
           n == Len(p)
<1>1. /\ q \in Seq(Frame) /\ n \in Nat /\ DOMAIN p = 1 .. n /\ DOMAIN q = 1 .. n + 1
      /\ q[n + 1] = f /\ \A i \in 1 .. n : q[i] = p[i]
  OBVIOUS
<1>2. DOMAIN q = (DOMAIN p) \cup {n + 1} /\ n + 1 \notin DOMAIN p
  BY <1>1
<1> HIDE DEF q
<1>3. LineFrames(q) = IF f.line > 0 THEN LineFrames(p) \cup {n + 1} ELSE LineFrames(p)
  BY <1>1, <1>2 DEF LineFrames
<1>4. RecordFrames(q) = IF IsRecord(f) THEN RecordFrames(p) \cup {n + 1} ELSE RecordFrames(p)
  BY <1>1, <1>2 DEF RecordFrames, IsRecord
<1>5. QED BY <1>1, <1>3, <1>4 DEF q

\* What a sequence has at a set of positions.
LEMMA SelectedFields ==
  ASSUME NEW n \in Nat, NEW P \in SUBSET (1 .. n), NEW q
  PROVE  /\ Cardinality(P) \in Nat
         /\ DOMAIN Selected(q, P) = 1 .. Cardinality(P)
         /\ Selected(q, P) = [k \in 1 .. Cardinality(P) |-> q[Nth(P, k)]]
         /\ \A k \in 1 .. Cardinality(P) : Nth(P, k) \in P /\ Nth(P, k) \in Ranked(P, k)
<1>1. Cardinality(P) \in Nat
  BY PositionsGrow
<1>2. \A k \in 1 .. Cardinality(P) : Ranked(P, k) # {} /\ Ranked(P, k) \subseteq P
  BY RankedExists DEF Ranked
<1>3. \A k \in 1 .. Cardinality(P) : Nth(P, k) \in Ranked(P, k)
  BY <1>2 DEF Nth
<1>4. QED BY <1>1, <1>2, <1>3 DEF Selected

\* A sequence t that continues q by x at position n + 1.
Continued(q, t, n, x) == t[n + 1] = x /\ \A i \in 1 .. n : t[i] = q[i]

\* A sequence b that is a, of length c, with x behind it.
Longer(a, b, c, x) ==
  /\ c \in Nat /\ DOMAIN a = 1 .. c /\ DOMAIN b = 1 .. c + 1
  /\ \A k \in 1 .. c : b[k] = a[k]
  /\ b[c + 1] = x

\* The positions of q select the same of t, and the new one adds x behind them.
LEMMA SelectedGrow ==
  ASSUME NEW n \in Nat, NEW P \in SUBSET (1 .. n), NEW q, NEW t, NEW x, Continued(q, t, n, x)
  PROVE  /\ Selected(t, P) = Selected(q, P)
         /\ Cardinality(P \cup {n + 1}) = Cardinality(P) + 1
         /\ Longer(Selected(q, P), Selected(t, P \cup {n + 1}), Cardinality(P), x)
<1> DEFINE c == Cardinality(P)
           R == P \cup {n + 1}
<1>1. /\ c \in Nat /\ Cardinality(R) = c + 1
      /\ \A k \in 1 .. c : Ranked(R, k) = Ranked(P, k)
      /\ Ranked(R, c + 1) = {n + 1}
  BY PositionsGrow
<1> HIDE DEF R
<1>2. \A k \in 1 .. c : Nth(R, k) = Nth(P, k)
  BY <1>1 DEF Nth
<1>3. Nth(R, c + 1) = n + 1
  BY <1>1 DEF Nth
<1>4. \A k \in 1 .. c : Nth(P, k) \in 1 .. n
  BY SelectedFields
<1> HIDE DEF c
<1>5. Selected(t, R) = [k \in 1 .. c + 1 |-> t[Nth(R, k)]]
  BY <1>1 DEF Selected
<1>6. Selected(q, P) = [k \in 1 .. c |-> q[Nth(P, k)]] /\ Selected(t, P) = [k \in 1 .. c |-> t[Nth(P, k)]]
  BY DEF Selected, c
<1>7. \A k \in 1 .. c : t[Nth(P, k)] = q[Nth(P, k)]
  BY <1>4 DEF Continued
<1>8. Selected(t, P) = Selected(q, P)
  BY <1>6, <1>7
<1>9. c + 1 \in 1 .. c + 1 /\ \A k \in 1 .. c : k \in 1 .. c + 1
  BY <1>1
<1>10. \A k \in 1 .. c : Selected(t, R)[k] = Selected(q, P)[k]
  BY <1>2, <1>5, <1>6, <1>7, <1>9
<1>11. Selected(t, R)[c + 1] = x
  BY <1>3, <1>5, <1>9 DEF Continued
<1>12. DOMAIN Selected(t, R) = 1 .. c + 1 /\ DOMAIN Selected(q, P) = 1 .. c
  BY <1>5, <1>6
<1>13. Longer(Selected(q, P), Selected(t, R), c, x)
  BY <1>1, <1>10, <1>11, <1>12 DEF Longer
<1>14. QED BY <1>1, <1>8, <1>13 DEF c, R

\* A function on one position more is a sequence with one element appended.
LEMMA AppendFun ==
  ASSUME NEW c \in Nat, NEW g, NEW h, NEW v, g = [k \in 1 .. c |-> g[k]],
         h = [k \in 1 .. c + 1 |-> h[k]], Continued(g, h, c, v)
  PROVE  h = Append(g, v)
<1>1. Len(g) = c /\ DOMAIN g = 1 .. c
  OBVIOUS
<1>2. Append(g, v) = [k \in 1 .. c + 1 |-> IF k \in 1 .. c THEN g[k] ELSE v]
  BY <1>1
<1>3. \A k \in 1 .. c + 1 : h[k] = IF k \in 1 .. c THEN g[k] ELSE v
  <2>1. \A k \in 1 .. c + 1 : k \notin 1 .. c => k = c + 1
    OBVIOUS
  <2>2. h[c + 1] = v /\ \A i \in 1 .. c : h[i] = g[i]
    BY DEF Continued
  <2>3. QED BY <2>1, <2>2, Zenon
<1>4. QED BY <1>2, <1>3

\* Appending to a sequence continues it.
LEMMA AppendContinues ==
  ASSUME NEW S, NEW p \in Seq(S), NEW f \in S
  PROVE  /\ Continued(p, Append(p, f), Len(p), f) /\ Len(p) \in Nat /\ DOMAIN p = 1 .. Len(p)
         /\ Append(p, f) \in Seq(S) /\ Len(Append(p, f)) = Len(p) + 1
         /\ DOMAIN Append(p, f) = 1 .. Len(p) + 1
BY DEF Continued

\* A frame with a record adds it behind the records of the prefix.
LEMMA RecordsGrow ==
  ASSUME NEW p \in Seq(Frame), NEW f \in Frame, IsRecord(f)
  PROVE  RecordsIn(Append(p, f)) = Append(RecordsIn(p), Stripped(f.raw))
<1> DEFINE t == Append(p, f)
           P == RecordFrames(p)
           c == Cardinality(P)
           full == Selected(p, P)
           more == Selected(t, RecordFrames(t))
<1>1. Len(p) \in Nat /\ P \in SUBSET (1 .. Len(p)) /\ Continued(p, t, Len(p), f)
  BY FramesInside, AppendContinues
<1>2. RecordFrames(t) = P \cup {Len(p) + 1}
  BY FramesGrow
<1>3. /\ c \in Nat /\ DOMAIN more = 1 .. c + 1 /\ DOMAIN full = 1 .. c
      /\ \A k \in 1 .. c : more[k] = full[k]
      /\ more[c + 1] = f
  <2> DEFINE l == Len(p)
  <2>1. /\ l \in Nat /\ P \in SUBSET (1 .. l) /\ Continued(p, t, l, f)
        /\ RecordFrames(t) = P \cup {l + 1}
    BY <1>1, <1>2
  <2> HIDE DEF t, P, l
  <2>2. Longer(full, Selected(t, P \cup {l + 1}), c, f)
    BY <2>1, SelectedGrow
  <2>3. QED BY <2>1, <2>2 DEF Longer
<1>4. /\ RecordsIn(p) = [k \in DOMAIN full |-> Stripped(full[k].raw)]
      /\ RecordsIn(t) = [k \in DOMAIN more |-> Stripped(more[k].raw)]
  BY DEF RecordsIn
<1> HIDE DEF full, more, c, t, P
<1>5. /\ RecordsIn(p) = [k \in 1 .. c |-> Stripped(full[k].raw)]
      /\ RecordsIn(t) = [k \in 1 .. c + 1 |-> Stripped(more[k].raw)]
  BY <1>3, <1>4
<1>6. Continued(RecordsIn(p), RecordsIn(t), c, Stripped(f.raw))
  <2>1. c + 1 \in 1 .. c + 1 /\ \A k \in 1 .. c : k \in 1 .. c + 1
    BY <1>3
  <2>2. QED BY <1>3, <1>5, <2>1 DEF Continued
<1>7. /\ RecordsIn(p) = [k \in 1 .. c |-> RecordsIn(p)[k]]
      /\ RecordsIn(t) = [k \in 1 .. c + 1 |-> RecordsIn(t)[k]]
  BY <1>5
<1>8. RecordsIn(t) = Append(RecordsIn(p), Stripped(f.raw))
  BY <1>3, <1>6, <1>7, AppendFun
<1>9. QED BY <1>8 DEF t

\* A frame without a record adds none.
LEMMA RecordsKept ==
  ASSUME NEW p \in Seq(Frame), NEW f \in Frame, ~IsRecord(f)
  PROVE  RecordsIn(Append(p, f)) = RecordsIn(p)
<1> DEFINE t == Append(p, f)
           P == RecordFrames(p)
<1>1. Len(p) \in Nat /\ P \in SUBSET (1 .. Len(p)) /\ Continued(p, t, Len(p), f)
  BY FramesInside, AppendContinues
<1>2. RecordFrames(t) = P
  BY FramesGrow
<1>3. Selected(t, P) = Selected(p, P)
  <2> HIDE DEF t, P
  <2>1. QED BY <1>1, SelectedGrow
<1> HIDE DEF t
<1>4. RecordsIn(t) = RecordsIn(p)
  BY <1>2, <1>3 DEF RecordsIn
<1>5. QED BY <1>4 DEF t

\* There are as many records in a prefix as frames with one, and none in the empty prefix.
LEMMA RecordsCount ==
  /\ \A p \in Seq(Frame) : Len(RecordsIn(p)) = Cardinality(RecordFrames(p))
  /\ RecordsIn(<< >>) = << >> /\ RecordFrames(<< >>) = {} /\ LineFrames(<< >>) = {}
  /\ Cardinality({}) = 0
<1>1. ASSUME NEW p \in Seq(Frame)
      PROVE  Len(RecordsIn(p)) = Cardinality(RecordFrames(p))
  <2> DEFINE full == Selected(p, RecordFrames(p))
             c == Cardinality(RecordFrames(p))
  <2>1. c \in Nat /\ DOMAIN full = 1 .. c
    BY FramesInside, SelectedFields
  <2>2. RecordsIn(p) = [k \in DOMAIN full |-> Stripped(full[k].raw)]
    BY DEF RecordsIn
  <2> HIDE DEF full, c
  <2>3. Len(RecordsIn(p)) = c
    BY <2>1, <2>2
  <2>4. QED BY <2>3 DEF c
<1>2. RecordFrames(<< >>) = {} /\ LineFrames(<< >>) = {}
  BY DEF RecordFrames, LineFrames
<1>3. Cardinality({}) = 0
  BY FS_EmptySet
<1>4. RecordsIn(<< >>) = << >>
  <2>0. Cardinality(RecordFrames(<< >>)) = 0
    BY <1>2, <1>3
  <2>1. DOMAIN Selected(<< >>, RecordFrames(<< >>)) = 1 .. 0
    BY <2>0 DEF Selected
  <2>2. RecordsIn(<< >>) \in [1 .. 0 -> {}]
    BY <2>1 DEF RecordsIn
  <2>3. RecordsIn(<< >>) \in Seq({}) /\ Len(RecordsIn(<< >>)) = 0
    BY <2>2
  <2>4. QED BY <2>3, EmptySeq
<1>5. QED BY <1>1, <1>2, <1>3, <1>4

\* Prefixes of a prefix that grows.
LEMMA PrefixGrows ==
  ASSUME NEW p \in Seq(Frame), NEW f \in Frame
  PROVE  /\ IsPrefix(p, p)
         /\ \A a \in Seq(Frame) : IsPrefix(a, p) => IsPrefix(a, Append(p, f))
<1>1. IsPrefix(p, p)
  BY DEF IsPrefix
<1>2. ASSUME NEW a \in Seq(Frame), IsPrefix(a, p)
      PROVE  IsPrefix(a, Append(p, f))
  <2> DEFINE q == Append(p, f)
  <2>1. /\ q \in Seq(Frame) /\ Len(q) = Len(p) + 1 /\ \A i \in 1 .. Len(p) : q[i] = p[i]
        /\ Len(a) \in Nat /\ Len(p) \in Nat
    OBVIOUS
  <2>2. Len(a) <= Len(p) /\ SubSeq(a, 1, Len(a)) = SubSeq(p, 1, Len(a))
    BY <1>2 DEF IsPrefix
  <2> HIDE DEF q
  <2>3. SubSeq(q, 1, Len(a)) = SubSeq(p, 1, Len(a))
    BY <2>1, <2>2
  <2>4. QED BY <2>1, <2>2, <2>3 DEF IsPrefix, q
<1>3. QED BY <1>1, <1>2

-----------------------------------------------------------------------------
(* The stream.                                                             *)

\* The type of an open stream.
LEMMA StreamType ==
  ASSUME TypeOK, Active
  PROVE  s \in StreamRec
BY DEF TypeOK, Active, StreamRec, Item

\* A stream that is closed satisfies the invariant of streams.
LEMMA ClosedType ==
  ASSUME NEW how \in {"none", "error", "complete"}, TypeOK, s' = Closed(how),
         UNCHANGED <<served, checkpoint, acked>>
  PROVE  TypeOK' /\ ~Active'
BY DEF TypeOK, Closed, Active

\* The record that a line holds.
LEMMA StrippedType ==
  ASSUME NEW raw \in Seq(Bytes)
  PROVE  Stripped(raw) \in Seq(Bytes)
<1>1. CASE raw = << >>
  BY <1>1 DEF Stripped
<1>2. CASE raw # << >>
  <2>1. Len(raw) \in Nat \ {0}
    BY <1>2, EmptySeq
  <2>2. SubSeq(raw, 1, Len(raw) - 1) \in Seq(Bytes)
    BY <2>1, SubSeqProperties
  <2>3. QED BY <2>2 DEF Stripped, Front
<1>3. QED BY <1>1, <1>2

\* The stream after a line.
LEMMA AfterLineFields ==
  ASSUME s \in StreamRec, s.file \in 1 .. 2, NEW raw \in Seq(Bytes), NEW ended \in BOOLEAN,
         NEW rest \in Seq(Bytes)
  PROVE  LET st == AfterLine(raw, ended, rest)
             f == LineFrame(Kinds[s.file], s.line + 1, raw, ended)
         IN /\ st \in StreamRec /\ f \in Frame
            /\ f.line > 0 /\ f.raw = raw
            /\ st.phase = s.phase /\ st.file = s.file /\ st.offset = s.offset
            /\ st.pending = rest /\ st.matched = s.matched /\ st.item = s.item
            /\ st.lines = s.lines + 1
            /\ st.records = IF Blank(raw) THEN s.records ELSE s.records + 1
            /\ st.prefix = Append(s.prefix, f)
<1> DEFINE f == LineFrame(Kinds[s.file], s.line + 1, raw, ended)
           n == s.line + 1
           l == s.lines + 1
           r == IF Blank(raw) THEN s.records ELSE s.records + 1
           p == Append(s.prefix, f)
<1>1. n \in Nat /\ n > 0 /\ l \in Nat /\ r \in Nat
  BY DEF StreamRec
<1>2. Kinds[s.file] \in {"result", "error"}
  BY DEF Kinds
<1>3. f \in Frame /\ f.line > 0 /\ f.raw = raw
  <2> HIDE DEF n
  <2>1. f = [kind |-> Kinds[s.file], line |-> n, raw |-> raw, ended |-> ended]
    BY DEF LineFrame, n
  <2> HIDE DEF f
  <2>2. QED BY <1>1, <1>2, <2>1 DEF Frame
<1>4. s.prefix \in Seq(Frame)
  BY DEF StreamRec
<1>5. p \in Seq(Frame)
  <2> HIDE DEF f
  <2>1. QED BY <1>3, <1>4
<1>6. AfterLine(raw, ended, rest)
        = [s EXCEPT !.pending = rest, !.line = n, !.lines = l, !.records = r, !.prefix = p]
  BY DEF AfterLine
<1> HIDE DEF f, n, l, r, p
<1>7. LET st == [s EXCEPT !.pending = rest, !.line = n, !.lines = l, !.records = r, !.prefix = p]
      IN /\ st \in StreamRec
         /\ st.phase = s.phase /\ st.file = s.file /\ st.offset = s.offset
         /\ st.pending = rest /\ st.matched = s.matched /\ st.item = s.item
         /\ st.lines = l /\ st.records = r /\ st.prefix = p
  BY <1>1, <1>5 DEF StreamRec
<1>8. QED BY <1>3, <1>6, <1>7 DEF f, l, r, p

\* A line that is accepted leaves the counts right.
LEMMA CountedAfterLine ==
  ASSUME s \in StreamRec, Counted(s), s.phase = "reading", NEW raw \in Seq(Bytes),
         NEW ended \in BOOLEAN, NEW rest \in Seq(Bytes), Len(rest) <= Len(s.pending),
         WithinLimits(AfterLine(raw, ended, rest))
  PROVE  Counted(AfterLine(raw, ended, rest))
<1> DEFINE st == AfterLine(raw, ended, rest)
           f == LineFrame(Kinds[s.file], s.line + 1, raw, ended)
           p == s.prefix
<1>1. s.file \in 1 .. 2
  BY DEF Counted
<1>2. /\ f \in Frame /\ f.line > 0 /\ f.raw = raw /\ st \in StreamRec
      /\ st.phase = s.phase /\ st.file = s.file /\ st.offset = s.offset
      /\ st.pending = rest /\ st.lines = s.lines + 1
      /\ st.records = IF Blank(raw) THEN s.records ELSE s.records + 1
      /\ st.prefix = Append(s.prefix, f)
  BY <1>1, AfterLineFields
<1> HIDE DEF st, f
<1>3. p \in Seq(Frame)
  BY DEF StreamRec
<1>4. /\ LineFrames(st.prefix) = LineFrames(p) \cup {Len(p) + 1}
      /\ RecordFrames(st.prefix) = IF Blank(raw) THEN RecordFrames(p)
                                   ELSE RecordFrames(p) \cup {Len(p) + 1}
  <2> HIDE DEF p
  <2>1. IsRecord(f) <=> ~Blank(raw)
    BY <1>2 DEF IsRecord
  <2>2. QED BY <1>2, <1>3, <2>1, FramesGrow DEF p
<1>5. /\ Cardinality(LineFrames(p) \cup {Len(p) + 1}) = Cardinality(LineFrames(p)) + 1
      /\ Cardinality(RecordFrames(p) \cup {Len(p) + 1}) = Cardinality(RecordFrames(p)) + 1
  <2> DEFINE n == Len(p)
             L == LineFrames(p)
             R == RecordFrames(p)
  <2>1. n \in Nat /\ L \in SUBSET (1 .. n) /\ R \in SUBSET (1 .. n)
    BY <1>3, FramesInside
  <2> HIDE DEF n, L, R
  <2>2. Cardinality(L \cup {n + 1}) = Cardinality(L) + 1
    BY <2>1, PositionsGrow
  <2>3. Cardinality(R \cup {n + 1}) = Cardinality(R) + 1
    BY <2>1, PositionsGrow
  <2>4. QED BY <2>2, <2>3 DEF n, L, R
<1>6. st.lines = Cardinality(LineFrames(st.prefix)) /\ st.records = Cardinality(RecordFrames(st.prefix))
  BY <1>2, <1>4, <1>5 DEF Counted
<1>7. st.lines <= MaxLines /\ st.records <= MaxRecords
  BY DEF WithinLimits, st
<1>8. Len(st.pending) <= MaxLineBytes + MaxChunk
  <2>1. Len(rest) \in Nat /\ Len(s.pending) \in Nat /\ MaxLineBytes \in Nat /\ MaxChunk \in Nat
    BY ConstantsAssumption DEF StreamRec
  <2>2. Len(s.pending) <= MaxLineBytes + MaxChunk
    BY DEF Counted
  <2>3. QED BY <1>2, <2>1, <2>2
<1>9. st.offset <= MaxBytes /\ st.file \in 1 .. 2
  BY <1>1, <1>2 DEF Counted
<1>10. QED BY <1>6, <1>7, <1>8, <1>9 DEF Counted, st

\* What the frame of a line does to the records of the prefix.
LEMMA RecordsAfterLine ==
  ASSUME s \in StreamRec, Counted(s), s.phase = "reading", NEW raw \in Seq(Bytes),
         NEW ended \in BOOLEAN, NEW rest \in Seq(Bytes)
  PROVE  LET st == AfterLine(raw, ended, rest)
         IN /\ RecordsIn(st.prefix) = IF Blank(raw) THEN RecordsIn(s.prefix)
                                      ELSE Append(RecordsIn(s.prefix), Stripped(raw))
            /\ \A a \in Seq(Frame) : IsPrefix(a, s.prefix) => IsPrefix(a, st.prefix)
            /\ IsPrefix(st.prefix, st.prefix)
<1> DEFINE st == AfterLine(raw, ended, rest)
           f == LineFrame(Kinds[s.file], s.line + 1, raw, ended)
           p == s.prefix
<1>1. s.file \in 1 .. 2
  BY DEF Counted
<1>2. f \in Frame /\ f.line > 0 /\ f.raw = raw /\ st.prefix = Append(p, f) /\ st \in StreamRec
  BY <1>1, AfterLineFields
<1>3. p \in Seq(Frame) /\ st.prefix \in Seq(Frame)
  BY <1>2 DEF StreamRec
<1> HIDE DEF st, f, p
<1>4. IsRecord(f) <=> ~Blank(raw)
  BY <1>2 DEF IsRecord
<1>5. RecordsIn(st.prefix) = IF Blank(raw) THEN RecordsIn(p) ELSE Append(RecordsIn(p), Stripped(raw))
  BY <1>2, <1>3, <1>4, RecordsGrow, RecordsKept
<1>6. \A a \in Seq(Frame) : IsPrefix(a, p) => IsPrefix(a, st.prefix)
  BY <1>2, <1>3, PrefixGrows
<1>7. IsPrefix(st.prefix, st.prefix)
  BY <1>2, <1>3, PrefixGrows
<1>8. QED BY <1>5, <1>6, <1>7 DEF st, p

\* The invariant of a stream that goes on, from that of its parts.
LEMMA StreamGoesOn ==
  ASSUME IInv, s' \in StreamRec, UNCHANGED <<served, checkpoint, acked>>,
         Counted(s'), Continues(s', checkpoint, acked)
  PROVE  IInv'
<1>1. TypeOK'
  BY DEF IInv, TypeOK, StreamRec, Item
<1>2. (Active => Counted(s) /\ Continues(s, checkpoint, acked))'
  <2>1. Continues(s', checkpoint', acked')
    OBVIOUS
  <2>2. QED BY <2>1 DEF Counted, Continues, CheckpointOf
<1>3. AckedIsCheckpointed' /\ Durable'
  BY DEF IInv, AckedIsCheckpointed, Durable
<1>4. QED BY <1>1, <1>2, <1>3 DEF IInv

\* ... and of one that ends.
LEMMA StreamEnds ==
  ASSUME NEW how \in {"none", "error", "complete"}, IInv, s' = Closed(how),
         UNCHANGED <<served, checkpoint, acked>>
  PROVE  IInv'
<1>1. TypeOK' /\ ~Active'
  BY ClosedType DEF IInv
<1>2. AckedIsCheckpointed' /\ Durable'
  BY DEF IInv, AckedIsCheckpointed, Durable
<1>3. QED BY <1>1, <1>2 DEF IInv

\* The checkpoint of a line that was counted.
LEMMA CheckpointType ==
  ASSUME NEW st \in StreamRec, st.file \in 1 .. 2
  PROVE  /\ CheckpointOf(st) \in Checkpoint /\ CheckpointOf(st).prefix = st.prefix
         /\ CheckpointOf(st).records = st.records
<1>1. Kinds[st.file] \in {"result", "error"}
  BY DEF Kinds
<1>2. st.line \in Nat /\ st.lines \in Nat /\ st.records \in Nat /\ st.prefix \in Seq(Frame)
  BY DEF StreamRec
<1>3. QED BY <1>1, <1>2 DEF CheckpointOf, Checkpoint

\* A line that is taken.
LEMMA LineIsTaken ==
  ASSUME IInv, s.phase = "reading", NEW raw \in Seq(Bytes), NEW ended \in BOOLEAN,
         NEW rest \in Seq(Bytes), Len(rest) <= Len(s.pending), TakeLine(raw, ended, rest)
  PROVE  IInv'
<1> DEFINE st == AfterLine(raw, ended, rest)
<1>1. /\ TypeOK /\ Active /\ Counted(s) /\ Continues(s, checkpoint, acked) /\ AckedIsCheckpointed
      /\ UNCHANGED <<served, checkpoint, acked>>
  BY DEF IInv, Active, TakeLine
<1>2. s \in StreamRec /\ s.file \in 1 .. 2
  BY <1>1, StreamType DEF Counted
<1>3. CASE s' = Closed("error")
  BY <1>1, <1>3, StreamEnds
<1>4. CASE WithinLimits(st) /\ s' = Deliver(st, raw) /\ s' # Closed("error")
  <2>1. /\ st \in StreamRec /\ st.phase = "reading" /\ st.file = s.file
        /\ st.matched = s.matched /\ st.item = s.item
    BY <1>2, AfterLineFields
  <2>2. Counted(st)
    BY <1>1, <1>2, <1>4, CountedAfterLine
  <2>3. /\ RecordsIn(st.prefix) = IF Blank(raw) THEN RecordsIn(s.prefix)
                                  ELSE Append(RecordsIn(s.prefix), Stripped(raw))
        /\ \A a \in Seq(Frame) : IsPrefix(a, s.prefix) => IsPrefix(a, st.prefix)
        /\ IsPrefix(st.prefix, st.prefix)
    BY <1>1, <1>2, RecordsAfterLine
  <2>4. checkpoint # NULL => checkpoint.prefix \in Seq(Frame)
    BY <1>1 DEF TypeOK, Checkpoint
  <2>5. /\ s.matched \/ checkpoint # NULL
        /\ s.matched => /\ checkpoint # NULL => IsPrefix(checkpoint.prefix, s.prefix)
                        /\ RecordsIn(s.prefix) = acked
    BY <1>1 DEF Continues
  <2>6. CheckpointOf(st) \in Checkpoint /\ CheckpointOf(st).prefix = st.prefix
    BY <1>2, <2>1, CheckpointType
  <2> HIDE DEF st
  <2>7. CASE Blank(raw)
    <3>1. s' = st
      BY <1>4, <2>7 DEF Deliver
    <3>2. Continues(st, checkpoint, acked)
      BY <2>1, <2>3, <2>4, <2>5, <2>7 DEF Continues
    <3>3. QED BY <1>1, <2>1, <2>2, <3>1, <3>2, StreamGoesOn
  <2>8. CASE ~Blank(raw) /\ st.matched
    <3> DEFINE record == Stripped(raw)
               item == [record |-> record, at |-> CheckpointOf(st)]
    <3>1. s' = [st EXCEPT !.phase = "yielded", !.item = item]
      BY <1>4, <2>8 DEF Deliver, Yield
    <3>2. record \in Seq(Bytes)
      BY StrippedType
    <3> HIDE DEF record
    <3>3. item \in Item /\ item.record = record /\ item.at = CheckpointOf(st)
      BY <2>6, <3>2 DEF Item
    <3> HIDE DEF item
    <3>4. /\ s' \in StreamRec /\ s'.phase = "yielded" /\ s'.item = item
          /\ s'.matched = st.matched /\ s'.prefix = st.prefix /\ s'.records = st.records
          /\ s'.lines = st.lines /\ s'.file = st.file /\ s'.line = st.line
          /\ s'.offset = st.offset /\ s'.pending = st.pending
      BY <2>1, <3>1, <3>3 DEF StreamRec
    <3>5. Counted(s')
      BY <1>2, <2>1, <2>2, <3>4 DEF Counted
    <3>6. CheckpointOf(s') = CheckpointOf(st)
      BY <3>4 DEF CheckpointOf
    <3>7. /\ checkpoint # NULL => IsPrefix(checkpoint.prefix, s'.prefix)
          /\ RecordsIn(s'.prefix) = Append(acked, s'.item.record)
      BY <2>1, <2>3, <2>4, <2>5, <2>8, <3>3, <3>4 DEF record
    <3>8. Continues(s', checkpoint, acked)
      BY <2>8, <3>3, <3>4, <3>6, <3>7 DEF Continues
    <3>9. QED BY <1>1, <3>4, <3>5, <3>8, StreamGoesOn
  <2>9. CASE ~Blank(raw) /\ ~st.matched /\ st.records < checkpoint.records
    <3>1. s' = st
      BY <1>4, <2>9 DEF Deliver
    <3>2. Continues(st, checkpoint, acked)
      BY <2>1, <2>5, <2>9 DEF Continues
    <3>3. QED BY <1>1, <2>1, <2>2, <3>1, <3>2, StreamGoesOn
  <2>10. CASE ~Blank(raw) /\ ~st.matched /\ ~(st.records < checkpoint.records)
    <3>1. s' = [st EXCEPT !.matched = TRUE] /\ CheckpointOf(st) = checkpoint
      BY <1>4, <2>10 DEF Deliver
    <3>2. /\ s' \in StreamRec /\ s'.phase = "reading" /\ s'.matched
          /\ s'.prefix = st.prefix /\ s'.records = st.records
          /\ s'.lines = st.lines /\ s'.file = st.file
          /\ s'.offset = st.offset /\ s'.pending = st.pending
      BY <2>1, <3>1 DEF StreamRec
    <3>3. Counted(s')
      BY <2>1, <2>2, <3>2 DEF Counted
    <3>4. checkpoint # NULL
      BY <2>6, <3>1, NullAssumption
    <3>5. RecordsIn(st.prefix) = acked
      BY <1>1, <2>6, <3>1, <3>4 DEF AckedIsCheckpointed
    <3>6. Continues(s', checkpoint, acked)
      BY <2>3, <2>6, <3>1, <3>2, <3>5 DEF Continues
    <3>7. QED BY <1>1, <3>2, <3>3, <3>6, StreamGoesOn
  <2>11. QED BY <2>7, <2>8, <2>9, <2>10
<1>5. QED BY <1>3, <1>4 DEF TakeLine

\* An open stream in which only the response and the buffer have moved on.
LEMMA BufferMoves ==
  ASSUME IInv, Active, UNCHANGED <<served, checkpoint, acked>>, s' \in StreamRec,
         s.phase # "yielded", s'.phase # "yielded", s'.phase # "open" => s'.file \in 1 .. 2,
         s'.lines = s.lines, s'.records = s.records, s'.prefix = s.prefix,
         s'.matched = s.matched, s'.offset <= MaxBytes,
         Len(s'.pending) <= MaxLineBytes + MaxChunk
  PROVE  IInv'
<1>1. Counted(s) /\ Continues(s, checkpoint, acked)
  BY DEF IInv
<1>2. Counted(s')
  BY <1>1 DEF Counted
<1>3. Continues(s', checkpoint, acked)
  BY <1>1 DEF Continues
<1>4. QED BY <1>2, <1>3, StreamGoesOn

\* A stream that opens has hashed nothing and is behind its checkpoint if there is none.
LEMMA OpenSteps ==
  ASSUME IInv, Open
  PROVE  IInv'
<1>1. CASE s' = Closed("error")
  BY <1>1, StreamEnds DEF Open
<1>2. CASE s' = Opened
  <2>1. << >> \in Seq(Bytes) /\ << >> \in Seq(Frame) /\ Len(<< >>) = 0
    BY EmptySeq
  <2>2. Listed \in SUBSET {"result", "error"}
    BY DEF Listed, Kinds, ToSet
  <2> DEFINE first == (checkpoint = NULL)
  <2>3. first \in BOOLEAN
    OBVIOUS
  <2>4. Opened = [phase |-> "open", listed |-> Listed, file |-> 0, body |-> << >>, offset |-> 0,
                  pending |-> << >>, line |-> 0, lines |-> 0, records |-> 0, prefix |-> << >>,
                  matched |-> first, item |-> NULL]
    BY DEF Opened
  <2> HIDE DEF first
  <2>5. /\ s' \in StreamRec /\ s'.phase = "open" /\ s'.lines = 0 /\ s'.records = 0
        /\ s'.prefix = << >> /\ s'.matched = first /\ s'.offset = 0 /\ s'.pending = << >>
    BY <1>2, <2>1, <2>2, <2>3, <2>4 DEF StreamRec
  <2>6. Counted(s')
    <3>1. /\ MaxLines \in Nat /\ MaxRecords \in Nat /\ MaxBytes \in Nat /\ MaxLineBytes \in Nat
          /\ MaxChunk \in Nat
      BY ConstantsAssumption
    <3>2. /\ 0 <= MaxLines /\ 0 <= MaxRecords /\ 0 <= MaxBytes /\ 0 <= MaxLineBytes + MaxChunk
      BY <3>1
    <3>3. Cardinality(LineFrames(<< >>)) = 0 /\ Cardinality(RecordFrames(<< >>)) = 0
      BY RecordsCount
    <3>4. QED BY <2>1, <2>5, <3>2, <3>3 DEF Counted
  <2>7. first => RecordsIn(s'.prefix) = acked
    BY <2>5, RecordsCount DEF first, IInv, AckedIsCheckpointed
  <2>8. Continues(s', checkpoint, acked)
    BY <2>5, <2>7 DEF Continues, first
  <2>9. QED BY <2>5, <2>6, <2>8, StreamGoesOn DEF Open
<1>3. QED BY <1>1, <1>2 DEF Open

\* The frame of a file holds no line and no record.
LEMMA StartFileSteps ==
  ASSUME IInv, StartFile
  PROVE  IInv'
<1> DEFINE kind == Kinds[s.file + 1]
<1>1. /\ TypeOK /\ Active /\ Counted(s) /\ Continues(s, checkpoint, acked)
      /\ UNCHANGED <<served, checkpoint, acked>> /\ s.phase = "open" /\ s.file < 2
  BY DEF IInv, Active, StartFile
<1>2. s \in StreamRec
  BY <1>1, StreamType
<1> DEFINE n == s.file + 1
<1>3. n \in 0 .. 2 /\ n \in 1 .. 2
  BY <1>1, <1>2 DEF StreamRec
<1>4. CASE s' = Closed("error")
  BY <1>1, <1>4, StreamEnds
<1>5. CASE s' = [s EXCEPT !.file = n]
  <2> HIDE DEF n
  <2>1. /\ s' \in StreamRec /\ s'.phase = "open" /\ s'.lines = s.lines /\ s'.records = s.records
        /\ s'.prefix = s.prefix /\ s'.matched = s.matched /\ s'.offset = s.offset
        /\ s'.pending = s.pending
    BY <1>1, <1>2, <1>3, <1>5 DEF StreamRec
  <2>2. QED BY <1>1, <2>1, BufferMoves DEF Counted
<1>6. CASE /\ served[kind] # NULL
           /\ s' = [s EXCEPT !.phase = "reading", !.file = n, !.body = served[kind],
                             !.offset = 0, !.pending = << >>, !.line = 0,
                             !.prefix = Append(@, FileFrame(kind))]
  <2> DEFINE f == FileFrame(kind)
             p == Append(s.prefix, f)
             body == served[kind]
  <2>1. kind \in {"result", "error"}
    BY <1>3 DEF Kinds
  <2>2. body \in Seq(Bytes) /\ << >> \in Seq(Bytes) /\ Len(<< >>) = 0
    <3>1. served \in Served
      BY <1>1 DEF TypeOK
    <3>2. served[kind] \in Seq(Bytes) \cup {NULL}
      BY <2>1, <3>1, ConstantsAssumption DEF Served
    <3>3. QED BY <1>6, <3>2, EmptySeq
  <2>3. f \in Frame /\ f.line = 0
    BY <2>1, <2>2 DEF FileFrame, Frame
  <2>4. s.prefix \in Seq(Frame)
    BY <1>2 DEF StreamRec
  <2>5. s' = [s EXCEPT !.phase = "reading", !.file = n, !.body = body, !.offset = 0,
                       !.pending = << >>, !.line = 0, !.prefix = p]
    BY <1>6
  <2> HIDE DEF f, body, n
  <2>6. ~(f.line > 0) /\ ~IsRecord(f)
    BY <2>3 DEF IsRecord
  <2>7. /\ p \in Seq(Frame) /\ LineFrames(p) = LineFrames(s.prefix)
        /\ RecordFrames(p) = RecordFrames(s.prefix) /\ RecordsIn(p) = RecordsIn(s.prefix)
        /\ \A a \in Seq(Frame) : IsPrefix(a, s.prefix) => IsPrefix(a, p)
    BY <2>3, <2>4, <2>6, FramesGrow, RecordsKept, PrefixGrows
  <2> HIDE DEF p
  <2>8. /\ s' \in StreamRec /\ s'.phase = "reading" /\ s'.lines = s.lines
        /\ s'.records = s.records /\ s'.prefix = p /\ s'.matched = s.matched /\ s'.offset = 0
        /\ s'.pending = << >> /\ s'.file = n
    BY <1>2, <1>3, <2>2, <2>5, <2>7 DEF StreamRec
  <2>9. Counted(s')
    BY <1>1, <1>3, <2>2, <2>7, <2>8, ConstantsAssumption DEF Counted
  <2>10. checkpoint # NULL => checkpoint.prefix \in Seq(Frame)
    BY <1>1 DEF TypeOK, Checkpoint
  <2>11. Continues(s', checkpoint, acked)
    BY <1>1, <2>7, <2>8, <2>10 DEF Continues
  <2>12. QED BY <1>1, <2>8, <2>9, <2>11, StreamGoesOn
<1>7. QED BY <1>4, <1>5, <1>6 DEF StartFile

\* A chunk is within the byte limit, and the buffer it is added to within one line.
LEMMA ReceiveSteps ==
  ASSUME IInv, Receive
  PROVE  IInv'
<1>1. /\ TypeOK /\ Active /\ Counted(s) /\ UNCHANGED <<served, checkpoint, acked>>
      /\ s.phase = "reading" /\ Len(s.pending) <= MaxLineBytes
  BY DEF IInv, Active, Receive
<1>2. s \in StreamRec
  BY <1>1, StreamType
<1>3. PICK k \in 1 .. MaxChunk :
        /\ s.offset + k <= Len(s.body)
        /\ s' = IF s.offset + k > MaxBytes THEN Closed("error")
                ELSE [s EXCEPT !.offset = @ + k,
                               !.pending = @ \o SubSeq(s.body, s.offset + 1, s.offset + k)]
  BY DEF Receive
<1>4. CASE s' = Closed("error")
  BY <1>1, <1>4, StreamEnds
<1>5. CASE ~(s.offset + k > MaxBytes)
  <2> DEFINE o == s.offset + k
             chunk == SubSeq(s.body, s.offset + 1, o)
             p == s.pending \o chunk
  <2>1. /\ s.offset \in Nat /\ s.body \in Seq(Bytes) /\ s.pending \in Seq(Bytes)
        /\ MaxChunk \in Nat /\ MaxLineBytes \in Nat /\ MaxBytes \in Nat /\ k \in Nat
        /\ Len(s.body) \in Nat /\ Len(s.pending) \in Nat
    BY <1>2, ConstantsAssumption DEF StreamRec
  <2>2. /\ o \in Nat /\ o <= Len(s.body) /\ s.offset + 1 \in 1 .. Len(s.body) + 1
        /\ o <= MaxBytes
    BY <1>3, <1>5, <2>1
  <2>3. chunk \in Seq(Bytes) /\ Len(chunk) = k
    <3> DEFINE i == s.offset + 1
    <3>1. i \in 1 .. Len(s.body) + 1 /\ o \in i - 1 .. Len(s.body) /\ o - i + 1 = k
      BY <2>1, <2>2, SMTT(30)
    <3> HIDE DEF i, o
    <3>2. SubSeq(s.body, i, o) \in Seq(Bytes) /\ Len(SubSeq(s.body, i, o)) = o - i + 1
      BY <2>1, <3>1, SubSeqProperties
    <3>3. QED BY <3>1, <3>2 DEF i, o
  <2>4. s' = [s EXCEPT !.offset = o, !.pending = p]
    BY <1>3, <1>5
  <2> HIDE DEF chunk, o
  <2>5. p \in Seq(Bytes) /\ Len(p) = Len(s.pending) + k
    BY <2>1, <2>3
  <2> HIDE DEF p
  <2>6. /\ s' \in StreamRec /\ s'.phase = "reading" /\ s'.lines = s.lines
        /\ s'.records = s.records /\ s'.prefix = s.prefix /\ s'.matched = s.matched
        /\ s'.offset = o /\ s'.pending = p /\ s'.file = s.file
    BY <1>1, <1>2, <2>2, <2>4, <2>5 DEF StreamRec
  <2>7. Len(s'.pending) <= MaxLineBytes + MaxChunk
    <3>1. k <= MaxChunk /\ Len(s.pending) <= MaxLineBytes
      BY <1>1
    <3>2. Len(s.pending) + k <= MaxLineBytes + MaxChunk
      BY <2>1, <3>1
    <3>3. QED BY <2>5, <2>6, <3>2
  <2>8. s.file \in 1 .. 2
    BY <1>1 DEF Counted
  <2>9. QED BY <1>1, <2>2, <2>6, <2>7, <2>8, BufferMoves
<1>6. QED BY <1>3, <1>4, <1>5

\* A whole line, or the rest of the file, is taken from the buffer.
LEMMA LineSteps ==
  ASSUME IInv, CutLine \/ FinalLine
  PROVE  IInv'
<1>1. s.phase = "reading" /\ Active /\ s \in StreamRec
  BY StreamType DEF CutLine, FinalLine, Active, IInv
<1>2. s.pending \in Seq(Bytes) /\ Len(s.pending) \in Nat
  BY <1>1 DEF StreamRec
<1>3. CASE CutLine
  <2> DEFINE n == NewlineAt
             raw == SubSeq(s.pending, 1, n - 1)
             rest == SubSeq(s.pending, n + 1, Len(s.pending))
  <2>1. n \in 1 .. Len(s.pending)
    BY <1>2, <1>3, NewlineIsInside DEF CutLine
  <2>2. TakeLine(raw, TRUE, rest)
    BY <1>3 DEF CutLine
  <2> HIDE DEF n
  <2>3. raw \in Seq(Bytes)
    BY <1>2, <2>1, SubSeqProperties
  <2>4. rest \in Seq(Bytes) /\ Len(rest) <= Len(s.pending)
    BY <1>2, <2>1, SubSeqProperties
  <2> HIDE DEF raw, rest
  <2>5. QED BY <1>1, <2>2, <2>3, <2>4, LineIsTaken
<1>4. CASE FinalLine
  <2>1. TakeLine(s.pending, FALSE, << >>)
    BY <1>4 DEF FinalLine
  <2>2. << >> \in Seq(Bytes) /\ Len(<< >>) = 0
    BY EmptySeq
  <2>3. Len(<< >>) <= Len(s.pending)
    BY <1>2, <2>2
  <2>4. QED BY <1>1, <1>2, <2>1, <2>2, <2>3, LineIsTaken
<1>5. QED BY <1>3, <1>4

\* The stream ends, or one of its files.
LEMMA EndSteps ==
  ASSUME IInv, RefuseLongLine \/ EndFile \/ EndStream \/ Interrupt
  PROVE  IInv'
<1>1. CASE RefuseLongLine \/ Interrupt
  BY <1>1, StreamEnds DEF RefuseLongLine, Interrupt, Fail
<1>2. CASE EndStream
  BY <1>2, StreamEnds DEF EndStream
<1>3. CASE EndFile
  <2>1. /\ Active /\ Counted(s) /\ s \in StreamRec /\ s.phase = "reading"
        /\ s' = [s EXCEPT !.phase = "open"] /\ UNCHANGED <<served, checkpoint, acked>>
    BY <1>3, StreamType DEF EndFile, IInv, Active
  <2>2. /\ s' \in StreamRec /\ s'.phase = "open" /\ s'.lines = s.lines
        /\ s'.records = s.records /\ s'.prefix = s.prefix /\ s'.matched = s.matched
        /\ s'.offset = s.offset /\ s'.pending = s.pending
    BY <2>1 DEF StreamRec
  <2>3. QED BY <2>1, <2>2, BufferMoves DEF Counted
<1>4. QED BY <1>1, <1>2, <1>3

\* The step that makes a record durable.
LEMMA AcknowledgeSteps ==
  ASSUME IInv, Acknowledge
  PROVE  /\ IInv'
         /\ checkpoint # NULL => /\ IsPrefix(checkpoint.prefix, checkpoint'.prefix)
                                 /\ checkpoint'.records = checkpoint.records + 1
<1>1. /\ TypeOK /\ Active /\ Counted(s) /\ Continues(s, checkpoint, acked) /\ AckedIsCheckpointed
      /\ s.phase = "yielded" /\ UNCHANGED served
      /\ checkpoint' = s.item.at /\ acked' = Append(acked, s.item.record)
      /\ s' = [s EXCEPT !.phase = "reading", !.item = NULL]
  BY DEF IInv, Active, Acknowledge
<1>2. s \in StreamRec /\ s.file \in 1 .. 2
  BY <1>1, StreamType DEF Counted
<1>3. /\ s' \in StreamRec /\ s'.phase = "reading" /\ s'.lines = s.lines /\ s'.file = s.file
      /\ s'.records = s.records /\ s'.prefix = s.prefix /\ s'.matched = s.matched
      /\ s'.offset = s.offset /\ s'.pending = s.pending
  BY <1>1, <1>2 DEF StreamRec
<1>4. /\ s.matched /\ s.item \in Item /\ s.item.at = CheckpointOf(s)
      /\ checkpoint # NULL => IsPrefix(checkpoint.prefix, s.prefix)
      /\ RecordsIn(s.prefix) = Append(acked, s.item.record)
  BY <1>1 DEF Continues
<1>5. /\ checkpoint' \in Checkpoint /\ checkpoint'.prefix = s.prefix
      /\ checkpoint'.records = s.records /\ checkpoint' # NULL
  BY <1>1, <1>2, <1>4, CheckpointType, NullAssumption
<1>6. s.prefix \in Seq(Frame) /\ acked \in Seq(Seq(Bytes)) /\ s.item.record \in Seq(Bytes)
  BY <1>1, <1>2, <1>4 DEF StreamRec, TypeOK, Item
<1>7. /\ acked' = RecordsIn(s.prefix) /\ acked' \in Seq(Seq(Bytes)) /\ Len(acked') = Len(acked) + 1
      /\ Len(acked') = s.records
  <2>1. Len(RecordsIn(s.prefix)) = Cardinality(RecordFrames(s.prefix))
    BY <1>6, RecordsCount
  <2>2. QED BY <1>1, <1>4, <1>6, <2>1 DEF Counted
<1>8. TypeOK'
  BY <1>1, <1>3, <1>5, <1>7 DEF TypeOK, StreamRec, Item
<1>9. AckedIsCheckpointed' /\ Durable'
  BY <1>1, <1>5, <1>7 DEF AckedIsCheckpointed, Durable, Counted
<1>10. Counted(s')
  BY <1>1, <1>2, <1>3 DEF Counted
<1>11. Continues(s', checkpoint', acked')
  <2>1. IsPrefix(s.prefix, s.prefix)
    BY <1>6 DEF IsPrefix
  <2>2. QED BY <1>3, <1>4, <1>5, <1>7, <2>1 DEF Continues
<1>12. IInv'
  BY <1>8, <1>9, <1>10, <1>11 DEF IInv, Counted, Continues, CheckpointOf
<1>13. checkpoint # NULL => checkpoint'.records = checkpoint.records + 1
  BY <1>1, <1>5, <1>7 DEF AckedIsCheckpointed
<1>14. QED BY <1>4, <1>5, <1>12, <1>13

\* The invariant holds at the start ...
LEMMA InitInvariant == Init => IInv
<1> SUFFICES ASSUME Init
             PROVE  IInv
  OBVIOUS
<1>1. << >> \in Seq(Seq(Bytes)) /\ Len(<< >>) = 0
  BY EmptySeq
<1>2. TypeOK /\ ~Active
  BY <1>1 DEF Init, TypeOK, Active, Closed
<1>3. AckedIsCheckpointed /\ Durable
  BY <1>1, ConstantsAssumption DEF Init, AckedIsCheckpointed, Durable
<1>4. QED BY <1>2, <1>3 DEF IInv

\* ... and every step keeps it.
LEMMA NextInvariant ==
  ASSUME IInv, [Next]_vars
  PROVE  IInv'
<1>1. CASE Change
  <2>1. served' \in Served /\ UNCHANGED <<checkpoint, acked, s>>
    BY <1>1, ConstantsAssumption DEF Change, Served
  <2>2. TypeOK' /\ AckedIsCheckpointed' /\ Durable'
    BY <2>1 DEF IInv, TypeOK, AckedIsCheckpointed, Durable
  <2>3. (Active => Counted(s) /\ Continues(s, checkpoint, acked))'
    BY <2>1 DEF IInv, Active, Counted, Continues, CheckpointOf
  <2>4. QED BY <2>2, <2>3 DEF IInv
<1>2. CASE UNCHANGED vars
  BY <1>2 DEF vars, IInv, TypeOK, AckedIsCheckpointed, Durable, Active, Counted, Continues,
     CheckpointOf
<1>3. QED
  BY <1>1, <1>2, OpenSteps, StartFileSteps, ReceiveSteps, LineSteps, EndSteps, AcknowledgeSteps
  DEF Next

-----------------------------------------------------------------------------
(* Lines and records as functions of a growing prefix.                     *)

LineRec == [line : Nat, raw : Seq(Bytes), ended : BOOLEAN]
LineOf(f) == [line |-> f.line, raw |-> f.raw, ended |-> f.ended]

\* The lines of a prefix, and the records of lines, are sequences.
LEMMA LinesOfType ==
  ASSUME NEW p \in Seq(Frame), NEW kind
  PROVE  LinesOf(p, kind) \in Seq(LineRec)
<1> DEFINE P == FramesOf(p, kind)
           full == Selected(p, P)
           c == Cardinality(P)
<1>1. Len(p) \in Nat /\ DOMAIN p = 1 .. Len(p) /\ P \in SUBSET (1 .. Len(p))
  BY DEF FramesOf
<1>2. c \in Nat /\ DOMAIN full = 1 .. c /\ \A k \in 1 .. c : full[k] \in Frame
  <2>1. /\ c \in Nat /\ DOMAIN full = 1 .. c /\ full = [k \in 1 .. c |-> p[Nth(P, k)]]
        /\ \A k \in 1 .. c : Nth(P, k) \in P
    <3> HIDE DEF P
    <3>1. QED BY <1>1, SelectedFields
  <2>2. \A i \in P : p[i] \in Frame
    BY <1>1
  <2> HIDE DEF P, full, c
  <2>3. QED BY <2>1, <2>2
<1>3. LinesOf(p, kind) = [k \in DOMAIN full |-> LineOf(full[k])]
  BY DEF LinesOf, LineOf
<1>4. \A f \in Frame : LineOf(f) \in LineRec
  BY DEF Frame, LineRec, LineOf
<1> HIDE DEF full, c
<1>5. LinesOf(p, kind) \in [1 .. c -> LineRec]
  BY <1>2, <1>3, <1>4
<1>6. QED BY <1>2, <1>5

\* The frame of a line of the file adds the line.
LEMMA LinesOfGrow ==
  ASSUME NEW p \in Seq(Frame), NEW f \in Frame, f.line > 0
  PROVE  LinesOf(Append(p, f), f.kind) = Append(LinesOf(p, f.kind), LineOf(f))
<1> DEFINE t == Append(p, f)
           kind == f.kind
           P == FramesOf(p, kind)
           l == Len(p)
           c == Cardinality(P)
           full == Selected(p, P)
           more == Selected(t, FramesOf(t, kind))
<1>1. /\ l \in Nat /\ Continued(p, t, l, f) /\ DOMAIN p = 1 .. l /\ DOMAIN t = 1 .. l + 1
      /\ P \in SUBSET (1 .. l)
  BY AppendContinues DEF FramesOf
<1>2. FramesOf(t, kind) = P \cup {l + 1}
  <2>1. DOMAIN t = (1 .. l) \cup {l + 1} /\ l + 1 \notin 1 .. l
    BY <1>1
  <2>2. t[l + 1] = f /\ \A i \in 1 .. l : t[i] = p[i]
    BY <1>1 DEF Continued
  <2> HIDE DEF t, l
  <2>3. QED BY <1>1, <2>1, <2>2 DEF FramesOf
<1>3. Longer(full, more, c, f)
  <2> HIDE DEF t, P, l
  <2>1. Longer(full, Selected(t, P \cup {l + 1}), c, f)
    BY <1>1, SelectedGrow
  <2>2. QED BY <1>2, <2>1
<1>4. /\ LinesOf(p, kind) = [k \in DOMAIN full |-> LineOf(full[k])]
      /\ LinesOf(t, kind) = [k \in DOMAIN more |-> LineOf(more[k])]
  BY DEF LinesOf, LineOf
<1> HIDE DEF full, more, c, t, P, kind
<1>5. /\ LinesOf(p, kind) = [k \in 1 .. c |-> LineOf(full[k])]
      /\ LinesOf(t, kind) = [k \in 1 .. c + 1 |-> LineOf(more[k])]
  BY <1>3, <1>4 DEF Longer
<1>6. Continued(LinesOf(p, kind), LinesOf(t, kind), c, LineOf(f))
  <2>1. c + 1 \in 1 .. c + 1 /\ \A k \in 1 .. c : k \in 1 .. c + 1
    BY <1>3 DEF Longer
  <2>2. QED BY <1>3, <1>5, <2>1 DEF Continued, Longer
<1>7. /\ LinesOf(p, kind) = [k \in 1 .. c |-> LinesOf(p, kind)[k]]
      /\ LinesOf(t, kind) = [k \in 1 .. c + 1 |-> LinesOf(t, kind)[k]]
  BY <1>5
<1>8. c \in Nat
  BY <1>3 DEF Longer
<1>9. LinesOf(t, kind) = Append(LinesOf(p, kind), LineOf(f))
  BY <1>6, <1>7, <1>8, AppendFun
<1>10. QED BY <1>9 DEF t, kind

\* Any other frame adds none.
LEMMA LinesOfKept ==
  ASSUME NEW p \in Seq(Frame), NEW f \in Frame, NEW kind, f.kind # kind \/ f.line = 0
  PROVE  LinesOf(Append(p, f), kind) = LinesOf(p, kind)
<1> DEFINE t == Append(p, f)
           P == FramesOf(p, kind)
           l == Len(p)
<1>1. /\ l \in Nat /\ Continued(p, t, l, f) /\ DOMAIN p = 1 .. l /\ DOMAIN t = 1 .. l + 1
      /\ P \in SUBSET (1 .. l)
  BY AppendContinues DEF FramesOf
<1>2. FramesOf(t, kind) = P
  <2>1. DOMAIN t = (1 .. l) \cup {l + 1} /\ l + 1 \notin 1 .. l
    BY <1>1
  <2>2. t[l + 1] = f /\ \A i \in 1 .. l : t[i] = p[i]
    BY <1>1 DEF Continued
  <2>3. ~(f.kind = kind /\ f.line > 0)
    OBVIOUS
  <2> HIDE DEF t, l
  <2>4. QED BY <1>1, <2>1, <2>2, <2>3 DEF FramesOf
<1>3. Selected(t, P) = Selected(p, P)
  <2> HIDE DEF t, P, l
  <2>1. QED BY <1>1, SelectedGrow
<1> HIDE DEF t
<1>4. LinesOf(t, kind) = LinesOf(p, kind)
  BY <1>2, <1>3 DEF LinesOf
<1>5. QED BY <1>4 DEF t

\* The records of lines, when a line is added.
LEMMA RecordsOfGrow ==
  ASSUME NEW p \in Seq(LineRec), NEW f \in LineRec
  PROVE  RecordsOf(Append(p, f)) = IF Blank(f.raw) THEN RecordsOf(p)
                                   ELSE Append(RecordsOf(p), Stripped(f.raw))
<1> DEFINE t == Append(p, f)
           P == RecordLines(p)
           l == Len(p)
           c == Cardinality(P)
           full == Selected(p, P)
           more == Selected(t, RecordLines(t))
<1>1. /\ l \in Nat /\ Continued(p, t, l, f) /\ DOMAIN p = 1 .. l /\ DOMAIN t = 1 .. l + 1
      /\ P \in SUBSET (1 .. l)
  BY AppendContinues DEF RecordLines
<1>2. RecordLines(t) = IF Blank(f.raw) THEN P ELSE P \cup {l + 1}
  <2>1. DOMAIN t = (1 .. l) \cup {l + 1} /\ l + 1 \notin 1 .. l
    BY <1>1
  <2>2. t[l + 1] = f /\ \A i \in 1 .. l : t[i] = p[i]
    BY <1>1 DEF Continued
  <2> HIDE DEF t, l
  <2>3. QED BY <1>1, <2>1, <2>2 DEF RecordLines
<1>3. CASE Blank(f.raw)
  <2>1. Selected(t, P) = Selected(p, P)
    <3> HIDE DEF t, P, l
    <3>1. QED BY <1>1, SelectedGrow
  <2> HIDE DEF t
  <2>2. RecordsOf(t) = RecordsOf(p)
    BY <1>2, <1>3, <2>1 DEF RecordsOf
  <2>3. QED BY <1>3, <2>2 DEF t
<1>4. CASE ~Blank(f.raw)
  <2>1. Longer(full, more, c, f)
    <3> HIDE DEF t, P, l
    <3>1. Longer(full, Selected(t, P \cup {l + 1}), c, f)
      BY <1>1, SelectedGrow
    <3>2. QED BY <1>2, <1>4, <3>1
  <2>2. /\ RecordsOf(p) = [k \in DOMAIN full |-> Stripped(full[k].raw)]
        /\ RecordsOf(t) = [k \in DOMAIN more |-> Stripped(more[k].raw)]
    BY DEF RecordsOf
  <2> HIDE DEF full, more, c, t, P
  <2>3. /\ RecordsOf(p) = [k \in 1 .. c |-> Stripped(full[k].raw)]
        /\ RecordsOf(t) = [k \in 1 .. c + 1 |-> Stripped(more[k].raw)]
    BY <2>1, <2>2 DEF Longer
  <2>4. Continued(RecordsOf(p), RecordsOf(t), c, Stripped(f.raw))
    <3>1. c + 1 \in 1 .. c + 1 /\ \A k \in 1 .. c : k \in 1 .. c + 1
      BY <2>1 DEF Longer
    <3>2. QED BY <2>1, <2>3, <3>1 DEF Continued, Longer
  <2>5. /\ RecordsOf(p) = [k \in 1 .. c |-> RecordsOf(p)[k]]
        /\ RecordsOf(t) = [k \in 1 .. c + 1 |-> RecordsOf(t)[k]]
    BY <2>3
  <2>6. c \in Nat
    BY <2>1 DEF Longer
  <2>7. RecordsOf(t) = Append(RecordsOf(p), Stripped(f.raw))
    BY <2>4, <2>5, <2>6, AppendFun
  <2>8. QED BY <1>4, <2>7 DEF t
<1>5. QED BY <1>3, <1>4

\* The records of lines are stripped lines.
LEMMA RecordsOfType ==
  ASSUME NEW p \in Seq(LineRec)
  PROVE  RecordsOf(p) \in Seq(Seq(Bytes))
<1> DEFINE P == RecordLines(p)
           full == Selected(p, P)
           c == Cardinality(P)
<1>1. Len(p) \in Nat /\ DOMAIN p = 1 .. Len(p) /\ P \in SUBSET (1 .. Len(p))
  BY DEF RecordLines
<1>2. c \in Nat /\ DOMAIN full = 1 .. c /\ \A k \in 1 .. c : full[k] \in LineRec
  <2>1. /\ c \in Nat /\ DOMAIN full = 1 .. c /\ full = [k \in 1 .. c |-> p[Nth(P, k)]]
        /\ \A k \in 1 .. c : Nth(P, k) \in P
    <3> HIDE DEF P
    <3>1. QED BY <1>1, SelectedFields
  <2>2. \A i \in P : p[i] \in LineRec
    BY <1>1
  <2> HIDE DEF P, full, c
  <2>3. QED BY <2>1, <2>2
<1>3. RecordsOf(p) = [k \in DOMAIN full |-> Stripped(full[k].raw)]
  BY DEF RecordsOf
<1>4. \A f \in LineRec : Stripped(f.raw) \in Seq(Bytes)
  BY StrippedType DEF LineRec
<1> HIDE DEF full, c
<1>5. RecordsOf(p) \in [1 .. c -> Seq(Bytes)]
  BY <1>2, <1>3, <1>4
<1>6. QED BY <1>2, <1>5

\* Without frames there are no lines, and without lines no records.
LEMMA NoLines ==
  /\ \A kind : LinesOf(<< >>, kind) = << >>
  /\ RecordsOf(<< >>) = << >>
<1>1. Cardinality({}) = 0
  BY FS_EmptySet
<1>2. ASSUME NEW kind
      PROVE  LinesOf(<< >>, kind) = << >>
  <2>1. FramesOf(<< >>, kind) = {}
    BY DEF FramesOf
  <2>2. DOMAIN Selected(<< >>, FramesOf(<< >>, kind)) = 1 .. 0
    BY <1>1, <2>1 DEF Selected
  <2>3. LinesOf(<< >>, kind) \in [1 .. 0 -> {}]
    BY <2>2 DEF LinesOf
  <2>4. LinesOf(<< >>, kind) \in Seq({}) /\ Len(LinesOf(<< >>, kind)) = 0
    BY <2>3
  <2>5. QED BY <2>4, EmptySeq
<1>3. RecordsOf(<< >>) = << >>
  <2>1. RecordLines(<< >>) = {}
    BY DEF RecordLines
  <2>2. DOMAIN Selected(<< >>, RecordLines(<< >>)) = 1 .. 0
    BY <1>1, <2>1 DEF Selected
  <2>3. RecordsOf(<< >>) \in [1 .. 0 -> {}]
    BY <2>2 DEF RecordsOf
  <2>4. RecordsOf(<< >>) \in Seq({}) /\ Len(RecordsOf(<< >>)) = 0
    BY <2>3
  <2>5. QED BY <2>4, EmptySeq
<1>4. QED BY <1>2, <1>3

-----------------------------------------------------------------------------
(* The lines of a file, from its bytes.                                    *)

Below(P, i) == {j \in P : j <= i}

\* A position of the set is the one of its own rank.
LEMMA NthOfRank ==
  ASSUME NEW n \in Nat, NEW P \in SUBSET (1 .. n), NEW i \in P
  PROVE  /\ Cardinality(Below(P, i)) \in 1 .. Cardinality(P)
         /\ Nth(P, Cardinality(Below(P, i))) = i
<1> DEFINE k == Cardinality(Below(P, i))
<1>1. IsFiniteSet(P) /\ Cardinality(P) \in Nat
  BY PositionsGrow
<1>2. ASSUME NEW j
      PROVE  /\ IsFiniteSet(Below(P, j)) /\ Cardinality(Below(P, j)) \in Nat
             /\ Cardinality(Below(P, j)) <= Cardinality(P)
  <2>1. Below(P, j) \subseteq P
    BY DEF Below
  <2>2. QED BY <1>1, <2>1, FS_Subset, FS_CardinalityType
<1>3. ASSUME NEW a \in P, NEW b \in P, a < b
      PROVE  Cardinality(Below(P, a)) < Cardinality(Below(P, b))
  <2>1. Below(P, a) \subseteq Below(P, b) /\ b \in Below(P, b) /\ b \notin Below(P, a)
    <3>1. a \in Nat /\ b \in Nat /\ \A j \in P : j \in Nat
      OBVIOUS
    <3>2. b <= b /\ ~(b <= a) /\ \A j \in P : j <= a => j <= b
      BY <1>3, <3>1
    <3>3. QED BY <3>2 DEF Below
  <2>2. Below(P, a) # Below(P, b)
    BY <2>1
  <2>3. Cardinality(Below(P, a)) <= Cardinality(Below(P, b))
        /\ Cardinality(Below(P, a)) # Cardinality(Below(P, b))
    <3>1. \A S, T : IsFiniteSet(T) /\ S \subseteq T /\ Cardinality(S) = Cardinality(T) => S = T
      BY FS_Subset
    <3>2. QED BY <1>2, <2>1, <2>2, <3>1, FS_Subset
  <2>4. QED BY <1>2, <2>3
<1>4. k \in Nat /\ k <= Cardinality(P) /\ k # 0
  <2>1. i \in Below(P, i)
    BY DEF Below
  <2>2. k # 0
    BY <1>2, <2>1, FS_EmptySet
  <2>3. QED BY <1>2, <2>2
<1>5. k \in 1 .. Cardinality(P)
  <2> HIDE DEF k
  <2>1. QED BY <1>1, <1>4
<1>6. Nth(P, k) \in P /\ Nth(P, k) \in Ranked(P, k)
  <2> HIDE DEF k
  <2>1. QED BY <1>5, SelectedFields
<1> DEFINE x == Nth(P, k)
<1>7. x \in P /\ Cardinality(Below(P, x)) = k
  <2> HIDE DEF x, k
  <2>1. QED BY <1>6 DEF Ranked, Below, x
<1> HIDE DEF x
<1>8. ~(x < i) /\ ~(i < x)
  BY <1>2, <1>3, <1>7
<1>9. x = i
  BY <1>7, <1>8
<1>10. QED BY <1>5, <1>9 DEF x

\* The positions of starts are positions of the file.
LEMMA StartsInside ==
  ASSUME NEW body \in Seq(Bytes)
  PROVE  /\ Len(body) \in Nat /\ DOMAIN body = 1 .. Len(body)
         /\ Starts(body) \in SUBSET (1 .. Len(body))
         /\ Newlines(body) \in SUBSET (1 .. Len(body))
         /\ Below(Starts(body), Len(body)) = Starts(body)
         /\ \A c : Cardinality(Below(Starts(body), c)) \in Nat
         /\ \A c : Cardinality(Below(Starts(body), c)) <= Cardinality(Starts(body))
         /\ Cardinality(Starts(body)) \in Nat
<1>1. /\ Len(body) \in Nat /\ DOMAIN body = 1 .. Len(body)
      /\ Starts(body) \in SUBSET (1 .. Len(body))
      /\ Newlines(body) \in SUBSET (1 .. Len(body))
  BY DEF Starts, Newlines
<1> DEFINE P == Starts(body)
           n == Len(body)
<1>2. IsFiniteSet(P) /\ Cardinality(P) \in Nat
  <2>1. n \in Nat /\ P \in SUBSET (1 .. n)
    BY <1>1
  <2> HIDE DEF P, n
  <2>2. QED BY <2>1, PositionsGrow
<1>3. ASSUME NEW c
      PROVE  Cardinality(Below(P, c)) \in Nat /\ Cardinality(Below(P, c)) <= Cardinality(P)
  <2>1. Below(P, c) \subseteq P
    BY DEF Below
  <2> HIDE DEF P
  <2>2. QED BY <1>2, <2>1, FS_Subset, FS_CardinalityType
<1>4. Below(P, n) = P
  <2> HIDE DEF P
  <2>1. P \in SUBSET (1 .. n)
    BY <1>1 DEF P
  <2>2. \A j \in P : j <= n
    BY <1>1, <2>1
  <2>3. QED BY <2>2 DEF Below
<1>5. QED BY <1>1, <1>2, <1>3, <1>4

\* The bytes c + 1 .. e - 1 of a file are its next line, behind c bytes of whole lines.
NextLine(body, c, e) ==
  /\ c \in 0 .. Len(body) - 1
  /\ c = 0 \/ body[c] = "n"
  /\ e \in c + 1 .. Len(body) + 1
  /\ e = Len(body) + 1 \/ body[e] = "n"
  /\ \A i \in c + 1 .. e - 1 : body[i] # "n"

\* The start of the next line is the only one in it.
LEMMA OneStart ==
  ASSUME NEW body \in Seq(Bytes), NEW c, NEW e, NextLine(body, c, e), NEW d \in Nat,
         c + 1 <= d, d <= e, d <= Len(body)
  PROVE  /\ c + 1 \in Starts(body)
         /\ Cardinality(Below(Starts(body), d)) = Cardinality(Below(Starts(body), c)) + 1
<1> DEFINE P == Starts(body)
<1>1. /\ Len(body) \in Nat /\ DOMAIN body = 1 .. Len(body) /\ P \in SUBSET (1 .. Len(body))
  BY StartsInside
<1>2. /\ c \in Nat /\ c + 1 \in 1 .. Len(body) /\ e \in Nat
      /\ c = 0 \/ body[c] = "n"
      /\ \A i \in c + 1 .. e - 1 : body[i] # "n"
  BY <1>1 DEF NextLine
<1>3. c + 1 \in P
  <2>1. c # 0 => c \in DOMAIN body /\ body[c] = "n"
    BY <1>1, <1>2
  <2>2. c + 1 = 1 \/ (c + 1) - 1 \in Newlines(body)
    BY <1>2, <2>1 DEF Newlines
  <2>3. QED BY <1>1, <1>2, <2>2 DEF Starts
<1>4. ASSUME NEW i \in P, c + 1 < i, i <= d
      PROVE  FALSE
  <2>1. i \in Nat /\ i # 1 /\ i - 1 \in c + 1 .. e - 1
    BY <1>1, <1>2, <1>4
  <2>2. i - 1 \in Newlines(body)
    BY <2>1 DEF Starts
  <2>3. body[i - 1] = "n"
    BY <2>2 DEF Newlines
  <2>4. QED BY <1>2, <2>1, <2>3
<1>5. Below(P, d) = Below(P, c) \cup {c + 1} /\ c + 1 \notin Below(P, c)
  <2>1. \A i \in P : i <= d <=> i <= c \/ i = c + 1
    BY <1>1, <1>2, <1>4
  <2>2. ~(c + 1 <= c)
    BY <1>2
  <2> HIDE DEF P
  <2>3. QED BY <1>3, <2>1, <2>2 DEF Below
<1>6. IsFiniteSet(Below(P, c))
  <2>1. Below(P, c) \subseteq 1 .. Len(body)
    BY <1>1 DEF Below
  <2>2. IsFiniteSet(1 .. Len(body))
    BY <1>1, FS_Interval
  <2>3. QED BY <2>1, <2>2, FS_Subset
<1>7. QED BY <1>3, <1>5, <1>6, FS_AddElement

\* Where the next line ends.
LEMMA EndOfNext ==
  ASSUME NEW body \in Seq(Bytes), NEW c, NEW e, NextLine(body, c, e)
  PROVE  EndOf(body, c + 1) = e
<1> DEFINE E == {x \in Newlines(body) : x >= c + 1} \cup {Len(body) + 1}
<1>1. Len(body) \in Nat /\ DOMAIN body = 1 .. Len(body) /\ Newlines(body) \in SUBSET (1 .. Len(body))
  BY StartsInside
<1>2. /\ c \in Nat /\ e \in Nat /\ e >= c + 1 /\ e <= Len(body) + 1
      /\ e = Len(body) + 1 \/ (e \in 1 .. Len(body) /\ body[e] = "n")
      /\ \A i \in c + 1 .. e - 1 : body[i] # "n"
  BY <1>1 DEF NextLine
<1>3. e \in E
  BY <1>1, <1>2 DEF Newlines
<1>4. \A x \in E : x \in Nat /\ e <= x
  <2>1. \A x \in Newlines(body) : x \in Nat /\ body[x] = "n" /\ x <= Len(body)
    BY <1>1 DEF Newlines
  <2>2. ASSUME NEW x \in Newlines(body), x >= c + 1
        PROVE  e <= x
    <3>1. x \notin c + 1 .. e - 1
      BY <1>2, <2>1
    <3>2. QED BY <1>2, <2>1, <2>2, <3>1
  <2>3. QED BY <1>1, <1>2, <2>1, <2>2
<1>5. EndOf(body, c + 1) = Min(E)
  BY DEF EndOf
<1> HIDE DEF E
<1>6. PICK x \in E : x = Min(E) /\ \A y \in E : x <= y
  BY <1>3, <1>4 DEF Min
<1>7. x = e
  BY <1>2, <1>3, <1>4, <1>6
<1>8. QED BY <1>5, <1>6, <1>7

\* The first line that is not among those of c bytes is the next one.
LEMMA NextLineIs ==
  ASSUME NEW body \in Seq(Bytes), NEW c, NEW e, NextLine(body, c, e)
  PROVE  LET m == Cardinality(Below(Starts(body), c))
         IN /\ m \in Nat /\ m + 1 <= Len(Lines(body))
            /\ Lines(body)[m + 1] = [line |-> m + 1, raw |-> SubSeq(body, c + 1, e - 1),
                                     ended |-> e <= Len(body)]
<1> DEFINE P == Starts(body)
           m == Cardinality(Below(P, c))
           n == Len(body)
<1>1. /\ n \in Nat /\ P \in SUBSET (1 .. n) /\ m \in Nat /\ Cardinality(P) \in Nat
  BY StartsInside
<1>2. c \in Nat /\ c + 1 \in Nat /\ c + 1 <= e /\ c + 1 <= n
  BY <1>1 DEF NextLine
<1>3. c + 1 \in P /\ Cardinality(Below(P, c + 1)) = m + 1
  <2> DEFINE d == c + 1
  <2>1. d \in Nat /\ c + 1 <= d /\ d <= e /\ d <= Len(body)
    BY <1>1, <1>2
  <2> HIDE DEF d
  <2>2. c + 1 \in Starts(body)
        /\ Cardinality(Below(Starts(body), d)) = Cardinality(Below(Starts(body), c)) + 1
    BY <2>1, OneStart
  <2>3. QED BY <2>2 DEF d
<1>4. m + 1 \in 1 .. Cardinality(P) /\ Nth(P, m + 1) = c + 1
  <2> DEFINE i == c + 1
  <2>1. i \in P /\ Cardinality(Below(P, i)) = m + 1
    BY <1>3
  <2> HIDE DEF i, P, n, m
  <2>2. /\ Cardinality(Below(P, i)) \in 1 .. Cardinality(P)
        /\ Nth(P, Cardinality(Below(P, i))) = i
    BY <1>1, <2>1, NthOfRank
  <2>3. QED BY <2>1, <2>2 DEF i
<1>5. Lines(body) = [k \in 1 .. Cardinality(P) |-> LineAt(body, k, Nth(P, k))]
  BY DEF Lines
<1>6. LineAt(body, m + 1, c + 1) = [line |-> m + 1, raw |-> SubSeq(body, c + 1, e - 1),
                                    ended |-> e <= Len(body)]
  BY EndOfNext DEF LineAt
<1> HIDE DEF P, m
<1>7. Len(Lines(body)) = Cardinality(P)
  BY <1>1, <1>5
<1>8. Lines(body)[m + 1] = LineAt(body, m + 1, c + 1)
  BY <1>4, <1>5
<1>9. m + 1 <= Cardinality(P)
  BY <1>1, <1>4
<1>10. QED BY <1>1, <1>6, <1>7, <1>8, <1>9 DEF m, P

\* The lines of a file.
LEMMA LinesType ==
  ASSUME NEW body \in Seq(Bytes)
  PROVE  /\ Len(Lines(body)) = Cardinality(Starts(body))
         /\ Len(Lines(body)) \in Nat
         /\ Lines(body) = [k \in 1 .. Len(Lines(body)) |-> Lines(body)[k]]
<1> DEFINE c == Cardinality(Starts(body))
<1>1. c \in Nat
  BY StartsInside
<1>2. Lines(body) = [k \in 1 .. c |-> LineAt(body, k, Nth(Starts(body), k))]
  BY DEF Lines
<1> HIDE DEF c
<1>3. Len(Lines(body)) = c /\ DOMAIN Lines(body) = 1 .. c
  BY <1>1, <1>2
<1>4. Lines(body) = [k \in 1 .. c |-> Lines(body)[k]]
  BY <1>2
<1>5. QED BY <1>1, <1>3, <1>4 DEF c

\* The first lines of a sequence and one more.
LEMMA OneMore ==
  ASSUME NEW q, NEW n \in Nat, q = [k \in 1 .. n |-> q[k]], NEW m \in Nat, m + 1 <= n
  PROVE  SubSeq(q, 1, m + 1) = Append(SubSeq(q, 1, m), q[m + 1])
<1> DEFINE g == SubSeq(q, 1, m)
           h == SubSeq(q, 1, m + 1)
<1>1. g = [k \in 1 .. m |-> q[k]] /\ h = [k \in 1 .. m + 1 |-> q[k]]
  OBVIOUS
<1> HIDE DEF g, h
<1>2. /\ g = [k \in 1 .. m |-> g[k]] /\ h = [k \in 1 .. m + 1 |-> h[k]]
  BY <1>1
<1>3. Continued(g, h, m, q[m + 1])
  <2>1. m + 1 \in 1 .. m + 1 /\ \A k \in 1 .. m : k \in 1 .. m + 1
    OBVIOUS
  <2>2. QED BY <1>1, <2>1 DEF Continued
<1>4. h = Append(g, q[m + 1])
  BY <1>2, <1>3, AppendFun
<1>5. QED BY <1>4 DEF g, h

\* All lines, and none of them.
LEMMA AllLines ==
  ASSUME NEW q, NEW n \in Nat, q = [k \in 1 .. n |-> q[k]]
  PROVE  SubSeq(q, 1, n) = q /\ SubSeq(q, 1, 0) = << >>
<1>1. SubSeq(q, 1, n) = q
  OBVIOUS
<1>2. SubSeq(q, 1, 0) = << >>
  OBVIOUS
<1>3. QED BY <1>1, <1>2

\* A part of a part of a file, and two adjacent parts.
LEMMA PartOfPart ==
  ASSUME NEW b \in Seq(Bytes), NEW c \in Nat, NEW o \in Nat, c <= o, o <= Len(b),
         NEW i \in Nat, NEW j \in Nat, 1 <= i, j <= o - c
  PROVE  SubSeq(SubSeq(b, c + 1, o), i, j) = SubSeq(b, c + i, c + j)
<1> DEFINE p == SubSeq(b, c + 1, o)
<1>1. p = [k \in 1 .. o - c |-> b[c + k]]
  OBVIOUS
<1> HIDE DEF p
<1>2. \A k \in 1 .. j - i + 1 : p[i + k - 1] = b[c + i + k - 1]
  <2>1. \A k \in 1 .. j - i + 1 : i + k - 1 \in 1 .. o - c /\ c + (i + k - 1) = c + i + k - 1
    OBVIOUS
  <2>2. QED BY <1>1, <2>1
<1>3. SubSeq(p, i, j) = [k \in 1 .. j - i + 1 |-> p[i + k - 1]]
  OBVIOUS
<1>4. SubSeq(b, c + i, c + j) = [k \in 1 .. j - i + 1 |-> b[c + i + k - 1]]
  <2>1. (c + j) - (c + i) + 1 = j - i + 1
    OBVIOUS
  <2>2. QED BY <2>1
<1>5. SubSeq(p, i, j) = SubSeq(b, c + i, c + j)
  BY <1>2, <1>3, <1>4
<1>6. QED BY <1>5 DEF p

\* Two adjacent parts of a file.
LEMMA AdjacentParts ==
  ASSUME NEW b \in Seq(Bytes), NEW c \in Nat, NEW o \in Nat, NEW e \in Nat, c <= o, o <= e,
         e <= Len(b)
  PROVE  /\ SubSeq(b, c + 1, o) \o SubSeq(b, o + 1, e) = SubSeq(b, c + 1, e)
         /\ Len(SubSeq(b, c + 1, o)) = o - c
<1> DEFINE p == SubSeq(b, c + 1, o)
           t == SubSeq(b, o + 1, e)
<1>1. /\ p = [k \in 1 .. o - c |-> b[c + k]] /\ Len(p) = o - c
      /\ t = [k \in 1 .. e - o |-> b[o + k]] /\ Len(t) = e - o
  OBVIOUS
<1> HIDE DEF p, t
<1>2. p \o t = [k \in 1 .. (o - c) + (e - o) |-> IF k <= o - c THEN p[k] ELSE t[k - (o - c)]]
  BY <1>1
<1>3. \A k \in 1 .. e - c : (IF k <= o - c THEN p[k] ELSE t[k - (o - c)]) = b[c + k]
  <2>1. ASSUME NEW k \in 1 .. e - c, k <= o - c
        PROVE  p[k] = b[c + k]
    BY <1>1, <2>1
  <2>2. ASSUME NEW k \in 1 .. e - c, ~(k <= o - c)
        PROVE  t[k - (o - c)] = b[c + k]
    <3>1. k - (o - c) \in 1 .. e - o /\ o + (k - (o - c)) = c + k
      BY <2>2
    <3>2. QED BY <1>1, <3>1
  <2>3. QED BY <2>1, <2>2
<1>4. (o - c) + (e - o) = e - c
  OBVIOUS
<1>5. SubSeq(b, c + 1, e) = [k \in 1 .. e - c |-> b[c + k]]
  OBVIOUS
<1>6. p \o t = SubSeq(b, c + 1, e)
  BY <1>2, <1>3, <1>4, <1>5
<1>7. QED BY <1>1, <1>6 DEF p, t

-----------------------------------------------------------------------------
(* One line of the stream.                                                 *)

\* NewlineAt is the first newline of the buffer.
LEMMA FirstNewline ==
  ASSUME s.pending \in Seq(Bytes)
  PROVE  /\ NewlineAt > 0 => /\ s.pending[NewlineAt] = "n"
                             /\ \A i \in 1 .. NewlineAt - 1 : s.pending[i] # "n"
         /\ NewlineAt = 0 => \A i \in 1 .. Len(s.pending) : s.pending[i] # "n"
<1> DEFINE I == {i \in 1 .. Len(s.pending) : s.pending[i] = "n"}
<1>1. NewlineAt = IF I # {} THEN Min(I) ELSE 0
  BY DEF NewlineAt, SelectInSeq
<1>2. Len(s.pending) \in Nat
  OBVIOUS
<1>3. CASE I = {}
  <2>1. NewlineAt = 0
    BY <1>1, <1>3
  <2>2. QED BY <1>3, <2>1
<1>4. CASE I # {}
  <2>1. I \in SUBSET Nat
    BY <1>2
  <2>2. \E x \in I : \A y \in I : x <= y
    <3> HIDE DEF I
    <3>1. QED BY <1>4, <2>1, LeastElement
  <2>3. Min(I) \in I /\ \A y \in I : Min(I) <= y
    <3> HIDE DEF I
    <3>1. QED BY <2>2 DEF Min
  <2> DEFINE n == NewlineAt
  <2>4. n \in I /\ \A y \in I : n <= y
    BY <1>1, <1>4, <2>3
  <2> HIDE DEF n
  <2>5. n \in Nat /\ n > 0 /\ n <= Len(s.pending) /\ s.pending[n] = "n"
    BY <1>2, <2>4
  <2>6. ASSUME NEW i \in 1 .. n - 1, s.pending[i] = "n"
        PROVE  FALSE
    <3>1. i \in I
      BY <1>2, <2>5, <2>6
    <3>2. QED BY <2>4, <2>5, <3>1
  <2>7. QED BY <2>5, <2>6 DEF n
<1>5. QED BY <1>3, <1>4

\* The fields that say which bytes have been read.
ReadFields(st) == <<st.file, st.body, st.offset, st.pending, st.line, st.prefix>>

\* The stream has taken c of the o bytes it has received.
Read(st, c, o) ==
  /\ st.body \in Seq(Bytes) /\ st.pending \in Seq(Bytes) /\ st.line \in Nat
  /\ c \in Nat /\ o \in Nat /\ c <= o /\ o <= Len(st.body)
  /\ st.offset = o /\ Taken(st) = c /\ Len(st.pending) = o - c
  /\ st.pending = SubSeq(st.body, c + 1, o)
  /\ c = 0 \/ c = Len(st.body) \/ st.body[c] = "n"
  /\ st.line = Cardinality(Below(Starts(st.body), c))
  /\ LinesOf(st.prefix, Kinds[st.file]) = SubSeq(Lines(st.body), 1, st.line)

\* Reads, with the bytes taken and received named.
LEMMA ReadsIsRead ==
  ASSUME NEW st \in StreamRec
  PROVE  /\ Reads(st) => Read(st, Taken(st), st.offset)
         /\ \A c, o : Read(st, c, o) => Reads(st)
<1>1. /\ st.body \in Seq(Bytes) /\ st.pending \in Seq(Bytes) /\ st.line \in Nat
      /\ st.offset \in Nat /\ Len(st.pending) \in Nat /\ Len(st.body) \in Nat
  BY DEF StreamRec
<1>2. \A c : Below(Starts(st.body), c) = {i \in Starts(st.body) : i <= c}
  BY DEF Below
<1>3. ASSUME Reads(st)
      PROVE  Read(st, Taken(st), st.offset)
  <2>1. /\ Taken(st) \in Nat /\ Taken(st) <= st.offset /\ st.offset <= Len(st.body)
        /\ Len(st.pending) = st.offset - Taken(st)
    <3>1. st.offset <= Len(st.body) /\ Len(st.pending) <= st.offset
      BY <1>3 DEF Reads
    <3>2. QED BY <1>1, <3>1 DEF Taken
  <2>2. QED BY <1>1, <1>2, <1>3, <2>1 DEF Reads, Read
<1>4. ASSUME NEW c, NEW o, Read(st, c, o)
      PROVE  Reads(st)
  <2>1. Len(st.pending) <= st.offset
    BY <1>1, <1>4 DEF Read
  <2>2. QED BY <1>2, <1>4, <2>1 DEF Read, Reads
<1>5. QED BY <1>3, <1>4

\* The next line is taken: the bytes up to d are behind the stream, and one line more.
LEMMA LineIsNext ==
  ASSUME NEW a \in StreamRec, NEW b \in StreamRec, NEW c, NEW o, Read(a, c, o),
         NEW e, NextLine(a.body, c, e), NEW d \in Nat, c + 1 <= d, d <= e, d <= o,
         d = Len(a.body) \/ a.body[d] = "n",
         b.file = a.file, b.body = a.body, b.offset = a.offset,
         b.pending = SubSeq(a.body, d + 1, o), b.line = a.line + 1,
         LinesOf(b.prefix, Kinds[a.file])
           = Append(LinesOf(a.prefix, Kinds[a.file]),
                    [line |-> a.line + 1, raw |-> SubSeq(a.body, c + 1, e - 1),
                     ended |-> e <= Len(a.body)])
  PROVE  Read(b, d, o)
<1> DEFINE body == a.body
           P == Starts(body)
           n == Len(Lines(body))
           m == a.line
           x == [line |-> m + 1, raw |-> SubSeq(body, c + 1, e - 1), ended |-> e <= Len(body)]
<1>1. /\ body \in Seq(Bytes) /\ c \in Nat /\ o \in Nat /\ c <= o /\ o <= Len(body)
      /\ Len(body) \in Nat /\ m \in Nat /\ d <= Len(body)
      /\ m = Cardinality(Below(P, c))
      /\ LinesOf(a.prefix, Kinds[a.file]) = SubSeq(Lines(body), 1, m)
  <2>1. a.body \in Seq(Bytes) /\ Len(a.body) \in Nat
    BY SMTT(30) DEF Read
  <2>2. QED BY <2>1, SMTT(30) DEF Read
<1>2. Cardinality(Below(P, d)) = m + 1
  BY <1>1, OneStart
<1>3. m + 1 <= n /\ Lines(body)[m + 1] = x
  BY <1>1, NextLineIs
<1>4. n \in Nat /\ Lines(body) = [k \in 1 .. n |-> Lines(body)[k]]
  BY <1>1, LinesType
<1>5. SubSeq(Lines(body), 1, m + 1) = Append(SubSeq(Lines(body), 1, m), x)
  <2> DEFINE q == Lines(body)
  <2> HIDE DEF q, n, x, m
  <2>1. q = [k \in 1 .. n |-> q[k]] /\ n \in Nat /\ m \in Nat /\ m + 1 <= n /\ q[m + 1] = x
    BY <1>1, <1>3, <1>4 DEF q
  <2>2. SubSeq(q, 1, m + 1) = Append(SubSeq(q, 1, m), q[m + 1])
    BY <2>1, OneMore
  <2>3. QED BY <2>1, <2>2 DEF q
<1>6. b.pending \in Seq(Bytes) /\ b.line \in Nat /\ Len(b.pending) = o - d
  <2>1. Len(SubSeq(body, d + 1, o)) = o - d
    BY <1>1, AdjacentParts
  <2>2. QED BY <2>1 DEF StreamRec
<1>7. Taken(b) = d
  <2>1. b.offset = o
    BY DEF Read
  <2>2. QED BY <1>1, <1>6, <2>1 DEF Taken
<1>8. LinesOf(b.prefix, Kinds[b.file]) = SubSeq(Lines(b.body), 1, b.line)
  BY <1>1, <1>5
<1>9. b.offset = o /\ b.body = body
  BY DEF Read
<1>10. b.line = Cardinality(Below(Starts(b.body), d))
  BY <1>2, <1>9
<1> HIDE DEF body, P, n, m, x
<1>11. QED BY <1>1, <1>6, <1>7, <1>8, <1>9, <1>10 DEF Read, body

\* What the buffer says of the next line: it ends at the first newline ...
LEMMA BufferHoldsLine ==
  ASSUME s \in StreamRec, NEW c, NEW o, Read(s, c, o), NewlineAt > 0
  PROVE  LET n == NewlineAt
         IN /\ n \in 1 .. o - c /\ s.body[c + n] = "n"
            /\ NextLine(s.body, c, c + n)
            /\ SubSeq(s.pending, 1, n - 1) = SubSeq(s.body, c + 1, c + n - 1)
            /\ SubSeq(s.pending, n + 1, Len(s.pending)) = SubSeq(s.body, c + n + 1, o)
<1> DEFINE n == NewlineAt
           body == s.body
           p == s.pending
<1>1. /\ body \in Seq(Bytes) /\ p \in Seq(Bytes) /\ c \in Nat /\ o \in Nat /\ c <= o
      /\ o <= Len(body) /\ Len(p) = o - c /\ p = SubSeq(body, c + 1, o)
      /\ c = 0 \/ c = Len(body) \/ body[c] = "n"
  BY DEF Read
<1>2. n \in 1 .. o - c /\ p[n] = "n" /\ \A i \in 1 .. n - 1 : p[i] # "n"
  BY <1>1, NewlineIsInside, FirstNewline
<1> HIDE DEF n, p
<1>3. \A i \in 1 .. o - c : p[i] = body[c + i]
  BY <1>1
<1>4. body[c + n] = "n"
  BY <1>2, <1>3
<1>5. NextLine(body, c, c + n)
  <2>1. c \in 0 .. Len(body) - 1 /\ c + n \in c + 1 .. Len(body) + 1 /\ c # Len(body)
    BY <1>1, <1>2
  <2>2. ASSUME NEW i \in c + 1 .. (c + n) - 1
        PROVE  body[i] # "n"
    <3>1. i - c \in 1 .. n - 1 /\ i - c \in 1 .. o - c /\ c + (i - c) = i
      BY <1>1, <1>2
    <3>2. QED BY <1>2, <1>3, <3>1
  <2>3. QED BY <1>1, <1>4, <2>1, <2>2 DEF NextLine
<1>6. SubSeq(p, 1, n - 1) = SubSeq(body, c + 1, c + n - 1)
  <2> DEFINE j == n - 1
  <2>1. j \in Nat /\ 1 <= 1 /\ j <= o - c /\ 1 \in Nat /\ c + j = c + n - 1
    BY <1>1, <1>2
  <2> HIDE DEF j
  <2>2. SubSeq(SubSeq(body, c + 1, o), 1, j) = SubSeq(body, c + 1, c + j)
    BY <1>1, <2>1, PartOfPart
  <2>3. QED BY <1>1, <2>1, <2>2 DEF j
<1>7. SubSeq(p, n + 1, Len(p)) = SubSeq(body, c + n + 1, o)
  <2> DEFINE i == n + 1
             j == o - c
  <2>1. i \in Nat /\ j \in Nat /\ 1 <= i /\ j <= o - c /\ c + j = o /\ c + i = c + n + 1
    BY <1>1, <1>2
  <2> HIDE DEF i, j, body
  <2>2. body \in Seq(Bytes) /\ c \in Nat /\ o \in Nat /\ c <= o /\ o <= Len(body)
    BY <1>1
  <2>3. SubSeq(SubSeq(body, c + 1, o), i, j) = SubSeq(body, c + i, c + j)
    BY <2>2, <2>1, PartOfPart
  <2>4. QED BY <1>1, <2>1, <2>3 DEF i, j
<1>8. QED BY <1>2, <1>4, <1>5, <1>6, <1>7 DEF n, p

\* ... or with the file, when all of it is there and no newline is left.
LEMMA BufferHoldsRest ==
  ASSUME s \in StreamRec, NEW c, NEW o, Read(s, c, o), NewlineAt = 0, o = Len(s.body),
         s.pending # << >>
  PROVE  /\ c + 1 <= o /\ NextLine(s.body, c, o + 1)
         /\ s.pending = SubSeq(s.body, c + 1, o) /\ SubSeq(s.body, o + 1, o) = << >>
<1> DEFINE body == s.body
           p == s.pending
<1>1. /\ body \in Seq(Bytes) /\ p \in Seq(Bytes) /\ c \in Nat /\ o \in Nat /\ c <= o
      /\ o = Len(body) /\ Len(p) = o - c /\ p = SubSeq(body, c + 1, o)
      /\ c = 0 \/ c = Len(body) \/ body[c] = "n"
  BY DEF Read
<1>2. \A i \in 1 .. o - c : p[i] # "n"
  BY <1>1, FirstNewline
<1>3. Len(p) # 0
  BY <1>1, EmptySeq
<1> HIDE DEF p, body
<1>4. \A i \in 1 .. o - c : p[i] = body[c + i]
  <2>1. SubSeq(body, c + 1, o) = [k \in 1 .. o - c |-> body[c + k]]
    BY <1>1
  <2>2. QED BY <1>1, <2>1
<1>5. c + 1 <= o /\ c # Len(body) /\ c \in 0 .. Len(body) - 1 /\ o + 1 \in c + 1 .. Len(body) + 1
  BY <1>1, <1>3
<1>6. ASSUME NEW i \in c + 1 .. (o + 1) - 1
      PROVE  body[i] # "n"
  <2>1. i - c \in 1 .. o - c /\ c + (i - c) = i
    BY <1>1
  <2>2. QED BY <1>2, <1>4, <2>1
<1>7. NextLine(body, c, o + 1)
  BY <1>1, <1>5, <1>6 DEF NextLine
<1>8. SubSeq(body, o + 1, o) = << >>
  BY <1>1
<1>9. QED BY <1>1, <1>5, <1>7, <1>8 DEF p, body

-----------------------------------------------------------------------------
(* The second invariant is kept.                                           *)

\* The other fields after a line, and the line its frame holds.
LEMMA AfterLineKeeps ==
  ASSUME s \in StreamRec, s.file \in 1 .. 2, NEW raw \in Seq(Bytes), NEW ended \in BOOLEAN,
         NEW rest \in Seq(Bytes)
  PROVE  LET st == AfterLine(raw, ended, rest)
             f == LineFrame(Kinds[s.file], s.line + 1, raw, ended)
         IN /\ st.body = s.body /\ st.listed = s.listed /\ st.line = s.line + 1
            /\ f.kind = Kinds[s.file] /\ f.line = s.line + 1
            /\ LineOf(f) = [line |-> s.line + 1, raw |-> raw, ended |-> ended]
<1> DEFINE f == LineFrame(Kinds[s.file], s.line + 1, raw, ended)
           n == s.line + 1
           l == s.lines + 1
           r == IF Blank(raw) THEN s.records ELSE s.records + 1
           p == Append(s.prefix, f)
<1>1. AfterLine(raw, ended, rest)
        = [s EXCEPT !.pending = rest, !.line = n, !.lines = l, !.records = r, !.prefix = p]
  BY DEF AfterLine
<1>2. f.kind = Kinds[s.file] /\ f.line = n /\ LineOf(f) = [line |-> n, raw |-> raw, ended |-> ended]
  BY DEF LineFrame, LineOf
<1> HIDE DEF f, n, l, r, p
<1>3. LET st == [s EXCEPT !.pending = rest, !.line = n, !.lines = l, !.records = r, !.prefix = p]
      IN st.body = s.body /\ st.listed = s.listed /\ st.line = n
  BY DEF StreamRec
<1>4. QED BY <1>1, <1>2, <1>3 DEF f, n

\* What is done with a record does not touch what has been read.
LEMMA DeliverKeeps ==
  ASSUME NEW st \in StreamRec, st.phase = "reading", NEW raw,
         Deliver(st, raw).phase \in {"open", "reading", "yielded"}
  PROVE  LET r == Deliver(st, raw)
         IN ReadFields(r) = ReadFields(st) /\ r.listed = st.listed /\ r.phase # "open"
<1> DEFINE r == Deliver(st, raw)
           item == [record |-> Stripped(raw), at |-> CheckpointOf(st)]
<1>1. CASE r = st
  BY <1>1
<1>2. CASE r = [st EXCEPT !.phase = "yielded", !.item = item]
  <2> HIDE DEF item
  <2>1. r.phase = "yielded" /\ r.listed = st.listed
    BY <1>2 DEF StreamRec
  <2>2. /\ r.file = st.file /\ r.body = st.body /\ r.offset = st.offset
        /\ r.pending = st.pending /\ r.line = st.line /\ r.prefix = st.prefix
    BY <1>2 DEF StreamRec
  <2> HIDE DEF r
  <2>3. QED BY <2>1, <2>2 DEF ReadFields, r
<1>3. CASE r = [st EXCEPT !.matched = TRUE]
  <2>1. r.phase = "reading" /\ r.listed = st.listed
    BY <1>3 DEF StreamRec
  <2>2. /\ r.file = st.file /\ r.body = st.body /\ r.offset = st.offset
        /\ r.pending = st.pending /\ r.line = st.line /\ r.prefix = st.prefix
    BY <1>3 DEF StreamRec
  <2> HIDE DEF r
  <2>3. QED BY <2>1, <2>2 DEF ReadFields, r
<1>4. CASE r = Closed("error")
  BY <1>4 DEF Closed
<1>5. r = st \/ r = [st EXCEPT !.phase = "yielded", !.item = item]
        \/ r = [st EXCEPT !.matched = TRUE] \/ r = Closed("error")
  BY DEF Deliver, Yield
<1> HIDE DEF r
<1>6. QED BY <1>1, <1>2, <1>3, <1>4, <1>5 DEF r

\* A stream that has read the same satisfies the same.
LEMMA SameRead ==
  ASSUME NEW a \in StreamRec, NEW b \in StreamRec, ReadFields(b) = ReadFields(a)
  PROVE  /\ b.file = a.file /\ b.body = a.body /\ b.offset = a.offset /\ b.pending = a.pending
         /\ b.line = a.line /\ b.prefix = a.prefix
         /\ Reads(a) => Reads(b)
<1>1. /\ b.file = a.file /\ b.body = a.body /\ b.offset = a.offset /\ b.pending = a.pending
      /\ b.line = a.line /\ b.prefix = a.prefix
  BY DEF ReadFields
<1>2. Taken(b) = Taken(a)
  BY <1>1 DEF Taken
<1>3. QED BY <1>1, <1>2 DEF Reads

\* The records behind another line.
LEMMA FramedAfterLine ==
  ASSUME NEW a \in StreamRec, NEW b \in StreamRec, NEW f \in Frame, Framed(a),
         a.file \in 1 .. 2, b.file = a.file, b.prefix = Append(a.prefix, f),
         f.kind = Kinds[a.file], f.line > 0, b.phase # "open" => Reads(b)
  PROVE  Framed(b)
<1> DEFINE p == a.prefix
           L == LinesOf(p, "result")
           E == LinesOf(p, "error")
           x == Stripped(f.raw)
<1>1. p \in Seq(Frame)
  BY DEF StreamRec
<1>2. L \in Seq(LineRec) /\ E \in Seq(LineRec) /\ LineOf(f) \in LineRec /\ LineOf(f).raw = f.raw
  BY <1>1, LinesOfType DEF LineOf, LineRec, Frame
<1>3. RecordsOf(L) \in Seq(Seq(Bytes)) /\ RecordsOf(E) \in Seq(Seq(Bytes)) /\ x \in Seq(Bytes)
  BY <1>2, RecordsOfType, StrippedType DEF Frame
<1>4. RecordsIn(b.prefix) = IF Blank(f.raw) THEN RecordsIn(p) ELSE Append(RecordsIn(p), x)
  <2>1. IsRecord(f) <=> ~Blank(f.raw)
    BY DEF IsRecord
  <2>2. QED BY <1>1, <2>1, RecordsGrow, RecordsKept
<1>5. /\ RecordsIn(p) = RecordsOf(L) \o RecordsOf(E)
      /\ a.file < 2 => E = << >>
  BY DEF Framed
<1>6. CASE a.file = 1
  <2>1. f.kind = "result" /\ f.kind # "error" /\ b.file = 1
    BY <1>6 DEF Kinds
  <2>2. LinesOf(b.prefix, "result") = Append(L, LineOf(f))
    BY <1>1, <2>1, LinesOfGrow
  <2>3. LinesOf(b.prefix, "error") = E
    BY <1>1, <2>1, LinesOfKept
  <2>4. E = << >> /\ RecordsOf(E) = << >>
    BY <1>5, <1>6, NoLines
  <2>5. RecordsOf(LinesOf(b.prefix, "result")) = IF Blank(f.raw) THEN RecordsOf(L)
                                                 ELSE Append(RecordsOf(L), x)
    BY <1>2, <2>2, RecordsOfGrow
  <2> HIDE DEF L, E, x, p
  <2>6. Append(RecordsOf(L), x) \o << >> = Append(RecordsOf(L) \o << >>, x)
    <3>1. \A q \in Seq(Seq(Bytes)) : q \o << >> = q
      OBVIOUS
    <3>2. Append(RecordsOf(L), x) \in Seq(Seq(Bytes))
      BY <1>3
    <3>3. QED BY <1>3, <3>1, <3>2
  <2>7. RecordsIn(b.prefix) = RecordsOf(LinesOf(b.prefix, "result")) \o RecordsOf(LinesOf(b.prefix, "error"))
    BY <1>4, <1>5, <2>3, <2>4, <2>5, <2>6
  <2>8. QED BY <2>1, <2>3, <2>4, <2>7 DEF Framed
<1>7. CASE a.file = 2
  <2>1. f.kind = "error" /\ f.kind # "result" /\ b.file = 2
    BY <1>7 DEF Kinds
  <2>2. LinesOf(b.prefix, "error") = Append(E, LineOf(f))
    BY <1>1, <2>1, LinesOfGrow
  <2>3. LinesOf(b.prefix, "result") = L
    BY <1>1, <2>1, LinesOfKept
  <2>4. RecordsOf(LinesOf(b.prefix, "error")) = IF Blank(f.raw) THEN RecordsOf(E)
                                                ELSE Append(RecordsOf(E), x)
    BY <1>2, <2>2, RecordsOfGrow
  <2> HIDE DEF L, E, x, p
  <2>5. RecordsOf(L) \o Append(RecordsOf(E), x) = Append(RecordsOf(L) \o RecordsOf(E), x)
    BY <1>3, SMTT(30)
  <2>6. RecordsIn(b.prefix) = RecordsOf(LinesOf(b.prefix, "result")) \o RecordsOf(LinesOf(b.prefix, "error"))
    BY <1>4, <1>5, <2>3, <2>4, <2>5
  <2>7. QED BY <2>1, <2>6 DEF Framed
<1>8. QED BY <1>6, <1>7

\* ... and what has been read of the files that are behind.
LEMMA WholeAfterLine ==
  ASSUME NEW a \in StreamRec, NEW b \in StreamRec, NEW f \in Frame, NEW now, Whole(a, now),
         a.phase # "open", b.phase # "open", b.listed = a.listed, b.body = a.body,
         a.file \in 1 .. 2, b.file = a.file, b.prefix = Append(a.prefix, f),
         f.kind = Kinds[a.file]
  PROVE  Whole(b, now)
<1>1. a.file = 2 => LinesOf(b.prefix, "result") = LinesOf(a.prefix, "result")
  <2>1. a.file = 2 => f.kind # "result"
    BY DEF Kinds
  <2>2. a.prefix \in Seq(Frame)
    BY DEF StreamRec
  <2>3. QED BY <2>1, <2>2, LinesOfKept
<1>2. QED BY <1>1 DEF Whole

\* The invariant of a stream that goes on, and of one that ends with an error.
LEMMA LinesGoOn ==
  ASSUME IInv', Active', Framed(s'), UNCHANGED served, served \notin Revisions => Whole(s', served)
  PROVE  LinesInv'
<1>1. s'.phase # "complete"
  BY DEF Active
<1>2. (Framed(s) /\ (served \notin Revisions => Whole(s, served)))'
  <2>1. Framed(s)'
    BY DEF Framed, Reads, Taken
  <2>2. (served \notin Revisions => Whole(s, served))'
    BY DEF Whole, FileLines
  <2>3. QED BY <2>1, <2>2
<1>3. QED BY <1>1, <1>2 DEF LinesInv

\* A stream that failed promises nothing.
LEMMA LinesEnd ==
  ASSUME s' = Closed("error")
  PROVE  LinesInv'
BY DEF LinesInv, Active, Closed

\* The type of a stream that is open after a step.
LEMMA NextStreamType ==
  ASSUME IInv', Active'
  PROVE  s' \in StreamRec
BY DEF IInv, TypeOK, Active, StreamRec, Item

\* A stream that opens has read no line, of the files that the status names.
LEMMA OpenReads ==
  ASSUME IInv, LinesInv, IInv', Open
  PROVE  LinesInv'
<1>1. CASE s' = Closed("error")
  BY <1>1, LinesEnd
<1>2. CASE s' = Opened
  <2> DEFINE first == (checkpoint = NULL)
  <2>1. Opened = [phase |-> "open", listed |-> Listed, file |-> 0, body |-> << >>, offset |-> 0,
                  pending |-> << >>, line |-> 0, lines |-> 0, records |-> 0, prefix |-> << >>,
                  matched |-> first, item |-> NULL]
    BY DEF Opened
  <2> HIDE DEF first
  <2>2. s'.phase = "open" /\ s'.listed = Listed /\ s'.file = 0 /\ s'.prefix = << >>
    BY <1>2, <2>1
  <2>3. Listed = {kind \in {"result", "error"} : served[kind] # NULL}
    <3>1. ToSet(Kinds) = {"result", "error"}
      BY DEF Kinds, ToSet
    <3>2. QED BY <3>1 DEF Listed
  <2>4. RecordsIn(<< >>) = RecordsOf(<< >>) \o RecordsOf(<< >>)
    <3>1. << >> \o << >> = << >>
      OBVIOUS
    <3>2. RecordsIn(<< >>) = << >> /\ RecordsOf(<< >>) = << >>
      BY RecordsCount, NoLines
    <3>3. QED BY <3>1, <3>2
  <2>5. Framed(s')
    BY <2>2, <2>4, NoLines DEF Framed
  <2>6. Whole(s', served)
    BY <2>2, <2>3 DEF Whole
  <2>7. Active'
    BY <2>2 DEF Active
  <2>8. QED BY <2>5, <2>6, <2>7, LinesGoOn DEF Open
<1>3. QED BY <1>1, <1>2 DEF Open

\* A file is skipped, or its frame is hashed: no line has been read of it.
LEMMA StartFileReads ==
  ASSUME IInv, LinesInv, IInv', StartFile
  PROVE  LinesInv'
<1> DEFINE n == s.file + 1
           kind == Kinds[n]
           p == s.prefix
<1>1. /\ Active /\ Framed(s) /\ (served \notin Revisions => Whole(s, served))
      /\ s.phase = "open" /\ s.file < 2 /\ UNCHANGED served
  BY DEF LinesInv, Active, StartFile
<1>2. s \in StreamRec /\ p \in Seq(Frame) /\ s.file \in 0 .. 2
  BY <1>1, StreamType DEF IInv, StreamRec
<1>3. n \in 0 .. 2 /\ n \in 1 .. 2 /\ kind \in {"result", "error"}
      /\ (n = 1 => s.file = 0 /\ kind = "result") /\ (n = 2 => s.file = 1 /\ kind = "error")
  BY <1>1, <1>2 DEF Kinds
<1>4. LinesOf(p, kind) = << >>
  BY <1>1, <1>2, <1>3 DEF Framed
<1>5. CASE s' = Closed("error")
  BY <1>5, LinesEnd
<1>6. CASE kind \notin s.listed /\ s' = [s EXCEPT !.file = n]
  <2> HIDE DEF n, kind, p
  <2>1. s'.phase = "open" /\ s'.file = n /\ s'.prefix = p /\ s'.listed = s.listed
    BY <1>1, <1>2, <1>6 DEF StreamRec, p
  <2>2. Framed(s')
    <3>1. n < 2 => s.file < 2
      BY <1>1
    <3>2. QED BY <1>1, <1>3, <2>1, <3>1 DEF Framed, p
  <2>3. ASSUME served \notin Revisions
        PROVE  Whole(s', served)
    <3>1. Whole(s, served)
      BY <1>1, <2>3
    <3>2. served[kind] = NULL
      BY <1>3, <1>6, <3>1 DEF Whole
    <3>3. CASE n = 1
      <4>1. LinesOf(p, "result") = FileLines(served.result)
        BY <1>3, <1>4, <3>2, <3>3 DEF FileLines
      <4>2. QED BY <2>1, <3>1, <3>3, <4>1 DEF Whole
    <3>4. CASE n = 2
      <4>1. LinesOf(p, "error") = FileLines(served.error)
        BY <1>3, <1>4, <3>2, <3>4 DEF FileLines
      <4>2. LinesOf(p, "result") = FileLines(served.result)
        BY <1>1, <1>3, <3>1, <3>4 DEF Whole, p
      <4>3. QED BY <2>1, <3>1, <3>4, <4>1, <4>2 DEF Whole
    <3>5. QED BY <1>3, <3>3, <3>4
  <2>4. Active'
    BY <2>1 DEF Active
  <2>5. QED BY <1>1, <2>2, <2>3, <2>4, LinesGoOn
<1>7. CASE /\ kind \in s.listed /\ served[kind] # NULL
           /\ s' = [s EXCEPT !.phase = "reading", !.file = n, !.body = served[kind],
                             !.offset = 0, !.pending = << >>, !.line = 0,
                             !.prefix = Append(@, FileFrame(kind))]
  <2> DEFINE f == FileFrame(kind)
             q == Append(p, f)
             body == served[kind]
  <2>1. f \in Frame /\ f.line = 0
    BY <1>3, EmptySeq DEF FileFrame, Frame
  <2>2. s' = [s EXCEPT !.phase = "reading", !.file = n, !.body = body, !.offset = 0,
                       !.pending = << >>, !.line = 0, !.prefix = q]
    BY <1>7
  <2> HIDE DEF f, body
  <2>3. /\ \A k : LinesOf(q, k) = LinesOf(p, k)
        /\ RecordsIn(q) = RecordsIn(p)
    <3>1. ~IsRecord(f)
      BY <2>1 DEF IsRecord
    <3> HIDE DEF p
    <3>2. QED BY <1>2, <2>1, <3>1, LinesOfKept, RecordsKept
  <2> HIDE DEF q, n, kind, p
  <2>4. /\ s'.phase = "reading" /\ s'.file = n /\ s'.body = body /\ s'.offset = 0
        /\ s'.pending = << >> /\ s'.line = 0 /\ s'.prefix = q /\ s'.listed = s.listed
    BY <1>2, <2>2 DEF StreamRec
  <2>5. Active'
    BY <2>4 DEF Active
  <2>6. s' \in StreamRec
    BY <2>5, NextStreamType
  <2>7. Read(s', 0, 0)
    <3>1. body \in Seq(Bytes) /\ Len(body) \in Nat
      BY <2>4, <2>6 DEF StreamRec
    <3>2. Cardinality(Below(Starts(body), 0)) = 0
      <4>1. Below(Starts(body), 0) = {}
        <5>1. Starts(body) \in SUBSET (1 .. Len(body))
          BY <3>1, StartsInside
        <5>2. \A i \in Starts(body) : ~(i <= 0)
          BY <3>1, <5>1
        <5>3. QED BY <5>2 DEF Below
      <4>2. QED BY <4>1, FS_EmptySet
    <3>3. SubSeq(Lines(body), 1, 0) = << >>
      BY <3>1, LinesType, AllLines
    <3>4. LinesOf(q, Kinds[n]) = << >>
      BY <1>4, <2>3 DEF kind
    <3>5. << >> \in Seq(Bytes) /\ Len(<< >>) = 0 /\ SubSeq(body, 0 + 1, 0) = << >>
      BY <3>1, EmptySeq
    <3>6. Taken(s') = 0
      <4>1. Len(s'.pending) = 0 /\ s'.offset = 0
        BY <2>4, <3>5
      <4>2. QED BY <4>1 DEF Taken
    <3>7. QED BY <2>4, <3>1, <3>2, <3>3, <3>4, <3>5, <3>6 DEF Read
  <2>8. Framed(s')
    <3>1. Reads(s')
      BY <2>6, <2>7, ReadsIsRead
    <3>2. n < 2 => s.file < 2
      BY <1>1
    <3>3. /\ RecordsIn(q) = RecordsOf(LinesOf(q, "result")) \o RecordsOf(LinesOf(q, "error"))
          /\ n < 2 => LinesOf(q, "error") = << >>
      <4>1. /\ RecordsIn(p) = RecordsOf(LinesOf(p, "result")) \o RecordsOf(LinesOf(p, "error"))
            /\ s.file < 2 => LinesOf(p, "error") = << >>
        BY <1>1 DEF Framed, p
      <4>2. QED BY <2>3, <3>2, <4>1
    <3>4. ~(n < 1)
      BY <1>3
    <3>5. QED BY <2>4, <3>1, <3>3, <3>4 DEF Framed
  <2>9. ASSUME served \notin Revisions
        PROVE  Whole(s', served)
    <3>1. Whole(s, served)
      BY <1>1, <2>9
    <3>2. s'.body = served[Kinds[s'.file]] /\ s'.body # NULL
      BY <1>7, <2>4 DEF kind, body
    <3>3. n = 2 => LinesOf(q, "result") = FileLines(served.result)
      BY <1>1, <1>3, <2>3, <3>1 DEF Whole, p
    <3>4. QED BY <2>4, <3>1, <3>2, <3>3 DEF Whole
  <2>10. QED BY <1>1, <2>5, <2>8, <2>9, LinesGoOn
<1>8. QED BY <1>5, <1>6, <1>7 DEF StartFile

\* A chunk is added to the buffer.
LEMMA ReceiveReads ==
  ASSUME IInv, LinesInv, IInv', Receive
  PROVE  LinesInv'
<1>1. /\ Active /\ Framed(s) /\ (served \notin Revisions => Whole(s, served))
      /\ s.phase = "reading" /\ UNCHANGED served
  BY DEF LinesInv, Active, Receive
<1>2. s \in StreamRec
  BY <1>1, StreamType DEF IInv
<1>3. PICK k \in 1 .. MaxChunk :
        /\ s.offset + k <= Len(s.body)
        /\ s' = IF s.offset + k > MaxBytes THEN Closed("error")
                ELSE [s EXCEPT !.offset = @ + k,
                               !.pending = @ \o SubSeq(s.body, s.offset + 1, s.offset + k)]
  BY DEF Receive
<1>4. CASE s' = Closed("error")
  BY <1>4, LinesEnd
<1>5. CASE ~(s.offset + k > MaxBytes)
  <2> DEFINE c == Taken(s)
             o == s.offset
             e == s.offset + k
             q == s.pending \o SubSeq(s.body, s.offset + 1, e)
  <2>1. Read(s, c, o)
    BY <1>1, <1>2, ReadsIsRead DEF Framed
  <2>2. s' = [s EXCEPT !.offset = e, !.pending = q]
    BY <1>3, <1>5
  <2>3. MaxChunk \in Nat
    BY ConstantsAssumption
  <2> HIDE DEF c
  <2>4. /\ s.body \in Seq(Bytes) /\ s.pending \in Seq(Bytes) /\ c \in Nat /\ o \in Nat /\ c <= o
        /\ e \in Nat /\ o <= e /\ e <= Len(s.body) /\ s.pending = SubSeq(s.body, c + 1, o)
    BY <1>3, <2>1, <2>3, SMTT(30) DEF Read
  <2> HIDE DEF e, o
  <2>5. q = SubSeq(s.body, c + 1, e) /\ Len(SubSeq(s.body, c + 1, e)) = e - c
    <3>1. SubSeq(s.body, c + 1, o) \o SubSeq(s.body, o + 1, e) = SubSeq(s.body, c + 1, e)
      BY <2>4, AdjacentParts
    <3>2. Len(SubSeq(s.body, c + 1, e)) = e - c
      <4>1. e <= e /\ c <= e
        BY <2>4
      <4>2. QED BY <2>4, <4>1, AdjacentParts
    <3>3. QED BY <2>4, <3>1, <3>2 DEF o
  <2> HIDE DEF q
  <2>6. /\ s'.phase = "reading" /\ s'.file = s.file /\ s'.body = s.body /\ s'.offset = e
        /\ s'.pending = q /\ s'.line = s.line /\ s'.prefix = s.prefix /\ s'.listed = s.listed
    BY <1>1, <1>2, <2>2 DEF StreamRec
  <2>7. Active'
    BY <2>6 DEF Active
  <2>8. s' \in StreamRec
    BY <2>7, NextStreamType
  <2>9. Read(s', c, e)
    <3>1. q \in Seq(Bytes) /\ Len(q) = e - c
      BY <2>5, <2>6, <2>8 DEF StreamRec
    <3>2. Taken(s') = c /\ c <= e
      BY <2>4, <2>6, <3>1 DEF Taken
    <3>3. /\ s.line \in Nat /\ s.line = Cardinality(Below(Starts(s.body), c))
          /\ c = 0 \/ c = Len(s.body) \/ s.body[c] = "n"
          /\ LinesOf(s.prefix, Kinds[s.file]) = SubSeq(Lines(s.body), 1, s.line)
      BY <2>1 DEF Read
    <3>4. QED BY <2>4, <2>5, <2>6, <3>1, <3>2, <3>3 DEF Read
  <2>10. Reads(s')
    BY <2>8, <2>9, ReadsIsRead
  <2>11. Framed(s')
    BY <1>1, <2>6, <2>10 DEF Framed
  <2>12. served \notin Revisions => Whole(s', served)
    BY <1>1, <2>6 DEF Whole
  <2>13. QED BY <1>1, <2>7, <2>11, <2>12, LinesGoOn
<1>6. QED BY <1>3, <1>4, <1>5

\* The line n of a file, from byte i to before byte e.
LineIs(body, n, i, e, raw, ended) ==
  [line |-> n, raw |-> raw, ended |-> ended]
    = [line |-> n, raw |-> SubSeq(body, i, e - 1), ended |-> e <= Len(body)]

\* The stream a line behind s, with the frame f.
Hashed(st, f, rest) ==
  /\ st \in StreamRec /\ f \in Frame /\ f.line > 0 /\ st.phase = "reading"
  /\ st.file = s.file /\ st.offset = s.offset /\ st.pending = rest
  /\ st.prefix = Append(s.prefix, f)

\* The stream after a line, as Hashed says it.
LEMMA LineFields ==
  ASSUME s \in StreamRec, s.file \in 1 .. 2, s.phase = "reading", NEW raw \in Seq(Bytes),
         NEW ended \in BOOLEAN, NEW rest \in Seq(Bytes)
  PROVE  Hashed(AfterLine(raw, ended, rest), LineFrame(Kinds[s.file], s.line + 1, raw, ended), rest)
BY AfterLineFields DEF Hashed

\* A line is taken: the next one of the file, up to the byte d.
LEMMA TakenReads ==
  ASSUME IInv, LinesInv, IInv', s.phase = "reading", NEW c, NEW o, Read(s, c, o),
         NEW e, NextLine(s.body, c, e), NEW d \in Nat, c + 1 <= d, d <= e, d <= o,
         d = Len(s.body) \/ s.body[d] = "n",
         NEW raw \in Seq(Bytes), NEW ended \in BOOLEAN, NEW rest \in Seq(Bytes),
         LineIs(s.body, s.line + 1, c + 1, e, raw, ended), rest = SubSeq(s.body, d + 1, o),
         TakeLine(raw, ended, rest)
  PROVE  LinesInv'
<1> DEFINE st == AfterLine(raw, ended, rest)
           f == LineFrame(Kinds[s.file], s.line + 1, raw, ended)
<1>1. /\ Active /\ Framed(s) /\ (served \notin Revisions => Whole(s, served))
      /\ UNCHANGED served
  BY DEF LinesInv, Active, TakeLine
<1>2. s \in StreamRec /\ s.file \in 1 .. 2
  BY <1>1, StreamType DEF IInv, Counted
<1>3. CASE s' = Closed("error")
  BY <1>3, LinesEnd
<1>4. CASE s' = Deliver(st, raw) /\ s' # Closed("error")
  <2>1. /\ st \in StreamRec /\ f \in Frame /\ f.line > 0 /\ st.phase = "reading"
        /\ st.file = s.file /\ st.offset = s.offset /\ st.pending = rest
        /\ st.prefix = Append(s.prefix, f)
    <3>1. Hashed(st, f, rest)
      BY <1>2, LineFields
    <3> HIDE DEF st, f
    <3>2. QED BY <3>1 DEF Hashed
  <2>2. /\ st.body = s.body /\ st.listed = s.listed /\ st.line = s.line + 1
        /\ f.kind = Kinds[s.file]
        /\ LineOf(f) = [line |-> s.line + 1, raw |-> raw, ended |-> ended]
    BY <1>2, AfterLineKeeps
  <2> HIDE DEF st, f
  <2>3. LinesOf(st.prefix, Kinds[s.file])
          = Append(LinesOf(s.prefix, Kinds[s.file]),
                   [line |-> s.line + 1, raw |-> raw, ended |-> ended])
    <3>1. s.prefix \in Seq(Frame)
      BY <1>2 DEF StreamRec
    <3>2. LinesOf(Append(s.prefix, f), f.kind) = Append(LinesOf(s.prefix, f.kind), LineOf(f))
      BY <2>1, <3>1, LinesOfGrow
    <3>3. QED BY <2>1, <2>2, <3>2
  <2>4. Read(st, d, o)
    <3>1. LinesOf(st.prefix, Kinds[s.file])
            = Append(LinesOf(s.prefix, Kinds[s.file]),
                     [line |-> s.line + 1, raw |-> SubSeq(s.body, c + 1, e - 1),
                      ended |-> e <= Len(s.body)])
      BY <2>3 DEF LineIs
    <3>2. QED BY <1>2, <2>1, <2>2, <3>1, LineIsNext
  <2>5. Reads(st)
    BY <2>1, <2>4, ReadsIsRead
  <2>6. Framed(st)
    BY <1>1, <1>2, <2>1, <2>2, <2>5, FramedAfterLine
  <2>7. served \notin Revisions => Whole(st, served)
    BY <1>1, <1>2, <2>1, <2>2, WholeAfterLine
  <2>8. Deliver(st, raw).phase \in {"open", "reading", "yielded"}
    <3> DEFINE item == [record |-> Stripped(raw), at |-> CheckpointOf(st)]
    <3>1. s' = st \/ s' = [st EXCEPT !.phase = "yielded", !.item = item]
            \/ s' = [st EXCEPT !.matched = TRUE]
      BY <1>4 DEF Deliver, Yield
    <3> HIDE DEF item
    <3>2. \A v : [st EXCEPT !.phase = "yielded", !.item = v].phase = "yielded"
      BY <2>1 DEF StreamRec
    <3>3. [st EXCEPT !.matched = TRUE].phase = "reading"
      BY <2>1 DEF StreamRec
    <3>4. s'.phase \in {"open", "reading", "yielded"}
      <4>1. CASE s' = st
        BY <2>1, <4>1
      <4>2. CASE s' = [st EXCEPT !.phase = "yielded", !.item = item]
        <5>1. s'.phase = "yielded"
          BY <3>2, <4>2
        <5>2. QED BY <5>1
      <4>3. CASE s' = [st EXCEPT !.matched = TRUE]
        BY <3>3, <4>3
      <4>4. QED BY <3>1, <4>1, <4>2, <4>3
    <3>5. QED BY <1>4, <3>4
  <2>9. /\ ReadFields(s') = ReadFields(st) /\ s'.listed = st.listed /\ s'.phase # "open"
        /\ Active'
    BY <1>4, <2>1, <2>8, DeliverKeeps DEF Active
  <2>10. s' \in StreamRec
    BY <2>9, NextStreamType
  <2>11. /\ s'.file = st.file /\ s'.body = st.body /\ s'.prefix = st.prefix /\ Reads(s')
    BY <2>1, <2>5, <2>9, <2>10, SameRead
  <2>12. Framed(s')
    BY <2>6, <2>11 DEF Framed
  <2>13. served \notin Revisions => Whole(s', served)
    BY <2>1, <2>7, <2>9, <2>11 DEF Whole
  <2>14. QED BY <1>1, <2>9, <2>12, <2>13, LinesGoOn
<1>5. QED BY <1>3, <1>4 DEF TakeLine

\* A line that is cut from the buffer is the next one of the file.
LEMMA LineReads ==
  ASSUME IInv, LinesInv, IInv', CutLine \/ FinalLine
  PROVE  LinesInv'
<1> DEFINE c == Taken(s)
           o == s.offset
           body == s.body
<1>1. s.phase = "reading" /\ Active /\ s \in StreamRec /\ Reads(s)
  <2>1. s.phase = "reading" /\ Active
    BY DEF CutLine, FinalLine, Active
  <2>2. QED BY <2>1, StreamType DEF IInv, LinesInv, Framed
<1>2. Read(s, c, o)
  BY <1>1, ReadsIsRead
<1> HIDE DEF c
<1>3. /\ body \in Seq(Bytes) /\ c \in Nat /\ o \in Nat /\ c <= o /\ o <= Len(body)
      /\ Len(body) \in Nat /\ s.pending \in Seq(Bytes)
  <2>1. body \in Seq(Bytes) /\ Len(body) \in Nat
    BY <1>1 DEF StreamRec
  <2>2. QED BY <1>2, <2>1 DEF Read
<1>4. CASE CutLine
  <2> DEFINE n == NewlineAt
             raw == SubSeq(s.pending, 1, n - 1)
             rest == SubSeq(s.pending, n + 1, Len(s.pending))
  <2>1. TakeLine(raw, TRUE, rest) /\ n > 0
    BY <1>4 DEF CutLine
  <2>2. /\ n \in 1 .. o - c /\ body[c + n] = "n" /\ NextLine(body, c, c + n)
        /\ raw = SubSeq(body, c + 1, c + n - 1) /\ rest = SubSeq(body, c + n + 1, o)
    BY <1>1, <1>2, <2>1, BufferHoldsLine
  <2>3. raw \in Seq(Bytes) /\ rest \in Seq(Bytes)
    <3>1. n \in 1 .. Len(s.pending)
      BY <1>3, <2>1, NewlineIsInside
    <3> HIDE DEF n
    <3>2. QED BY <1>3, <3>1, SubSeqProperties
  <2> DEFINE d == c + n
  <2> HIDE DEF n, raw, rest
  <2>4. d \in Nat /\ c + 1 <= d /\ d <= d /\ d <= o /\ d <= Len(body)
    <3> HIDE DEF o, body
    <3>1. QED BY <1>3, <2>2
  <2>5. /\ body[d] = "n" /\ NextLine(body, c, d) /\ raw = SubSeq(body, c + 1, d - 1)
        /\ rest = SubSeq(body, d + 1, o)
    <3>1. d - 1 = c + n - 1 /\ d = c + n
      BY <1>3, <2>2
    <3>2. QED BY <2>2, <3>1
  <2> HIDE DEF d
  <2>6. LineIs(body, s.line + 1, c + 1, d, raw, TRUE)
    <3>1. (d <= Len(body)) = TRUE
      BY <2>4
    <3>2. QED BY <2>5, <3>1 DEF LineIs
  <2>7. QED BY <1>1, <1>2, <2>1, <2>3, <2>4, <2>5, <2>6, TakenReads
<1>5. CASE FinalLine
  <2> DEFINE e == o + 1
  <2>1. /\ TakeLine(s.pending, FALSE, << >>) /\ NewlineAt = 0 /\ o = Len(body)
        /\ s.pending # << >>
    BY <1>5 DEF FinalLine
  <2>2. /\ c + 1 <= o /\ NextLine(body, c, e)
        /\ s.pending = SubSeq(body, c + 1, o) /\ SubSeq(body, o + 1, o) = << >>
    BY <1>1, <1>2, <2>1, BufferHoldsRest
  <2>3. ~(e <= Len(body)) /\ e - 1 = o /\ o <= e /\ o <= o
    BY <1>3, <2>1
  <2>4. << >> \in Seq(Bytes)
    BY EmptySeq
  <2> HIDE DEF e
  <2>5. LineIs(body, s.line + 1, c + 1, e, s.pending, FALSE)
    <3>1. (e <= Len(body)) = FALSE
      BY <2>3
    <3>2. QED BY <2>2, <2>3, <3>1 DEF LineIs
  <2>6. QED BY <1>1, <1>2, <1>3, <2>1, <2>2, <2>3, <2>4, <2>5, TakenReads
<1>6. QED BY <1>4, <1>5

\* All bytes are taken: all lines have been read.
LEMMA AllTaken ==
  ASSUME NEW st \in StreamRec, Reads(st), st.offset = Len(st.body), st.pending = << >>
  PROVE  /\ st.line = Len(Lines(st.body))
         /\ LinesOf(st.prefix, Kinds[st.file]) = Lines(st.body)
<1> DEFINE c == Taken(st)
<1>1. st.body \in Seq(Bytes) /\ Len(st.body) \in Nat
  BY DEF StreamRec
<1>2. c = Len(st.body)
  BY <1>1, EmptySeq DEF Taken
<1>3. Read(st, c, st.offset)
  BY ReadsIsRead
<1>4. st.line = Cardinality(Starts(st.body))
  BY <1>1, <1>2, <1>3, StartsInside DEF Read
<1>5. st.line = Len(Lines(st.body))
  BY <1>1, <1>4, LinesType
<1>6. SubSeq(Lines(st.body), 1, Len(Lines(st.body))) = Lines(st.body)
  BY <1>1, LinesType, AllLines
<1>7. QED BY <1>3, <1>5, <1>6 DEF Read

\* At the end of a file, and of the stream, nothing is missing.
LEMMA EndReads ==
  ASSUME IInv, LinesInv, IInv', RefuseLongLine \/ EndFile \/ EndStream \/ Interrupt
  PROVE  LinesInv'
<1>1. CASE RefuseLongLine \/ Interrupt
  BY <1>1, LinesEnd DEF RefuseLongLine, Interrupt, Fail
<1>2. CASE EndStream
  <2>1. /\ Active /\ Framed(s) /\ (served \notin Revisions => Whole(s, served))
        /\ s.phase = "open" /\ s.file = 2 /\ UNCHANGED <<served, acked>>
        /\ Continues(s, checkpoint, acked)
    BY <1>2 DEF EndStream, IInv, LinesInv, Active
  <2>2. CASE ~s.matched
    BY <1>2, <2>2, LinesEnd DEF EndStream
  <2>3. CASE s.matched
    <3>1. s' = Closed("complete")
      BY <1>2, <2>3 DEF EndStream
    <3>2. ~Active'
      BY <3>1 DEF Closed, Active
    <3>3. RecordsIn(s.prefix) = acked
      BY <2>1, <2>3 DEF Continues
    <3>4. served \notin Revisions =>
            acked = RecordsOf(FileLines(served.result)) \o RecordsOf(FileLines(served.error))
      BY <2>1, <3>3 DEF Framed, Whole
    <3>5. (served \notin Revisions =>
             acked = RecordsOf(FileLines(served.result)) \o RecordsOf(FileLines(served.error)))'
      BY <2>1, <3>4 DEF FileLines
    <3>6. QED BY <3>2, <3>5 DEF LinesInv
  <2>4. QED BY <2>2, <2>3
<1>3. CASE EndFile
  <2>1. /\ Active /\ Framed(s) /\ (served \notin Revisions => Whole(s, served))
        /\ s.phase = "reading" /\ UNCHANGED served /\ s' = [s EXCEPT !.phase = "open"]
        /\ s.offset = Len(s.body) /\ s.pending = << >>
    BY <1>3 DEF EndFile, LinesInv, Active
  <2>2. s \in StreamRec /\ s.file \in 1 .. 2
    BY <2>1, StreamType DEF IInv, Counted
  <2>3. /\ s'.phase = "open" /\ s'.file = s.file /\ s'.prefix = s.prefix /\ s'.listed = s.listed
    BY <2>1, <2>2 DEF StreamRec
  <2>4. LinesOf(s.prefix, Kinds[s.file]) = Lines(s.body)
    BY <2>1, <2>2, AllTaken DEF Framed
  <2>5. Framed(s')
    BY <2>1, <2>3 DEF Framed
  <2>6. ASSUME served \notin Revisions
        PROVE  Whole(s', served)
    <3>1. Whole(s, served)
      BY <2>1, <2>6
    <3>2. s.body = served[Kinds[s.file]] /\ s.body # NULL
      BY <2>1, <3>1 DEF Whole
    <3>3. LinesOf(s.prefix, Kinds[s.file]) = FileLines(served[Kinds[s.file]])
      BY <2>4, <3>2 DEF FileLines
    <3>4. CASE s.file = 1
      <4>1. LinesOf(s.prefix, "result") = FileLines(served.result)
        BY <3>3, <3>4 DEF Kinds
      <4>2. QED BY <2>3, <3>1, <3>4, <4>1 DEF Whole
    <3>5. CASE s.file = 2
      <4>1. LinesOf(s.prefix, "error") = FileLines(served.error)
        BY <3>3, <3>5 DEF Kinds
      <4>2. QED BY <2>3, <3>1, <3>5, <4>1 DEF Whole
    <3>6. QED BY <2>2, <3>4, <3>5
  <2>7. Active'
    BY <2>3 DEF Active
  <2>8. QED BY <2>1, <2>5, <2>6, <2>7, LinesGoOn
<1>4. QED BY <1>1, <1>2, <1>3

\* Acknowledging a record reads nothing.
LEMMA AcknowledgeReads ==
  ASSUME IInv, LinesInv, IInv', Acknowledge
  PROVE  LinesInv'
<1>1. /\ Active /\ Framed(s) /\ (served \notin Revisions => Whole(s, served))
      /\ s.phase = "yielded" /\ UNCHANGED served
      /\ s' = [s EXCEPT !.phase = "reading", !.item = NULL]
  BY DEF Acknowledge, LinesInv, Active
<1>2. s \in StreamRec
  BY <1>1, StreamType DEF IInv
<1>3. /\ s'.phase = "reading" /\ s'.listed = s.listed /\ s'.file = s.file /\ s'.body = s.body
      /\ s'.offset = s.offset /\ s'.pending = s.pending /\ s'.line = s.line
      /\ s'.prefix = s.prefix
  BY <1>1, <1>2 DEF StreamRec
<1>4. Active'
  BY <1>3 DEF Active
<1>5. s' \in StreamRec
  BY <1>4, NextStreamType
<1>6. Reads(s')
  BY <1>1, <1>2, <1>3, <1>5, SameRead DEF Framed, ReadFields
<1>7. Framed(s')
  BY <1>1, <1>3, <1>6 DEF Framed
<1>8. served \notin Revisions => Whole(s', served)
  BY <1>1, <1>3 DEF Whole
<1>9. QED BY <1>1, <1>4, <1>7, <1>8, LinesGoOn

\* Every step keeps the second invariant.
LEMMA NextLines ==
  ASSUME IInv, LinesInv, [Next]_vars
  PROVE  LinesInv'
<1>1. IInv'
  BY NextInvariant
<1>2. CASE Change
  <2>1. served' \in Revisions /\ served \in Revisions /\ s' = s
    BY <1>2 DEF Change
  <2>2. (Active => Framed(s))'
    BY <2>1 DEF LinesInv, Active, Framed, Reads, Taken
  <2>3. QED BY <2>1, <2>2 DEF LinesInv, Active
<1>3. CASE UNCHANGED vars
  <2>1. served' = served /\ s' = s /\ acked' = acked
    BY <1>3 DEF vars
  <2>2. (Active => Framed(s))'
    BY <2>1 DEF LinesInv, Active, Framed, Reads, Taken
  <2>3. (Active /\ served \notin Revisions => Whole(s, served))'
    BY <2>1 DEF LinesInv, Active, Whole, FileLines
  <2>4. (s.phase = "complete" /\ served \notin Revisions =>
          acked = RecordsOf(FileLines(served.result)) \o RecordsOf(FileLines(served.error)))'
    BY <2>1 DEF LinesInv, FileLines
  <2>5. QED BY <2>2, <2>3, <2>4 DEF LinesInv
<1>4. QED
  BY <1>1, <1>2, <1>3, OpenReads, StartFileReads, ReceiveReads, LineReads, EndReads,
     AcknowledgeReads
  DEF Next

\* What the second invariant says of the lines that have been delivered.
LEMMA LinesAreInvisible ==
  ASSUME IInv, LinesInv
  PROVE  ChunkingIsInvisible
<1>1. ASSUME s.phase \in {"reading", "yielded"}
      PROVE  /\ s.line <= Len(Lines(s.body))
             /\ LinesOf(s.prefix, Kinds[s.file]) = SubSeq(Lines(s.body), 1, s.line)
             /\ s.offset = Len(s.body) /\ s.pending = << >> => s.line = Len(Lines(s.body))
  <2>1. Active /\ s.phase # "open"
    BY <1>1 DEF Active
  <2>2. s \in StreamRec /\ Reads(s)
    BY <2>1, StreamType DEF IInv, LinesInv, Framed
  <2>3. Read(s, Taken(s), s.offset)
    BY <2>2, ReadsIsRead
  <2>4. s.line <= Len(Lines(s.body))
    <3>1. s.body \in Seq(Bytes)
      BY <2>2 DEF StreamRec
    <3>2. s.line = Cardinality(Below(Starts(s.body), Taken(s)))
      BY <2>3 DEF Read
    <3>3. QED BY <3>1, <3>2, StartsInside, LinesType
  <2>5. QED BY <2>2, <2>3, <2>4, AllTaken DEF Read
<1>2. \A body : RecordsOf(FileLines(body)) = IF body = NULL THEN << >> ELSE RecordsOf(Lines(body))
  BY NoLines DEF FileLines
<1>3. s.phase = "complete" /\ served \notin Revisions =>
        acked = (IF served.result = NULL THEN << >> ELSE RecordsOf(Lines(served.result)))
                \o (IF served.error = NULL THEN << >> ELSE RecordsOf(Lines(served.error)))
  <2>1. s.phase = "complete" /\ served \notin Revisions =>
          acked = RecordsOf(FileLines(served.result)) \o RecordsOf(FileLines(served.error))
    BY DEF LinesInv
  <2>2. /\ RecordsOf(FileLines(served.result))
             = IF served.result = NULL THEN << >> ELSE RecordsOf(Lines(served.result))
        /\ RecordsOf(FileLines(served.error))
             = IF served.error = NULL THEN << >> ELSE RecordsOf(Lines(served.error))
    BY <1>2, Zenon
  <2>3. QED BY <2>1, <2>2
<1>4. QED BY <1>1, <1>3 DEF ChunkingIsInvisible

-----------------------------------------------------------------------------
(* The theorems.                                                           *)

\* The counts of the stream are those of the frames it has hashed, and a stream that is
\* behind the checkpoint continues it.
THEOREM Invariance == Spec => []IInv
<1>1. Init => IInv
  BY InitInvariant
<1>2. IInv /\ [Next]_vars => IInv'
  BY NextInvariant
<1>3. QED BY <1>1, <1>2, PTL DEF Spec

\* Every value of the variables is of its type, whatever the files contain.
THEOREM TypeCorrect == Spec => []TypeOK
<1>1. IInv => TypeOK
  BY DEF IInv
<1>2. QED BY <1>1, Invariance, PTL

\* The durable records are the records of the prefix that the checkpoint identifies, across
\* interruptions, resumptions and changed files.
THEOREM DurableIsExact == Spec => []AckedIsCheckpointed
<1>1. IInv => AckedIsCheckpointed
  BY DEF IInv
<1>2. QED BY <1>1, Invariance, PTL

\* What a stream buffers, counts and delivers is bounded by the limits.
THEOREM Bounded == Spec => []StreamIsBounded
<1>1. IInv => StreamIsBounded
  BY DEF IInv, Counted, Durable, StreamIsBounded, LineFrames
<1>2. QED BY <1>1, Invariance, PTL

\* The durable checkpoint is only replaced by one that continues it by one record.
THEOREM CheckpointContinues == Spec => CheckpointIsContinued
<1> DEFINE A == checkpoint # NULL /\ checkpoint' # checkpoint =>
                  /\ IsPrefix(checkpoint.prefix, checkpoint'.prefix)
                  /\ checkpoint'.records = checkpoint.records + 1
<1>1. IInv /\ [Next]_vars => [A]_vars
  <2> SUFFICES ASSUME IInv, [Next]_vars
               PROVE  A
    OBVIOUS
  <2>1. CASE Acknowledge
    BY <2>1, AcknowledgeSteps
  <2>2. CASE UNCHANGED checkpoint
    BY <2>2
  <2>3. QED
    BY <2>1, <2>2 DEF Next, vars, Open, StartFile, Receive, RefuseLongLine, CutLine, FinalLine,
       TakeLine, EndFile, EndStream, Interrupt, Fail, Change
<1>2. QED BY <1>1, Invariance, PTL DEF Spec, CheckpointIsContinued

\* What the stream has hashed are the lines of the files, in their order, and at the end of
\* a file all of them.
THEOREM LinesInvariance == Spec => []LinesInv
<1>1. Init => LinesInv
  BY DEF Init, LinesInv, Active, Closed
<1>2. IInv /\ LinesInv /\ [Next]_vars => LinesInv'
  BY NextLines
<1>3. QED BY <1>1, <1>2, Invariance, PTL DEF Spec

\* However the transport cuts the files, the lines read are those of the file, and a stream
\* that completes has delivered every record of both files.
THEOREM ChunksNeverShow == Spec => []ChunkingIsInvisible
<1>1. IInv /\ LinesInv => ChunkingIsInvisible
  BY LinesAreInvisible
<1>2. QED BY <1>1, Invariance, LinesInvariance, PTL
=============================================================================
