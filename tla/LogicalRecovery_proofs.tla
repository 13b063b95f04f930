------------------------ MODULE LogicalRecovery_proofs ------------------------
(***************************************************************************)
(* Proofs about LogicalRecovery, for every set of files, size of the dump  *)
(* and number of calls and of changes by other actors.                     *)
(***************************************************************************)
EXTENDS LogicalRecovery, SequenceTheorems, TLAPS

-----------------------------------------------------------------------------
(* The inductive invariant.                                                *)

IsPrefixOf(s, t) == Len(s) <= Len(t) /\ \A i \in 1 .. Len(s) : s[i] = t[i]

\* The file of the recorded status has not changed since.
Unchanged == file[stat.ino].ctime = stat.ctime

\* A recorded status is not from the future.
Recorded == stat \in Status /\ stat.ctime <= file[stat.ino].ctime

\* Nothing of a dump is in file f, whose record is g, and the next one would start at its
\* beginning.
Clean(g, f, touched) ==
  /\ \A i \in DOMAIN g.content : g.content[i] # "dump"
  /\ g.offset = 0
  /\ f \notin touched => g.content = << >>

\* The backup call that is under way.  With at most one replacement of the descriptor
\* number, pg_dump writes into the accepted file only if the duplicate refers to it.
Dumping ==
  LET output == history.output
  IN /\ phase \in {"duplicate", "spawn dump", "dumping", "finalize"} =>
          /\ output \in Files /\ stat \in Status /\ stat.ino = output
          /\ history.swaps = 0 => fd = output
     /\ phase \in {"duplicate", "spawn dump"} => Clean(file[output], output, history.touched)
     /\ phase \in {"spawn dump", "dumping", "finalize"} => cleanup \in Files
     /\ phase = "spawn dump" /\ history.swaps = 0 => cleanup = output
     /\ phase = "spawn dump" /\ history.swaps <= 1 /\ cleanup # output => fd # output
     /\ phase \in {"dumping", "finalize"} =>
          /\ child \in Files
          /\ child # output => Clean(file[output], output, history.touched)
          /\ history.swaps <= 1 /\ cleanup # output => child # output
          /\ Len(buffer) <= Chunks
          /\ child = output /\ output \notin history.touched =>
               /\ file[output].offset = Len(buffer) /\ Len(file[output].content) = Len(buffer)
               /\ \A i \in 1 .. Len(buffer) : file[output].content[i] = "dump"
     /\ phase = "finalize" => Len(buffer) = Chunks
     /\ report = "ok" => phase \notin {"inspect output", "duplicate", "spawn dump", "dumping",
                                       "finalize", "backup failed"}
     /\ report = "failed" => phase = "backup failed"

EvidenceRec == [digest : Seq(Chunk), schema : Nat]

\* The inspection that is under way has read what the file holds, unless it has changed.
Hashing ==
  phase \in {"hash", "rehash"} =>
    /\ evidence \in EvidenceRec
    /\ Recorded /\ child = stat.ino
    /\ Unchanged => Len(file[child].content) = stat.size /\ IsPrefixOf(buffer, file[child].content)

\* Only an isolated cluster is restored into.
Isolation ==
  /\ target["live"] = << >>
  /\ phase \in {"open", "inspect archive", "spawn restore", "restoring", "committed", "check",
                "restored", "restore failed"} => service = "standby"

\* The restore that is under way has read, and committed, the archive that it inspected,
\* unless the file has changed or pg_restore inherited another one.
Restoring ==
  /\ phase \in {"spawn restore", "restoring", "committed", "check"} =>
       /\ Recorded
       /\ history.swaps = 0 => fd = stat.ino
       /\ Unchanged => file[stat.ino].content = history.archive
  /\ phase \in {"restoring", "committed", "check"} =>
       /\ child \in Files
       /\ history.swaps <= 1 /\ fd = stat.ino => child = stat.ino
       /\ history.swaps = 0 => child = stat.ino
  /\ phase = "restoring" /\ child = stat.ino /\ Unchanged => IsPrefixOf(buffer, history.archive)
  /\ phase \in {"committed", "check"} /\ child = stat.ino /\ Unchanged =>
       target["standby"] = history.archive
  /\ RestoreIsTheArchive

\* Since the receipt was verified and nothing tampered with, path, descriptor and archive
\* are what the receipt names.
Quiet ==
  history.quiet =>
    /\ phase \in {"isolate", "open", "inspect archive", "spawn restore", "restoring", "committed",
                  "check", "restored", "restore failed"} => file[path].content = receipt.digest
    /\ phase \in {"inspect archive", "spawn restore", "restoring", "committed", "check",
                  "restored"} => fd = path /\ history.swaps = 0
    /\ phase \in {"spawn restore", "restoring", "committed", "check", "restored"} =>
         history.archive = receipt.digest

IInv == TypeOK /\ Dumping /\ BackupAllOrNothing /\ Hashing /\ Isolation /\ Restoring
        /\ Quiet

-----------------------------------------------------------------------------
(* The file system.                                                        *)

Contents == Seq(Chunk)
FileRec == [content : Seq(Chunk), private : BOOLEAN, links : Nat, ctime : Nat,
            synced : BOOLEAN, offset : Nat]

\* A change of a file moves its ctime.
Evolves(old, new) ==
  new.ctime >= old.ctime /\ (new.ctime = old.ctime => new.content = old.content)

\* A function on an initial segment is a sequence.
LEMMA SegmentIsSeq ==
  ASSUME NEW S, NEW n \in Nat, NEW s \in [1 .. n -> S]
  PROVE  s \in Seq(S) /\ Len(s) = n
BY DEF Seq

\* The records of a file that is written, read on in, synced or exposed.
Written(g, c, t) == [g EXCEPT !.content = c, !.ctime = t, !.synced = FALSE]
Moved(g, o) == [g EXCEPT !.offset = o]
Synced(g) == [g EXCEPT !.synced = TRUE]
Opened(g, t) == [g EXCEPT !.private = FALSE, !.ctime = t]
Linked(g, t) == [g EXCEPT !.links = 2, !.ctime = t]

\* Their fields.
LEMMA WrittenFields ==
  ASSUME NEW g \in FileRec, NEW c \in Contents, NEW t \in Nat
  PROVE  /\ Written(g, c, t) \in FileRec /\ Written(g, c, t).content = c
         /\ Written(g, c, t).ctime = t /\ Written(g, c, t).offset = g.offset
         /\ Written(g, c, t).private = g.private
BY DEF FileRec, Contents, Written

LEMMA MovedFields ==
  ASSUME NEW g \in FileRec, NEW o \in Nat
  PROVE  /\ Moved(g, o) \in FileRec /\ Moved(g, o).content = g.content
         /\ Moved(g, o).ctime = g.ctime /\ Moved(g, o).offset = o
         /\ Moved(g, o).private = g.private
BY DEF FileRec, Moved

LEMMA SyncedFields ==
  ASSUME NEW g \in FileRec
  PROVE  /\ Synced(g) \in FileRec /\ Synced(g).content = g.content /\ Synced(g).ctime = g.ctime
         /\ Synced(g).offset = g.offset /\ Synced(g).private = g.private /\ Synced(g).synced = TRUE
BY DEF FileRec, Synced

LEMMA ExposedFields ==
  ASSUME NEW g \in FileRec, NEW t \in Nat
  PROVE  /\ Opened(g, t) \in FileRec /\ Opened(g, t).content = g.content
         /\ Opened(g, t).ctime = t /\ Opened(g, t).offset = g.offset
         /\ Linked(g, t) \in FileRec /\ Linked(g, t).content = g.content
         /\ Linked(g, t).ctime = t /\ Linked(g, t).offset = g.offset
BY DEF FileRec, Opened, Linked

\* The fields of a file.
LEMMA FileFields ==
  ASSUME NEW g \in FileRec
  PROVE  /\ g.content \in Seq(Chunk) /\ Len(g.content) \in Nat /\ g.links \in Nat
         /\ g.ctime \in Nat /\ g.offset \in Nat /\ g.private \in BOOLEAN /\ g.synced \in BOOLEAN
BY DEF FileRec

\* The status of a file.
LEMMA StatType ==
  ASSUME TypeOK, NEW f \in Files
  PROVE  /\ Stat(f) \in Status /\ Stat(f).ino = f /\ Stat(f).ctime = file[f].ctime
         /\ Stat(f).size = Len(file[f].content) /\ Stat(f).private = file[f].private
<1>1. file[f] \in FileRec
  BY DEF TypeOK, FileRec
<1>2. /\ Len(file[f].content) \in Nat /\ file[f].links \in Nat /\ file[f].ctime \in Nat
      /\ file[f].private \in BOOLEAN
  BY <1>1, FileFields
<1>3. QED BY <1>2 DEF Stat, Status

\* One chunk is written.
LEMMA PutAtFile ==
  ASSUME NEW f, file[f] \in FileRec, NEW i \in Nat \ {0}, NEW c \in Chunk
  PROVE  LET g == PutAt(f, i, c)
             old == file[f].content
         IN /\ g \in FileRec /\ g.ctime = file[f].ctime + 1 /\ g.offset = file[f].offset
            /\ g.private = file[f].private
            /\ Len(g.content) = IF i > Len(old) THEN i ELSE Len(old)
            /\ \A j \in 1 .. Len(g.content) :
                 g.content[j] = IF j = i THEN c ELSE IF j <= Len(old) THEN old[j] ELSE "other"
<1> DEFINE old == file[f].content
           n == IF i > Len(old) THEN i ELSE Len(old)
           at(j) == IF j = i THEN c ELSE IF j <= Len(old) THEN old[j] ELSE "other"
           new == [j \in 1 .. n |-> at(j)]
           t == file[f].ctime + 1
<1>1. old \in Seq(Chunk) /\ Len(old) \in Nat
  BY FileFields
<1>t. t \in Nat
  BY FileFields
<1>2. n \in Nat /\ \A j \in 1 .. n : at(j) \in Chunk
  BY <1>1 DEF Chunk
<1>3. new \in [1 .. n -> Chunk] /\ \A j \in 1 .. n : new[j] = at(j)
  BY <1>2
<1>4. PutAt(f, i, c) = Written(file[f], new, t)
  BY DEF PutAt, Written
<1> HIDE DEF new, n, t
<1>5. new \in Contents /\ Len(new) = n
  BY <1>2, <1>3, SegmentIsSeq DEF Contents
<1>6. \A g \in FileRec :
        /\ Written(g, new, t) \in FileRec /\ Written(g, new, t).content = new
        /\ Written(g, new, t).ctime = t /\ Written(g, new, t).offset = g.offset
        /\ Written(g, new, t).private = g.private
  BY <1>t, <1>5, WrittenFields, SMTT(30)
<1>7. LET g == PutAt(f, i, c)
      IN /\ g \in FileRec /\ g.content = new /\ g.ctime = t /\ g.offset = file[f].offset
         /\ g.private = file[f].private
  BY <1>4, <1>6
<1>8. QED BY <1>3, <1>5, <1>7 DEF n, t

\* A file is truncated, or rewound, or both.
LEMMA EmptiedFile ==
  ASSUME NEW g \in FileRec
  PROVE  /\ Emptied(g) \in FileRec /\ Emptied(g).content = << >> /\ Emptied(g).offset = 0
         /\ Emptied(g).ctime = g.ctime + 1
         /\ Truncated(g) \in FileRec /\ Truncated(g).ctime = g.ctime + 1
         /\ Rewound(g) \in FileRec /\ Rewound(g).content = g.content /\ Rewound(g).ctime = g.ctime
<1> DEFINE t == g.ctime + 1
           h == Truncated(g)
<1>1. << >> \in Contents /\ t \in Nat
  BY FileFields, EmptySeq DEF Contents
<1>2. h = Written(g, << >>, t)
  BY DEF Truncated, Written
<1> HIDE DEF t
<1>3. h \in FileRec /\ h.content = << >> /\ h.ctime = t
  BY <1>1, <1>2, WrittenFields
<1>4. Emptied(g) = Moved(h, 0) /\ Rewound(g) = Moved(g, 0)
  BY DEF Emptied, Rewound, Moved
<1> HIDE DEF h
<1>5. /\ Moved(h, 0) \in FileRec /\ Moved(h, 0).content = h.content
      /\ Moved(h, 0).ctime = h.ctime /\ Moved(h, 0).offset = 0
  BY <1>3, MovedFields
<1>6. Moved(g, 0) \in FileRec /\ Moved(g, 0).content = g.content /\ Moved(g, 0).ctime = g.ctime
  BY MovedFields
<1>7. QED BY <1>3, <1>4, <1>5, <1>6 DEF t, h

\* pg_dump writes its next chunk behind the previous one, or behind where the offset is.
LEMMA DumpWritesFile ==
  ASSUME TypeOK, Dumping, DumpWrites
  PROVE  \E g \in FileRec :
           LET n == file[child].offset + 1
               old == file[child].content
           IN /\ child \in Files /\ n \in Nat \ {0}
              /\ file' = [file EXCEPT ![child] = g]
              /\ g.ctime = file[child].ctime + 1 /\ g.offset = n
              /\ g.private = file[child].private
              /\ Len(g.content) = IF n > Len(old) THEN n ELSE Len(old)
              /\ \A j \in 1 .. Len(g.content) :
                   g.content[j] = IF j = n THEN "dump" ELSE IF j <= Len(old) THEN old[j] ELSE "other"
<1> DEFINE n == file[child].offset + 1
           p == PutAt(child, n, "dump")
<1>1. child \in Files
  BY DEF Dumping, DumpWrites
<1>2. file[child] \in FileRec
  BY <1>1 DEF TypeOK, FileRec
<1>3. n \in Nat \ {0}
  BY <1>1, <1>2, FileFields
<1>4. "dump" \in Chunk
  BY DEF Chunk
<1>5. /\ p \in FileRec /\ p.ctime = file[child].ctime + 1 /\ p.private = file[child].private
      /\ Len(p.content) = IF n > Len(file[child].content) THEN n ELSE Len(file[child].content)
      /\ \A j \in 1 .. Len(p.content) :
           p.content[j] = IF j = n THEN "dump"
                          ELSE IF j <= Len(file[child].content) THEN file[child].content[j]
                          ELSE "other"
  BY <1>2, <1>3, <1>4, PutAtFile
<1>6. file' = [file EXCEPT ![child] = Moved(p, n)]
  BY DEF DumpWrites, Moved
<1> HIDE DEF n, p
<1>7. /\ Moved(p, n) \in FileRec
      /\ Moved(p, n).content = p.content /\ Moved(p, n).ctime = p.ctime
      /\ Moved(p, n).offset = n /\ Moved(p, n).private = p.private
  BY <1>3, <1>5, MovedFields
<1> USE <1>7
<1> WITNESS Moved(p, n) \in FileRec
<1>9. QED BY <1>1, <1>3, <1>5, <1>6, <1>7 DEF n

\* One file is replaced by a record of which the same holds.
LEMMA FileReplaced ==
  ASSUME TypeOK, NEW k \in Files, NEW g \in FileRec,
         Evolves(file[k], g), file' = [file EXCEPT ![k] = g]
  PROVE  /\ file' \in [Files -> FileRec]
         /\ \A f \in Files : Evolves(file[f], file'[f])
<1>1. file \in [Files -> FileRec]
  BY DEF TypeOK, FileRec
<1>2. file' \in [Files -> FileRec] /\ \A f \in Files : file'[f] = IF f = k THEN g ELSE file[f]
  BY <1>1
<1>3. ASSUME NEW f \in Files
      PROVE  Evolves(file[f], file'[f])
  <2>1. file[f].ctime \in Nat
    BY <1>1, FileFields
  <2>2. QED BY <1>2, <2>1 DEF Evolves
<1>4. QED BY <1>2, <1>3

\* The files stay as they are.
LEMMA FileKept ==
  ASSUME TypeOK, UNCHANGED file
  PROVE  /\ file' \in [Files -> FileRec]
         /\ \A f \in Files : Evolves(file[f], file'[f])
<1>1. file \in [Files -> FileRec]
  BY DEF TypeOK, FileRec
<1>2. \A f \in Files : file[f].ctime \in Nat
  BY <1>1, FileFields
<1>3. QED BY <1>1, <1>2 DEF Evolves

\* A failed backup call empties the file of the duplicate, or leaves it so that it is lost.
LEMMA InvalidateFile ==
  ASSUME TypeOK, Invalidate, cleanup \in Files
  PROVE  \E g \in FileRec :
           /\ file' = [file EXCEPT ![cleanup] = g] /\ Evolves(file[cleanup], g)
           /\ \/ g.content = << >> /\ g.offset = 0 /\ UNCHANGED history
              \/ history' = [history EXCEPT !.lost = TRUE]
<1> DEFINE f == file[cleanup]
<1>1. f \in FileRec
  BY DEF TypeOK, FileRec
<1>2. f.ctime \in Nat
  BY <1>1, FileFields
<1>3. /\ Emptied(f) \in FileRec /\ Emptied(f).content = << >> /\ Emptied(f).offset = 0
      /\ Emptied(f).ctime = f.ctime + 1
      /\ Truncated(f) \in FileRec /\ Truncated(f).ctime = f.ctime + 1
      /\ Rewound(f) \in FileRec /\ Rewound(f).content = f.content /\ Rewound(f).ctime = f.ctime
  BY <1>1, EmptiedFile
<1>4. Evolves(f, Emptied(f)) /\ Evolves(f, f) /\ Evolves(f, Truncated(f)) /\ Evolves(f, Rewound(f))
  BY <1>2, <1>3 DEF Evolves
<1>5. CASE file' = [file EXCEPT ![cleanup] = Emptied(@)] /\ UNCHANGED history
  BY <1>3, <1>4, <1>5, Zenon
<1>6. CASE /\ \E g \in {f, Truncated(f), Rewound(f)} : file' = [file EXCEPT ![cleanup] = g]
           /\ history' = [history EXCEPT !.lost = TRUE]
  <2>1. PICK g \in {f, Truncated(f), Rewound(f)} : file' = [file EXCEPT ![cleanup] = g]
    BY <1>6
  <2>2. g \in FileRec /\ Evolves(f, g)
    BY <1>1, <1>3, <1>4, <2>1
  <2>3. QED BY <1>6, <2>1, <2>2
<1>7. QED BY <1>5, <1>6 DEF Invalidate

\* What an interrupt leaves of the file of the duplicate.
LEMMA InterruptFile ==
  ASSUME TypeOK, Dumping, InterruptBackup
  PROVE  \/ UNCHANGED file
         \/ \E g \in FileRec : /\ cleanup \in Files /\ file' = [file EXCEPT ![cleanup] = g]
                               /\ Evolves(file[cleanup], g)
<1> DEFINE f == file[cleanup]
<1>1. CASE /\ phase \in {"spawn dump", "dumping", "finalize"}
           /\ file' = [file EXCEPT ![cleanup] = Truncated(@)]
  <2>1. cleanup \in Files
    BY <1>1 DEF Dumping
  <2>2. f \in FileRec
    BY <2>1 DEF TypeOK, FileRec
  <2>3. f.ctime \in Nat /\ Truncated(f) \in FileRec /\ Truncated(f).ctime = f.ctime + 1
    BY <2>2, FileFields, EmptiedFile
  <2>4. Evolves(f, Truncated(f))
    BY <2>3 DEF Evolves
  <2>5. QED BY <1>1, <2>1, <2>3, <2>4, Zenon
<1>2. CASE phase = "finalize" /\ file' = [file EXCEPT ![cleanup].synced = TRUE]
  <2>1. cleanup \in Files
    BY <1>2 DEF Dumping
  <2>2. f \in FileRec
    BY <2>1 DEF TypeOK, FileRec
  <2>3. f.ctime \in Nat
    BY <2>2, FileFields
  <2>4. Synced(f) \in FileRec /\ Evolves(f, Synced(f))
    <3> HIDE DEF f
    <3>1. /\ Synced(f) \in FileRec /\ Synced(f).content = f.content
          /\ Synced(f).ctime = f.ctime
      BY <2>2, SyncedFields
    <3>2. QED BY <2>3, <3>1 DEF Evolves
  <2>5. file' = [file EXCEPT ![cleanup] = Synced(f)]
    BY <1>2 DEF Synced
  <2>6. QED BY <2>1, <2>4, <2>5, Zenon
<1>3. QED BY <1>1, <1>2 DEF InterruptBackup

\* The synced file.
LEMMA FinalizeFile ==
  ASSUME TypeOK, FinalizeOutput, cleanup \in Files
  PROVE  \E g \in FileRec : /\ file' = [file EXCEPT ![cleanup] = g]
                            /\ g.content = file[cleanup].content /\ g.ctime = file[cleanup].ctime
                            /\ g.offset = file[cleanup].offset
                            /\ g.private = file[cleanup].private /\ g.synced = TRUE
<1>1. file[cleanup] \in FileRec
  BY DEF TypeOK, FileRec
<1>2. file' = [file EXCEPT ![cleanup] = Synced(file[cleanup])]
  BY DEF FinalizeOutput, Synced
<1>3. QED BY <1>1, <1>2, SyncedFields

\* The file that another actor writes into.
LEMMA WriteFile ==
  ASSUME TypeOK, NEW f \in Files, NEW i \in 1 .. MaxSize, Write(f, i)
  PROVE  \E g \in FileRec :
           /\ file' = [file EXCEPT ![f] = g]
           /\ g.ctime = file[f].ctime + 1 /\ g.offset = file[f].offset
           /\ Len(g.content) >= Len(file[f].content)
           /\ \A j \in 1 .. Len(g.content) : g.content[j] = IF j = i THEN "other"
                                                            ELSE file[f].content[j]
           /\ \A j \in 1 .. Len(g.content) : j # i => j \in 1 .. Len(file[f].content)
<1>1. file[f] \in FileRec
  BY DEF TypeOK, FileRec
<1>2. /\ i \in Nat \ {0} /\ i <= Len(file[f].content) + 1 /\ "other" \in Chunk
      /\ Len(file[f].content) \in Nat
  BY <1>1, FileFields, ConstantsAssumption DEF Write, Chunk
<1>3. LET g == PutAt(f, i, "other")
          old == file[f].content
      IN /\ g \in FileRec /\ g.ctime = file[f].ctime + 1 /\ g.offset = file[f].offset
         /\ Len(g.content) = IF i > Len(old) THEN i ELSE Len(old)
         /\ \A j \in 1 .. Len(g.content) :
              g.content[j] = IF j = i THEN "other" ELSE IF j <= Len(old) THEN old[j] ELSE "other"
  BY <1>1, <1>2, PutAtFile
<1> DEFINE p == PutAt(f, i, "other")
           old == file[f].content
<1>4. /\ file' = [file EXCEPT ![f] = p]
      /\ p \in FileRec /\ p.ctime = file[f].ctime + 1 /\ p.offset = file[f].offset
      /\ Len(p.content) = IF i > Len(old) THEN i ELSE Len(old)
      /\ \A j \in 1 .. Len(p.content) :
           p.content[j] = IF j = i THEN "other" ELSE IF j <= Len(old) THEN old[j] ELSE "other"
  BY <1>3 DEF Write
<1> HIDE DEF p
<1>5. /\ Len(p.content) >= Len(old)
      /\ \A j \in 1 .. Len(p.content) : j # i => j \in 1 .. Len(old)
  BY <1>2, <1>4
<1>6. \A j \in 1 .. Len(p.content) : p.content[j] = IF j = i THEN "other" ELSE old[j]
  BY <1>2, <1>4, <1>5
<1>7. QED BY <1>4, <1>5, <1>6

\* The file whose mode or links another actor changes.
LEMMA ExposeFile ==
  ASSUME TypeOK, NEW f \in Files, Expose(f)
  PROVE  \E g \in FileRec : /\ file' = [file EXCEPT ![f] = g]
                            /\ g.ctime = file[f].ctime + 1 /\ g.offset = file[f].offset
                            /\ g.content = file[f].content
<1> DEFINE t == file[f].ctime + 1
<1>1. file[f] \in FileRec
  BY DEF TypeOK, FileRec
<1>2. t \in Nat
  BY <1>1, FileFields
<1>3. \/ file' = [file EXCEPT ![f] = Opened(file[f], t)]
      \/ file' = [file EXCEPT ![f] = Linked(file[f], t)]
  <2>1. CASE file' = [file EXCEPT ![f].private = FALSE, ![f].ctime = @ + 1]
    BY <1>1, <2>1 DEF Opened, TypeOK, FileRec
  <2>2. CASE file' = [file EXCEPT ![f].links = 2, ![f].ctime = @ + 1]
    BY <1>1, <2>2 DEF Linked, TypeOK, FileRec
  <2>3. QED BY <2>1, <2>2 DEF Expose
<1> HIDE DEF t
<1>4. /\ Opened(file[f], t) \in FileRec /\ Opened(file[f], t).content = file[f].content
      /\ Opened(file[f], t).ctime = t /\ Opened(file[f], t).offset = file[f].offset
      /\ Linked(file[f], t) \in FileRec /\ Linked(file[f], t).content = file[f].content
      /\ Linked(file[f], t).ctime = t /\ Linked(file[f], t).offset = file[f].offset
  BY <1>1, <1>2, ExposedFields
<1>5. QED BY <1>3, <1>4 DEF t

\* Every step keeps the type of the files and moves the ctime of a file it changes.
LEMMA FileSteps ==
  ASSUME TypeOK, Dumping, [Next]_vars
  PROVE  /\ file' \in [Files -> FileRec]
         /\ \A f \in Files : Evolves(file[f], file'[f])
<1> DEFINE Goal == /\ file' \in [Files -> FileRec]
                   /\ \A f \in Files : Evolves(file[f], file'[f])
<1> SUFFICES Goal
  OBVIOUS
<1> HIDE DEF Goal
<1>k. UNCHANGED file => Goal
  BY FileKept DEF Goal
<1>n. ASSUME NEW f \in Files
      PROVE  file[f].ctime \in Nat
  <2>1. file[f] \in FileRec
    BY DEF TypeOK, FileRec
  <2>2. QED BY <2>1, FileFields
<1>r. ASSUME NEW k \in Files, NEW g \in FileRec,
             g.ctime >= file[k].ctime, g.ctime = file[k].ctime => g.content = file[k].content,
             file' = [file EXCEPT ![k] = g]
      PROVE  Goal
  <2>1. Evolves(file[k], g)
    BY <1>r DEF Evolves
  <2>2. QED BY <1>r, <2>1, FileReplaced DEF Goal
<1>i. ASSUME RaiseBackup, cleanup \in Files
      PROVE  Goal
  <2>1. Invalidate
    BY <1>i DEF RaiseBackup
  <2>2. PICK g \in FileRec : /\ file' = [file EXCEPT ![cleanup] = g]
                             /\ Evolves(file[cleanup], g)
    BY <1>i, <2>1, InvalidateFile
  <2>3. QED BY <1>i, <2>2, FileReplaced DEF Goal
<1>1. CASE DumpWrites
  <2>1. PICK g \in FileRec :
              /\ child \in Files /\ file' = [file EXCEPT ![child] = g]
              /\ g.ctime = file[child].ctime + 1
    BY <1>1, DumpWritesFile
  <2>2. g.ctime >= file[child].ctime /\ g.ctime # file[child].ctime
    BY <2>1, <1>n
  <2>3. QED BY <2>1, <2>2, <1>r
<1>2. CASE DumpFails
  <2>1. cleanup \in Files
    BY <1>2 DEF DumpFails, Dumping
  <2>2. QED BY <1>2, <2>1, <1>i DEF DumpFails
<1>3. CASE RefuseOutput
  <2>1. cleanup \in Files
    BY <1>3 DEF RefuseOutput, Dumping
  <2>2. QED BY <1>3, <2>1, <1>i DEF RefuseOutput
<1>4. CASE FinalizeOutput
  <2>1. cleanup \in Files
    BY <1>4 DEF FinalizeOutput, Dumping
  <2>2. PICK g \in FileRec : /\ file' = [file EXCEPT ![cleanup] = g]
                             /\ g.content = file[cleanup].content
                             /\ g.ctime = file[cleanup].ctime
                             /\ g.offset = file[cleanup].offset
    BY <1>4, <2>1, FinalizeFile
  <2>3. g.ctime >= file[cleanup].ctime
    BY <2>1, <2>2, <1>n
  <2>4. QED BY <2>1, <2>2, <2>3, <1>r
<1>5. CASE \E f \in Files : Expose(f)
  <2>1. PICK f \in Files : Expose(f)
    BY <1>5
  <2>2. PICK g \in FileRec : /\ file' = [file EXCEPT ![f] = g]
                             /\ g.ctime = file[f].ctime + 1 /\ g.offset = file[f].offset
                             /\ g.content = file[f].content
    BY <2>1, ExposeFile
  <2>3. g.ctime >= file[f].ctime
    BY <2>2, <1>n
  <2>4. QED BY <2>2, <2>3, <1>r
<1>6. CASE \E f \in Files, i \in 1 .. MaxSize : Write(f, i)
  <2>1. PICK f \in Files, i \in 1 .. MaxSize : Write(f, i)
    BY <1>6
  <2>2. PICK g \in FileRec : /\ file' = [file EXCEPT ![f] = g]
                             /\ g.ctime = file[f].ctime + 1 /\ g.offset = file[f].offset
                             /\ Len(g.content) >= Len(file[f].content)
    BY <2>1, WriteFile
  <2>3. g.ctime >= file[f].ctime /\ g.ctime # file[f].ctime
    BY <2>2, <1>n
  <2>4. QED BY <2>2, <2>3, <1>r
<1>7. CASE UNCHANGED vars
  BY <1>7, <1>k DEF vars
<1>8. CASE \/ InspectOutput \/ DuplicateOutput \/ SpawnDump \/ DumpExits \/ RetryBackup
  BY <1>8, <1>k DEF InspectOutput, DuplicateOutput, SpawnDump, DumpExits, RetryBackup, disk
<1>9. CASE Evidence
  BY <1>9, <1>k DEF Evidence, InspectArtifact, ReinspectArtifact, OpenArtifact, HashChunk,
     CompleteEvidence, FailInspection, BindReceipt, RefuseClaim, VerifyReceipt, RefuseReceipt, disk
<1>10. CASE Restore
  BY <1>10, <1>k DEF Restore, VerifyIsolation, OpenArchive, InspectArchive, SpawnRestore,
     RestoreReads, RestoreCommits, RestoreFails, RestoreExits, VerifyArchive, disk
<1>11. CASE (\E f \in Files : ReplacePath(f) \/ ReplaceDescriptor(f)) \/ UpgradePackage
  BY <1>11, <1>k DEF ReplacePath, ReplaceDescriptor, UpgradePackage, disk
<1>12. CASE InterruptBackup
  BY <1>12, <1>k, InterruptFile, FileReplaced DEF Goal
<1>13. QED
  BY <1>1, <1>2, <1>3, <1>4, <1>5, <1>6, <1>7, <1>8, <1>9, <1>10, <1>11, <1>12
  DEF Next, Backup, Others

-----------------------------------------------------------------------------
(* The type invariant.                                                     *)

\* Updates of what happened that no single state shows.
LEMMA HistoryUpdates ==
  ASSUME NEW h \in History
  PROVE  /\ h.output \in Files \cup {NULL} /\ h.touched \in SUBSET Files /\ h.swaps \in Nat
         /\ h.archive \in Seq(Chunk)
         /\ \A o \in Files \cup {NULL} : [h EXCEPT !.output = o] \in History
         /\ [h EXCEPT !.lost = TRUE] \in History
         /\ \A q \in BOOLEAN : [h EXCEPT !.quiet = q] \in History
         /\ [h EXCEPT !.swaps = 0] \in History
         /\ \A a \in Seq(Chunk) : [h EXCEPT !.archive = a] \in History
         /\ \A t \in SUBSET Files : [h EXCEPT !.touched = t, !.quiet = FALSE] \in History
         /\ \A n \in Nat : [h EXCEPT !.swaps = n, !.quiet = FALSE] \in History
<1>1. /\ h.output \in Files \cup {NULL} /\ h.touched \in SUBSET Files /\ h.swaps \in Nat
      /\ h.archive \in Seq(Chunk)
  BY DEF History
<1>2. \A o \in Files \cup {NULL} : [h EXCEPT !.output = o] \in History
  BY DEF History
<1>3. [h EXCEPT !.lost = TRUE] \in History
  BY DEF History
<1>4. \A q \in BOOLEAN : [h EXCEPT !.quiet = q] \in History
  BY DEF History
<1>5. [h EXCEPT !.swaps = 0] \in History
  BY DEF History
<1>6. \A a \in Seq(Chunk) : [h EXCEPT !.archive = a] \in History
  BY DEF History
<1>7. \A t \in SUBSET Files : [h EXCEPT !.touched = t, !.quiet = FALSE] \in History
  BY DEF History
<1>8. \A n \in Nat : [h EXCEPT !.swaps = n, !.quiet = FALSE] \in History
  BY DEF History
<1>9. QED BY <1>1, <1>2, <1>3, <1>4, <1>5, <1>6, <1>7, <1>8

LEMMA HistoryType ==
  ASSUME TypeOK, [Next]_vars
  PROVE  history' \in History
<1>0. history \in History /\ fd \in Files
  BY DEF TypeOK
<1>f. \A f \in Files : file[f].content \in Seq(Chunk)
  BY DEF TypeOK
<1>1. CASE InspectOutput
  BY <1>0, <1>1, HistoryUpdates DEF InspectOutput
<1>2. CASE DumpFails \/ RefuseOutput
  BY <1>0, <1>2, HistoryUpdates DEF DumpFails, RefuseOutput, RaiseBackup, Invalidate
<1>3. CASE VerifyReceipt
  <2>1. (path = child) \in BOOLEAN
    OBVIOUS
  <2>2. QED BY <1>0, <1>3, <2>1, HistoryUpdates DEF VerifyReceipt
<1>4. CASE OpenArchive
  BY <1>0, <1>4, HistoryUpdates DEF OpenArchive
<1>5. CASE InspectArchive
  BY <1>0, <1>f, <1>5, HistoryUpdates DEF InspectArchive
<1>6. CASE (\E f \in Files : Expose(f)) \/ (\E f \in Files, i \in 1 .. MaxSize : Write(f, i))
  <2>1. PICK f \in Files : Touch(f)
    BY <1>6 DEF Expose, Write
  <2>2. history.touched \cup {f} \in SUBSET Files
    BY <1>0, HistoryUpdates
  <2>3. QED BY <1>0, <2>1, <2>2, HistoryUpdates DEF Touch
<1>7. CASE \E f \in Files : ReplacePath(f)
  BY <1>0, <1>7, HistoryUpdates DEF ReplacePath
<1>8. CASE \E f \in Files : ReplaceDescriptor(f)
  <2>0. history.swaps \in Nat
    BY <1>0 DEF History
  <2>1. history.swaps + 1 \in Nat
    BY <2>0
  <2>2. QED BY <1>0, <1>8, <2>1, HistoryUpdates DEF ReplaceDescriptor
<1>9. CASE UNCHANGED history
  BY <1>0, <1>9
<1>10. CASE Backup
  <2>1. CASE \/ DuplicateOutput \/ SpawnDump \/ DumpWrites \/ DumpExits \/ FinalizeOutput
             \/ InterruptBackup \/ RetryBackup
    BY <1>9, <2>1 DEF DuplicateOutput, SpawnDump, DumpWrites, DumpExits, FinalizeOutput,
       InterruptBackup, RetryBackup
  <2>2. QED BY <1>1, <1>2, <1>10, <2>1 DEF Backup
<1>11. CASE Evidence
  <2>1. CASE \/ InspectArtifact \/ ReinspectArtifact \/ HashChunk \/ CompleteEvidence
             \/ FailInspection \/ BindReceipt \/ RefuseClaim \/ RefuseReceipt
    BY <1>9, <2>1 DEF InspectArtifact, ReinspectArtifact, OpenArtifact, HashChunk,
       CompleteEvidence, FailInspection, BindReceipt, RefuseClaim, RefuseReceipt
  <2>2. QED BY <1>3, <1>11, <2>1 DEF Evidence
<1>12. CASE Restore
  <2>1. CASE \/ VerifyIsolation \/ SpawnRestore \/ RestoreReads \/ RestoreCommits \/ RestoreFails
             \/ RestoreExits \/ VerifyArchive
    BY <1>9, <2>1 DEF VerifyIsolation, SpawnRestore, RestoreReads, RestoreCommits, RestoreFails,
       RestoreExits, VerifyArchive
  <2>2. QED BY <1>4, <1>5, <1>12, <2>1 DEF Restore
<1>13. CASE UpgradePackage
  BY <1>9, <1>13 DEF UpgradePackage
<1>14. CASE UNCHANGED vars
  BY <1>9, <1>14 DEF vars
<1>15. QED BY <1>6, <1>7, <1>8, <1>10, <1>11, <1>12, <1>13, <1>14 DEF Next, Others

\* What is read next, and what was read with it.
LEMMA ReadNext ==
  ASSUME TypeOK, child \in Files, ~AtEnd(child)
  PROVE  /\ file[child].content[Len(buffer) + 1] \in Chunk
         /\ Append(buffer, file[child].content[Len(buffer) + 1]) \in Seq(Chunk)
         /\ Len(Append(buffer, file[child].content[Len(buffer) + 1])) = Len(buffer) + 1
         /\ \A i \in 1 .. Len(buffer) :
              Append(buffer, file[child].content[Len(buffer) + 1])[i] = buffer[i]
         /\ Append(buffer, file[child].content[Len(buffer) + 1])[Len(buffer) + 1]
              = file[child].content[Len(buffer) + 1]
<1>1. file[child].content \in Seq(Chunk) /\ buffer \in Seq(Chunk)
  BY DEF TypeOK
<1>2. Len(buffer) + 1 \in 1 .. Len(file[child].content)
  BY <1>1 DEF AtEnd
<1>3. file[child].content[Len(buffer) + 1] \in Chunk
  BY <1>1, <1>2
<1>4. QED BY <1>1, <1>3

\* The type of the variables other than the files and the history.
RestOK ==
  /\ path \in Files /\ fd \in Files
  /\ cleanup \in Files \cup {NULL} /\ child \in Files \cup {NULL}
  /\ phase \in Phases
  /\ stat \in Status \cup {NULL}
  /\ buffer \in Seq(Chunk)
  /\ evidence \in EvidenceRec \cup {NULL}
  /\ receipt \in EvidenceRec \cup {NULL}
  /\ schema \in Nat /\ service \in Clusters
  /\ target \in [Clusters -> Seq(Chunk)]
  /\ backups \in 1 .. MaxBackups /\ restores \in 0 .. MaxRestores /\ tampers \in 0 .. MaxTampers
  /\ report \in {"none", "ok", "failed", "interrupted"}

LEMMA BackupTypes ==
  ASSUME TypeOK, Backup
  PROVE  RestOK'
<1> USE DEF disk, records, world, calls
<1>0. RestOK
  BY DEF TypeOK, RestOK, EvidenceRec
<1>1. CASE InspectOutput
  BY <1>0, <1>1, StatType DEF RestOK, InspectOutput, Phases
<1>2. CASE DuplicateOutput
  BY <1>0, <1>2 DEF RestOK, DuplicateOutput, Phases
<1>3. CASE SpawnDump
  <2>1. << >> \in Seq(Chunk)
    BY EmptySeq
  <2>2. QED BY <1>0, <1>3, <2>1 DEF RestOK, SpawnDump, Phases
<1>4. CASE DumpWrites
  <2>1. Append(buffer, "dump") \in Seq(Chunk)
    BY <1>0 DEF RestOK, Chunk
  <2>2. QED BY <1>0, <1>4, <2>1 DEF RestOK, DumpWrites
<1>5. CASE DumpExits \/ FinalizeOutput
  BY <1>0, <1>5 DEF RestOK, DumpExits, FinalizeOutput, Phases
<1>6. CASE DumpFails \/ RefuseOutput \/ InterruptBackup
  BY <1>0, <1>6 DEF RestOK, DumpFails, RefuseOutput, RaiseBackup, InterruptBackup, Phases
<1>7. CASE RetryBackup
  <2>0. /\ backups \in 1 .. MaxBackups /\ backups < MaxBackups /\ backups' = backups + 1
        /\ MaxBackups \in Nat
    BY <1>0, <1>7, ConstantsAssumption DEF RestOK, RetryBackup
  <2>1. backups' \in 1 .. MaxBackups
    BY <2>0
  <2>2. QED BY <1>0, <1>7, <2>1 DEF RestOK, RetryBackup, Phases
<1>8. QED BY <1>1, <1>2, <1>3, <1>4, <1>5, <1>6, <1>7 DEF Backup

LEMMA EvidenceTypes ==
  ASSUME TypeOK, Hashing, Evidence
  PROVE  RestOK'
<1> USE DEF disk, records, world, calls
<1>0. RestOK
  BY DEF TypeOK, RestOK, EvidenceRec
<1>1. ASSUME NEW next \in Phases, OpenArtifact(next)
      PROVE  RestOK'
  <2>1. << >> \in Seq(Chunk)
    BY EmptySeq
  <2>2. evidence' \in EvidenceRec
    BY <1>0, <1>1, <2>1 DEF RestOK, EvidenceRec, OpenArtifact
  <2>3. stat' \in Status /\ phase' \in Phases
    BY <1>0, <1>1, StatType DEF RestOK, OpenArtifact, Refuse, Phases
  <2>4. QED BY <1>0, <1>1, <2>1, <2>2, <2>3 DEF RestOK, OpenArtifact
<1>2. CASE InspectArtifact
  BY <1>1, <1>2 DEF InspectArtifact, Phases
<1>3. CASE ReinspectArtifact
  BY <1>1, <1>3 DEF ReinspectArtifact, Phases
<1>4. CASE HashChunk
  <2>1. child \in Files
    BY <1>4 DEF HashChunk, Hashing, Recorded, Status
  <2>2. buffer' \in Seq(Chunk)
    BY <1>4, <2>1, ReadNext DEF HashChunk
  <2>3. QED BY <1>0, <1>4, <2>2 DEF RestOK, HashChunk
<1>5. CASE CompleteEvidence
  <2>1. evidence \in EvidenceRec
    BY <1>5 DEF CompleteEvidence, Hashing
  <2>2. evidence' \in EvidenceRec
    BY <1>0, <1>5, <2>1 DEF RestOK, CompleteEvidence, Observation, EvidenceRec
  <2>3. QED BY <1>0, <1>5, <2>2 DEF RestOK, CompleteEvidence, Phases
<1>6. CASE BindReceipt
  BY <1>0, <1>6 DEF RestOK, BindReceipt, Phases
<1>7. CASE FailInspection \/ RefuseClaim \/ RefuseReceipt
  BY <1>0, <1>7 DEF RestOK, FailInspection, RefuseClaim, RefuseReceipt, Refuse, Phases
<1>8. CASE VerifyReceipt
  BY <1>0, <1>8 DEF RestOK, VerifyReceipt, Phases
<1>9. QED BY <1>2, <1>3, <1>4, <1>5, <1>6, <1>7, <1>8 DEF Evidence

LEMMA RestoreTypes ==
  ASSUME TypeOK, Restoring, Restore
  PROVE  RestOK'
<1> USE DEF disk, records, world, calls
<1>0. RestOK
  BY DEF TypeOK, RestOK, EvidenceRec
<1>1. CASE VerifyIsolation
  BY <1>0, <1>1 DEF RestOK, VerifyIsolation, Refuse, Phases
<1>2. CASE OpenArchive
  <2>0. /\ restores \in 0 .. MaxRestores /\ restores < MaxRestores /\ restores' = restores + 1
        /\ MaxRestores \in Nat
    BY <1>0, <1>2, ConstantsAssumption DEF RestOK, OpenArchive
  <2>1. restores' \in 0 .. MaxRestores
    BY <2>0
  <2>2. QED BY <1>0, <1>2, <2>1 DEF RestOK, OpenArchive, Phases
<1>3. CASE InspectArchive
  BY <1>0, <1>3, StatType DEF RestOK, InspectArchive, Phases
<1>4. CASE SpawnRestore
  <2>1. << >> \in Seq(Chunk)
    BY EmptySeq
  <2>2. QED BY <1>0, <1>4, <2>1 DEF RestOK, SpawnRestore, Phases
<1>5. CASE RestoreReads
  <2>1. child \in Files
    BY <1>5 DEF RestoreReads, Restoring
  <2>2. buffer' \in Seq(Chunk)
    BY <1>5, <2>1, ReadNext DEF RestoreReads
  <2>3. QED BY <1>0, <1>5, <2>2 DEF RestOK, RestoreReads
<1>6. CASE RestoreCommits
  BY <1>0, <1>6 DEF RestOK, RestoreCommits, Phases
<1>7. CASE RestoreFails \/ RestoreExits \/ VerifyArchive
  BY <1>0, <1>7 DEF RestOK, RestoreFails, RestoreExits, VerifyArchive, Phases
<1>8. QED BY <1>1, <1>2, <1>3, <1>4, <1>5, <1>6, <1>7 DEF Restore

LEMMA OtherTypes ==
  ASSUME TypeOK, Others
  PROVE  RestOK'
<1> USE DEF disk, records, world, calls
<1>0. RestOK
  BY DEF TypeOK, RestOK, EvidenceRec
<1>1. CASE \E f \in Files : Expose(f)
  BY <1>0, <1>1, ConstantsAssumption DEF RestOK, Expose, Tamper
<1>2. CASE \E f \in Files : ReplacePath(f)
  BY <1>0, <1>2, ConstantsAssumption DEF RestOK, ReplacePath, Tamper
<1>3. CASE \E f \in Files : ReplaceDescriptor(f)
  BY <1>0, <1>3, ConstantsAssumption DEF RestOK, ReplaceDescriptor, Tamper
<1>4. CASE \E f \in Files, i \in 1 .. MaxSize : Write(f, i)
  BY <1>0, <1>4, ConstantsAssumption DEF RestOK, Write, Tamper
<1>5. CASE UpgradePackage
  BY <1>0, <1>5, ConstantsAssumption DEF RestOK, UpgradePackage, Tamper
<1>6. QED BY <1>1, <1>2, <1>3, <1>4, <1>5 DEF Others

LEMMA TypeSteps ==
  ASSUME TypeOK, Dumping, Hashing, Restoring, [Next]_vars
  PROVE  TypeOK'
<1>1. file' \in [Files -> FileRec]
  BY FileSteps
<1>2. history' \in History
  BY HistoryType
<1>3. CASE UNCHANGED vars
  BY <1>3 DEF vars, TypeOK
<1>4. CASE Next
  <2>1. RestOK'
    BY <1>4, BackupTypes, EvidenceTypes, RestoreTypes, OtherTypes DEF Next
  <2>2. QED BY <1>1, <1>2, <2>1 DEF TypeOK, FileRec, RestOK, EvidenceRec
<1>5. QED BY <1>3, <1>4

-----------------------------------------------------------------------------
(* Evidence, isolation and restore.                                        *)

\* A recorded status stays one from the past, and if the file still has its ctime it
\* had it before.
LEMMA RecordedStays ==
  ASSUME TypeOK, Recorded, UNCHANGED stat, \A f \in Files : Evolves(file[f], file'[f]),
         file' \in [Files -> FileRec]
  PROVE  /\ Recorded' /\ stat.ino \in Files
         /\ Unchanged' => Unchanged /\ file'[stat.ino].content = file[stat.ino].content
<1>1. stat.ino \in Files /\ stat.ctime \in Nat
  BY DEF Recorded, Status
<1>2. file[stat.ino].ctime \in Nat /\ file'[stat.ino].ctime \in Nat
  BY <1>1, FileFields DEF TypeOK, FileRec
<1>3. Evolves(file[stat.ino], file'[stat.ino])
  BY <1>1
<1>4. QED BY <1>1, <1>2, <1>3 DEF Recorded, Unchanged, Evolves

LEMMA HashingSteps ==
  ASSUME TypeOK, Dumping, Hashing, [Next]_vars
  PROVE  Hashing'
<1> USE DEF disk, records, world, calls
<1>0. file' \in [Files -> FileRec] /\ \A f \in Files : Evolves(file[f], file'[f])
  BY FileSteps
<1>1. CASE phase' \notin {"hash", "rehash"}
  BY <1>1 DEF Hashing
<1>2. ASSUME phase \in {"hash", "rehash"}, UNCHANGED <<phase, stat, child, buffer, evidence>>
      PROVE  Hashing'
  BY <1>0, <1>2, RecordedStays DEF Hashing, IsPrefixOf
<1>3. ASSUME NEW next, OpenArtifact(next)
      PROVE  Hashing'
  <2>1. path \in Files /\ schema \in Nat
    BY DEF TypeOK
  <2>2. evidence' \in EvidenceRec
    BY <1>3, <2>1, EmptySeq DEF OpenArtifact, EvidenceRec
  <2>3. /\ stat' \in Status /\ stat'.ino = path /\ stat'.ctime = file[path].ctime
        /\ stat'.size = Len(file[path].content) /\ child' = path /\ buffer' = << >>
        /\ UNCHANGED file
    BY <1>3, <2>1, StatType DEF OpenArtifact
  <2>4. file[path].ctime \in Nat /\ Len(file[path].content) \in Nat
    BY <2>1, FileFields DEF TypeOK, FileRec
  <2>5. QED BY <2>2, <2>3, <2>4 DEF Hashing, Recorded, Unchanged, IsPrefixOf
<1>4. CASE HashChunk
  <2>1. /\ phase \in {"hash", "rehash"} /\ evidence \in EvidenceRec /\ Recorded /\ child = stat.ino
        /\ ~AtEnd(child) /\ UNCHANGED <<file, phase, stat, child, evidence>>
        /\ buffer' = Append(buffer, file[child].content[Len(buffer) + 1])
    BY <1>4 DEF HashChunk, Hashing
  <2>2. child \in Files
    BY <2>1 DEF Recorded, Status
  <2>3. Unchanged' => Unchanged
    BY <2>1 DEF Unchanged
  <2>4. ASSUME Unchanged
        PROVE  /\ Len(file[child].content) = stat.size
               /\ IsPrefixOf(buffer', file[child].content)
    <3>1. Len(file[child].content) = stat.size /\ IsPrefixOf(buffer, file[child].content)
      BY <2>1, <2>4 DEF Hashing
    <3>2. file[child].content \in Seq(Chunk) /\ buffer \in Seq(Chunk)
      BY <2>2 DEF TypeOK
    <3>3. Len(buffer) < Len(file[child].content)
      BY <2>1, <3>2 DEF AtEnd
    <3>4. QED BY <2>1, <2>2, <3>1, <3>2, <3>3, ReadNext DEF IsPrefixOf
  <2>5. QED BY <2>1, <2>3, <2>4 DEF Hashing, Recorded
<1>5. CASE UNCHANGED vars
  BY <1>1, <1>2, <1>5 DEF vars
<1>6. CASE Backup
  BY <1>1, <1>6 DEF Backup, InspectOutput, DuplicateOutput, SpawnDump, DumpWrites, DumpExits,
     DumpFails, FinalizeOutput, RefuseOutput, InterruptBackup, RetryBackup, RaiseBackup
<1>7. CASE Evidence
  BY <1>1, <1>3, <1>4, <1>7 DEF Evidence, InspectArtifact, ReinspectArtifact,
     CompleteEvidence, FailInspection, BindReceipt, RefuseClaim, VerifyReceipt, RefuseReceipt, Refuse
<1>8. CASE Restore
  BY <1>1, <1>8 DEF Restore, VerifyIsolation, OpenArchive, InspectArchive, SpawnRestore,
     RestoreReads, RestoreCommits, RestoreFails, RestoreExits, VerifyArchive, Refuse
<1>9. CASE Others
  <2>1. Tamper
    BY <1>9 DEF Others, Expose, ReplacePath, ReplaceDescriptor, Write, UpgradePackage
  <2>2. QED BY <1>1, <1>2, <2>1 DEF Tamper
<1>10. QED BY <1>5, <1>6, <1>7, <1>8, <1>9 DEF Next

LEMMA IsolationSteps ==
  ASSUME TypeOK, Isolation, [Next]_vars
  PROVE  Isolation'
<1> USE DEF disk, records, world, calls
<1>0. target \in [Clusters -> Seq(Chunk)] /\ service \in Clusters
  BY DEF TypeOK
<1>1. CASE UNCHANGED vars
  BY <1>1 DEF vars, Isolation
<1>2. CASE Backup
  BY <1>2 DEF Backup, InspectOutput, DuplicateOutput, SpawnDump, DumpWrites, DumpExits,
     DumpFails, FinalizeOutput, RefuseOutput, InterruptBackup, RetryBackup, RaiseBackup, Isolation
<1>3. CASE Evidence
  BY <1>3 DEF Evidence, InspectArtifact, ReinspectArtifact, OpenArtifact, HashChunk,
     CompleteEvidence, FailInspection, BindReceipt, RefuseClaim, VerifyReceipt, RefuseReceipt,
     Refuse, Isolation
<1>4. CASE Restore
  <2>1. CASE RestoreCommits
    BY <1>0, <2>1 DEF RestoreCommits, Isolation, Clusters
  <2>2. CASE VerifyIsolation
    BY <1>0, <2>2 DEF VerifyIsolation, Isolated, Refuse, Isolation, Clusters
  <2>3. CASE \/ OpenArchive \/ InspectArchive \/ SpawnRestore \/ RestoreReads \/ RestoreFails
             \/ RestoreExits \/ VerifyArchive
    BY <2>3 DEF OpenArchive, InspectArchive, SpawnRestore, RestoreReads, RestoreFails,
       RestoreExits, VerifyArchive, Isolation
  <2>4. QED BY <1>4, <2>1, <2>2, <2>3 DEF Restore
<1>5. CASE Others
  <2>1. Tamper
    BY <1>5 DEF Others, Expose, ReplacePath, ReplaceDescriptor, Write, UpgradePackage
  <2>2. QED BY <2>1 DEF Tamper, Isolation
<1>6. QED BY <1>1, <1>2, <1>3, <1>4, <1>5 DEF Next

\* What the other actors leave of the counters and flags of the history.
LEMMA TamperHistory ==
  ASSUME TypeOK, Others
  PROVE  /\ history'.archive = history.archive /\ history'.output = history.output
         /\ history'.lost = history.lost /\ history.touched \subseteq history'.touched
         /\ \/ UNCHANGED fd /\ history'.swaps = history.swaps
            \/ history'.swaps = history.swaps + 1 /\ UNCHANGED file
         /\ history'.quiet => UNCHANGED <<file, path, fd, history>>
<1>0. history \in History
  BY DEF TypeOK
<1>1. CASE (\E f \in Files : Expose(f)) \/ (\E f \in Files, i \in 1 .. MaxSize : Write(f, i))
  <2>1. PICK f \in Files : Touch(f) /\ UNCHANGED fd
    BY <1>1 DEF Expose, Write
  <2>2. history' = [history EXCEPT !.touched = @ \cup {f}, !.quiet = FALSE]
    BY <2>1 DEF Touch
  <2>3. QED BY <1>0, <2>1, <2>2 DEF History
<1>2. CASE \E f \in Files : ReplacePath(f)
  BY <1>0, <1>2 DEF ReplacePath, History
<1>3. CASE \E f \in Files : ReplaceDescriptor(f)
  BY <1>0, <1>3 DEF ReplaceDescriptor, History
<1>4. CASE UpgradePackage
  BY <1>0, <1>4 DEF UpgradePackage, History, disk
<1>5. QED BY <1>1, <1>2, <1>3, <1>4 DEF Others

\* A status is that of a file as long as the file does not change.
LEMMA StatEqual ==
  ASSUME TypeOK, NEW f \in Files, stat = Stat(f)
  PROVE  stat.ino = f /\ file[f].ctime = stat.ctime
BY StatType

LEMMA EmptyPrefix ==
  ASSUME NEW t, Len(t) \in Nat
  PROVE  IsPrefixOf(<< >>, t)
<1>1. Len(<< >>) = 0
  BY EmptySeq
<1>2. QED BY <1>1 DEF IsPrefixOf

LEMMA RestoringSteps ==
  ASSUME TypeOK, Dumping, Isolation, Restoring, [Next]_vars
  PROVE  Restoring'
<1> USE DEF disk, records, world, calls
<1>0. file' \in [Files -> FileRec] /\ \A f \in Files : Evolves(file[f], file'[f])
  BY FileSteps
<1>h. history \in History /\ history.swaps \in Nat /\ fd \in Files
  BY DEF TypeOK, History
<1>1. CASE phase' \notin {"spawn restore", "restoring", "committed", "check", "restored"}
  BY <1>1 DEF Restoring, RestoreIsTheArchive
<1>2. CASE UNCHANGED vars
  BY <1>2 DEF vars, Restoring, RestoreIsTheArchive, Recorded, Unchanged
<1>3. CASE Backup
  BY <1>1, <1>3 DEF Backup, InspectOutput, DuplicateOutput, SpawnDump, DumpWrites, DumpExits,
     DumpFails, FinalizeOutput, RefuseOutput, InterruptBackup, RetryBackup, RaiseBackup
<1>4. CASE Evidence
  BY <1>1, <1>4 DEF Evidence, InspectArtifact, ReinspectArtifact, OpenArtifact, HashChunk,
     CompleteEvidence, FailInspection, BindReceipt, RefuseClaim, VerifyReceipt, RefuseReceipt, Refuse
<1>5. CASE VerifyIsolation \/ OpenArchive \/ RestoreFails
  BY <1>1, <1>5 DEF VerifyIsolation, OpenArchive, RestoreFails, Refuse
<1>6. CASE InspectArchive
  <2>1. CASE phase' = "restore failed"
    BY <1>1, <2>1
  <2>2. CASE phase' = "spawn restore"
    <3>1. /\ stat' \in Status /\ stat'.ino = fd /\ stat'.ctime = file[fd].ctime
          /\ UNCHANGED <<file, fd>>
      BY <1>6, <1>h, StatType DEF InspectArchive
    <3>2. history'.archive = file[fd].content
      BY <1>6, <1>h, <2>2 DEF InspectArchive, History
    <3>3. file[fd].ctime \in Nat
      BY <1>h, FileFields DEF TypeOK, FileRec
    <3>4. Recorded' /\ stat'.ino = fd' /\ file'[stat'.ino].content = history'.archive
      BY <3>1, <3>2, <3>3 DEF Recorded
    <3>5. QED BY <2>2, <3>4 DEF Restoring, RestoreIsTheArchive
  <2>3. QED BY <1>6, <2>1, <2>2 DEF InspectArchive
<1>7. CASE SpawnRestore
  <2>1. /\ phase = "spawn restore" /\ phase' = "restoring" /\ child' = fd /\ buffer' = << >>
        /\ UNCHANGED <<file, fd, stat, history>>
    BY <1>7 DEF SpawnRestore
  <2>2. /\ Recorded' /\ (history'.swaps = 0 => fd' = stat'.ino)
        /\ Unchanged' => file'[stat'.ino].content = history'.archive
    BY <2>1 DEF Restoring, Recorded, Unchanged
  <2>3. Len(history.archive) \in Nat
    BY <1>h DEF History
  <2>4. IsPrefixOf(buffer', history'.archive)
    BY <2>1, <2>3, EmptyPrefix
  <2>5. QED BY <1>h, <2>1, <2>2, <2>4 DEF Restoring, RestoreIsTheArchive
<1>8. CASE RestoreReads
  <2>1. /\ phase = "restoring" /\ ~AtEnd(child) /\ child \in Files
        /\ UNCHANGED <<file, fd, phase, stat, child, history>>
        /\ buffer' = Append(buffer, file[child].content[Len(buffer) + 1])
    BY <1>8 DEF RestoreReads, Restoring
  <2>2. ASSUME child = stat.ino, Unchanged
        PROVE  IsPrefixOf(buffer', history.archive)
    <3>1. file[child].content = history.archive /\ IsPrefixOf(buffer, history.archive)
      BY <2>1, <2>2 DEF Restoring
    <3>2. file[child].content \in Seq(Chunk) /\ buffer \in Seq(Chunk)
      BY <2>1 DEF TypeOK
    <3>3. Len(buffer) < Len(file[child].content)
      BY <2>1, <3>2 DEF AtEnd
    <3>4. QED BY <2>1, <3>1, <3>2, <3>3, ReadNext DEF IsPrefixOf
  <2>3. QED BY <2>1, <2>2 DEF Restoring, RestoreIsTheArchive, Recorded, Unchanged
<1>9. CASE RestoreCommits
  <2>1. /\ phase = "restoring" /\ phase' = "committed" /\ AtEnd(child) /\ child \in Files
        /\ UNCHANGED <<file, fd, stat, child, history, buffer>>
    BY <1>9 DEF RestoreCommits, Restoring
  <2>2. service = "standby" /\ target' = [target EXCEPT !["standby"] = buffer]
    BY <1>9, <2>1 DEF RestoreCommits, Isolation
  <2>3. target'["standby"] = buffer
    BY <2>2 DEF TypeOK, Clusters
  <2>4. ASSUME child = stat.ino, Unchanged
        PROVE  buffer = history.archive
    <3>1. file[child].content = history.archive /\ IsPrefixOf(buffer, history.archive)
      BY <2>1, <2>4 DEF Restoring
    <3>2. file[child].content \in Seq(Chunk) /\ buffer \in Seq(Chunk)
      BY <2>1 DEF TypeOK
    <3>3. Len(buffer) = Len(history.archive)
      BY <2>1, <3>1, <3>2 DEF AtEnd, IsPrefixOf
    <3>4. QED BY <3>1, <3>2, <3>3, SeqEqual DEF IsPrefixOf
  <2>5. QED BY <2>1, <2>3, <2>4 DEF Restoring, RestoreIsTheArchive, Recorded, Unchanged
<1>10. CASE RestoreExits
  BY <1>10 DEF RestoreExits, Restoring, RestoreIsTheArchive, Recorded, Unchanged
<1>11. CASE VerifyArchive
  <2>1. CASE phase' = "restore failed"
    BY <1>1, <2>1
  <2>2. CASE phase' = "restored"
    <3>1. /\ phase = "check" /\ Stat(fd) = stat
          /\ UNCHANGED <<file, fd, stat, child, history, target>>
      BY <1>11, <2>2 DEF VerifyArchive, ArchiveUnchanged
    <3>2. stat.ino = fd /\ Unchanged
      BY <1>h, <3>1, StatType DEF Unchanged
    <3>3. target["live"] = << >>
      BY DEF Isolation
    <3>4. QED BY <2>2, <3>1, <3>2, <3>3 DEF Restoring, RestoreIsTheArchive
  <2>3. QED BY <1>11, <2>1, <2>2 DEF VerifyArchive
<1>12. CASE Others
  <2>1. /\ UNCHANGED <<cleanup, child, phase, stat, buffer, target>>
        /\ phase # "restored"
    BY <1>12 DEF Others, Expose, ReplacePath, ReplaceDescriptor, Write, UpgradePackage, Tamper
  <2>2. /\ history'.archive = history.archive
        /\ \/ UNCHANGED fd /\ history'.swaps = history.swaps
           \/ history'.swaps = history.swaps + 1 /\ UNCHANGED file
    BY <1>12, TamperHistory
  <2>3. CASE phase \in {"spawn restore", "restoring", "committed", "check"}
    <3>1. Recorded
      BY <2>3 DEF Restoring
    <3>2. /\ Recorded'
          /\ Unchanged' => Unchanged /\ file'[stat.ino].content = file[stat.ino].content
      BY <1>0, <2>1, <3>1, RecordedStays
    <3>s. /\ \/ fd' = fd /\ history'.swaps = history.swaps
             \/ history'.swaps # 0 /\ (history'.swaps <= 1 => history.swaps = 0)
          /\ stat' = stat /\ child' = child /\ phase' = phase
      BY <1>h, <2>1, <2>2
    <3>3. /\ history'.swaps = 0 => fd' = stat'.ino
          /\ Unchanged' => file'[stat'.ino].content = history'.archive
      <4>1. /\ history.swaps = 0 => fd = stat.ino
            /\ Unchanged => file[stat.ino].content = history.archive
        BY <2>3 DEF Restoring
      <4>2. QED BY <2>2, <3>s, <3>2, <4>1
    <3>4. phase' \in {"restoring", "committed", "check"} =>
            /\ child' \in Files
            /\ history'.swaps <= 1 /\ fd' = stat'.ino => child' = stat'.ino
            /\ history'.swaps = 0 => child' = stat'.ino
      <4>1. phase \in {"restoring", "committed", "check"} =>
              /\ child \in Files
              /\ history.swaps <= 1 /\ fd = stat.ino => child = stat.ino
              /\ history.swaps = 0 => child = stat.ino
        BY DEF Restoring
      <4>2. QED BY <3>s, <4>1
    <3>5. /\ phase' = "restoring" /\ child' = stat'.ino /\ Unchanged' =>
               IsPrefixOf(buffer', history'.archive)
          /\ phase' \in {"committed", "check"} /\ child' = stat'.ino /\ Unchanged' =>
               target'["standby"] = history'.archive
      BY <2>1, <2>2, <3>2 DEF Restoring
    <3>6. RestoreIsTheArchive'
      BY <2>1 DEF RestoreIsTheArchive
    <3>7. QED BY <3>2, <3>3, <3>4, <3>5, <3>6 DEF Restoring
  <2>4. QED BY <1>1, <2>1, <2>3
<1>13. QED BY <1>2, <1>3, <1>4, <1>5, <1>6, <1>7, <1>8, <1>9, <1>10, <1>11, <1>12 DEF Next, Restore

LEMMA QuietSteps ==
  ASSUME TypeOK, Hashing, Quiet, [Next]_vars
  PROVE  Quiet'
<1> USE DEF disk, records, world, calls
<1>h. history \in History /\ path \in Files
  BY DEF TypeOK
<1>1. CASE phase' \notin {"isolate", "open", "inspect archive", "spawn restore", "restoring",
                          "committed", "check", "restored", "restore failed"}
  BY <1>1 DEF Quiet
<1>2. CASE UNCHANGED vars
  BY <1>2 DEF vars, Quiet
<1>3. CASE Backup
  BY <1>1, <1>3 DEF Backup, InspectOutput, DuplicateOutput, SpawnDump, DumpWrites, DumpExits,
     DumpFails, FinalizeOutput, RefuseOutput, InterruptBackup, RetryBackup, RaiseBackup
<1>4. CASE VerifyReceipt
  <2>1. /\ phase = "rehash" /\ HashEnds /\ ArtifactUnchanged /\ MatchesReceipt
        /\ phase' = "isolate" /\ UNCHANGED <<file, path, receipt>>
    BY <1>4 DEF VerifyReceipt
  <2>2. history'.quiet => path = child
    BY <1>4, <1>h DEF VerifyReceipt, History
  <2>3. evidence \in EvidenceRec /\ Recorded /\ child = stat.ino
    BY <2>1 DEF Hashing
  <2>4. child \in Files /\ buffer \in Seq(Chunk)
    BY <2>3 DEF Recorded, Status, TypeOK
  <2>5. Len(buffer) = stat.size /\ Unchanged
    BY <2>1, <2>3, <2>4, StatType DEF ArtifactUnchanged, Unchanged
  <2>6. Len(file[child].content) = stat.size /\ IsPrefixOf(buffer, file[child].content)
    BY <2>1, <2>5 DEF Hashing
  <2>7. file[child].content = buffer
    <3>1. file[child].content \in Seq(Chunk)
      BY <2>4 DEF TypeOK
    <3>2. QED BY <2>4, <2>5, <2>6, <3>1, SeqEqual DEF IsPrefixOf
  <2>8. receipt.digest = buffer
    BY <2>1, <2>3 DEF MatchesReceipt, Observation, EvidenceRec
  <2>9. QED BY <2>1, <2>2, <2>7, <2>8 DEF Quiet
<1>5. CASE /\ Evidence /\ ~VerifyReceipt
  BY <1>1, <1>5 DEF Evidence, InspectArtifact, ReinspectArtifact, OpenArtifact, HashChunk,
     CompleteEvidence, FailInspection, BindReceipt, RefuseClaim, RefuseReceipt, Refuse
<1>6. CASE OpenArchive
  <2>1. /\ phase \in {"open", "restore failed"} /\ phase' = "inspect archive" /\ fd' = path
        /\ UNCHANGED <<file, path, receipt>>
    BY <1>6 DEF OpenArchive
  <2>2. history'.swaps = 0 /\ history'.quiet = history.quiet
    BY <1>6, <1>h DEF OpenArchive, History
  <2>3. QED BY <2>1, <2>2 DEF Quiet
<1>7. CASE InspectArchive
  <2>1. /\ phase = "inspect archive" /\ phase' \in {"restore failed", "spawn restore"}
        /\ UNCHANGED <<file, path, fd, receipt>>
    BY <1>7 DEF InspectArchive
  <2>2. /\ history'.swaps = history.swaps /\ history'.quiet = history.quiet
        /\ phase' = "spawn restore" => history'.archive = file[fd].content
    BY <1>7, <1>h DEF InspectArchive, History
  <2>3. QED BY <2>1, <2>2 DEF Quiet
<1>8. CASE \/ VerifyIsolation \/ SpawnRestore \/ RestoreReads \/ RestoreCommits \/ RestoreFails
           \/ RestoreExits \/ VerifyArchive
  BY <1>8 DEF VerifyIsolation, SpawnRestore, RestoreReads, RestoreCommits, RestoreFails,
     RestoreExits, VerifyArchive, Refuse, Quiet
<1>9. CASE Others
  <2>1. UNCHANGED <<phase, receipt>>
    BY <1>9 DEF Others, Expose, ReplacePath, ReplaceDescriptor, Write, UpgradePackage, Tamper
  <2>2. history'.quiet => UNCHANGED <<file, path, fd, history>>
    BY <1>9, TamperHistory
  <2>3. QED BY <2>1, <2>2 DEF Quiet
<1>10. QED BY <1>2, <1>3, <1>4, <1>5, <1>6, <1>7, <1>8, <1>9 DEF Next, Restore

-----------------------------------------------------------------------------
(* The backup.                                                             *)

\* An empty file is clean.
LEMMA CleanEmpty ==
  ASSUME NEW g, g.content = << >>, g.offset = 0, NEW f, NEW touched
  PROVE  Clean(g, f, touched)
<1>1. << >> \in Seq({}) /\ Len(<< >>) = 0
  BY EmptySeq
<1>2. DOMAIN << >> = 1 .. 0
  BY <1>1
<1>3. QED BY <1>2 DEF Clean

\* The other actors change no file without leaving a trace, and write nothing of a dump.
LEMMA TamperFile ==
  ASSUME TypeOK, Others, NEW o \in Files
  PROVE  /\ o \in history'.touched \/ file'[o] = file[o]
         /\ Clean(file[o], o, history.touched) => Clean(file'[o], o, history'.touched)
<1>0. history \in History /\ file \in [Files -> FileRec]
  BY DEF TypeOK, FileRec
<1>t. history.touched \subseteq history'.touched
  BY TamperHistory
<1>1. CASE UNCHANGED file
  BY <1>1, <1>t DEF Clean
<1>2. ASSUME NEW f \in Files, Touch(f)
      PROVE  f \in history'.touched
  BY <1>0, <1>2 DEF Touch, History
<1>3. CASE \E f \in Files : Expose(f)
  <2>1. PICK f \in Files : Expose(f)
    BY <1>3
  <2>2. PICK g \in FileRec : /\ file' = [file EXCEPT ![f] = g]
                             /\ g.offset = file[f].offset /\ g.content = file[f].content
    BY <2>1, ExposeFile
  <2>3. f \in history'.touched
    BY <1>2, <2>1 DEF Expose
  <2>4. CASE o # f
    <3>1. file'[o] = file[o]
      BY <1>0, <2>2, <2>4
    <3>2. QED BY <3>1, <1>t DEF Clean
  <2>5. CASE o = f
    <3>1. file'[o] = g
      BY <1>0, <2>2, <2>5
    <3>2. QED BY <2>2, <2>3, <2>5, <3>1 DEF Clean
  <2>6. QED BY <2>4, <2>5
<1>4. CASE \E f \in Files, i \in 1 .. MaxSize : Write(f, i)
  <2>1. PICK f \in Files, i \in 1 .. MaxSize : Write(f, i)
    BY <1>4
  <2>2. PICK g \in FileRec :
           /\ file' = [file EXCEPT ![f] = g]
           /\ g.offset = file[f].offset
           /\ \A j \in 1 .. Len(g.content) : g.content[j] = IF j = i THEN "other"
                                                            ELSE file[f].content[j]
           /\ \A j \in 1 .. Len(g.content) : j # i => j \in 1 .. Len(file[f].content)
    BY <2>1, WriteFile
  <2>3. f \in history'.touched
    BY <1>2, <2>1 DEF Write
  <2>4. CASE o # f
    <3>1. file'[o] = file[o]
      BY <1>0, <2>2, <2>4
    <3>2. QED BY <3>1, <1>t DEF Clean
  <2>5. CASE o = f
    <3>1. file'[o] = g
      BY <1>0, <2>2, <2>5
    <3>2. g.content \in Seq(Chunk) /\ file[f].content \in Seq(Chunk)
      BY <1>0, FileFields
    <3>3. DOMAIN g.content = 1 .. Len(g.content) /\ DOMAIN file[f].content = 1 .. Len(file[f].content)
      BY <3>2
    <3>4. ASSUME \A j \in DOMAIN file[f].content : file[f].content[j] # "dump",
                 NEW j \in DOMAIN g.content
          PROVE  g.content[j] # "dump"
      BY <2>2, <3>3, <3>4
    <3>5. QED BY <2>2, <2>3, <2>5, <3>1, <3>4 DEF Clean
  <2>6. QED BY <2>4, <2>5
<1>5. CASE (\E f \in Files : ReplacePath(f) \/ ReplaceDescriptor(f)) \/ UpgradePackage
  BY <1>1, <1>5 DEF ReplacePath, ReplaceDescriptor, UpgradePackage, disk
<1>6. QED BY <1>3, <1>4, <1>5 DEF Others

\* A failed call leaves the accepted file clean, unless the truncation fails.
LEMMA RaiseCleans ==
  ASSUME TypeOK, Dumping, RaiseBackup, phase \in {"spawn dump", "dumping", "finalize"},
         ~history'.lost, history'.swaps <= 1
  PROVE  Clean(file'[history.output], history.output, history'.touched)
<1> DEFINE output == history.output
<1>0. /\ file \in [Files -> FileRec] /\ history \in History
      /\ output \in Files /\ cleanup \in Files
  BY DEF TypeOK, FileRec, Dumping
<1>1. Invalidate
  BY DEF RaiseBackup
<1>2. [history EXCEPT !.lost = TRUE].lost
  BY <1>0 DEF History
<1>3. PICK g \in FileRec : /\ file' = [file EXCEPT ![cleanup] = g]
                           /\ g.content = << >> /\ g.offset = 0
                           /\ UNCHANGED history
  BY <1>0, <1>1, <1>2, InvalidateFile
<1>4. CASE cleanup = output
  <2>1. file'[output] = g
    BY <1>0, <1>3, <1>4
  <2>2. QED BY <1>3, <2>1, CleanEmpty
<1>5. CASE cleanup # output
  <2>1. file'[output] = file[output]
    BY <1>0, <1>3, <1>5
  <2>2. Clean(file[output], output, history.touched)
    BY <1>3, <1>5 DEF Dumping
  <2>3. QED BY <1>3, <2>1, <2>2
<1>6. QED BY <1>4, <1>5

LEMMA DumpingSteps ==
  ASSUME TypeOK, Dumping, [Next]_vars
  PROVE  Dumping'
<1> USE DEF disk, records, world, calls
<1> DEFINE output == history.output
<1>0. /\ file \in [Files -> FileRec] /\ history \in History /\ history.swaps \in Nat
      /\ fd \in Files /\ buffer \in Seq(Chunk) /\ Chunks \in Nat
  BY ConstantsAssumption DEF TypeOK, FileRec, History
<1>r. ASSUME report # "failed", UNCHANGED report,
             phase' \notin {"inspect output", "duplicate", "spawn dump", "dumping", "finalize",
                            "backup failed"}
      PROVE  Dumping'
  BY <1>r DEF Dumping
<1>1. CASE InspectOutput
  <2>1. report # "ok" /\ report # "failed"
    BY <1>1 DEF InspectOutput, Dumping
  <2>2. CASE phase' = "backup failed"
    BY <1>1, <2>1, <2>2 DEF InspectOutput, Dumping
  <2>3. CASE phase' = "duplicate"
    <3>1. /\ stat' \in Status /\ stat'.ino = fd /\ Len(file[fd].content) = 0
          /\ file[fd].offset = 0 /\ UNCHANGED <<file, fd, report>>
      BY <1>0, <1>1, <2>3, StatType DEF InspectOutput
    <3>2. history'.output = fd
      BY <1>0, <1>1, <2>3 DEF InspectOutput, History
    <3>3. file[fd].content = << >>
      <4>1. file[fd].content \in Seq(Chunk)
        BY <1>0, FileFields
      <4>2. QED BY <3>1, <4>1, EmptySeq
    <3>4. Clean(file'[history'.output], history'.output, history'.touched)
      BY <3>1, <3>2, <3>3, CleanEmpty
    <3>5. QED BY <1>0, <2>1, <2>3, <3>1, <3>2, <3>4 DEF Dumping
  <2>4. QED BY <1>1, <2>2, <2>3 DEF InspectOutput
<1>2. CASE DuplicateOutput
  <2>1. /\ output \in Files /\ stat \in Status /\ stat.ino = output
        /\ history.swaps = 0 => fd = output
        /\ Clean(file[output], output, history.touched)
        /\ report # "ok" /\ report # "failed"
    BY <1>2 DEF DuplicateOutput, Dumping
  <2>2. CASE phase' = "backup failed"
    BY <1>2, <2>1, <2>2 DEF DuplicateOutput, Dumping
  <2>3. CASE phase' = "spawn dump"
    BY <1>0, <1>2, <2>1, <2>3 DEF DuplicateOutput, Dumping
  <2>4. QED BY <1>2, <2>2, <2>3 DEF DuplicateOutput
<1>3. CASE SpawnDump
  <2>1. /\ output \in Files /\ stat \in Status /\ stat.ino = output /\ cleanup \in Files
        /\ history.swaps = 0 => fd = output
        /\ history.swaps <= 1 /\ cleanup # output => fd # output
        /\ Clean(file[output], output, history.touched)
        /\ report # "ok" /\ report # "failed"
    BY <1>3 DEF SpawnDump, Dumping
  <2>2. /\ phase' = "dumping" /\ child' = fd /\ buffer' = << >> /\ Len(<< >>) = 0
        /\ UNCHANGED <<file, fd, cleanup, stat, report, history>>
    BY <1>3, EmptySeq DEF SpawnDump
  <2>3. output \notin history.touched =>
          /\ file[output].offset = Len(buffer') /\ Len(file[output].content) = Len(buffer')
          /\ \A i \in 1 .. Len(buffer') : file[output].content[i] = "dump"
    BY <2>1, <2>2 DEF Clean
  <2>4. Len(buffer') <= Chunks
    BY <1>0, <2>2
  <2>5. QED BY <1>0, <2>1, <2>2, <2>3, <2>4 DEF Dumping
<1>4. CASE DumpWrites
  <2> DEFINE n == file[child].offset + 1
  <2>1. /\ output \in Files /\ stat \in Status /\ stat.ino = output /\ cleanup \in Files
        /\ history.swaps = 0 => fd = output
        /\ child \in Files
        /\ child # output => Clean(file[output], output, history.touched)
        /\ history.swaps <= 1 /\ cleanup # output => child # output
        /\ report # "ok" /\ report # "failed"
    BY <1>4 DEF DumpWrites, Dumping
  <2>2. /\ phase = "dumping" /\ phase' = "dumping" /\ Len(buffer) < Chunks
        /\ buffer' = Append(buffer, "dump")
        /\ UNCHANGED <<fd, child, cleanup, stat, report, history>>
    BY <1>4 DEF DumpWrites
  <2>3. PICK g \in FileRec :
           /\ n \in Nat \ {0}
           /\ file' = [file EXCEPT ![child] = g]
           /\ g.offset = n
           /\ Len(g.content) = IF n > Len(file[child].content) THEN n
                               ELSE Len(file[child].content)
           /\ \A j \in 1 .. Len(g.content) :
                g.content[j] = IF j = n THEN "dump"
                               ELSE IF j <= Len(file[child].content) THEN file[child].content[j]
                               ELSE "other"
    BY <1>4, DumpWritesFile
  <2>4. Len(buffer) \in Nat /\ Len(buffer') = Len(buffer) + 1 /\ Len(buffer') <= Chunks
    BY <1>0, <2>2
  <2>5. child # output => Clean(file'[output], output, history.touched)
    BY <1>0, <2>1, <2>3
  <2>6. ASSUME child = output, output \notin history.touched
        PROVE  /\ file'[output].offset = Len(buffer')
               /\ Len(file'[output].content) = Len(buffer')
               /\ \A i \in 1 .. Len(buffer') : file'[output].content[i] = "dump"
    <3>1. /\ file[child].offset = Len(buffer) /\ Len(file[child].content) = Len(buffer)
          /\ \A i \in 1 .. Len(buffer) : file[child].content[i] = "dump"
      BY <2>2, <2>6 DEF Dumping
    <3>2. file'[output] = g
      BY <1>0, <2>1, <2>3, <2>6
    <3>3. n = Len(buffer')
      BY <2>4, <3>1
    <3> HIDE DEF n
    <3>4. Len(g.content) = n
      BY <2>3, <2>4, <3>1, <3>3
    <3>5. \A i \in 1 .. n : g.content[i] = "dump"
      BY <2>3, <2>4, <3>1, <3>3, <3>4
    <3>6. QED BY <2>3, <3>2, <3>3, <3>4, <3>5
  <2>7. QED BY <1>0, <2>1, <2>2, <2>4, <2>5, <2>6 DEF Dumping
<1>5. CASE DumpExits
  BY <1>5 DEF DumpExits, Dumping
<1>6. CASE DumpFails \/ RefuseOutput \/ InterruptBackup
  BY <1>6 DEF DumpFails, RefuseOutput, RaiseBackup, InterruptBackup, Dumping
<1>7. CASE FinalizeOutput
  BY <1>7 DEF FinalizeOutput, Dumping
<1>8. CASE RetryBackup
  BY <1>8 DEF RetryBackup, Dumping
<1>9. CASE Evidence
  <2>1. report # "failed"
    BY <1>9 DEF Dumping, Evidence, InspectArtifact, ReinspectArtifact, HashChunk,
       CompleteEvidence, FailInspection, BindReceipt, RefuseClaim, VerifyReceipt, RefuseReceipt
  <2>2. phase' \in {"hash", "rehash", "bind", "verify", "isolate", "refused"} /\ UNCHANGED report
    BY <1>9 DEF Evidence, InspectArtifact, ReinspectArtifact, OpenArtifact, HashChunk,
       CompleteEvidence, FailInspection, BindReceipt, RefuseClaim, VerifyReceipt, RefuseReceipt,
       Refuse
  <2>3. QED BY <1>r, <2>1, <2>2
<1>10. CASE Restore
  <2>1. report # "failed"
    BY <1>10 DEF Dumping, Restore, VerifyIsolation, OpenArchive, InspectArchive, SpawnRestore,
       RestoreReads, RestoreCommits, RestoreFails, RestoreExits, VerifyArchive
  <2>2. /\ phase' \in {"open", "inspect archive", "spawn restore", "restoring", "committed",
                       "check", "restored", "restore failed", "refused"}
        /\ UNCHANGED report
    BY <1>10 DEF Restore, VerifyIsolation, OpenArchive, InspectArchive, SpawnRestore,
       RestoreReads, RestoreCommits, RestoreFails, RestoreExits, VerifyArchive, Refuse
  <2>3. QED BY <1>r, <2>1, <2>2
<1>11. CASE Others
  <2>1. UNCHANGED <<cleanup, child, phase, stat, buffer, report>>
    BY <1>11 DEF Others, Expose, ReplacePath, ReplaceDescriptor, Write, UpgradePackage, Tamper
  <2>2. /\ history'.output = output /\ history.touched \subseteq history'.touched
        /\ \/ UNCHANGED fd /\ history'.swaps = history.swaps
           \/ history'.swaps = history.swaps + 1
    BY <1>11, TamperHistory
  <2>3. \/ fd' = fd /\ history'.swaps = history.swaps
        \/ history'.swaps # 0 /\ (history'.swaps <= 1 => history.swaps = 0)
    BY <1>0, <2>2
  <2>4. ASSUME output \in Files
        PROVE  /\ output \notin history'.touched => file'[output] = file[output]
               /\ Clean(file[output], output, history.touched)
                    => Clean(file'[output], output, history'.touched)
    BY <1>11, <2>4, TamperFile
  <2> DEFINE new == history'.output
  <2>5. /\ phase' \in {"duplicate", "spawn dump", "dumping", "finalize"} =>
             /\ new \in Files /\ stat' \in Status /\ stat'.ino = new
             /\ history'.swaps = 0 => fd' = new
        /\ phase' \in {"spawn dump", "dumping", "finalize"} => cleanup' \in Files
        /\ phase' \in {"duplicate", "spawn dump"} => Clean(file'[new], new, history'.touched)
    BY <2>1, <2>2, <2>3, <2>4 DEF Dumping
  <2>6. /\ phase' = "spawn dump" /\ history'.swaps = 0 => cleanup' = new
        /\ phase' = "spawn dump" /\ history'.swaps <= 1 /\ cleanup' # new => fd' # new
    BY <2>1, <2>2, <2>3 DEF Dumping
  <2>7. phase' \in {"dumping", "finalize"} =>
          /\ child' \in Files
          /\ child' # new => Clean(file'[new], new, history'.touched)
          /\ history'.swaps <= 1 /\ cleanup' # new => child' # new
          /\ Len(buffer') <= Chunks
    <3>1. phase \in {"dumping", "finalize"} =>
            /\ output \in Files /\ child \in Files /\ Len(buffer) <= Chunks
            /\ child # output => Clean(file[output], output, history.touched)
            /\ history.swaps <= 1 /\ cleanup # output => child # output
      BY DEF Dumping
    <3>2. history'.swaps <= 1 => history.swaps <= 1
      BY <1>0, <2>3
    <3>3. QED BY <2>1, <2>2, <2>4, <3>1, <3>2
  <2>8. ASSUME phase \in {"dumping", "finalize"}, child = output, output \notin history'.touched
        PROVE  /\ file'[output].offset = Len(buffer) /\ Len(file'[output].content) = Len(buffer)
               /\ \A i \in 1 .. Len(buffer) : file'[output].content[i] = "dump"
    <3>1. output \in Files /\ output \notin history.touched
      BY <2>2, <2>8 DEF Dumping
    <3>2. file'[output] = file[output]
      BY <2>4, <2>8, <3>1
    <3>3. QED BY <2>8, <3>1, <3>2 DEF Dumping
  <2>9. /\ phase' = "finalize" => Len(buffer') = Chunks
        /\ report' = "ok" => phase' \notin {"inspect output", "duplicate", "spawn dump", "dumping",
                                       "finalize", "backup failed"}
        /\ report' = "failed" => phase' = "backup failed"
    BY <2>1 DEF Dumping
  <2>10. QED BY <2>1, <2>2, <2>5, <2>6, <2>7, <2>8, <2>9 DEF Dumping
<1>12. CASE UNCHANGED vars
  BY <1>12 DEF vars, Dumping
<1>13. QED
  BY <1>1, <1>2, <1>3, <1>4, <1>5, <1>6, <1>7, <1>8, <1>9, <1>10, <1>11, <1>12 DEF Next, Backup

\* A file that a finished dump went into, and that nobody else changed, holds the dump.
LEMMA DumpIsWhole ==
  ASSUME NEW s \in Seq(Chunk), Len(s) = Chunks, \A i \in 1 .. Chunks : s[i] = "dump"
  PROVE  s = Dump
<1>1. Chunks \in Nat
  BY ConstantsAssumption
<1>2. Dump \in Seq(Chunk) /\ Len(Dump) = Chunks
  <2>1. Dump \in [1 .. Chunks -> Chunk]
    BY DEF Dump, Chunk
  <2>2. QED BY <1>1, <2>1, SegmentIsSeq
<1>3. \A i \in 1 .. Chunks : Dump[i] = "dump"
  BY DEF Dump
<1>4. QED BY <1>2, <1>3, SeqEqual

LEMMA BackupSteps ==
  ASSUME TypeOK, Dumping, BackupAllOrNothing, [Next]_vars
  PROVE  BackupAllOrNothing'
<1> USE DEF disk, records, world, calls
<1> DEFINE output == history.output
<1>0. /\ file \in [Files -> FileRec] /\ history \in History /\ history.swaps \in Nat
      /\ fd \in Files /\ output \in Files \cup {NULL} /\ NULL \notin Files
  BY ConstantsAssumption DEF TypeOK, FileRec, History
<1>n. CASE report' = "none"
  BY <1>n DEF BackupAllOrNothing
<1>c. ASSUME UNCHANGED <<file, cleanup, report>>, history'.output = history.output,
             history'.touched = history.touched, history'.lost = history.lost,
             report = "failed" /\ history'.swaps <= 1 => history.swaps <= 1
      PROVE  BackupAllOrNothing'
  BY <1>c DEF BackupAllOrNothing
<1>1. CASE InspectOutput
  <2>1. CASE phase' = "duplicate"
    BY <1>1, <2>1 DEF InspectOutput, Dumping, BackupAllOrNothing
  <2>2. CASE phase' = "backup failed"
    <3>1. history'.output = NULL
      BY <1>0, <1>1, <2>2 DEF InspectOutput, History
    <3>2. QED BY <3>1 DEF BackupAllOrNothing
  <2>3. QED BY <1>1, <2>1, <2>2 DEF InspectOutput
<1>2. CASE DuplicateOutput
  <2>1. UNCHANGED <<file, history>> /\ report' # "ok"
    BY <1>2 DEF DuplicateOutput, Dumping
  <2>2. Clean(file[output], output, history.touched)
    BY <1>2 DEF DuplicateOutput, Dumping
  <2>3. QED BY <2>1, <2>2 DEF Clean, BackupAllOrNothing
<1>3. CASE SpawnDump \/ DumpWrites \/ DumpExits
  <2>1. report' # "ok" /\ report' # "failed"
    BY <1>3 DEF SpawnDump, DumpWrites, DumpExits, Dumping
  <2>2. QED BY <2>1 DEF BackupAllOrNothing
<1>4. CASE DumpFails \/ RefuseOutput
  <2>1. RaiseBackup /\ phase \in {"spawn dump", "dumping", "finalize"} /\ report' = "failed"
    BY <1>4 DEF DumpFails, RefuseOutput, RaiseBackup
  <2>2. history'.output = output
    BY <1>0, <2>1 DEF RaiseBackup, Invalidate, History
  <2>3. ASSUME ~history'.lost, history'.swaps <= 1
        PROVE  Clean(file'[output], output, history'.touched)
    BY <2>1, <2>3, RaiseCleans
  <2>4. QED BY <2>1, <2>2, <2>3 DEF Clean, BackupAllOrNothing
<1>5. CASE FinalizeOutput
  <2>1. /\ phase = "finalize" /\ OutputIsSafe(Stat(fd)) /\ report' = "ok"
        /\ UNCHANGED <<cleanup, history>>
    BY <1>5 DEF FinalizeOutput
  <2>2. output \in Files /\ stat.ino = output /\ cleanup \in Files
    BY <2>1 DEF Dumping
  <2>3. fd = output /\ file[output].private /\ Len(file[output].content) > 0
    BY <1>0, <2>1, <2>2, StatType DEF OutputIsSafe
  <2>4. PICK g \in FileRec : /\ file' = [file EXCEPT ![cleanup] = g]
                             /\ g.content = file[cleanup].content
                             /\ g.private = file[cleanup].private /\ g.synced = TRUE
    BY <1>5, <2>2, FinalizeFile
  <2>5. /\ file'[output].content = file[output].content
        /\ file'[output].private = file[output].private
        /\ cleanup = output => file'[output].synced = TRUE
    BY <1>0, <2>2, <2>4
  <2>6. ASSUME output \notin history.touched
        PROVE  file[output].content = Dump
    <3>1. file[output].content \in Seq(Chunk) /\ buffer \in Seq(Chunk)
      BY <1>0, <2>2, FileFields DEF TypeOK
    <3>2. child = output
      <4>1. ASSUME child # output
            PROVE  FALSE
        <5>1. file[output].content = << >>
          BY <2>1, <2>6, <4>1 DEF Dumping, Clean
        <5>2. QED BY <2>3, <5>1, EmptySeq
      <4>2. QED BY <4>1
    <3>3. /\ Len(file[output].content) = Len(buffer) /\ Len(buffer) = Chunks
          /\ \A i \in 1 .. Len(buffer) : file[output].content[i] = "dump"
      BY <2>1, <2>6, <3>2 DEF Dumping
    <3>4. QED BY <3>1, <3>3, DumpIsWhole
  <2>7. file'[output].private
    BY <2>3, <2>5, Zenon
  <2>8. cleanup = output => file'[output].synced
    BY <2>5, Zenon
  <2>9. QED BY <2>1, <2>5, <2>6, <2>7, <2>8 DEF BackupAllOrNothing
<1>6. CASE RetryBackup
  BY <1>n, <1>6 DEF RetryBackup
<1>7. CASE Evidence
  <2>1. CASE VerifyReceipt
    <3>1. /\ history'.output = history.output /\ history'.touched = history.touched
          /\ history'.lost = history.lost /\ history'.swaps = history.swaps
      BY <1>0, <2>1 DEF VerifyReceipt, History
    <3>2. QED BY <1>c, <2>1, <3>1 DEF VerifyReceipt
  <2>2. CASE ~VerifyReceipt
    <3>1. UNCHANGED <<file, cleanup, report, history>>
      BY <1>7, <2>2 DEF Evidence, InspectArtifact, ReinspectArtifact, OpenArtifact, HashChunk,
         CompleteEvidence, FailInspection, BindReceipt, RefuseClaim, RefuseReceipt
    <3>2. QED BY <1>c, <3>1
  <2>3. QED BY <2>1, <2>2
<1>8. CASE Restore
  <2>1. UNCHANGED <<file, cleanup, report>> /\ report # "failed"
    BY <1>8 DEF Dumping, Restore, VerifyIsolation, OpenArchive, InspectArchive, SpawnRestore,
       RestoreReads, RestoreCommits, RestoreFails, RestoreExits, VerifyArchive
  <2>2. CASE OpenArchive \/ InspectArchive
    <3>1. /\ history'.output = history.output /\ history'.touched = history.touched
          /\ history'.lost = history.lost
      BY <1>0, <2>2 DEF OpenArchive, InspectArchive, History
    <3>2. QED BY <1>c, <2>1, <3>1
  <2>3. CASE UNCHANGED history
    BY <1>c, <2>1, <2>3
  <2>4. QED BY <1>8, <2>2, <2>3 DEF Restore, VerifyIsolation, SpawnRestore, RestoreReads,
           RestoreCommits, RestoreFails, RestoreExits, VerifyArchive
<1>9. CASE Others
  <2>1. UNCHANGED <<cleanup, report>>
    BY <1>9 DEF Others, Expose, ReplacePath, ReplaceDescriptor, Write, UpgradePackage, Tamper
  <2>2. /\ history'.output = output /\ history'.lost = history.lost
        /\ history.touched \subseteq history'.touched
        /\ \/ history'.swaps = history.swaps
           \/ history'.swaps = history.swaps + 1
    BY <1>9, TamperHistory
  <2>3. CASE output = NULL
    BY <2>2, <2>3 DEF BackupAllOrNothing
  <2>4. CASE output \in Files
    <3>1. /\ output \notin history'.touched => file'[output] = file[output]
          /\ Clean(file[output], output, history.touched)
               => Clean(file'[output], output, history'.touched)
      BY <1>9, <2>4, TamperFile
    <3>2. report = "failed" /\ ~history.lost /\ history.swaps <= 1
            => Clean(file[output], output, history.touched)
      BY <1>0, <2>4 DEF BackupAllOrNothing, Clean
    <3>3. history'.swaps <= 1 => history.swaps <= 1
      BY <1>0, <2>2
    <3>4. report' = "failed" /\ ~history'.lost /\ history'.swaps <= 1
            => Clean(file'[output], output, history'.touched)
      BY <2>1, <2>2, <3>1, <3>2, <3>3
    <3>5. ASSUME report' = "ok", output \notin history'.touched
          PROVE  /\ file'[output].content = Dump /\ file'[output].private
                 /\ cleanup' = output => file'[output].synced
      <4>1. /\ file[output].content = Dump /\ file[output].private
            /\ cleanup = output => file[output].synced
        BY <1>0, <2>1, <2>2, <2>4, <3>5 DEF BackupAllOrNothing
      <4>2. file'[output] = file[output] /\ cleanup' = cleanup
        BY <2>1, <3>1, <3>5
      <4>3. QED BY <4>1, <4>2
    <3>6. QED BY <2>2, <3>4, <3>5 DEF BackupAllOrNothing, Clean
  <2>5. QED BY <1>0, <2>3, <2>4
<1>10. CASE UNCHANGED vars
  BY <1>10 DEF vars, BackupAllOrNothing
<1>11. CASE InterruptBackup
  BY <1>11 DEF InterruptBackup, BackupAllOrNothing
<1>12. QED BY <1>1, <1>2, <1>3, <1>4, <1>5, <1>6, <1>7, <1>8, <1>9, <1>10, <1>11 DEF Next, Backup

-----------------------------------------------------------------------------
(* The theorems.                                                           *)

LEMMA InitInvariant == Init => IInv
<1> SUFFICES ASSUME Init
             PROVE  IInv
  OBVIOUS
<1>0. << >> \in Seq(Chunk) /\ Len(<< >>) = 0
  BY EmptySeq
<1>1. [i \in 1 .. Chunks |-> "other"] \in Seq(Chunk)
  <2>1. [i \in 1 .. Chunks |-> "other"] \in [1 .. Chunks -> Chunk] /\ Chunks \in Nat
    BY ConstantsAssumption DEF Chunk
  <2>2. QED BY <2>1, SegmentIsSeq
<1>2. \A f \in Files : (IF f = Original THEN << >> ELSE [i \in 1 .. Chunks |-> "other"]) \in Seq(Chunk)
  BY <1>0, <1>1
<1>3. file \in [Files -> FileRec] /\ \A f \in Files : file[f].offset = 0
  BY <1>2 DEF Init, FileRec
<1>4. history \in History
  BY <1>0 DEF Init, History
<1>5. TypeOK
  <2>1. /\ target \in [Clusters -> Seq(Chunk)] /\ service \in Clusters
        /\ buffer \in Seq(Chunk) /\ phase \in Phases
    BY <1>0 DEF Init, Phases
  <2>i. backups = 1 /\ restores = 0 /\ tampers = 0
    BY DEF Init
  <2>n. MaxBackups \in Nat \ {0} /\ MaxRestores \in Nat /\ MaxTampers \in Nat
    BY ConstantsAssumption
  <2>2. backups \in 1 .. MaxBackups
    BY <2>i, <2>n
  <2>3. restores \in 0 .. MaxRestores /\ tampers \in 0 .. MaxTampers
    BY <2>i, <2>n
  <2>4. /\ path \in Files /\ fd \in Files /\ cleanup = NULL /\ child = NULL /\ stat = NULL
        /\ evidence = NULL /\ receipt = NULL /\ schema \in Nat /\ report = "none"
    BY ConstantsAssumption DEF Init
  <2>5. QED BY <1>3, <1>4, <2>1, <2>2, <2>3, <2>4 DEF TypeOK, FileRec
<1>6. history.output = NULL /\ history.quiet = FALSE /\ report = "none" /\ phase = "inspect output"
  BY DEF Init
<1>7. target["live"] = << >>
  BY DEF Init, Clusters
<1>8. Dumping /\ Hashing /\ Isolation /\ Restoring
  BY <1>6, <1>7 DEF Dumping, Hashing, Isolation, Restoring, RestoreIsTheArchive
<1>9. BackupAllOrNothing /\ Quiet
  BY <1>6 DEF BackupAllOrNothing, Quiet
<1>10. QED BY <1>5, <1>8, <1>9 DEF IInv

\* The invariant of the whole drill, whatever the other actors of the host do between and
\* during the calls of the package, and wherever a call fails or is interrupted.
THEOREM Invariance == Spec => []IInv
<1>1. Init => IInv
  BY InitInvariant
<1>2. IInv /\ [Next]_vars => IInv'
  <2> SUFFICES ASSUME IInv, [Next]_vars
               PROVE  IInv'
    OBVIOUS
  <2>1. /\ TypeOK /\ Dumping /\ BackupAllOrNothing /\ Hashing /\ Isolation
        /\ Restoring /\ Quiet
    BY DEF IInv
  <2>2. TypeOK'
    BY <2>1, TypeSteps
  <2>3. Dumping' /\ BackupAllOrNothing'
    BY <2>1, DumpingSteps, BackupSteps
  <2>4. Hashing' /\ Isolation' /\ Restoring' /\ Quiet'
    BY <2>1, HashingSteps, IsolationSteps, RestoringSteps, QuietSteps
  <2>5. QED BY <2>2, <2>3, <2>4 DEF IInv
<1>3. QED BY <1>1, <1>2, PTL DEF Spec

\* A backup call that succeeds leaves exactly one whole dump in the file that it accepted,
\* private, and synced if its duplicate is of that file, whatever the calls before it left
\* behind.  One that reports an error, or that ends with an interrupt of subprocess.run,
\* leaves nothing of the dump if it could truncate and rewind; of a call interrupted
\* anywhere else nothing is claimed.
THEOREM BackupIsAtomic == Spec => []BackupAllOrNothing
<1>1. IInv => BackupAllOrNothing
  BY DEF IInv
<1>2. QED BY <1>1, Invariance, PTL

\* A restore that reports success put the archive that it inspected into the isolated
\* cluster and nothing into the live one.
THEOREM RestoreIsFaithful == Spec => []RestoreIsTheArchive
<1>1. IInv => RestoreIsTheArchive
  BY DEF IInv, Restoring
<1>2. QED BY <1>1, Invariance, PTL

\* Undisturbed from the verification of the receipt on, a successful restore holds what the
\* receipt names.
THEOREM ReceiptIsBinding == Spec => []ReceiptNamesTheTarget
<1>1. IInv => ReceiptNamesTheTarget
  <2> SUFFICES ASSUME IInv, phase = "restored", history.quiet
               PROVE  target["standby"] = receipt.digest
    BY DEF ReceiptNamesTheTarget
  <2>1. history.swaps = 0 /\ history.archive = receipt.digest
    BY DEF IInv, Quiet
  <2>2. target["standby"] = history.archive
    BY <2>1 DEF IInv, Restoring, RestoreIsTheArchive
  <2>3. QED BY <2>1, <2>2
<1>2. QED BY <1>1, Invariance, PTL
=============================================================================
