----------------------------- MODULE ResultStream -----------------------------
(***************************************************************************)
(* The bounded, resumable record stream of one finished batch              *)
(* (result_streaming_checkpoint_impl.py): physical lines cut from the      *)
(* chunks of the output file and then of the error file, the limits on     *)
(* bytes, lines and records, and resuming after a checkpoint.              *)
(*                                                                         *)
(* A consumer reads a record, makes its checkpoint durable, and asks for   *)
(* the next one.  It may stop anywhere, and start again from the durable   *)
(* checkpoint; the provider may serve other bytes under the same file id.  *)
(*                                                                         *)
(* A file is a sequence of bytes: "n" is the newline, "r" the carriage     *)
(* return, "!" a byte no JSON object contains, anything else is data.  The *)
(* SHA-256 of the framed prefix is modelled by the frames themselves.      *)
(***************************************************************************)
EXTENDS Integers, FiniteSets, Sequences, SequencesExt

CONSTANTS
  ResultFiles,   \* contents the output file may have, NULL when there is none
  ErrorFiles,    \* contents the error file may have, NULL when there is none
  MaxChunk,      \* DOWNLOAD_CHUNK_BYTES
  MaxBytes,      \* max_download_bytes, per file
  MaxLineBytes,  \* max_jsonl_line_bytes
  MaxLines,      \* max_jsonl_physical_lines, for both files
  MaxRecords,    \* max_jsonl_records, for both files
  Revisions,     \* contents that may replace one another behind the file ids
  NULL

Bytes == {"n", "r", "!", "x", "y"}

ASSUME ConstantsAssumption ==
  /\ ResultFiles \subseteq Seq(Bytes) \cup {NULL} /\ ErrorFiles \subseteq Seq(Bytes) \cup {NULL}
  /\ {MaxChunk, MaxBytes, MaxLineBytes, MaxLines, MaxRecords} \subseteq Nat \ {0}
  /\ Revisions \subseteq [result : ResultFiles, error : ErrorFiles]

\* What is hashed for a file or a line, and BatchResultCheckpoint.
Frame == [kind : {"result", "error"}, line : Nat, raw : Seq(Bytes), ended : BOOLEAN]
Checkpoint == [kind : {"result", "error"}, line : Nat, lines : Nat, records : Nat,
               prefix : Seq(Frame)]

ASSUME NullAssumption == NULL \notin Checkpoint

VARIABLES
  served,      \* the files the provider serves now
  checkpoint,  \* the durable checkpoint of the consumer, or NULL
  acked,       \* the records the consumer has made durable, in order
  s            \* the stream that is open

vars == <<served, checkpoint, acked, s>>

Kinds  == <<"result", "error">>
Served == [result : ResultFiles, error : ErrorFiles]

\* The files the provider names in the status of the batch.
Listed == {kind \in ToSet(Kinds) : served[kind] # NULL}

\* listed: the files the status named; file: index into Kinds, 0 before the first;
\* body, offset: the response being read; pending: its buffer; line:
\* file_line_number; lines, records: the two counts of the batch; prefix: what the
\* hasher has seen; matched: is the resume checkpoint behind us?; item: the record
\* and checkpoint being yielded.
Opened == [phase |-> "open", listed |-> Listed, file |-> 0, body |-> << >>, offset |-> 0,
           pending |-> << >>, line |-> 0, lines |-> 0, records |-> 0, prefix |-> << >>,
           matched |-> checkpoint = NULL, item |-> NULL]
Closed(how) == [phase |-> how]

Init ==
  /\ served \in Served
  /\ checkpoint = NULL
  /\ acked = << >>
  /\ s = Closed("none")

Fail == s' = Closed("error") /\ UNCHANGED <<served, checkpoint, acked>>

-----------------------------------------------------------------------------
(* One physical line.                                                      *)

Stripped(raw) == IF raw # << >> /\ Last(raw) = "r" THEN Front(raw) ELSE raw

\* _parse_jsonl_line: a blank line is None; a line is one JSON object or an error.
Blank(raw)      == Stripped(raw) = << >>
Malformed(raw)  == ~Blank(raw) /\ ("!" \in ToSet(raw) \/ ToSet(raw) \cap {"x", "y"} = {})
Acceptable(raw) == Len(raw) <= MaxLineBytes /\ ~Malformed(raw)

FileFrame(kind) == [kind |-> kind, line |-> 0, raw |-> << >>, ended |-> FALSE]
LineFrame(kind, n, raw, ended) == [kind |-> kind, line |-> n, raw |-> raw, ended |-> ended]

\* BatchResultCheckpoint of the line just read.
CheckpointOf(st) ==
  [kind |-> Kinds[st.file], line |-> st.line, lines |-> st.lines,
   records |-> st.records, prefix |-> st.prefix]

\* The stream after the line raw: observed, hashed, and counted as a record.
AfterLine(raw, ended, rest) ==
  [s EXCEPT !.pending = rest, !.line = @ + 1, !.lines = @ + 1,
            !.records = IF Blank(raw) THEN @ ELSE @ + 1,
            !.prefix = Append(@, LineFrame(Kinds[s.file], s.line + 1, raw, ended))]

\* Mutant of WithinLimits: physical lines are not limited.
WithinRecordLimit(st) == st.records <= MaxRecords

\* The limits that a line may break.
WithinLimits(st) == st.lines <= MaxLines /\ st.records <= MaxRecords

Yield(st, record) == [st EXCEPT !.phase = "yielded",
                                !.item = [record |-> record, at |-> CheckpointOf(st)]]

\* Mutants of Deliver: the checkpoint's own record is yielded again, and only the record
\* count of the checkpoint is compared.
Redeliver(st, raw) ==
  IF Blank(raw) THEN st
  ELSE IF st.matched THEN Yield(st, Stripped(raw))
  ELSE IF st.records < checkpoint.records THEN st
  ELSE IF CheckpointOf(st) = checkpoint THEN Yield([st EXCEPT !.matched = TRUE], Stripped(raw))
  ELSE Closed("error")
TrustCount(st, raw) ==
  IF Blank(raw) THEN st
  ELSE IF st.matched THEN Yield(st, Stripped(raw))
  ELSE IF st.records < checkpoint.records THEN st ELSE [st EXCEPT !.matched = TRUE]

\* What the loop of iter_checkpointed_batch_records does with a record.
Deliver(st, raw) ==
  IF Blank(raw) THEN st
  ELSE IF st.matched THEN Yield(st, Stripped(raw))
  ELSE IF st.records < checkpoint.records THEN st
  ELSE IF CheckpointOf(st) = checkpoint THEN [st EXCEPT !.matched = TRUE]
  ELSE Closed("error")

TakeLine(raw, ended, rest) ==
  LET st == AfterLine(raw, ended, rest)
  IN /\ s' = IF Acceptable(raw) /\ WithinLimits(st) THEN Deliver(st, raw) ELSE Closed("error")
     /\ UNCHANGED <<served, checkpoint, acked>>

-----------------------------------------------------------------------------
(* The stream.                                                             *)

\* open_checkpointed_batch_records on a terminal batch, which must have a file.
Open ==
  /\ s.phase \in {"none", "error", "complete"}
  /\ s' = IF Listed # {} THEN Opened ELSE Closed("error")
  /\ UNCHANGED <<served, checkpoint, acked>>

\* The next file: skipped when the status named none, an error when it is gone.
StartFile ==
  /\ s.phase = "open" /\ s.file < 2
  /\ LET kind == Kinds[s.file + 1]
     IN s' = IF kind \notin s.listed THEN [s EXCEPT !.file = @ + 1]
             ELSE IF served[kind] = NULL THEN Closed("error")
             ELSE [s EXCEPT !.phase = "reading", !.file = @ + 1, !.body = served[kind],
                            !.offset = 0, !.pending = << >>, !.line = 0,
                            !.prefix = Append(@, FileFrame(kind))]
  /\ UNCHANGED <<served, checkpoint, acked>>

NewlineAt == SelectInSeq(s.pending, LAMBDA b : b = "n")

\* A chunk arrives.  It is refused above max_download_bytes, and a line without
\* an end is refused once the buffer exceeds max_jsonl_line_bytes.
Receive ==
  /\ s.phase = "reading" /\ NewlineAt = 0 /\ s.offset < Len(s.body)
  /\ Len(s.pending) <= MaxLineBytes
  /\ \E k \in 1 .. MaxChunk :
       /\ s.offset + k <= Len(s.body)
       /\ s' = IF s.offset + k > MaxBytes THEN Closed("error")
               ELSE [s EXCEPT !.offset = @ + k,
                              !.pending = @ \o SubSeq(s.body, s.offset + 1, s.offset + k)]
  /\ UNCHANGED <<served, checkpoint, acked>>

RefuseLongLine ==
  /\ s.phase = "reading" /\ NewlineAt = 0
  /\ Len(s.pending) > MaxLineBytes
  /\ Fail

\* pending holds a whole line.
CutLine ==
  /\ s.phase = "reading" /\ NewlineAt > 0
  /\ TakeLine(SubSeq(s.pending, 1, NewlineAt - 1), TRUE,
              SubSeq(s.pending, NewlineAt + 1, Len(s.pending)))

\* Mutant of FinalLine: bytes after the last newline are dropped.
DropFinalLine ==
  /\ s.phase = "reading" /\ NewlineAt = 0 /\ s.offset = Len(s.body)
  /\ s.pending # << >>
  /\ s' = [s EXCEPT !.pending = << >>]
  /\ UNCHANGED <<served, checkpoint, acked>>

\* The file ends without a newline.
FinalLine ==
  /\ s.phase = "reading" /\ NewlineAt = 0 /\ s.offset = Len(s.body)
  /\ s.pending # << >>
  /\ TakeLine(s.pending, FALSE, << >>)

EndFile ==
  /\ s.phase = "reading" /\ s.offset = Len(s.body) /\ s.pending = << >>
  /\ s' = [s EXCEPT !.phase = "open"]
  /\ UNCHANGED <<served, checkpoint, acked>>

\* Both files are read: the checkpoint must have been found.
EndStream ==
  /\ s.phase = "open" /\ s.file = 2
  /\ s' = Closed(IF s.matched THEN "complete" ELSE "error")
  /\ UNCHANGED <<served, checkpoint, acked>>

\* The consumer makes the record and its checkpoint durable and reads on.
Acknowledge ==
  /\ s.phase = "yielded"
  /\ checkpoint' = s.item.at
  /\ acked' = Append(acked, s.item.record)
  /\ s' = [s EXCEPT !.phase = "reading", !.item = NULL]
  /\ UNCHANGED served

\* The connection fails, a chunk or the declared length is not acceptable, or the
\* consumer stops.
Interrupt ==
  /\ s.phase \in {"open", "reading", "yielded"}
  /\ Fail

\* The provider serves other bytes under the same ids (external).
Change ==
  /\ served \in Revisions
  /\ served' \in Revisions
  /\ UNCHANGED <<checkpoint, acked, s>>

Next ==
  \/ Open
  \/ StartFile
  \/ Receive
  \/ RefuseLongLine
  \/ CutLine
  \/ FinalLine
  \/ EndFile
  \/ EndStream
  \/ Acknowledge
  \/ Interrupt
  \/ Change

Spec == Init /\ [][Next]_vars

-----------------------------------------------------------------------------
(* Properties.                                                             *)

Active == s.phase \in {"open", "reading", "yielded"}

TypeOK ==
  /\ served \in Served
  /\ checkpoint \in Checkpoint \cup {NULL}
  /\ acked \in Seq(Seq(Bytes))
  /\ s \in [phase : {"none", "error", "complete"}]
        \cup
        [phase : {"open", "reading", "yielded"}, listed : SUBSET {"result", "error"}, file : 0 .. 2, body : Seq(Bytes),
         offset : Nat, pending : Seq(Bytes), line : Nat, lines : Nat, records : Nat,
         prefix : Seq(Frame), matched : BOOLEAN,
         item : [record : Seq(Bytes), at : Checkpoint] \cup {NULL}]

\* The k-th of the positions P, and what the sequence q has at them, in order.
Ranked(P, k) == {i \in P : Cardinality({j \in P : j <= i}) = k}
Nth(P, k) == CHOOSE i \in Ranked(P, k) : TRUE
Selected(q, P) == [k \in 1 .. Cardinality(P) |-> q[Nth(P, k)]]

\* The lines of a file, without chunks and buffers: what lies between newlines,
\* and what follows the last one unless that is nothing.
Newlines(body) == {i \in DOMAIN body : body[i] = "n"}
Starts(body)   == {i \in DOMAIN body : i = 1 \/ i - 1 \in Newlines(body)}
EndOf(body, i) == Min({e \in Newlines(body) : e >= i} \cup {Len(body) + 1})
LineAt(body, n, i) ==
  LET e == EndOf(body, i)
  IN [line |-> n, raw |-> SubSeq(body, i, e - 1), ended |-> e <= Len(body)]
Lines(body) ==
  LET P == Starts(body) IN [n \in 1 .. Cardinality(P) |-> LineAt(body, n, Nth(P, n))]

\* The lines of a file in a framed prefix.
FramesOf(prefix, kind) == {i \in DOMAIN prefix : prefix[i].kind = kind /\ prefix[i].line > 0}
LinesOf(prefix, kind) ==
  LET frames == Selected(prefix, FramesOf(prefix, kind))
  IN [n \in DOMAIN frames |->
        [line |-> frames[n].line, raw |-> frames[n].raw, ended |-> frames[n].ended]]

\* The records of lines, and of the lines of a framed prefix.
RecordLines(lines) == {n \in DOMAIN lines : ~Blank(lines[n].raw)}
RecordsOf(lines) ==
  LET full == Selected(lines, RecordLines(lines))
  IN [n \in DOMAIN full |-> Stripped(full[n].raw)]

RecordFrames(prefix) == {i \in DOMAIN prefix : prefix[i].line > 0 /\ ~Blank(prefix[i].raw)}
RecordsIn(prefix) ==
  LET full == Selected(prefix, RecordFrames(prefix))
  IN [n \in DOMAIN full |-> Stripped(full[n].raw)]

\* However the transport cuts a file into chunks, the lines are those of the file,
\* in order, and at its end none is missing.  A stream that ends without an error has
\* delivered every record of both files, if the files stayed the same.
ChunkingIsInvisible ==
  /\ s.phase \in {"reading", "yielded"} =>
       LET all == Lines(s.body)
       IN /\ s.line <= Len(all)
          /\ LinesOf(s.prefix, Kinds[s.file]) = SubSeq(all, 1, s.line)
          /\ s.offset = Len(s.body) /\ s.pending = << >> => s.line = Len(all)
  /\ s.phase = "complete" /\ served \notin Revisions =>
       acked = (IF served.result = NULL THEN << >> ELSE RecordsOf(Lines(served.result)))
               \o (IF served.error = NULL THEN << >> ELSE RecordsOf(Lines(served.error)))

\* Across interruptions, resumptions and changed files, the durable records are
\* exactly the records of the prefix the checkpoint identifies: none is missing,
\* repeated or taken from other bytes.
AckedIsCheckpointed ==
  IF checkpoint = NULL THEN acked = << >>
  ELSE acked = RecordsIn(checkpoint.prefix) /\ checkpoint.records = Len(acked)

\* A checkpoint is only ever replaced by one whose prefix continues it: a file that
\* changed before the checkpoint delivers nothing.
CheckpointIsContinued ==
  [][checkpoint # NULL /\ checkpoint' # checkpoint =>
       /\ IsPrefix(checkpoint.prefix, checkpoint'.prefix)
       /\ checkpoint'.records = checkpoint.records + 1]_vars

\* Memory and work are bounded by the limits and not by the file: one line and one
\* chunk are buffered at most, and the limits cover both files and blank lines.
StreamIsBounded ==
  /\ Active => /\ Len(s.pending) <= MaxLineBytes + MaxChunk
               /\ s.lines <= MaxLines /\ s.offset <= MaxBytes
               /\ s.lines = Cardinality({i \in DOMAIN s.prefix : s.prefix[i].line > 0})
  /\ Len(acked) <= MaxRecords
=============================================================================
