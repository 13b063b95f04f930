---------------------------- MODULE LogicalRecovery ----------------------------
(***************************************************************************)
(* One recovery drill with the package's logical backup tools: a dump into *)
(* a private file (postgres_logical_backup.py), evidence about the file    *)
(* and the packaged schema (postgres_backup_evidence.py,                   *)
(* postgres_schema_evidence.py) bound into a receipt and verified later    *)
(* (postgres_recovery_binding.py, postgres_recovery_verification.py), the  *)
(* isolation check of the target (postgres_restore_target.py) and the      *)
(* restore (postgres_logical_restore.py).                                  *)
(*                                                                         *)
(* None of the calls holds a lock on the file.  Other actors of the host   *)
(* write into it, change its mode or its links, rename another file over   *)
(* its path, or replace the descriptor number the package was given, at    *)
(* any moment.  A file is a sequence of chunks; a digest is the sequence   *)
(* it was computed from; every change of a file gives it a new ctime.      *)
(***************************************************************************)
EXTENDS Integers, Sequences, FiniteSets

CONSTANTS
  Files,         \* inodes on the host
  Original,      \* the file the operator created for the dump
  NULL,
  Chunks,        \* chunks of a whole dump
  MaxSize,       \* maximum_size_bytes and maximum_archive_size_bytes, in chunks
  MaxTampers,    \* bound: changes made by other actors
  MaxBackups,    \* bound: backup calls,
  MaxRestores    \*   and restore calls of one drill

ASSUME ConstantsAssumption ==
  /\ Original \in Files /\ NULL \notin Files
  /\ Chunks \in Nat \ {0} /\ MaxSize \in Nat /\ Chunks <= MaxSize
  /\ MaxTampers \in Nat /\ MaxBackups \in Nat \ {0} /\ MaxRestores \in Nat \ {0}

VARIABLES
  file,      \* the file system
  path,      \* the file the artifact path names
  fd,        \* the file the caller's descriptor number refers to
  cleanup,   \* the file of the package's own duplicate of the descriptor
  child,     \* the file pg_dump or pg_restore inherited
  phase,     \* where the drill is
  stat,      \* the status that the current call recorded first
  buffer,    \* chunks written or read so far by the current call
  evidence,  \* the evidence objects of the last inspection
  receipt,   \* the stored recovery receipt
  schema,    \* version of the packaged schema
  service,   \* the cluster the restore service name leads to
  target,    \* what each cluster holds of the archive
  backups,   \* backup calls so far
  restores,  \* restore calls so far
  tampers,   \* changes by others so far
  report,    \* what the backup call reported
  history    \* what happened that no single state shows

vars == <<file, path, fd, cleanup, child, phase, stat, buffer, evidence, receipt, schema,
          service, target, backups, restores, tampers, report, history>>

disk    == <<file, path, fd>>
records == <<evidence, receipt>>
world   == <<schema, service, tampers>>
calls   == <<backups, restores>>

Clusters == {"live", "standby"}
Chunk    == {"dump", "other"}
Dump     == [i \in 1 .. Chunks |-> "dump"]
Phases   == {"inspect output", "duplicate", "spawn dump", "dumping", "finalize",
             "inspect", "hash", "bind", "verify", "rehash", "isolate",
             "open", "inspect archive", "spawn restore", "restoring", "committed", "check",
             "restored", "backup failed", "restore failed", "refused"}

\* output: the file a backup call found acceptable; touched: files others changed;
\* swaps: replacements of the descriptor number since it was opened; lost: a truncation
\* or a rewind failed; archive: the archive as the restore inspected it; quiet: the path named the
\* verified file when the receipt was verified, and nothing was tampered with since.
History == [output : Files \cup {NULL}, touched : SUBSET Files, swaps : Nat, lost : BOOLEAN,
            archive : Seq(Chunk), quiet : BOOLEAN]

Status == [ino : Files, size : Nat, private : BOOLEAN, links : Nat, ctime : Nat]

TypeOK ==
  /\ file \in [Files -> [content : Seq(Chunk), private : BOOLEAN, links : Nat, ctime : Nat,
                         synced : BOOLEAN, offset : Nat]]
  /\ path \in Files /\ fd \in Files
  /\ cleanup \in Files \cup {NULL} /\ child \in Files \cup {NULL}
  /\ phase \in Phases
  /\ stat \in Status \cup {NULL}
  /\ buffer \in Seq(Chunk)
  /\ evidence \in [digest : Seq(Chunk), schema : Nat] \cup {NULL}
  /\ receipt \in [digest : Seq(Chunk), schema : Nat] \cup {NULL}
  /\ schema \in Nat /\ service \in Clusters
  /\ target \in [Clusters -> Seq(Chunk)]
  /\ backups \in 1 .. MaxBackups /\ restores \in 0 .. MaxRestores /\ tampers \in 0 .. MaxTampers
  /\ report \in {"none", "ok", "failed", "interrupted"}
  /\ history \in History

\* The operator has created an empty private file; the other files are archives of
\* the same size that somebody else owns.
Init ==
  /\ file = [f \in Files |->
       [content |-> IF f = Original THEN << >> ELSE [i \in 1 .. Chunks |-> "other"],
        private |-> TRUE, links |-> 1, ctime |-> 0, synced |-> FALSE, offset |-> 0]]
  /\ path = Original /\ fd = Original
  /\ cleanup = NULL /\ child = NULL
  /\ phase = "inspect output"
  /\ stat = NULL /\ buffer = << >>
  /\ evidence = NULL /\ receipt = NULL
  /\ schema = 1 /\ service \in Clusters
  /\ target = [c \in Clusters |-> << >>]
  /\ backups = 1 /\ restores = 0 /\ tampers = 0
  /\ report = "none"
  /\ history = [output |-> NULL, touched |-> {}, swaps |-> 0, lost |-> FALSE,
                archive |-> << >>, quiet |-> FALSE]

-----------------------------------------------------------------------------
(* The file system (external).                                             *)

\* fstat.
Stat(f) == [ino |-> f, size |-> Len(file[f].content), private |-> file[f].private,
            links |-> file[f].links, ctime |-> file[f].ctime]

\* The file with chunk c at position i; a gap behind its old end reads as zeros.
PutAt(f, i, c) ==
  [file[f] EXCEPT !.content = [j \in 1 .. (IF i > Len(@) THEN i ELSE Len(@)) |->
                                 IF j = i THEN c ELSE IF j <= Len(@) THEN @[j] ELSE "other"],
                  !.ctime = @ + 1, !.synced = FALSE]

-----------------------------------------------------------------------------
(* create_postgres_logical_backup                                          *)

\* _inspect_initial_output.
InspectOutput ==
  /\ phase = "inspect output"
  /\ stat' = Stat(fd)
  /\ IF stat'.size = 0 /\ file[fd].offset = 0 /\ stat'.private /\ stat'.links = 1
       THEN phase' = "duplicate" /\ UNCHANGED report
       ELSE phase' = "backup failed" /\ report' = "failed"
  /\ history' = [history EXCEPT !.output = IF phase' = "duplicate" THEN fd ELSE NULL]
  /\ UNCHANGED <<disk, cleanup, child, buffer, records, world, target, calls>>

\* _duplicate_output_for_cleanup: the number may refer to another file by now.
DuplicateOutput ==
  /\ phase = "duplicate"
  /\ \/ cleanup' = fd /\ phase' = "spawn dump" /\ UNCHANGED report
     \/ phase' = "backup failed" /\ report' = "failed" /\ UNCHANGED cleanup
  /\ UNCHANGED <<disk, child, stat, buffer, records, world, target, calls, history>>

\* subprocess.run starts pg_dump with the descriptor as its standard output.
SpawnDump ==
  /\ phase = "spawn dump"
  /\ child' = fd /\ buffer' = << >>
  /\ phase' = "dumping"
  /\ UNCHANGED <<disk, cleanup, stat, records, world, target, calls, report, history>>

\* pg_dump writes its next chunk (external).
DumpWrites ==
  /\ phase = "dumping" /\ Len(buffer) < Chunks
  /\ LET next == file[child].offset + 1
     IN file' = [file EXCEPT ![child] = [PutAt(child, next, "dump") EXCEPT !.offset = next]]
  /\ buffer' = Append(buffer, "dump")
  /\ UNCHANGED <<path, fd, cleanup, child, phase, stat, records, world, target, calls, report,
                 history>>

\* pg_dump ends with code zero (external).
DumpExits ==
  /\ phase = "dumping" /\ Len(buffer) = Chunks
  /\ phase' = "finalize"
  /\ UNCHANGED <<disk, cleanup, child, stat, buffer, records, world, target, calls, report,
                 history>>

\* ftruncate and lseek to zero.
Truncated(f) == [f EXCEPT !.content = << >>, !.ctime = @ + 1, !.synced = FALSE]
Rewound(f) == [f EXCEPT !.offset = 0]
Emptied(f) == Rewound(Truncated(f))

\* Mutant of Invalidate: the caller's descriptor number is used.
InvalidateByNumber ==
  /\ file' = [file EXCEPT ![fd] = Emptied(@)]
  /\ UNCHANGED history

\* _invalidate_output: a best effort, through the retained duplicate.  Either call may
\* fail, and the other is made all the same.
Invalidate ==
  \/ file' = [file EXCEPT ![cleanup] = Emptied(@)] /\ UNCHANGED history
  \/ /\ \E g \in {file[cleanup], Truncated(file[cleanup]), Rewound(file[cleanup])} :
          file' = [file EXCEPT ![cleanup] = g]
     /\ history' = [history EXCEPT !.lost = TRUE]

RaiseBackup ==
  /\ Invalidate
  /\ phase' = "backup failed" /\ report' = "failed"
  /\ UNCHANGED <<path, fd, cleanup, child, stat, buffer, records, world, target, calls>>

\* The executable is missing, or pg_dump fails, is killed at the timeout, or
\* subprocess.run is interrupted: at any moment, the last chunk written or not.
DumpFails == phase \in {"spawn dump", "dumping"} /\ RaiseBackup

\* The checks of _finalize_output on the descriptor's status.
OutputIsSafe(s) == s.size > 0 /\ s.links = 1 /\ s.private /\ s.ino = stat.ino

\* _finalize_output: fsync of the duplicate, fstat of the number.
FinalizeOutput ==
  /\ phase = "finalize" /\ OutputIsSafe(Stat(fd))
  /\ file' = [file EXCEPT ![cleanup].synced = TRUE]
  /\ phase' = "inspect" /\ report' = "ok"
  /\ UNCHANGED <<path, fd, cleanup, child, stat, buffer, records, world, target, calls, history>>

\* ... or one of the checks fails, or fsync or fstat does.
RefuseOutput == phase = "finalize" /\ RaiseBackup

\* KeyboardInterrupt or SystemExit anywhere but in subprocess.run, whose handlers see it:
\* before it, during fsync and the checks, or inside _invalidate_output.  Nothing is
\* cleaned up then; the file is what the call had made of it.
InterruptBackup ==
  /\ phase \in {"inspect output", "duplicate", "spawn dump", "dumping", "finalize"}
  /\ \/ UNCHANGED file
     \/ /\ phase \in {"spawn dump", "dumping", "finalize"}
        /\ file' = [file EXCEPT ![cleanup] = Truncated(@)]
     \/ /\ phase = "finalize"
        /\ file' = [file EXCEPT ![cleanup].synced = TRUE]
  /\ phase' = "backup failed" /\ report' = "interrupted"
  /\ UNCHANGED <<path, fd, cleanup, child, stat, buffer, records, world, target, calls, history>>

\* The operator calls again with the same descriptor.
RetryBackup ==
  /\ phase = "backup failed" /\ backups < MaxBackups
  /\ backups' = backups + 1
  /\ phase' = "inspect output" /\ report' = "none"
  /\ UNCHANGED <<disk, cleanup, child, stat, buffer, records, world, target, restores, history>>

-----------------------------------------------------------------------------
(* inspect_postgres_backup_artifact, called for the receipt and again by   *)
(* verify_postgres_recovery_receipt.                                       *)

Refuse == phase' = "refused"

\* The packaged schema is inspected, then the path is opened without following links
\* and the first fstat recorded.
OpenArtifact(next) ==
  /\ evidence' = [digest |-> << >>, schema |-> schema]
  /\ child' = path /\ buffer' = << >>
  /\ stat' = Stat(path)
  /\ IF stat'.size \in 1 .. MaxSize THEN phase' = next ELSE Refuse
  /\ UNCHANGED <<disk, cleanup, receipt, world, target, calls, report, history>>

InspectArtifact == phase = "inspect" /\ OpenArtifact("hash")
ReinspectArtifact == phase = "verify" /\ OpenArtifact("rehash")

AtEnd(f) == Len(buffer) >= Len(file[f].content)

\* os.read of the next chunk, within the budget.
HashChunk ==
  /\ phase \in {"hash", "rehash"}
  /\ ~AtEnd(child) /\ Len(buffer) < MaxSize
  /\ buffer' = Append(buffer, file[child].content[Len(buffer) + 1])
  /\ UNCHANGED <<disk, cleanup, child, phase, stat, records, world, target, calls, report,
                 history>>

HashEnds == phase \in {"hash", "rehash"} /\ (AtEnd(child) \/ Len(buffer) = MaxSize)

\* Mutant of ArtifactUnchanged: only the size is compared.
ArtifactSameSize == Len(buffer) = stat.size /\ Stat(child).size = stat.size

\* bytes_read and _artifact_identity agree with the first fstat.  The mode and the
\* number of links are not part of the identity, but changing them moves ctime.
ArtifactUnchanged ==
  /\ Len(buffer) = stat.size
  /\ Stat(child).ino = stat.ino /\ Stat(child).size = stat.size /\ Stat(child).ctime = stat.ctime

Observation == [evidence EXCEPT !.digest = buffer]

CompleteEvidence ==
  /\ phase = "hash" /\ HashEnds /\ ArtifactUnchanged
  /\ evidence' = Observation
  /\ phase' = "bind"
  /\ UNCHANGED <<disk, cleanup, child, stat, buffer, receipt, world, target, calls, report,
                 history>>

\* "PostgreSQL backup artifact changed during inspection", or a read fails.
FailInspection ==
  /\ phase \in {"hash", "rehash"}
  /\ Refuse
  /\ UNCHANGED <<disk, cleanup, child, stat, buffer, records, world, target, calls, report,
                 history>>

\* bind_postgres_recovery_receipt copies digest and schema out of the evidence
\* objects.
BindReceipt ==
  /\ phase = "bind"
  /\ receipt' = evidence
  /\ phase' = "verify"
  /\ UNCHANGED <<disk, cleanup, child, stat, buffer, evidence, world, target, calls, report,
                 history>>

\* An object that no inspection produced, or that was changed since, has no entry in
\* the registry of inspected evidence.
RefuseClaim ==
  /\ phase = "bind"
  /\ Refuse
  /\ UNCHANGED <<disk, cleanup, child, stat, buffer, records, world, target, calls, report,
                 history>>

MatchesReceipt == Observation = receipt

\* verify_postgres_recovery_receipt: the second inspection agrees with the receipt.
VerifyReceipt ==
  /\ phase = "rehash" /\ HashEnds /\ ArtifactUnchanged
  /\ MatchesReceipt
  /\ phase' = "isolate"
  /\ history' = [history EXCEPT !.quiet = (path = child)]
  /\ UNCHANGED <<disk, cleanup, child, stat, buffer, records, world, target, calls, report>>

\* "inspected backup does not match recovery receipt", or the schema.
RefuseReceipt ==
  /\ phase = "rehash" /\ HashEnds /\ ArtifactUnchanged
  /\ ~MatchesReceipt
  /\ Refuse
  /\ UNCHANGED <<disk, cleanup, child, stat, buffer, records, world, target, calls, report,
                 history>>

-----------------------------------------------------------------------------
(* verify_postgres_restore_target_isolation                                *)

\* The names differ, and so do the system identifiers behind them.
Isolated(names_differ) == names_differ /\ service # "live"

VerifyIsolation ==
  /\ phase = "isolate"
  /\ \E names_differ \in BOOLEAN :
       IF Isolated(names_differ) THEN phase' = "open" ELSE Refuse
  /\ UNCHANGED <<disk, cleanup, child, stat, buffer, records, world, target, calls, report,
                 history>>

-----------------------------------------------------------------------------
(* restore_postgres_logical_backup                                         *)

\* The operator opens the archive, for the first call or for one after a failure.
OpenArchive ==
  /\ phase \in {"open", "restore failed"} /\ restores < MaxRestores
  /\ restores' = restores + 1
  /\ fd' = path
  /\ phase' = "inspect archive"
  /\ history' = [history EXCEPT !.swaps = 0]
  /\ UNCHANGED <<file, path, cleanup, child, stat, buffer, records, world, target, backups,
                 report>>

\* _inspect_initial_archive.
InspectArchive ==
  /\ phase = "inspect archive"
  /\ stat' = Stat(fd)
  /\ IF stat'.size \in 1 .. MaxSize /\ stat'.private /\ stat'.links = 1
       THEN /\ phase' = "spawn restore"
            /\ history' = [history EXCEPT !.archive = file[fd].content]
       ELSE phase' = "restore failed" /\ UNCHANGED history
  /\ UNCHANGED <<disk, cleanup, child, buffer, records, world, target, calls, report>>

\* subprocess.run starts pg_restore with the descriptor as its standard input.
SpawnRestore ==
  /\ phase = "spawn restore"
  /\ child' = fd /\ buffer' = << >>
  /\ phase' = "restoring"
  /\ UNCHANGED <<disk, cleanup, stat, records, world, target, calls, report, history>>

\* pg_restore reads on (external).
RestoreReads ==
  /\ phase = "restoring" /\ ~AtEnd(child)
  /\ buffer' = Append(buffer, file[child].content[Len(buffer) + 1])
  /\ UNCHANGED <<disk, cleanup, child, phase, stat, records, world, target, calls, report,
                 history>>

\* The one transaction commits (external).  A target that already holds the objects
\* makes pg_restore stop at its first error.
RestoreCommits ==
  /\ phase = "restoring" /\ AtEnd(child) /\ target[service] = << >>
  /\ target' = [target EXCEPT ![service] = buffer]
  /\ phase' = "committed"
  /\ UNCHANGED <<disk, cleanup, child, stat, buffer, records, world, calls, report, history>>

\* The executable is missing, pg_restore fails and rolls back, or the timeout kills
\* it, before or after the commit; or an fstat fails; or an interrupt comes.
RestoreFails ==
  /\ phase \in {"inspect archive", "spawn restore", "restoring", "committed", "check"}
  /\ phase' = "restore failed"
  /\ UNCHANGED <<disk, cleanup, child, stat, buffer, records, world, target, calls, report,
                 history>>

RestoreExits ==
  /\ phase = "committed"
  /\ phase' = "check"
  /\ UNCHANGED <<disk, cleanup, child, stat, buffer, records, world, target, calls, report,
                 history>>

\* Mutant of ArchiveUnchanged: neither times nor identity are compared.
ArchiveSameShape == [Stat(fd) EXCEPT !.ctime = 0, !.ino = NULL]
                      = [stat EXCEPT !.ctime = 0, !.ino = NULL]

\* _archive_metadata: mode, size, links, identity and times.
ArchiveUnchanged == Stat(fd) = stat

\* _verify_archive_unchanged.  A mismatch is an error although the target is
\* committed.
VerifyArchive ==
  /\ phase = "check"
  /\ phase' = IF ArchiveUnchanged THEN "restored" ELSE "restore failed"
  /\ UNCHANGED <<disk, cleanup, child, stat, buffer, records, world, target, calls, report,
                 history>>

-----------------------------------------------------------------------------
(* Other actors of the host (external).                                    *)

Tamper ==
  /\ tampers < MaxTampers /\ tampers' = tampers + 1
  /\ phase \notin {"restored", "refused"}
  /\ UNCHANGED <<cleanup, child, phase, stat, buffer, records, service, target, calls, report>>

Touch(f) == history' = [history EXCEPT !.touched = @ \cup {f}, !.quiet = FALSE]

\* Somebody writes into a file in place, or appends to it.
Write(f, i) ==
  /\ Tamper /\ i <= Len(file[f].content) + 1
  /\ file' = [file EXCEPT ![f] = PutAt(f, i, "other")]
  /\ Touch(f)
  /\ UNCHANGED <<path, fd, schema>>

\* chmod or link.
Expose(f) ==
  /\ Tamper
  /\ \/ file' = [file EXCEPT ![f].private = FALSE, ![f].ctime = @ + 1]
     \/ file' = [file EXCEPT ![f].links = 2, ![f].ctime = @ + 1]
  /\ Touch(f)
  /\ UNCHANGED <<path, fd, schema>>

\* rename over the artifact's path.
ReplacePath(f) ==
  /\ Tamper /\ f # path
  /\ path' = f
  /\ history' = [history EXCEPT !.quiet = FALSE]
  /\ UNCHANGED <<file, fd, schema>>

\* dup2 onto the descriptor number, by another thread of the caller.
ReplaceDescriptor(f) ==
  /\ Tamper /\ f # fd
  /\ fd' = f
  /\ history' = [history EXCEPT !.swaps = @ + 1, !.quiet = FALSE]
  /\ UNCHANGED <<file, path, schema>>

\* Another version of the package is installed.
UpgradePackage ==
  /\ Tamper
  /\ schema' = schema + 1
  /\ UNCHANGED <<disk, history>>

Backup ==
  \/ InspectOutput
  \/ DuplicateOutput
  \/ SpawnDump
  \/ DumpWrites
  \/ DumpExits
  \/ DumpFails
  \/ FinalizeOutput
  \/ RefuseOutput
  \/ InterruptBackup
  \/ RetryBackup

Evidence ==
  \/ InspectArtifact
  \/ ReinspectArtifact
  \/ HashChunk
  \/ CompleteEvidence
  \/ FailInspection
  \/ BindReceipt
  \/ RefuseClaim
  \/ VerifyReceipt
  \/ RefuseReceipt

Restore ==
  \/ VerifyIsolation
  \/ OpenArchive
  \/ InspectArchive
  \/ SpawnRestore
  \/ RestoreReads
  \/ RestoreCommits
  \/ RestoreFails
  \/ RestoreExits
  \/ VerifyArchive

Others ==
  \/ \E f \in Files : Expose(f) \/ ReplacePath(f) \/ ReplaceDescriptor(f)
  \/ \E f \in Files, i \in 1 .. MaxSize : Write(f, i)
  \/ UpgradePackage

Next == Backup \/ Evidence \/ Restore \/ Others

Spec == Init /\ [][Next]_vars

-----------------------------------------------------------------------------
(* Properties.                                                             *)

\* What the backup call reports is what the file holds that it found acceptable.
\* Success: that file holds exactly one whole dump and is private, unless somebody else
\* changed it, although the descriptor number may have been replaced and earlier calls may
\* have failed or been interrupted anywhere, with a dump or a piece of one left behind.
\* It is synced too if the duplicate is one of that file, that is, if the number was not
\* replaced between the inspection and the duplication.
\* Failure, with an error of the package or an interrupt that ends subprocess.run: nothing
\* of the dump is left in the file and it is ready for another call, unless the truncation
\* or the rewind failed, or the number was replaced and put back around the duplication.
\* Nothing is promised of a call interrupted elsewhere ("interrupted"), above all while
\* the dump is finalized: it stays, complete and not rewound.
BackupAllOrNothing ==
  LET output == history.output
  IN output # NULL =>
       /\ report = "ok" /\ output \notin history.touched =>
            /\ file[output].content = Dump /\ file[output].private
            /\ cleanup = output => file[output].synced
       /\ report = "failed" /\ ~history.lost /\ history.swaps <= 1 =>
            /\ \A i \in DOMAIN file[output].content : file[output].content[i] # "dump"
            /\ file[output].offset = 0
            /\ output \notin history.touched => file[output].content = << >>

\* A restore that reports success has put into the isolated cluster exactly the
\* archive it inspected, although the file was written to while pg_restore was reading
\* it, and nothing into the live one.  The descriptor number must not have been
\* replaced and put back during the call: its second fstat cannot see that.
RestoreIsTheArchive ==
  phase = "restored" /\ history.swaps <= 1 =>
    target["standby"] = history.archive /\ target["live"] = << >>

\* The receipt names what is restored: if the path still named the inspected file when
\* the receipt was verified and nobody touched the host since, a successful restore
\* holds the bytes that were hashed when the receipt was bound, although the file
\* changed under the first inspection, between the calls, or under the second.
ReceiptNamesTheTarget ==
  phase = "restored" /\ history.quiet => target["standby"] = receipt.digest
=============================================================================
