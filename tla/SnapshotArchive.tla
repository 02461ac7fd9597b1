-------------------------- MODULE SnapshotArchive --------------------------
(***************************************************************************)
(* Raw snapshots of one source: files named by the digest of their body,   *)
(* written by _save_snapshot (api/app/ingestion.py), the rows that         *)
(* save_snapshot records about them (api/app/repository.py), and the       *)
(* backup that scripts/backup.sh takes of both while polls go on.          *)
(*                                                                         *)
(* Nothing but the order of the steps ties the file to the row and the     *)
(* archive to the dump: file first, row second; dump first, archive second.*)
(* Files and rows are never deleted by the code.                           *)
(***************************************************************************)
EXTENDS Naturals, Sequences, FiniteSets

CONSTANTS
    Writers,    \* worker processes that may poll the source
    Digests,    \* the bodies the source may answer with, by their SHA-256
    Faults,     \* TRUE when disks fill up and processes die
    NoDigest    \* not a digest

ASSUME NoDigestAssumption == NoDigest \notin Digests
ASSUME FaultsAssumption == Faults \in BOOLEAN

VARIABLES
    file,       \* what is at <digest>.snapshot
    rows,       \* raw_snapshots: the digests recorded for this source
    pc,         \* where each writer stands
    body,       \* the digest of the body each writer has fetched
    step,       \* how many steps of backup.sh are done
    dump,       \* the raw_snapshots rows in eoc.dump
    listing,    \* the files that were there when tar began to read
    archive     \* what raw-snapshots.tar.gz holds of each file

vars == <<file, rows, pc, body, step, dump, listing, archive>>

storage == <<file, rows, pc, body>>

backup == <<step, dump, listing, archive>>

Contents == {"absent", "truncated", "whole"}

Places == {"idle", "check", "open", "write", "record", "down"}

(* Seeded fault: the volume is archived before the database is dumped. *)
ArchiveFirst == <<"list", "archive", "dump", "sums">>

(* The commands of backup.sh, in order; SHA256SUMS comes last, and         *)
(* restore-smoke.sh refuses a directory without it.                        *)
BackupScript == <<"dump", "list", "archive", "sums">>

Sealed == step = Len(BackupScript)

NoFiles == [d \in Digests |-> "absent"]

Init ==
    /\ file = NoFiles
    /\ rows = {}
    /\ pc = [w \in Writers |-> "idle"]
    /\ body = [w \in Writers |-> NoDigest]
    /\ step = 0
    /\ dump = {}
    /\ listing = {}
    /\ archive = NoFiles

-----------------------------------------------------------------------------
(* _save_snapshot and save_snapshot *)

Goto(w, place) == pc' = [pc EXCEPT ![w] = place]

(* fetch has returned a body. *)
Fetch(w) ==
    /\ pc[w] = "idle"
    /\ \E d \in Digests : body' = [body EXCEPT ![w] = d]
    /\ Goto(w, "check")
    /\ UNCHANGED <<file, rows, backup>>

(* Seeded fault: the row is recorded without waiting for the file. *)
RecordAtOnce(content) == "record"

(* Seeded fault: the file is written whether it exists or not. *)
WriteAlways(content) == "open"

(* path.exists(): a file of that name is never written again. *)
AfterCheck(content) == IF content = "absent" THEN "open" ELSE "record"

Check(w) ==
    /\ pc[w] = "check"
    /\ Goto(w, AfterCheck(file[body[w]]))
    /\ UNCHANGED <<file, rows, body, backup>>

(* write_bytes opens the final name, truncating it ... *)
Open(w) ==
    /\ pc[w] = "open"
    /\ file' = [file EXCEPT ![body[w]] = "truncated"]
    /\ Goto(w, "write")
    /\ UNCHANGED <<rows, body, backup>>

(* ... and fills it. *)
Write(w) ==
    /\ pc[w] = "write"
    /\ file' = [file EXCEPT ![body[w]] = "whole"]
    /\ Goto(w, "record")
    /\ UNCHANGED <<rows, body, backup>>

(* INSERT ... ON CONFLICT DO NOTHING, committed. *)
Record(w) ==
    /\ pc[w] = "record"
    /\ rows' = rows \cup {body[w]}
    /\ body' = [body EXCEPT ![w] = NoDigest]
    /\ Goto(w, "idle")
    /\ UNCHANGED <<file, backup>>

(* OSError on the volume, or a database error: the exception leaves the    *)
(* poll, and what is on disk stays there.                                  *)
Raise(w) ==
    /\ Faults
    /\ pc[w] \in {"check", "open", "write", "record"}
    /\ body' = [body EXCEPT ![w] = NoDigest]
    /\ Goto(w, "idle")
    /\ UNCHANGED <<file, rows, backup>>

Crash(w) ==
    /\ Faults
    /\ pc[w] # "down"
    /\ body' = [body EXCEPT ![w] = NoDigest]
    /\ Goto(w, "down")
    /\ UNCHANGED <<file, rows, backup>>

Restart(w) ==
    /\ pc[w] = "down"
    /\ Goto(w, "idle")
    /\ UNCHANGED <<file, rows, body, backup>>

-----------------------------------------------------------------------------
(* backup.sh *)

Existing == {d \in Digests : file[d] # "absent"}

Archived == {d \in Digests : archive[d] # "absent"}

Command(name) ==
    /\ step < Len(BackupScript)
    /\ BackupScript[step + 1] = name

(* pg_dump: one consistent snapshot of the database. *)
Dump ==
    /\ Command("dump")
    /\ dump' = rows
    /\ step' = step + 1
    /\ UNCHANGED <<storage, listing, archive>>

(* tar opens the live volume ... *)
List ==
    /\ Command("list")
    /\ listing' = Existing
    /\ step' = step + 1
    /\ UNCHANGED <<storage, dump, archive>>

(* ... and reads its files one by one, each as it is at that moment.  A    *)
(* file created meanwhile may be met or not.                               *)
ArchiveFile(d) ==
    /\ Command("archive")
    /\ d \in Existing \ Archived
    /\ archive' = [archive EXCEPT ![d] = file[d]]
    /\ UNCHANGED <<storage, step, dump, listing>>

ArchiveDone ==
    /\ Command("archive")
    /\ listing \subseteq Archived
    /\ step' = step + 1
    /\ UNCHANGED <<storage, dump, listing, archive>>

Seal ==
    /\ Command("sums")
    /\ step' = step + 1
    /\ UNCHANGED <<storage, dump, listing, archive>>

(* The next backup starts a new directory; a failed command ends the       *)
(* script (set -eu) and leaves a directory without SHA256SUMS.             *)
NextBackup ==
    /\ step > 0
    /\ Sealed \/ Faults
    /\ step' = 0
    /\ dump' = {}
    /\ listing' = {}
    /\ archive' = NoFiles
    /\ UNCHANGED storage

-----------------------------------------------------------------------------
Save(w) ==
    \/ Fetch(w) \/ Check(w) \/ Open(w) \/ Write(w) \/ Record(w)
    \/ Raise(w) \/ Crash(w) \/ Restart(w)

Backup ==
    \/ Dump \/ List \/ ArchiveDone \/ Seal \/ NextBackup
    \/ \E d \in Digests : ArchiveFile(d)

Next == Backup \/ \E w \in Writers : Save(w)

Spec == Init /\ [][Next]_vars

-----------------------------------------------------------------------------
(* Properties *)

(* Every variable keeps its type; a writer between fetch and row has the   *)
(* body it fetched in hand.                                                *)
TypeOK ==
    /\ file \in [Digests -> Contents]
    /\ rows \in SUBSET Digests
    /\ pc \in [Writers -> Places]
    /\ body \in [Writers -> Digests \cup {NoDigest}]
    /\ \A w \in Writers : pc[w] \notin {"idle", "down"} => body[w] \in Digests
    /\ step \in 0 .. Len(BackupScript)
    /\ dump \in SUBSET Digests
    /\ listing \in SUBSET Digests
    /\ archive \in [Digests -> Contents]

(* No row of raw_snapshots points at a file that is not there, whatever    *)
(* fails between _save_snapshot and save_snapshot and whoever else polls.  *)
RowHasFile == \A d \in rows : file[d] # "absent"

(* A backup with its SHA256SUMS holds a file for every row it holds, though*)
(* polls went on between its two halves (backup.sh).                       *)
BackupCoversRows == Sealed => \A d \in dump : archive[d] # "absent"

(* With one writer, what a backup holds of each of its rows is what the    *)
(* volume holds: tar may race a write, but never the write of a dumped row,*)
(* and a file that a row points at never changes again (backup.sh).        *)
BackupMatchesVolume == Sealed => \A d \in dump : archive[d] = file[d]

(* docs/ARCHITECTURE.md:22: ingestion "hashes and stores a raw public     *)
(* snapshot" - the file a row points at holds the body that was hashed.   *)
RowsAreWhole == \A d \in rows : file[d] = "whole"
=============================================================================
