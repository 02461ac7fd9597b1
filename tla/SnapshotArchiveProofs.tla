----------------------- MODULE SnapshotArchiveProofs -----------------------
(***************************************************************************)
(* Theorems about SnapshotArchive, for any number of writers and bodies,   *)
(* with faults and without.                                                *)
(***************************************************************************)
EXTENDS SnapshotArchive, TLAPS

LEMMA ScriptSteps ==
    /\ Len(BackupScript) = 4
    /\ BackupScript[1] = "dump" /\ BackupScript[2] = "list"
    /\ BackupScript[3] = "archive" /\ BackupScript[4] = "sums"
BY DEF BackupScript

(* Which steps of the script are behind a state that is at a command. *)
LEMMA CommandAt ==
    ASSUME TypeOK
    PROVE  /\ Command("dump") => step = 0
           /\ Command("list") => step = 1
           /\ Command("archive") => step = 2
           /\ Command("sums") => step = 3
<1>1. step \in 0 .. 4
  BY ScriptSteps DEF TypeOK
<1> QED
  BY <1>1, ScriptSteps DEF Command

LEMMA InitTyped == Init => TypeOK
BY ScriptSteps DEF Init, TypeOK, NoFiles, Contents, Places

LEMMA SaveTyped ==
    ASSUME TypeOK, NEW w \in Writers, Save(w)
    PROVE  TypeOK'
<1>1. UNCHANGED backup
  BY DEF Save, Fetch, Check, Open, Write, Record, Raise, Crash, Restart
<1>2. /\ step' \in 0 .. Len(BackupScript) /\ dump' \in SUBSET Digests
      /\ listing' \in SUBSET Digests /\ archive' \in [Digests -> Contents]
  BY <1>1 DEF TypeOK, backup
<1>3. CASE Fetch(w)
  BY <1>2, <1>3 DEF TypeOK, Fetch, Goto, Places
<1>4. CASE Check(w)
  BY <1>2, <1>4 DEF TypeOK, Check, AfterCheck, Goto, Places
<1>5. CASE Open(w)
  BY <1>2, <1>5 DEF TypeOK, Open, Goto, Places, Contents
<1>6. CASE Write(w)
  BY <1>2, <1>6 DEF TypeOK, Write, Goto, Places, Contents
<1>7. CASE Record(w)
  BY <1>2, <1>7 DEF TypeOK, Record, Goto, Places
<1>8. CASE Raise(w) \/ Crash(w)
  BY <1>2, <1>8 DEF TypeOK, Raise, Crash, Goto, Places
<1>9. CASE Restart(w)
  BY <1>2, <1>9 DEF TypeOK, Restart, Goto, Places
<1> QED
  BY <1>3, <1>4, <1>5, <1>6, <1>7, <1>8, <1>9 DEF Save

LEMMA BackupTyped ==
    ASSUME TypeOK, Backup
    PROVE  TypeOK'
<1>0. step \in 0 .. 4 /\ Len(BackupScript) = 4
  BY ScriptSteps DEF TypeOK
<1>1. CASE Dump \/ List \/ ArchiveDone \/ Seal
  BY <1>0, <1>1
  DEF TypeOK, Dump, List, ArchiveDone, Seal, Command, storage, Existing
<1>2. ASSUME NEW d \in Digests, ArchiveFile(d)
      PROVE  TypeOK'
  BY <1>2 DEF TypeOK, ArchiveFile, storage
<1>3. CASE NextBackup
  BY <1>0, <1>3 DEF TypeOK, NextBackup, storage, NoFiles, Contents
<1> QED
  BY <1>1, <1>2, <1>3 DEF Backup

LEMMA StutterTyped == TypeOK /\ UNCHANGED vars => TypeOK'
BY DEF TypeOK, vars

(* The variables of SnapshotArchive keep their types. *)
THEOREM TypeCorrect == Spec => []TypeOK
<1>1. TypeOK /\ [Next]_vars => TypeOK'
  BY SaveTyped, BackupTyped, StutterTyped DEF Next
<1> QED
  BY <1>1, InitTyped, PTL DEF Spec

-----------------------------------------------------------------------------
(* Rows.  A writer about to record has found the file or written it; files *)
(* never go away, so this stays true however long the writer waits.        *)
Found == \A w \in Writers : pc[w] = "record" => file[body[w]] # "absent"

FileInv == TypeOK /\ Found /\ RowHasFile

LEMMA InitFiled == Init => FileInv
BY InitTyped DEF Init, FileInv, Found, RowHasFile

LEMMA FilesStay ==
    ASSUME TypeOK, [Next]_vars
    PROVE  Existing \subseteq Existing'
<1>1. ASSUME NEW w \in Writers, Save(w)
      PROVE  Existing \subseteq Existing'
  <2>1. CASE Open(w)
    BY <2>1 DEF Open, TypeOK, Existing
  <2>2. CASE Write(w)
    BY <2>2 DEF Write, TypeOK, Existing
  <2>3. CASE ~(Open(w) \/ Write(w))
    BY <1>1, <2>3 DEF Save, Fetch, Check, Record, Raise, Crash, Restart, Existing
  <2> QED
    BY <2>1, <2>2, <2>3
<1>2. CASE Backup
  BY <1>2
  DEF Backup, Dump, List, ArchiveFile, ArchiveDone, Seal, NextBackup, storage,
      Existing
<1>3. CASE UNCHANGED vars
  BY <1>3 DEF vars, Existing
<1> QED
  BY <1>1, <1>2, <1>3 DEF Next

LEMMA SaveFound ==
    ASSUME FileInv, NEW w \in Writers, Save(w)
    PROVE  Found'
<1>0. TypeOK /\ TypeOK' /\ Existing \subseteq Existing'
  BY SaveTyped, FilesStay DEF FileInv, Next
<1> SUFFICES ASSUME NEW v \in Writers, pc'[v] = "record"
             PROVE  file'[body'[v]] # "absent"
  BY DEF Found
<1>1. CASE v # w
  <2>1. pc[v] = "record" /\ body'[v] = body[v]
    BY <1>0, <1>1
    DEF Save, Fetch, Check, Open, Write, Record, Raise, Crash, Restart, Goto,
        TypeOK
  <2>2. body[v] \in Existing
    BY <1>0, <2>1 DEF FileInv, Found, TypeOK, Existing
  <2> QED
    BY <1>0, <2>1, <2>2 DEF Existing
<1>2. CASE v = w
  <2>1. Check(w) \/ Write(w)
    BY <1>0, <1>2
    DEF Save, Fetch, Open, Record, Raise, Crash, Restart, Goto, TypeOK
  <2>2. CASE Check(w)
    BY <1>0, <1>2, <2>2 DEF Check, AfterCheck, Goto, TypeOK
  <2>3. CASE Write(w)
    BY <1>0, <1>2, <2>3 DEF Write, TypeOK
  <2> QED
    BY <2>1, <2>2, <2>3
<1> QED
  BY <1>1, <1>2

LEMMA SaveRowHasFile ==
    ASSUME FileInv, NEW w \in Writers, Save(w)
    PROVE  RowHasFile'
<1>0. TypeOK /\ Existing \subseteq Existing'
  BY FilesStay DEF FileInv, Next
<1>1. rows \subseteq Existing
  BY DEF FileInv, RowHasFile, TypeOK, Existing
<1>2. CASE Record(w)
  <2>1. body[w] \in Existing
    BY <1>0, <1>2 DEF Record, FileInv, Found, TypeOK, Existing
  <2> QED
    BY <1>0, <1>1, <1>2, <2>1 DEF Record, RowHasFile, Existing
<1>3. CASE ~Record(w)
  <2>1. rows' = rows
    BY <1>3 DEF Save, Fetch, Check, Open, Write, Raise, Crash, Restart
  <2> QED
    BY <1>0, <1>1, <2>1 DEF RowHasFile, Existing
<1> QED
  BY <1>2, <1>3

LEMMA StepFiled == FileInv /\ [Next]_vars => FileInv'
<1>1. ASSUME FileInv, NEW w \in Writers, Save(w)
      PROVE  FileInv'
  BY <1>1, SaveTyped, SaveFound, SaveRowHasFile DEF FileInv
<1>2. ASSUME FileInv, Backup
      PROVE  FileInv'
  <2>1. UNCHANGED storage
    BY <1>2
    DEF Backup, Dump, List, ArchiveFile, ArchiveDone, Seal, NextBackup
  <2> QED
    BY <1>2, <2>1, BackupTyped DEF FileInv, Found, RowHasFile, storage
<1>3. ASSUME FileInv, UNCHANGED vars
      PROVE  FileInv'
  BY <1>3, StutterTyped DEF FileInv, Found, RowHasFile, vars
<1> QED
  BY <1>1, <1>2, <1>3 DEF Next

LEMMA FileInvariant == Spec => []FileInv
BY InitFiled, StepFiled, PTL DEF Spec

(* Every row of raw_snapshots has its file, through any faults and with    *)
(* any number of writers.                                                  *)
THEOREM RowsHaveFiles == Spec => []RowHasFile
<1>1. FileInv => RowHasFile
  BY DEF FileInv
<1> QED
  BY <1>1, FileInvariant, PTL

-----------------------------------------------------------------------------
(* The backup.  What was dumped existed when tar began, what existed when  *)
(* tar began is archived when tar ends.                                    *)
Covered ==
    /\ dump \subseteq Existing
    /\ step >= 2 => dump \subseteq listing
    /\ step >= 3 => listing \subseteq Archived

BackupInv == FileInv /\ Covered

LEMMA InitCovered == Init => BackupInv
BY InitFiled DEF Init, BackupInv, Covered

LEMMA BackupStep ==
    ASSUME BackupInv, Backup
    PROVE  Covered'
<1>0. TypeOK /\ step \in 0 .. 4 /\ rows \subseteq Existing
  BY ScriptSteps DEF BackupInv, FileInv, RowHasFile, TypeOK, Existing
<1>1. Existing' = Existing
  BY DEF Backup, Dump, List, ArchiveFile, ArchiveDone, Seal, NextBackup,
         storage, Existing
<1>2. CASE Dump
  <2>1. step' = 1 /\ dump' = rows
    BY <1>0, <1>2, CommandAt DEF Dump
  <2> QED
    BY <1>0, <1>1, <2>1 DEF Covered
<1>3. CASE List
  <2>1. step' = 2 /\ dump' = dump /\ listing' = Existing
    BY <1>0, <1>3, CommandAt DEF List
  <2> QED
    BY <1>1, <2>1 DEF BackupInv, Covered
<1>4. ASSUME NEW d \in Digests, ArchiveFile(d)
      PROVE  Covered'
  <2>1. step' = 2 /\ step = 2 /\ dump' = dump /\ listing' = listing
    BY <1>0, <1>4, CommandAt DEF ArchiveFile
  <2> QED
    BY <1>1, <2>1 DEF BackupInv, Covered
<1>5. CASE ArchiveDone
  <2>1. /\ step' = 3 /\ step = 2 /\ dump' = dump /\ listing' = listing
        /\ Archived' = Archived /\ listing \subseteq Archived
    BY <1>0, <1>5, CommandAt DEF ArchiveDone, Archived
  <2> QED
    BY <1>1, <2>1 DEF BackupInv, Covered
<1>6. CASE Seal
  <2>1. /\ step' = 4 /\ step = 3 /\ dump' = dump /\ listing' = listing
        /\ Archived' = Archived
    BY <1>0, <1>6, CommandAt DEF Seal, Archived
  <2> QED
    BY <1>1, <2>1 DEF BackupInv, Covered
<1>7. CASE NextBackup
  BY <1>7 DEF NextBackup, Covered
<1> QED
  BY <1>2, <1>3, <1>4, <1>5, <1>6, <1>7 DEF Backup

LEMMA StepCovered == BackupInv /\ [Next]_vars => BackupInv'
<1> SUFFICES ASSUME BackupInv, [Next]_vars PROVE BackupInv'
  OBVIOUS
<1>0. FileInv' /\ Existing \subseteq Existing'
  BY StepFiled, FilesStay DEF BackupInv, FileInv
<1>1. CASE Backup
  BY <1>0, <1>1, BackupStep DEF BackupInv
<1>2. CASE UNCHANGED backup
  BY <1>0, <1>2 DEF BackupInv, Covered, backup, Archived
<1>3. ASSUME NEW w \in Writers, Save(w)
      PROVE  UNCHANGED backup
  BY <1>3 DEF Save, Fetch, Check, Open, Write, Record, Raise, Crash, Restart
<1> QED
  BY <1>1, <1>2, <1>3 DEF Next, vars, backup

(* A sealed backup has a file for each of its rows, however the polls that *)
(* went on meanwhile interleave with it.                                   *)
THEOREM SealedBackupsCover == Spec => []BackupCoversRows
<1>1. BackupInv => BackupCoversRows
  BY ScriptSteps
  DEF BackupInv, Covered, BackupCoversRows, Sealed, Archived
<1>2. Spec => []BackupInv
  BY InitCovered, StepCovered, PTL DEF Spec
<1> QED
  BY <1>1, <1>2, PTL

-----------------------------------------------------------------------------
(***************************************************************************)
(* What the archive holds.  The run lock lets one process at a time poll a *)
(* source, so these theorems assume one writer; it may fail and start over *)
(* as often as it likes.  With two, one may record the file that the other *)
(* has opened and not filled yet.                                          *)
(***************************************************************************)
OneWriter == \A v, w \in Writers : v = w

(* A writer that found no file is the only one who can create it, and no   *)
(* row points at a file that is being written.                             *)
Writing ==
    \A w \in Writers :
        /\ pc[w] = "open" => file[body[w]] = "absent"
        /\ pc[w] \in {"open", "write"} => body[w] \notin rows

(* What tar has read of a dumped row is what the volume still holds.       *)
Faithful ==
    /\ dump \subseteq rows
    /\ step < 2 => archive = NoFiles
    /\ \A d \in dump : archive[d] \in {"absent", file[d]}

SettledInv == BackupInv /\ Writing /\ Faithful

(* A file that a row points at has been written for the last time. *)
FilesSettled == \A d \in rows : file'[d] = file[d]

LEMMA InitSettled == Init => SettledInv
BY InitCovered DEF Init, SettledInv, Writing, Faithful

LEMMA SaveSettles ==
    ASSUME Writing, TypeOK, NEW w \in Writers, Save(w)
    PROVE  FilesSettled /\ rows \subseteq rows'
<1>1. CASE Open(w)
  BY <1>1 DEF Open, Writing, FilesSettled, TypeOK
<1>2. CASE Write(w)
  BY <1>2 DEF Write, Writing, FilesSettled, TypeOK
<1>3. CASE ~(Open(w) \/ Write(w))
  BY <1>3 DEF Save, Fetch, Check, Record, Raise, Crash, Restart, FilesSettled
<1> QED
  BY <1>1, <1>2, <1>3

LEMMA SaveWrites ==
    ASSUME OneWriter, SettledInv, NEW w \in Writers, Save(w), TypeOK'
    PROVE  Writing'
<1> USE DEF SettledInv, BackupInv, FileInv
<1>0. \A v \in Writers : v = w
  BY DEF OneWriter
<1>1. CASE Check(w)
  <2>1. /\ pc'[w] = AfterCheck(file[body[w]]) /\ pc'[w] \in {"open", "record"}
        /\ body' = body /\ file' = file /\ rows' = rows
    BY <1>1 DEF Check, AfterCheck, Goto, TypeOK
  <2>2. pc'[w] = "open" => file[body[w]] = "absent"
    BY <2>1 DEF AfterCheck
  <2>3. file[body[w]] = "absent" => body[w] \notin rows
    BY DEF RowHasFile
  <2> QED
    BY <1>0, <2>1, <2>2, <2>3 DEF Writing
<1>2. CASE Open(w)
  BY <1>0, <1>2 DEF Open, Goto, Writing, TypeOK
<1>3. CASE ~(Check(w) \/ Open(w))
  <2>1. pc'[w] \notin {"open", "write"}
    BY <1>3 DEF Save, Fetch, Write, Record, Raise, Crash, Restart, Goto, TypeOK
  <2> QED
    BY <1>0, <2>1 DEF Writing
<1> QED
  BY <1>1, <1>2, <1>3

LEMMA BackupFaithful ==
    ASSUME SettledInv, Backup
    PROVE  Faithful'
<1> USE DEF SettledInv, BackupInv, FileInv
<1>0. step \in 0 .. 4 /\ rows \subseteq Digests
  BY ScriptSteps DEF TypeOK
<1>1. rows' = rows /\ file' = file
  BY DEF Backup, Dump, List, ArchiveFile, ArchiveDone, Seal, NextBackup, storage
<1>2. CASE Dump
  <2>1. step = 0 /\ dump' = rows /\ archive' = archive /\ archive = NoFiles
    BY <1>0, <1>2, CommandAt DEF Dump, Faithful
  <2> QED
    BY <1>0, <1>1, <2>1 DEF Faithful, NoFiles
<1>3. CASE List
  <2>1. step' = 2 /\ dump' = dump /\ archive' = archive
    BY <1>0, <1>3, CommandAt DEF List
  <2> QED
    BY <1>1, <2>1 DEF Faithful
<1>4. ASSUME NEW d \in Digests, ArchiveFile(d)
      PROVE  Faithful'
  <2>1. /\ step' = 2 /\ dump' = dump
        /\ archive' = [archive EXCEPT ![d] = file[d]]
    BY <1>0, <1>4, CommandAt DEF ArchiveFile
  <2>2. \A e \in dump : archive'[e] \in {archive[e], file[e]}
    BY <2>1 DEF TypeOK
  <2> QED
    BY <1>1, <2>1, <2>2 DEF Faithful
<1>5. CASE ArchiveDone \/ Seal
  <2>1. step' \in {3, 4} /\ dump' = dump /\ archive' = archive
    BY <1>0, <1>5, CommandAt DEF ArchiveDone, Seal
  <2> QED
    BY <1>1, <2>1 DEF Faithful
<1>6. CASE NextBackup
  BY <1>6 DEF NextBackup, Faithful
<1> QED
  BY <1>2, <1>3, <1>4, <1>5, <1>6 DEF Backup

LEMMA StepSettled ==
    ASSUME OneWriter, SettledInv, [Next]_vars
    PROVE  SettledInv' /\ FilesSettled
<1>0. BackupInv' /\ TypeOK /\ TypeOK'
  BY StepCovered DEF SettledInv, BackupInv, FileInv
<1>1. ASSUME NEW w \in Writers, Save(w)
      PROVE  Writing' /\ Faithful' /\ FilesSettled
  <2>1. FilesSettled /\ rows \subseteq rows'
    BY <1>0, <1>1, SaveSettles DEF SettledInv
  <2>2. UNCHANGED backup
    BY <1>1 DEF Save, Fetch, Check, Open, Write, Record, Raise, Crash, Restart
  <2>3. Faithful'
    BY <2>1, <2>2 DEF SettledInv, Faithful, FilesSettled, backup
  <2> QED
    BY <1>0, <1>1, <2>1, <2>3, SaveWrites
<1>2. CASE Backup
  <2>1. UNCHANGED storage
    BY <1>2
    DEF Backup, Dump, List, ArchiveFile, ArchiveDone, Seal, NextBackup
  <2> QED
    BY <1>0, <1>2, <2>1, BackupFaithful
    DEF SettledInv, Writing, FilesSettled, storage
<1>3. CASE UNCHANGED vars
  BY <1>0, <1>3 DEF SettledInv, Writing, Faithful, FilesSettled, vars
<1> QED
  BY <1>0, <1>1, <1>2, <1>3 DEF Next, SettledInv

(* What a sealed backup holds of each of its rows is what the volume holds *)
(* now, though polls went on while tar read and have gone on since.        *)
THEOREM SealedBackupsMatch ==
    ASSUME OneWriter
    PROVE  Spec => []BackupMatchesVolume
<1>1. SettledInv /\ [Next]_vars => SettledInv'
  BY StepSettled
<1>2. SettledInv => BackupMatchesVolume
  BY ScriptSteps
  DEF SettledInv, BackupInv, Covered, Faithful, BackupMatchesVolume, Sealed,
      Archived
<1> QED
  BY <1>1, <1>2, InitSettled, PTL DEF Spec

(* The evidence behind a row is final: once recorded, no later poll of the *)
(* source, however it fails, writes the row's file again.                  *)
THEOREM RecordedFilesSettle ==
    ASSUME OneWriter
    PROVE  Spec => [][FilesSettled]_vars
<1>1. SettledInv /\ [Next]_vars => SettledInv'
  BY StepSettled
<1>2. SettledInv /\ [Next]_vars => [FilesSettled]_vars
  BY StepSettled
<1> QED
  BY <1>1, <1>2, InitSettled, PTL DEF Spec
=============================================================================
