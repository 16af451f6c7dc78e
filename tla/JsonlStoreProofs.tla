-------------------------- MODULE JsonlStoreProofs --------------------------
(***************************************************************************)
(* What holds of the store for every number of processes, every set of     *)
(* signals, every bound and any number of power losses: first the types    *)
(* and the locks, then what survives a crash, then that the store and the  *)
(* engine implement the journal their callers rely on.                     *)
(***************************************************************************)
EXTENDS JsonlStore, StoreImageProofs

\* What each name may hold.
Content == [lock |-> LockFile, journal |-> JournalFile, commit |-> CommitFile,
            publish |-> PublishFile, tmp |-> CommitFile]

-----------------------------------------------------------------------------
(* The file-system primitives keep the files' types.                       *)

\* A new file of the right type.
LEMMA CreateFiles ==
  ASSUME FilesOK, NEW n \in Name, NEW c \in Content[n], Create(n, c), dir' = dir
  PROVE FilesOK'
<1>1. CASE n = "lock"
  BY <1>1 DEF FilesOK, Create, Content, Visible, Candidates
<1>2. CASE n = "journal"
  BY <1>2 DEF FilesOK, Create, Content, Visible, Candidates
<1>3. CASE n = "commit"
  BY <1>3 DEF FilesOK, Create, Content, Visible, Candidates
<1>4. CASE n = "publish"
  BY <1>4 DEF FilesOK, Create, Content, Visible, Candidates
<1>5. CASE n = "tmp"
  BY <1>5 DEF FilesOK, Create, Content, Visible, Candidates
<1> QED
  BY <1>1, <1>2, <1>3, <1>4, <1>5 DEF Name, Artifact

\* A write of the right type.
LEMMA WriteFiles ==
  ASSUME FilesOK, NEW n \in Name, NEW c \in Content[n], NEW part \in Content[n],
         Write(n, c, part), dir' = dir
  PROVE FilesOK'
<1>1. CASE n = "lock"
  BY <1>1 DEF FilesOK, Write, Content, Visible, Candidates
<1>2. CASE n = "journal"
  BY <1>2 DEF FilesOK, Write, Content, Visible, Candidates
<1>3. CASE n = "commit"
  BY <1>3 DEF FilesOK, Write, Content, Visible, Candidates
<1>4. CASE n = "publish"
  BY <1>4 DEF FilesOK, Write, Content, Visible, Candidates
<1>5. CASE n = "tmp"
  BY <1>5 DEF FilesOK, Write, Content, Visible, Candidates
<1> QED
  BY <1>1, <1>2, <1>3, <1>4, <1>5 DEF Name, Artifact

\* A file barrier.
LEMMA SyncFiles ==
  ASSUME FilesOK, NEW n \in Name, Sync(n), dir' = dir
  PROVE FilesOK'
BY DEF FilesOK, Sync, Name, Artifact, Visible, Candidates

\* A directory barrier.
LEMMA SyncDirectoryFiles ==
  ASSUME FilesOK, SyncDirectory, dir' = dir
  PROVE FilesOK'
BY DEF FilesOK, SyncDirectory, Name, Artifact, Visible, Candidates

\* The rename that publishes a commit point.
LEMMA RenameFiles ==
  ASSUME FilesOK, Rename("tmp", "commit"), dir' = dir
  PROVE FilesOK'
BY DEF FilesOK, Rename, Visible, Candidates, CommitFile

\* A power loss.
LEMMA PowerLossFiles ==
  ASSUME FilesOK, PowerLoss
  PROVE FilesOK'
<1>1. vis' \in Visible
  BY DEF FilesOK, PowerLoss, Survive, Visible, Candidates, Name, Artifact, LockFile,
     JournalFile, CommitFile, PublishFile
<1>2. data' \in Candidates
  BY <1>1 DEF PowerLoss, Visible, Candidates, Name, Artifact
<1>3. stale' \in Candidates
  BY DEF PowerLoss, Candidates, Name, Artifact
<1> QED
  BY <1>1, <1>2, <1>3 DEF FilesOK, PowerLoss

-----------------------------------------------------------------------------
(* The process steps keep the processes' types.                            *)

\* A process that goes on.
LEMMA ContinueProcs ==
  ASSUME ProcsOK, NEW p \in Proc, NEW from, NEW to \in Pc, Continue(p, from, to)
  PROVE ProcsOK'
BY DEF ProcsOK, Continue, Goto, local

\* A process that answers.
LEMMA FinishProcs ==
  ASSUME ProcsOK, NEW p \in Proc, NEW answer \in Outcome, Finish(p, answer)
  PROVE ProcsOK'
BY DEF ProcsOK, Finish, Pc

\* A power loss.
LEMMA PowerLossProcs ==
  ASSUME ProcsOK, PowerLoss
  PROVE ProcsOK'
BY DEF ProcsOK, PowerLoss, Pc, Outcome, Answers

-----------------------------------------------------------------------------
(* What the store concludes from an image.                                 *)

\* Every line of contents that decode is a complete record.
LEMMA DecodedLines ==
  ASSUME NEW cells \in Seq(Cell), decode_contents(cells) = OK
  PROVE cells \in Seq(Entry)
<1>1. \A i \in DOMAIN cells : cells[i] # Torn
  BY ContentsDecode DEF decode_line, CORRUPT, OK
<1>2. \A i \in 1 .. Len(cells) : cells[i] \in Entry
  BY <1>1 DEF Cell
<1> QED
  BY <1>2

\* The decisions of the core are answers.
LEMMA CoreCodes ==
  ASSUME NEW h, NEW s, NEW x
  PROVE /\ reconcile(h, s) \in Outcome
        /\ decide(h, s, x) \in Outcome \cup {"ACCEPTED"}
BY DEF reconcile, decide, check_expected, Outcome, Answers

\* The store's codes are answers.
LEMMA JournalCodesAreOutcomes ==
  /\ JournalErrorCode \subseteq Outcome
  /\ {UNAVAILABLE, LOCKED, CORRUPT, BOUND_EXCEEDED, OUTCOME_UNKNOWN} \subseteq JournalErrorCode
BY DEF JournalErrorCode, Outcome, Answers

\* A snapshot is the whole journal, and every line of it is a complete record.
LEMMA SnapshotIsEntries ==
  ASSUME NEW image \in Visible, read_snapshot(image) = OK
  PROVE image["journal"] \in Seq(Entry)
<1> DEFINE journal == image.journal
           point == image.commit
<1>1. journal \in Seq(Cell)
  BY DEF Visible, JournalFile, read_snapshot, UNAVAILABLE, OK
<1>2. read_clean(journal, point, image.publish) = OK
  BY DEF read_snapshot, read_prepared, require_prepared_commit_relation,
     UNAVAILABLE, CORRUPT, OUTCOME_UNKNOWN, OK
<1>3. point \in CommitPoint
  BY DEF Visible, CommitFile, read_snapshot, decode_metadata, decode_commit,
     UNAVAILABLE, CORRUPT, OK
<1>4. Len(journal) = point.bytes /\ check_prefix(journal, point) = OK
  BY <1>1, <1>2, <1>3 DEF read_clean, CommitPoint, CORRUPT, OUTCOME_UNKNOWN, OK
<1>5. prefix_of(journal, point) = journal
  BY <1>1, <1>4 DEF prefix_of
<1>6. decode_contents(journal) = OK
  BY <1>4, <1>5 DEF check_prefix, CORRUPT, OK
<1> QED
  BY <1>1, <1>6, DecodedLines

-----------------------------------------------------------------------------
(* Type correctness.  Types alone are not inductive: a started process has *)
(* a request, and a process that is about to write a record finds a        *)
(* journal, because no step but a power loss ever removes one.             *)

RecordPc == {"prep_trunc", "prep_write", "prep_sync", "jrn_write", "jrn_rest"}

Requested == \A p \in Proc : pc[p] # "idle" => cmd[p] \in Command

JournalOpen == \A p \in Proc : pc[p] \in RecordPc => vis["journal"] \in Seq(Cell)

TypeInv == TypeOK /\ Requested /\ JournalOpen

JournalKept == vis["journal"] \in Seq(Cell) => vis'["journal"] \in Seq(Cell)

\* A process that goes on after a step that keeps the journal.
LEMMA ContinueTypes ==
  ASSUME TypeInv, NEW p \in Proc, NEW from, NEW to \in Pc, from # "idle",
         to \in RecordPc => from \in RecordPc,
         Continue(p, from, to), FilesOK', JournalKept, UNCHANGED quiet
  PROVE TypeInv'
<1>1. ProcsOK'
  BY ContinueProcs DEF TypeInv, TypeOK
<1>2. Requested'
  BY DEF TypeInv, TypeOK, ProcsOK, Requested, Continue, Goto, local
<1>3. JournalOpen'
  BY DEF TypeInv, TypeOK, ProcsOK, JournalOpen, JournalKept, Continue, Goto, local
<1> QED
  BY <1>1, <1>2, <1>3 DEF TypeInv, TypeOK, quiet

\* A process that answers after a step that keeps the journal.
LEMMA FinishTypes ==
  ASSUME TypeInv, NEW p \in Proc, pc[p] # "idle", NEW answer \in Outcome,
         Finish(p, answer), FilesOK', JournalKept, known' \in Seq(Entry), losses' = losses
  PROVE TypeInv'
<1>1. ProcsOK'
  BY FinishProcs DEF TypeInv, TypeOK
<1>2. Requested'
  BY DEF TypeInv, TypeOK, ProcsOK, Requested, Finish
<1>3. JournalOpen'
  BY DEF TypeInv, TypeOK, ProcsOK, JournalOpen, JournalKept, Finish, RecordPc
<1> QED
  BY <1>1, <1>2, <1>3 DEF TypeInv, TypeOK

\* A refusal touches no file.
LEMMA RefuseTypes ==
  ASSUME TypeInv, NEW p \in Proc, pc[p] # "idle", NEW answer \in Outcome,
         Refuse(p, answer), UNCHANGED quiet
  PROVE TypeInv'
<1>1. FilesOK' /\ JournalKept
  BY DEF TypeInv, TypeOK, FilesOK, JournalKept, Refuse, fs
<1>2. known' \in Seq(Entry) /\ losses' = losses
  BY DEF TypeInv, TypeOK, quiet
<1> QED
  BY <1>1, <1>2, FinishTypes DEF Refuse

\* A step that touches no file keeps the files' types.
LEMMA SameFiles ==
  ASSUME FilesOK, UNCHANGED fs
  PROVE FilesOK' /\ JournalKept
BY DEF FilesOK, JournalKept, fs

\* What keeps the journal.
LEMMA KeepJournal ==
  ASSUME FilesOK
  PROVE /\ \A n, c : Create(n, c) /\ n # "journal" => JournalKept
        /\ \A n, c, part : Write(n, c, part) /\ n # "journal" => JournalKept
        /\ \A n : Sync(n) => JournalKept
        /\ SyncDirectory => JournalKept
        /\ Rename("tmp", "commit") => JournalKept
BY DEF FilesOK, Visible, JournalKept, Create, Write, Sync, SyncDirectory, Rename

\* What a process writes is of the right type.
LEMMA WrittenTypes ==
  ASSUME TypeInv, NEW p \in Proc, pc[p] # "idle"
  PROVE /\ next_entry(p) \in Entry
        /\ next_point(p) \in CommitPoint
        /\ clean_witness(p) \in PublishWitness
        /\ prepared(Len(snap[p]) + 2) \in PublishWitness
        /\ initializing \in PublishWitness
<1>1. snap[p] \in Seq(Entry) /\ Len(snap[p]) \in Nat
  BY DEF TypeInv, TypeOK, ProcsOK
<1>2. next_entry(p) \in Entry
  BY <1>1 DEF TypeInv, Requested, next_entry, Entry, Command
<1>3. Append(snap[p], next_entry(p)) \in Seq(Entry)
  BY <1>1, <1>2
<1>4. Append(snap[p], next_entry(p)) \in Seq(Cell)
  BY <1>3 DEF Cell
<1>5. empty \in CommitPoint
  BY DEF empty, for_prefix, CommitPoint
<1>6. for_prefix(Append(snap[p], next_entry(p)), Len(snap[p]) + 1) \in CommitPoint
  BY <1>1, <1>4 DEF for_prefix, CommitPoint
<1>7. next_point(p) \in CommitPoint
  BY <1>5, <1>6 DEF next_point
<1>8. clean_witness(p) \in PublishWitness
  BY <1>1 DEF clean_witness, clean, witness, PublishWitness
<1>9. prepared(Len(snap[p]) + 2) \in PublishWitness
  BY <1>1 DEF prepared, witness, PublishWitness
<1> QED
  BY <1>2, <1>7, <1>8, <1>9 DEF initializing, witness, PublishWitness

\* Opening a store keeps TypeInv.
LEMMA OpenTypes ==
  ASSUME TypeInv, NEW p \in Proc, Open(p)
  PROVE TypeInv'
<1> USE JournalCodesAreOutcomes
<1>0. FilesOK
  BY DEF TypeInv, TypeOK
<1>1. CASE EnsureStateDir(p)
  <2>1. FilesOK' /\ JournalKept
    BY <1>0, <1>1, SameFiles DEF EnsureStateDir
  <2> QED
    BY <1>1, <2>1, ContinueTypes DEF EnsureStateDir, Pc, RecordPc
<1>2. CASE CreateStateDir(p)
  <2>1. CASE Refuse(p, UNAVAILABLE) /\ UNCHANGED quiet
    BY <1>2, <2>1, RefuseTypes DEF CreateStateDir
  <2>2. CASE /\ dir' = "volatile" /\ Continue(p, "mkdir", "sync_state_dir")
             /\ UNCHANGED <<vis, data, stale, quiet>>
    <3>1. FilesOK' /\ JournalKept
      BY <1>0, <2>2 DEF FilesOK, JournalKept
    <3> QED
      BY <2>2, <3>1, ContinueTypes DEF Pc, RecordPc
  <2> QED
    BY <1>2, <2>1, <2>2 DEF CreateStateDir
<1>3. CASE SyncStateDir(p)
  <2>1. FilesOK' /\ JournalKept
    BY <1>0, <1>3, SyncDirectoryFiles, KeepJournal DEF SyncStateDir
  <2> QED
    BY <1>3, <2>1, ContinueTypes DEF SyncStateDir, Pc, RecordPc
<1>4. CASE SyncParentDir(p)
  <2>1. FilesOK' /\ JournalKept
    BY <1>0, <1>4 DEF SyncParentDir, FilesOK, JournalKept
  <2> QED
    BY <1>4, <2>1, ContinueTypes DEF SyncParentDir, Pc, RecordPc
<1>5. CASE StatArtifact(p)
  <2>1. PICK n \in Artifact, here \in Pc, next \in Pc \ RecordPc :
          here # "idle" /\ Stat(p, n, here, next)
    BY <1>5 DEF StatArtifact, Artifact, Pc, RecordPc
  <2>2. FilesOK' /\ JournalKept
    BY <1>0, <2>1, SameFiles DEF Stat
  <2>3. ProcsOK'
    BY <2>1 DEF TypeInv, TypeOK, ProcsOK, Stat, Goto
  <2>4. Requested' /\ JournalOpen'
    BY <2>1, <2>2 DEF TypeInv, TypeOK, ProcsOK, Requested, JournalOpen, JournalKept, Stat, Goto
  <2> QED
    BY <2>1, <2>2, <2>3, <2>4 DEF TypeInv, TypeOK, Stat, quiet
<1>6. CASE OpenLock(p)
  <2>1. CASE Refuse(p, UNAVAILABLE) /\ UNCHANGED quiet
    BY <1>6, <2>1, RefuseTypes DEF OpenLock
  <2>2. CASE Continue(p, "open_lock", "acquire") /\ UNCHANGED <<fs, quiet>>
    BY <1>0, <2>2, SameFiles, ContinueTypes DEF Pc, RecordPc
  <2>3. CASE /\ Continue(p, "open_lock", "acquire") /\ Create("lock", <<>>)
             /\ UNCHANGED <<dir, quiet>>
    <3>1. FilesOK'
      BY <1>0, <2>3, CreateFiles DEF Name, Artifact, Content, LockFile
    <3>2. JournalKept
      BY <1>0, <2>3, KeepJournal
    <3> QED
      BY <2>3, <3>1, <3>2, ContinueTypes DEF Pc, RecordPc
  <2> QED
    BY <1>6, <2>1, <2>2, <2>3 DEF OpenLock
<1>7. CASE AcquireExclusive(p)
  <2>1. CASE Refuse(p, LOCKED) /\ UNCHANGED quiet
    BY <1>7, <2>1, RefuseTypes DEF AcquireExclusive
  <2>2. CASE /\ held' = [held EXCEPT ![p] = "exclusive"]
             /\ pc' = [pc EXCEPT ![p] = "open_journal"]
             /\ UNCHANGED <<fs, local, outcome, quiet>>
    <3>1. FilesOK' /\ JournalKept
      BY <1>0, <2>2, SameFiles
    <3> QED
      BY <1>7, <2>2, <3>1 DEF AcquireExclusive, TypeInv, TypeOK, ProcsOK, Requested,
         JournalOpen, JournalKept, local, quiet, Pc, RecordPc
  <2> QED
    BY <1>7, <2>1, <2>2 DEF AcquireExclusive
<1>8. CASE OpenJournal(p)
  <2>1. CASE Continue(p, "open_journal", "read_store") /\ UNCHANGED <<fs, quiet>>
    BY <1>0, <2>1, SameFiles, ContinueTypes DEF Pc, RecordPc
  <2>2. CASE /\ Continue(p, "open_journal", "sync_lock") /\ Create("journal", <<>>)
             /\ UNCHANGED <<dir, quiet>>
    <3>0. "journal" \in Name /\ <<>> \in Content["journal"]
      BY DEF Name, Artifact, Content, JournalFile
    <3>1. FilesOK'
      BY <1>0, <2>2, <3>0, CreateFiles
    <3>2. JournalKept
      BY <1>0, <2>2 DEF JournalKept, Create, FilesOK, Visible
    <3> QED
      BY <2>2, <3>1, <3>2, ContinueTypes DEF Pc, RecordPc
  <2> QED
    BY <1>8, <2>1, <2>2 DEF OpenJournal
<1>9. CASE OpenExisting(p)
  <2> DEFINE verdict == open_existing(vis, "publish" \in seen[p])
  <2>1. verdict \in JournalErrorCode \cup {OK, "create_witness", "resume_witness"}
    BY OpenCodes
  <2>2. ASSUME NEW to \in {"load", "wit_create", "wit_sync"},
               Continue(p, "read_store", to), UNCHANGED <<fs, quiet>>
        PROVE TypeInv'
    BY <1>0, <2>2, SameFiles, ContinueTypes DEF Pc, RecordPc
  <2>3. CASE verdict \notin {OK, "create_witness", "resume_witness"}
    <3>1. Refuse(p, verdict) /\ UNCHANGED quiet /\ verdict \in Outcome
      BY <1>9, <2>1, <2>3 DEF OpenExisting
    <3> QED
      BY <1>9, <3>1, RefuseTypes DEF OpenExisting
  <2> QED
    BY <1>9, <2>2, <2>3 DEF OpenExisting, OK
<1>10. CASE SyncLock(p)
  <2>1. FilesOK' /\ JournalKept
    BY <1>0, <1>10, SyncFiles, KeepJournal DEF SyncLock, Name, Artifact
  <2> QED
    BY <1>10, <2>1, ContinueTypes DEF SyncLock, Pc, RecordPc
<1>11. CASE SyncJournal(p)
  <2>1. FilesOK' /\ JournalKept
    BY <1>0, <1>11, SyncFiles, KeepJournal DEF SyncJournal, Name, Artifact
  <2> QED
    BY <1>11, <2>1, ContinueTypes DEF SyncJournal, Pc, RecordPc
<1>12. CASE SyncInitDir(p)
  <2>1. FilesOK' /\ JournalKept
    BY <1>0, <1>12, SyncDirectoryFiles, KeepJournal DEF SyncInitDir
  <2> QED
    BY <1>12, <2>1, ContinueTypes DEF SyncInitDir, Pc, RecordPc
<1>13. CASE CreateWitness(p)
  <2>1. CASE Refuse(p, UNAVAILABLE) /\ UNCHANGED quiet
    BY <1>13, <2>1, RefuseTypes DEF CreateWitness
  <2>2. CASE /\ Continue(p, "wit_create", "wit_write") /\ Create("publish", Torn)
             /\ UNCHANGED <<dir, quiet>>
    <3>1. FilesOK'
      BY <1>0, <2>2, CreateFiles DEF Name, Artifact, Content, PublishFile
    <3>2. JournalKept
      BY <1>0, <2>2, KeepJournal
    <3> QED
      BY <2>2, <3>1, <3>2, ContinueTypes DEF Pc, RecordPc
  <2> QED
    BY <1>13, <2>1, <2>2 DEF CreateWitness
<1>14. CASE WriteInitializing(p)
  <2>1. initializing \in PublishFile /\ Torn \in PublishFile
    BY <1>14, WrittenTypes DEF WriteInitializing, Continue, Goto, PublishFile
  <2>2. FilesOK'
    BY <1>0, <1>14, <2>1, WriteFiles DEF WriteInitializing, Name, Artifact, Content
  <2>3. JournalKept
    BY <1>0, <1>14, KeepJournal DEF WriteInitializing
  <2> QED
    BY <1>14, <2>2, <2>3, ContinueTypes DEF WriteInitializing, Pc, RecordPc
<1>15. CASE SyncInitializing(p)
  <2>1. FilesOK' /\ JournalKept
    BY <1>0, <1>15, SyncFiles, KeepJournal DEF SyncInitializing, Name, Artifact
  <2> QED
    BY <1>15, <2>1, ContinueTypes DEF SyncInitializing, Pc, RecordPc
<1>16. CASE SyncWitnessDir(p)
  <2>1. FilesOK' /\ JournalKept
    BY <1>0, <1>16, SyncDirectoryFiles, KeepJournal DEF SyncWitnessDir
  <2> QED
    BY <1>16, <2>1, ContinueTypes DEF SyncWitnessDir, Pc, RecordPc
<1> QED
  BY <1>1, <1>2, <1>3, <1>4, <1>5, <1>6, <1>7, <1>8, <1>9, <1>10, <1>11, <1>12, <1>13,
     <1>14, <1>15, <1>16 DEF Open

\* Publishing a commit point keeps TypeInv.
LEMMA PublishTypes ==
  ASSUME TypeInv, NEW p \in Proc, PublishCommit(p)
  PROVE TypeInv'
<1>0. FilesOK
  BY DEF TypeInv, TypeOK
<1>1. CASE OpenTemporary(p)
  <2>1. FilesOK'
    BY <1>0, <1>1, CreateFiles DEF OpenTemporary, Name, Content, CommitFile
  <2>2. JournalKept
    BY <1>0, <1>1, KeepJournal DEF OpenTemporary
  <2> QED
    BY <1>1, <2>1, <2>2, ContinueTypes DEF OpenTemporary, Pc, RecordPc
<1>2. CASE WriteTemporary(p)
  <2>1. next_point(p) \in Content["tmp"] /\ Torn \in Content["tmp"]
    BY <1>2, WrittenTypes DEF WriteTemporary, Continue, Goto, Content, CommitFile, PublishFile
  <2>2. FilesOK'
    BY <1>0, <1>2, <2>1, WriteFiles DEF WriteTemporary, Name, Artifact
  <2>3. JournalKept
    BY <1>0, <1>2, KeepJournal DEF WriteTemporary
  <2> QED
    BY <1>2, <2>2, <2>3, ContinueTypes DEF WriteTemporary, Pc, RecordPc
<1>3. CASE SyncTemporary(p)
  <2>1. FilesOK' /\ JournalKept
    BY <1>0, <1>3, SyncFiles, KeepJournal DEF SyncTemporary, Name, Artifact
  <2> QED
    BY <1>3, <2>1, ContinueTypes DEF SyncTemporary, Pc, RecordPc
<1>4. CASE RenameCommit(p)
  <2>1. FilesOK' /\ JournalKept
    BY <1>0, <1>4, RenameFiles, KeepJournal DEF RenameCommit
  <2> QED
    BY <1>4, <2>1, ContinueTypes DEF RenameCommit, Pc, RecordPc
<1>5. CASE SyncCommitDir(p)
  <2>1. FilesOK' /\ JournalKept
    BY <1>0, <1>5, SyncDirectoryFiles, KeepJournal DEF SyncCommitDir
  <2> QED
    BY <1>5, <2>1, ContinueTypes DEF SyncCommitDir, Pc, RecordPc
<1> QED
  BY <1>1, <1>2, <1>3, <1>4, <1>5 DEF PublishCommit

\* Appending a record keeps TypeInv.
LEMMA AppendTypes ==
  ASSUME TypeInv, NEW p \in Proc, AppendEvent(p)
  PROVE TypeInv'
<1> USE JournalCodesAreOutcomes
<1>0. FilesOK
  BY DEF TypeInv, TypeOK
<1>1. CASE RevalidateAppend(p)
  <2>1. CASE read_snapshot(vis) # OK /\ Refuse(p, read_snapshot(vis)) /\ UNCHANGED quiet
    BY <1>1, <2>1, SnapshotCodes, RefuseTypes DEF RevalidateAppend
  <2>2. CASE Refuse(p, BOUND_EXCEEDED) /\ UNCHANGED quiet
    BY <1>1, <2>2, RefuseTypes DEF RevalidateAppend
  <2>3. CASE /\ read_snapshot(vis) = OK
             /\ Goto(p, "append", "prep_trunc")
             /\ mode' = [mode EXCEPT ![p] = "append"]
             /\ snap' = [snap EXCEPT ![p] = vis["journal"]]
             /\ UNCHANGED <<fs, cmd, seen, quiet>>
    <3>1. vis["journal"] \in Seq(Entry)
      BY <1>0, <2>3, SnapshotIsEntries DEF FilesOK
    <3>2. vis["journal"] \in Seq(Cell)
      BY <3>1 DEF Cell
    <3>3. FilesOK' /\ vis' = vis
      BY <1>0, <2>3, SameFiles DEF fs
    <3>4. ProcsOK'
      BY <2>3, <3>1 DEF TypeInv, TypeOK, ProcsOK, Goto, Pc
    <3>5. Requested' /\ JournalOpen'
      BY <2>3, <3>2, <3>3 DEF TypeInv, TypeOK, ProcsOK, Requested, JournalOpen, Goto
    <3> QED
      BY <2>3, <3>3, <3>4, <3>5 DEF TypeInv, TypeOK, quiet
  <2> QED
    BY <1>1, <2>1, <2>2, <2>3 DEF RevalidateAppend
<1>2. CASE TruncatePrepared(p)
  <2>1. Torn \in Content["publish"]
    BY DEF Content, PublishFile
  <2>2. FilesOK'
    BY <1>0, <1>2, <2>1, WriteFiles DEF TruncatePrepared, Name, Artifact
  <2>3. JournalKept
    BY <1>0, <1>2, KeepJournal DEF TruncatePrepared
  <2> QED
    BY <1>2, <2>2, <2>3, ContinueTypes DEF TruncatePrepared, Pc, RecordPc
<1>3. CASE WritePrepared(p)
  <2>1. prepared(Len(snap[p]) + 2) \in Content["publish"] /\ Torn \in Content["publish"]
    BY <1>3, WrittenTypes DEF WritePrepared, Continue, Goto, Content, CommitFile, PublishFile
  <2>2. FilesOK'
    BY <1>0, <1>3, <2>1, WriteFiles DEF WritePrepared, Name, Artifact
  <2>3. JournalKept
    BY <1>0, <1>3, KeepJournal DEF WritePrepared
  <2> QED
    BY <1>3, <2>2, <2>3, ContinueTypes DEF WritePrepared, Pc, RecordPc
<1>4. CASE SyncPrepared(p)
  <2>1. FilesOK' /\ JournalKept
    BY <1>0, <1>4, SyncFiles, KeepJournal DEF SyncPrepared, Name, Artifact
  <2> QED
    BY <1>4, <2>1, ContinueTypes DEF SyncPrepared, Pc, RecordPc
<1>5. CASE WriteRecordPart(p)
  <2>1. vis["journal"] \in Seq(Cell)
    BY <1>5 DEF WriteRecordPart, Continue, Goto, TypeInv, JournalOpen, RecordPc
  <2>2. Append(vis["journal"], Torn) \in Seq(Cell)
    BY <2>1 DEF Cell
  <2>3. "journal" \in Name /\ Append(vis["journal"], Torn) \in Content["journal"]
    BY <2>2 DEF Name, Artifact, Content, JournalFile
  <2>4. FilesOK'
    BY <1>0, <1>5, <2>3, WriteFiles DEF WriteRecordPart
  <2>5. JournalKept
    BY <1>0, <1>5, <2>2 DEF WriteRecordPart, Write, JournalKept, FilesOK, Visible
  <2> QED
    BY <1>5, <2>4, <2>5, ContinueTypes DEF WriteRecordPart, Pc, RecordPc
<1>6. CASE WriteRecordRest(p)
  <2> DEFINE rest == [vis["journal"] EXCEPT ![Len(vis["journal"])] = next_entry(p)]
  <2>1. vis["journal"] \in Seq(Cell)
    BY <1>6 DEF WriteRecordRest, Continue, Goto, TypeInv, JournalOpen, RecordPc
  <2>2. next_entry(p) \in Cell
    BY <1>6, WrittenTypes DEF WriteRecordRest, Continue, Goto, Cell
  <2>3. rest \in Seq(Cell)
    <3>1. vis["journal"] \in [1 .. Len(vis["journal"]) -> Cell] /\ Len(vis["journal"]) \in Nat
      BY <2>1
    <3>2. rest \in [1 .. Len(vis["journal"]) -> Cell]
      BY <2>2, <3>1
    <3> QED
      BY <3>1, <3>2
  <2> HIDE DEF rest
  <2>4. Continue(p, "jrn_rest", "jrn_sync") /\ Write("journal", rest, vis["journal"])
        /\ UNCHANGED <<dir, quiet>>
    BY <1>6 DEF WriteRecordRest, rest
  <2>5. "journal" \in Name /\ rest \in Content["journal"] /\ vis["journal"] \in Content["journal"]
    BY <2>1, <2>3 DEF Name, Artifact, Content, JournalFile
  <2>6. FilesOK'
    BY <1>0, <2>4, <2>5, WriteFiles
  <2>7. JournalKept
    BY <1>0, <2>3, <2>4 DEF Write, JournalKept, FilesOK, Visible
  <2> QED
    BY <2>4, <2>6, <2>7, ContinueTypes DEF Pc, RecordPc
<1>7. CASE SyncRecord(p)
  <2>1. FilesOK' /\ JournalKept
    BY <1>0, <1>7, SyncFiles, KeepJournal DEF SyncRecord, Name, Artifact
  <2> QED
    BY <1>7, <2>1, ContinueTypes DEF SyncRecord, Pc, RecordPc
<1> QED
  BY <1>1, <1>2, <1>3, <1>4, <1>5, <1>6, <1>7 DEF AppendEvent

\* The CLEAN rewrite keeps TypeInv.
LEMMA ReleaseTypes ==
  ASSUME TypeInv, NEW p \in Proc, Release(p)
  PROVE TypeInv'
<1>0. FilesOK
  BY DEF TypeInv, TypeOK
<1>1. CASE TruncateClean(p)
  <2>1. Torn \in Content["publish"]
    BY DEF Content, PublishFile
  <2>2. FilesOK'
    BY <1>0, <1>1, <2>1, WriteFiles DEF TruncateClean, Name, Artifact
  <2>3. JournalKept
    BY <1>0, <1>1, KeepJournal DEF TruncateClean
  <2> QED
    BY <1>1, <2>2, <2>3, ContinueTypes DEF TruncateClean, Pc, RecordPc
<1>2. CASE WriteClean(p)
  <2>1. clean_witness(p) \in Content["publish"] /\ Torn \in Content["publish"]
    BY <1>2, WrittenTypes DEF WriteClean, Continue, Goto, Content, CommitFile, PublishFile
  <2>2. FilesOK'
    BY <1>0, <1>2, <2>1, WriteFiles DEF WriteClean, Name, Artifact
  <2>3. JournalKept
    BY <1>0, <1>2, KeepJournal DEF WriteClean
  <2> QED
    BY <1>2, <2>2, <2>3, ContinueTypes DEF WriteClean, Pc, RecordPc
<1>3. CASE SyncClean(p)
  <2>1. FilesOK' /\ JournalKept
    BY <1>0, <1>3, SyncFiles, KeepJournal DEF SyncClean, Name, Artifact
  <2>2. CASE Continue(p, "clean_sync", "load") /\ UNCHANGED <<known, losses>>
    BY <2>1, <2>2, ContinueTypes DEF quiet, Pc, RecordPc
  <2>3. CASE /\ Finish(p, "accepted") /\ known' = Append(snap[p], next_entry(p))
             /\ losses' = losses
    <3>1. snap[p] \in Seq(Entry) /\ next_entry(p) \in Entry
      BY <1>3, WrittenTypes DEF SyncClean, TypeInv, TypeOK, ProcsOK
    <3>2. known' \in Seq(Entry)
      BY <2>3, <3>1
    <3>3. "accepted" \in Outcome
      BY DEF Outcome, Answers
    <3> QED
      BY <1>3, <2>1, <2>3, <3>2, <3>3, FinishTypes DEF SyncClean
  <2> QED
    BY <1>3, <2>2, <2>3 DEF SyncClean
<1> QED
  BY <1>1, <1>2, <1>3 DEF Release

\* Loading, deciding and reading keep TypeInv.
LEMMA EngineTypes ==
  ASSUME TypeInv, NEW p \in Proc, Engine(p) \/ Read(p)
  PROVE TypeInv'
<1> USE JournalCodesAreOutcomes
<1>0. FilesOK
  BY DEF TypeInv, TypeOK
<1>1. CASE LoadCommitted(p)
  <2>1. CASE /\ read_snapshot(vis) # OK /\ Refuse(p, read_snapshot(vis))
             /\ UNCHANGED <<known, losses>>
    BY <1>1, <2>1, SnapshotCodes, RefuseTypes DEF LoadCommitted, quiet
  <2>2. CASE /\ read_snapshot(vis) = OK
             /\ Goto(p, "load", "decide")
             /\ snap' = [snap EXCEPT ![p] = vis["journal"]]
             /\ known' = vis["journal"]
             /\ UNCHANGED <<fs, cmd, seen, mode, losses>>
    <3>1. vis["journal"] \in Seq(Entry)
      BY <1>0, <2>2, SnapshotIsEntries DEF FilesOK
    <3>2. FilesOK' /\ JournalKept
      BY <1>0, <2>2, SameFiles
    <3>3. ProcsOK'
      BY <2>2, <3>1 DEF TypeInv, TypeOK, ProcsOK, Goto, Pc
    <3>4. Requested' /\ JournalOpen'
      BY <2>2, <3>2 DEF TypeInv, TypeOK, ProcsOK, Requested, JournalOpen, JournalKept, Goto,
         RecordPc
    <3> QED
      BY <2>2, <3>1, <3>2, <3>3, <3>4 DEF TypeInv, TypeOK
  <2> QED
    BY <1>1, <2>1, <2>2 DEF LoadCommitted
<1>2. CASE Reconcile(p)
  <2> DEFINE answer == IF replay_ok(history(snap[p]))
                       THEN reconcile(history(snap[p]), SignalParts[cmd[p].signal])
                       ELSE CORRUPT
  <2>1. answer \in Outcome
    BY CoreCodes
  <2>2. pc[p] # "idle" /\ Refuse(p, answer) /\ UNCHANGED quiet
    BY <1>2 DEF Reconcile
  <2> QED
    BY <2>1, <2>2, RefuseTypes
<1>3. CASE Decide(p)
  <2>1. decision(p) # "ACCEPTED" => decision(p) \in Outcome
    BY CoreCodes DEF decision
  <2>2. CASE Continue(p, "decide", "append") /\ UNCHANGED <<fs, quiet>>
    BY <1>0, <2>2, SameFiles, ContinueTypes DEF Pc, RecordPc
  <2>3. CASE decision(p) # "ACCEPTED" /\ Refuse(p, decision(p)) /\ UNCHANGED quiet
    BY <1>3, <2>1, <2>3, RefuseTypes DEF Decide
  <2> QED
    BY <1>3, <2>2, <2>3 DEF Decide
<1>4. CASE ReaderOpen(p)
  <2>1. CASE Continue(p, "reader_open", "reader_acquire") /\ UNCHANGED <<fs, quiet>>
    BY <1>0, <2>1, SameFiles, ContinueTypes DEF Pc, RecordPc
  <2>2. CASE reader_open(vis) # OK /\ Refuse(p, reader_open(vis)) /\ UNCHANGED quiet
    BY <1>4, <2>2, OpenCodes, RefuseTypes DEF ReaderOpen
  <2> QED
    BY <1>4, <2>1, <2>2 DEF ReaderOpen
<1>5. CASE AcquireShared(p)
  <2>1. CASE Refuse(p, LOCKED) /\ UNCHANGED quiet
    BY <1>5, <2>1, RefuseTypes DEF AcquireShared
  <2>2. CASE /\ held' = [held EXCEPT ![p] = "shared"]
             /\ pc' = [pc EXCEPT ![p] = "load"]
             /\ UNCHANGED <<fs, local, outcome, quiet>>
    <3>1. FilesOK' /\ JournalKept
      BY <1>0, <2>2, SameFiles
    <3> QED
      BY <1>5, <2>2, <3>1 DEF AcquireShared, TypeInv, TypeOK, ProcsOK, Requested,
         JournalOpen, JournalKept, local, quiet, Pc, RecordPc
  <2> QED
    BY <1>5, <2>1, <2>2 DEF AcquireShared
<1> QED
  BY <1>1, <1>2, <1>3, <1>4, <1>5 DEF Engine, Read

\* Starts, failures, kills and power losses keep TypeInv.
LEMMA EnvironmentTypes ==
  ASSUME TypeInv,
         \/ \E p \in Proc :
              (\E c \in Command : Start(p, c)) \/ IoError(p) \/ ClockError(p) \/ Kill(p)
         \/ PowerLoss
  PROVE TypeInv'
<1> USE JournalCodesAreOutcomes
<1>0. FilesOK
  BY DEF TypeInv, TypeOK
<1>1. ASSUME NEW p \in Proc, NEW c \in Command, Start(p, c)
      PROVE TypeInv'
  <2>1. FilesOK' /\ JournalKept
    BY <1>0, <1>1, SameFiles DEF Start
  <2>2. ProcsOK'
    BY <1>1 DEF Start, TypeInv, TypeOK, ProcsOK, Pc
  <2> QED
    BY <1>1, <2>1, <2>2 DEF Start, TypeInv, TypeOK, ProcsOK, Requested, JournalOpen,
       JournalKept, RecordPc, quiet
<1>2. ASSUME NEW p \in Proc, IoError(p)
      PROVE TypeInv'
  <2>1. failure_code(p) \in Outcome
    BY DEF failure_code
  <2> QED
    BY <1>2, <2>1, RefuseTypes DEF IoError, Live
<1>3. ASSUME NEW p \in Proc, ClockError(p)
      PROVE TypeInv'
  <2>1. "INTERNAL" \in Outcome
    BY DEF Outcome, Answers
  <2> QED
    BY <1>3, <2>1, RefuseTypes DEF ClockError
<1>4. ASSUME NEW p \in Proc, Kill(p)
      PROVE TypeInv'
  <2>1. "lost" \in Outcome
    BY DEF Outcome, Answers
  <2> QED
    BY <1>4, <2>1, RefuseTypes DEF Kill, Live
<1>5. CASE PowerLoss
  <2>1. FilesOK'
    BY <1>0, <1>5, PowerLossFiles
  <2>2. ProcsOK'
    BY <1>5, PowerLossProcs DEF TypeInv, TypeOK
  <2>3. known' \in Seq(Entry) /\ losses' \in 0 .. MaxPowerLoss
    BY <1>5, StoreConstants DEF PowerLoss, TypeInv, TypeOK
  <2>4. Requested' /\ JournalOpen'
    BY <1>5 DEF PowerLoss, TypeInv, TypeOK, ProcsOK, Requested, JournalOpen, Live, RecordPc
  <2> QED
    BY <2>1, <2>2, <2>3, <2>4 DEF TypeInv, TypeOK
<1> QED
  BY <1>1, <1>2, <1>3, <1>4, <1>5

\* Every step keeps the types.
LEMMA NextTypes ==
  ASSUME TypeInv, [Next]_vars
  PROVE TypeInv'
<1>1. CASE Next
  BY <1>1, OpenTypes, PublishTypes, AppendTypes, ReleaseTypes, EngineTypes, EnvironmentTypes
  DEF Next, Step
<1>2. CASE UNCHANGED vars
  BY <1>2 DEF vars, TypeInv, TypeOK, FilesOK, ProcsOK, Requested, JournalOpen
<1> QED
  BY <1>1, <1>2

\* The initial state is well typed.
LEMMA InitTypes ==
  ASSUME Init
  PROVE TypeInv
<1>1. vis \in Visible
  BY DEF Init, Visible, Name, Artifact, LockFile, JournalFile, CommitFile, PublishFile
<1>2. data \in Candidates /\ stale \in Candidates
  BY DEF Init, Candidates, Name, Artifact, LockFile, JournalFile, CommitFile, PublishFile
<1>3. ProcsOK
  BY DEF Init, ProcsOK, Pc, Outcome, Answers
<1>4. dir \in {"absent", "volatile", "durable"}
  BY DEF Init
<1>5. known \in Seq(Entry) /\ losses \in 0 .. MaxPowerLoss
  BY StoreConstants DEF Init
<1> QED
  BY <1>1, <1>2, <1>3, <1>4, <1>5 DEF Init, TypeInv, TypeOK, FilesOK, Requested, JournalOpen,
     RecordPc

\* Type correctness for any number of processes: in particular what
\* read_snapshot returns to load_committed, and what any client is ever told,
\* is a sequence of complete records and never torn bytes.
THEOREM TypesHold == Spec => []TypeOK
<1>1. Init => TypeInv
  BY InitTypes
<1>2. TypeInv /\ [Next]_vars => TypeInv'
  BY NextTypes
<1>3. TypeInv => TypeOK
  BY DEF TypeInv
<1> QED
  BY <1>1, <1>2, <1>3, PTL DEF Spec

-----------------------------------------------------------------------------
(* The lock keeps the snapshot current.  SnapshotCurrent is not inductive: *)
(* it needs to know who holds which lock at which step.                    *)

\* Steps taken under the exclusive lock, whatever the request.
WriterPc == {"open_journal", "read_store", "sync_lock", "sync_journal", "sync_dir",
             "wit_create", "wit_write", "wit_sync", "wit_sync_dir", "tmp_open", "tmp_write",
             "tmp_sync", "rename", "rename_sync", "clean_trunc", "clean_write", "clean_sync",
             "append", "prep_trunc", "prep_write", "prep_sync", "jrn_write", "jrn_rest",
             "jrn_sync"}
ReaderPc == {"reader_open", "reader_acquire"}
SnapshotPc == {"decide", "append", "prep_trunc"}

Exclusion == \A p, q \in Proc : held[p] = "exclusive" /\ q # p => held[q] = "none"

Holding(p) ==
  /\ pc[p] \in WriterPc => held[p] = "exclusive"
  /\ pc[p] \in {"load", "decide"} =>
       held[p] # "none" /\ (cmd[p].op = "submit" => held[p] = "exclusive")
  /\ pc[p] \in ReaderPc => cmd[p].op # "submit"

Current(p) ==
  pc[p] \in SnapshotPc =>
    read_snapshot(vis) = OK /\ vis["journal"] = snap[p] /\ known = snap[p]

LockInv ==
  /\ Exclusion
  /\ \A p \in Proc : Holding(p)
  /\ \A p \in Proc : Current(p)

SameStore == \A n \in {"journal", "commit", "publish"} : vis'[n] = vis[n]

\* read_snapshot looks at three artifacts.
LEMMA SameSnapshot ==
  ASSUME FilesOK, FilesOK', SameStore
  PROVE read_snapshot(vis') = read_snapshot(vis)
<1>1. vis'.journal = vis.journal /\ vis'.commit = vis.commit /\ vis'.publish = vis.publish
  BY DEF SameStore
<1> QED
  BY <1>1 DEF read_snapshot, decode_metadata, exact_empty

\* A process that takes no part in a step keeps its current snapshot: the
\* actor holds the lock that excludes it, or leaves the store alone.
LEMMA BystanderCurrent ==
  ASSUME TypeInv, TypeInv', LockInv, NEW p \in Proc, NEW q \in Proc, q # p,
         pc'[q] = pc[q], snap'[q] = snap[q],
         held[p] = "exclusive" \/ (SameStore /\ known' \in {known, vis["journal"]})
  PROVE Current(q)'
<1> SUFFICES ASSUME pc[q] \in SnapshotPc
             PROVE /\ read_snapshot(vis') = OK /\ vis'["journal"] = snap[q]
                   /\ known' = snap[q]
  BY DEF Current
<1>1. held[q] # "none"
  BY DEF LockInv, Holding, WriterPc, SnapshotPc
<1>2. SameStore /\ known' \in {known, vis["journal"]}
  BY <1>1 DEF LockInv, Exclusion
<1>3. read_snapshot(vis) = OK /\ vis["journal"] = snap[q] /\ known = snap[q]
  BY DEF LockInv, Current
<1>4. read_snapshot(vis') = OK
  BY <1>2, <1>3, SameSnapshot DEF TypeInv, TypeOK
<1> QED
  BY <1>2, <1>3, <1>4 DEF SameStore

\* A process that goes on.
LEMMA ContinueLocks ==
  ASSUME TypeInv, TypeInv', LockInv, NEW p \in Proc, NEW from, NEW to,
         Continue(p, from, to), known' = known,
         from \in WriterPc \/ SameStore,
         to \in WriterPc \cup {"load"} => from \in WriterPc,
         to \in ReaderPc => from \in ReaderPc,
         to \notin SnapshotPc
  PROVE LockInv'
<1>1. pc' = [pc EXCEPT ![p] = to] /\ held' = held /\ cmd' = cmd /\ snap' = snap /\ pc[p] = from
  BY DEF Continue, Goto, local
<1>2. Exclusion'
  BY <1>1 DEF LockInv, Exclusion
<1>3. \A q \in Proc : Holding(q)'
  BY <1>1 DEF LockInv, Holding, TypeInv, TypeOK, ProcsOK, SnapshotPc
<1>4. held[p] = "exclusive" \/ SameStore
  BY <1>1 DEF LockInv, Holding
<1>5. \A q \in Proc : q # p => Current(q)'
  BY <1>1, <1>4, BystanderCurrent DEF TypeInv, TypeOK, ProcsOK
<1>6. Current(p)'
  BY <1>1 DEF Current, TypeInv, TypeOK, ProcsOK
<1> QED
  BY <1>2, <1>3, <1>5, <1>6 DEF LockInv

\* A process that answers.
LEMMA FinishLocks ==
  ASSUME TypeInv, TypeInv', LockInv, NEW p \in Proc, NEW answer, Finish(p, answer),
         pc[p] \in WriterPc \/ (SameStore /\ known' = known)
  PROVE LockInv'
<1>1. /\ pc' = [pc EXCEPT ![p] = "done"] /\ held' = [held EXCEPT ![p] = "none"]
      /\ cmd' = cmd /\ snap' = [snap EXCEPT ![p] = <<>>]
  BY DEF Finish
<1>2. Exclusion'
  BY <1>1 DEF LockInv, Exclusion, TypeInv, TypeOK, ProcsOK
<1>3. \A q \in Proc : Holding(q)'
  BY <1>1 DEF LockInv, Holding, TypeInv, TypeOK, ProcsOK, WriterPc, ReaderPc
<1>4. held[p] = "exclusive" \/ (SameStore /\ known' = known)
  BY DEF LockInv, Holding
<1>5. \A q \in Proc : q # p => Current(q)'
  BY <1>1, <1>4, BystanderCurrent DEF TypeInv, TypeOK, ProcsOK
<1>6. Current(p)'
  BY <1>1 DEF Current, TypeInv, TypeOK, ProcsOK, SnapshotPc
<1> QED
  BY <1>2, <1>3, <1>5, <1>6 DEF LockInv

\* A refusal releases the lock and nothing else.
LEMMA RefuseLocks ==
  ASSUME TypeInv, TypeInv', LockInv, NEW p \in Proc, NEW answer, Refuse(p, answer),
         known' = known
  PROVE LockInv'
<1>1. SameStore
  BY DEF Refuse, fs, SameStore
<1> QED
  BY <1>1, FinishLocks DEF Refuse

\* Opening a store keeps the lock discipline.
LEMMA OpenLocks ==
  ASSUME TypeInv, TypeInv', LockInv, NEW p \in Proc, Open(p)
  PROVE LockInv'
<1>1. CASE EnsureStateDir(p)
  <2>1. SameStore
    BY <1>1 DEF EnsureStateDir, fs, SameStore
  <2> QED
    BY <1>1, <2>1, ContinueLocks DEF EnsureStateDir, quiet, WriterPc, ReaderPc, SnapshotPc
<1>2. CASE CreateStateDir(p)
  <2>1. CASE Refuse(p, UNAVAILABLE)
    BY <1>2, <2>1, RefuseLocks DEF CreateStateDir, quiet
  <2>2. CASE Continue(p, "mkdir", "sync_state_dir") /\ vis' = vis
    BY <1>2, <2>2, ContinueLocks
    DEF CreateStateDir, quiet, SameStore, WriterPc, ReaderPc, SnapshotPc
  <2> QED
    BY <1>2, <2>1, <2>2 DEF CreateStateDir
<1>3. CASE SyncStateDir(p)
  BY <1>3, ContinueLocks
  DEF SyncStateDir, SyncDirectory, quiet, SameStore, WriterPc, ReaderPc, SnapshotPc
<1>4. CASE SyncParentDir(p)
  BY <1>4, ContinueLocks DEF SyncParentDir, quiet, SameStore, WriterPc, ReaderPc, SnapshotPc
<1>5. CASE StatArtifact(p)
  <2>1. PICK to \in {"stat_journal", "stat_commit", "stat_publish", "open_lock"} :
          /\ pc' = [pc EXCEPT ![p] = to]
          /\ UNCHANGED <<fs, held, cmd, snap, quiet>>
    BY <1>5 DEF StatArtifact, Stat, Goto
  <2>2. SameStore /\ known' = known
    BY <2>1 DEF SameStore, fs, quiet
  <2>3. \A q \in Proc : q # p => Current(q)'
    BY <2>1, <2>2, BystanderCurrent DEF TypeInv, TypeOK, ProcsOK
  <2>4. Current(p)'
    BY <2>1 DEF Current, SnapshotPc, TypeInv, TypeOK, ProcsOK
  <2>5. Exclusion' /\ \A q \in Proc : Holding(q)'
    BY <2>1 DEF LockInv, Exclusion, Holding, TypeInv, TypeOK, ProcsOK, WriterPc, ReaderPc
  <2> QED
    BY <2>3, <2>4, <2>5 DEF LockInv
<1>6. CASE OpenLock(p)
  <2>1. CASE Refuse(p, UNAVAILABLE)
    BY <1>6, <2>1, RefuseLocks DEF OpenLock, quiet
  <2>2. CASE Continue(p, "open_lock", "acquire") /\ SameStore
    BY <1>6, <2>2, ContinueLocks DEF OpenLock, quiet, WriterPc, ReaderPc, SnapshotPc
  <2>3. Create("lock", <<>>) \/ UNCHANGED fs => SameStore
    BY DEF Create, fs, SameStore, TypeInv, TypeOK, FilesOK, Visible
  <2> QED
    BY <1>6, <2>1, <2>2, <2>3 DEF OpenLock
<1>7. CASE AcquireExclusive(p)
  <2>1. CASE Refuse(p, LOCKED)
    BY <1>7, <2>1, RefuseLocks DEF AcquireExclusive, quiet
  <2>2. CASE /\ \A q \in Proc : held[q] = "none"
             /\ held' = [held EXCEPT ![p] = "exclusive"]
             /\ pc' = [pc EXCEPT ![p] = "open_journal"]
             /\ UNCHANGED <<fs, local>>
    <3>1. SameStore /\ known' = known /\ snap' = snap /\ cmd' = cmd
      BY <1>7, <2>2 DEF AcquireExclusive, SameStore, fs, local, quiet
    <3>2. \A q \in Proc : q # p => Current(q)'
      BY <2>2, <3>1, BystanderCurrent DEF TypeInv, TypeOK, ProcsOK
    <3>3. Current(p)'
      BY <2>2 DEF Current, SnapshotPc, TypeInv, TypeOK, ProcsOK
    <3>4. Exclusion'
      BY <2>2 DEF Exclusion, TypeInv, TypeOK, ProcsOK
    <3>5. \A q \in Proc : Holding(q)'
      BY <2>2, <3>1 DEF LockInv, Holding, TypeInv, TypeOK, ProcsOK, ReaderPc
    <3> QED
      BY <3>2, <3>3, <3>4, <3>5 DEF LockInv
  <2> QED
    BY <1>7, <2>1, <2>2 DEF AcquireExclusive
<1>8. CASE OpenJournal(p)
  BY <1>8, ContinueLocks DEF OpenJournal, quiet, WriterPc, ReaderPc, SnapshotPc
<1>9. CASE OpenExisting(p)
  <2> DEFINE verdict == open_existing(vis, "publish" \in seen[p])
  <2>1. ASSUME NEW to \in {"load", "wit_create", "wit_sync"}, Continue(p, "read_store", to)
        PROVE LockInv'
    BY <1>9, <2>1, ContinueLocks DEF OpenExisting, quiet, WriterPc, ReaderPc, SnapshotPc
  <2>2. CASE verdict \notin {OK, "create_witness", "resume_witness"}
    <3>1. Refuse(p, verdict) /\ UNCHANGED quiet
      BY <1>9, <2>2 DEF OpenExisting
    <3> QED
      BY <3>1, RefuseLocks DEF quiet
  <2> QED
    BY <1>9, <2>1, <2>2 DEF OpenExisting, OK
<1>10. CASE SyncLock(p)
  BY <1>10, ContinueLocks DEF SyncLock, quiet, WriterPc, ReaderPc, SnapshotPc
<1>11. CASE SyncJournal(p)
  BY <1>11, ContinueLocks DEF SyncJournal, quiet, WriterPc, ReaderPc, SnapshotPc
<1>12. CASE SyncInitDir(p)
  BY <1>12, ContinueLocks DEF SyncInitDir, quiet, WriterPc, ReaderPc, SnapshotPc
<1>13. CASE CreateWitness(p)
  <2>1. CASE Refuse(p, UNAVAILABLE)
    BY <1>13, <2>1, RefuseLocks DEF CreateWitness, quiet
  <2>2. CASE Continue(p, "wit_create", "wit_write")
    BY <1>13, <2>2, ContinueLocks DEF CreateWitness, quiet, WriterPc, ReaderPc, SnapshotPc
  <2> QED
    BY <1>13, <2>1, <2>2 DEF CreateWitness
<1>14. CASE WriteInitializing(p)
  BY <1>14, ContinueLocks DEF WriteInitializing, quiet, WriterPc, ReaderPc, SnapshotPc
<1>15. CASE SyncInitializing(p)
  BY <1>15, ContinueLocks DEF SyncInitializing, quiet, WriterPc, ReaderPc, SnapshotPc
<1>16. CASE SyncWitnessDir(p)
  BY <1>16, ContinueLocks DEF SyncWitnessDir, quiet, WriterPc, ReaderPc, SnapshotPc
<1> QED
  BY <1>1, <1>2, <1>3, <1>4, <1>5, <1>6, <1>7, <1>8, <1>9, <1>10, <1>11, <1>12, <1>13,
     <1>14, <1>15, <1>16 DEF Open

\* Publishing, appending and releasing keep the lock discipline.
LEMMA WriterLocks ==
  ASSUME TypeInv, TypeInv', LockInv, NEW p \in Proc,
         PublishCommit(p) \/ AppendEvent(p) \/ Release(p)
  PROVE LockInv'
<1>1. CASE OpenTemporary(p)
  BY <1>1, ContinueLocks DEF OpenTemporary, quiet, WriterPc, ReaderPc, SnapshotPc
<1>2. CASE WriteTemporary(p)
  BY <1>2, ContinueLocks DEF WriteTemporary, quiet, WriterPc, ReaderPc, SnapshotPc
<1>3. CASE SyncTemporary(p)
  BY <1>3, ContinueLocks DEF SyncTemporary, quiet, WriterPc, ReaderPc, SnapshotPc
<1>4. CASE RenameCommit(p)
  BY <1>4, ContinueLocks DEF RenameCommit, quiet, WriterPc, ReaderPc, SnapshotPc
<1>5. CASE SyncCommitDir(p)
  BY <1>5, ContinueLocks DEF SyncCommitDir, quiet, WriterPc, ReaderPc, SnapshotPc
<1>6. CASE TruncatePrepared(p)
  BY <1>6, ContinueLocks DEF TruncatePrepared, quiet, WriterPc, ReaderPc, SnapshotPc
<1>7. CASE WritePrepared(p)
  BY <1>7, ContinueLocks DEF WritePrepared, quiet, WriterPc, ReaderPc, SnapshotPc
<1>8. CASE SyncPrepared(p)
  BY <1>8, ContinueLocks DEF SyncPrepared, quiet, WriterPc, ReaderPc, SnapshotPc
<1>9. CASE WriteRecordPart(p)
  BY <1>9, ContinueLocks DEF WriteRecordPart, quiet, WriterPc, ReaderPc, SnapshotPc
<1>10. CASE WriteRecordRest(p)
  BY <1>10, ContinueLocks DEF WriteRecordRest, quiet, WriterPc, ReaderPc, SnapshotPc
<1>11. CASE SyncRecord(p)
  BY <1>11, ContinueLocks DEF SyncRecord, quiet, WriterPc, ReaderPc, SnapshotPc
<1>12. CASE TruncateClean(p)
  BY <1>12, ContinueLocks DEF TruncateClean, quiet, WriterPc, ReaderPc, SnapshotPc
<1>13. CASE WriteClean(p)
  BY <1>13, ContinueLocks DEF WriteClean, quiet, WriterPc, ReaderPc, SnapshotPc
<1>14. CASE RevalidateAppend(p)
  <2>1. ASSUME NEW code, Refuse(p, code)
        PROVE LockInv'
    BY <1>14, <2>1, RefuseLocks DEF RevalidateAppend, quiet
  <2>2. CASE /\ read_snapshot(vis) = OK
             /\ Goto(p, "append", "prep_trunc")
             /\ snap' = [snap EXCEPT ![p] = vis["journal"]]
             /\ UNCHANGED <<fs, cmd, quiet>>
    <3>1. /\ pc[p] = "append" /\ pc' = [pc EXCEPT ![p] = "prep_trunc"]
          /\ UNCHANGED <<vis, held, cmd, known>>
      BY <2>2 DEF Goto, fs, quiet
    <3>2. SameStore
      BY <3>1 DEF SameStore
    <3>3. \A q \in Proc : q # p => Current(q)'
      BY <2>2, <3>1, <3>2, BystanderCurrent DEF TypeInv, TypeOK, ProcsOK
    <3>4. Current(p)'
      BY <2>2, <3>1 DEF LockInv, Current, SnapshotPc, TypeInv, TypeOK, ProcsOK
    <3>5. Exclusion' /\ \A q \in Proc : Holding(q)'
      BY <3>1 DEF LockInv, Exclusion, Holding, TypeInv, TypeOK, ProcsOK, WriterPc, ReaderPc
    <3> QED
      BY <3>3, <3>4, <3>5 DEF LockInv
  <2> QED
    BY <1>14, <2>1, <2>2 DEF RevalidateAppend
<1>15. CASE SyncClean(p)
  <2>1. CASE Continue(p, "clean_sync", "load") /\ known' = known
    BY <1>15, <2>1, ContinueLocks DEF SyncClean, WriterPc, ReaderPc, SnapshotPc
  <2>2. CASE Finish(p, "accepted")
    BY <1>15, <2>2, FinishLocks DEF SyncClean, WriterPc
  <2> QED
    BY <1>15, <2>1, <2>2 DEF SyncClean
<1> QED
  BY <1>1, <1>2, <1>3, <1>4, <1>5, <1>6, <1>7, <1>8, <1>9, <1>10, <1>11, <1>12, <1>13,
     <1>14, <1>15 DEF PublishCommit, AppendEvent, Release

\* Loading, deciding and reading keep the lock discipline.
LEMMA EngineLocks ==
  ASSUME TypeInv, TypeInv', LockInv, NEW p \in Proc, Engine(p) \/ Read(p)
  PROVE LockInv'
<1>1. CASE LoadCommitted(p)
  <2>1. CASE Refuse(p, read_snapshot(vis)) /\ known' = known
    BY <2>1, RefuseLocks
  <2>2. CASE /\ read_snapshot(vis) = OK
             /\ Goto(p, "load", "decide")
             /\ snap' = [snap EXCEPT ![p] = vis["journal"]]
             /\ known' = vis["journal"]
             /\ UNCHANGED <<fs, cmd>>
    <3>1. /\ pc[p] = "load" /\ pc' = [pc EXCEPT ![p] = "decide"]
          /\ UNCHANGED <<vis, held, cmd>>
      BY <2>2 DEF Goto, fs
    <3>2. SameStore
      BY <3>1 DEF SameStore
    <3>3. \A q \in Proc : q # p => Current(q)'
      BY <2>2, <3>1, <3>2, BystanderCurrent DEF TypeInv, TypeOK, ProcsOK
    <3>4. Current(p)'
      BY <2>2, <3>1 DEF Current, TypeInv, TypeOK, ProcsOK
    <3>5. Exclusion' /\ \A q \in Proc : Holding(q)'
      BY <3>1 DEF LockInv, Exclusion, Holding, TypeInv, TypeOK, ProcsOK, WriterPc, ReaderPc
    <3> QED
      BY <3>3, <3>4, <3>5 DEF LockInv
  <2> QED
    BY <1>1, <2>1, <2>2 DEF LoadCommitted
<1>2. CASE Reconcile(p)
  BY <1>2, RefuseLocks DEF Reconcile, quiet
<1>3. CASE Decide(p)
  <2>1. CASE Refuse(p, decision(p))
    BY <1>3, <2>1, RefuseLocks DEF Decide, quiet
  <2>2. CASE Continue(p, "decide", "append") /\ UNCHANGED fs
    <3>1. /\ pc[p] = "decide" /\ cmd[p].op = "submit" /\ pc' = [pc EXCEPT ![p] = "append"]
          /\ UNCHANGED <<vis, held, cmd, snap, known>>
      BY <1>3, <2>2 DEF Decide, Continue, Goto, local, fs, quiet
    <3>2. SameStore
      BY <3>1 DEF SameStore
    <3>3. \A q \in Proc : q # p => Current(q)'
      BY <3>1, <3>2, BystanderCurrent DEF TypeInv, TypeOK, ProcsOK
    <3>4. Current(p)'
      BY <3>1 DEF LockInv, Current, SnapshotPc, TypeInv, TypeOK, ProcsOK
    <3>5. Exclusion' /\ \A q \in Proc : Holding(q)'
      BY <3>1 DEF LockInv, Exclusion, Holding, TypeInv, TypeOK, ProcsOK, WriterPc, ReaderPc
    <3> QED
      BY <3>3, <3>4, <3>5 DEF LockInv
  <2> QED
    BY <1>3, <2>1, <2>2 DEF Decide
<1>4. CASE ReaderOpen(p)
  <2>1. CASE Refuse(p, reader_open(vis))
    BY <1>4, <2>1, RefuseLocks DEF ReaderOpen, quiet
  <2>2. CASE Continue(p, "reader_open", "reader_acquire") /\ UNCHANGED fs
    BY <1>4, <2>2, ContinueLocks
    DEF ReaderOpen, quiet, fs, SameStore, WriterPc, ReaderPc, SnapshotPc
  <2> QED
    BY <1>4, <2>1, <2>2 DEF ReaderOpen
<1>5. CASE AcquireShared(p)
  <2>1. CASE Refuse(p, LOCKED)
    BY <1>5, <2>1, RefuseLocks DEF AcquireShared, quiet
  <2>2. CASE /\ \A q \in Proc : held[q] # "exclusive"
             /\ held' = [held EXCEPT ![p] = "shared"]
             /\ pc' = [pc EXCEPT ![p] = "load"]
             /\ UNCHANGED <<fs, local>>
    <3>1. SameStore /\ known' = known /\ snap' = snap /\ cmd' = cmd /\ pc[p] = "reader_acquire"
      BY <1>5, <2>2 DEF AcquireShared, SameStore, fs, local, quiet
    <3>2. \A q \in Proc : q # p => Current(q)'
      BY <2>2, <3>1, BystanderCurrent DEF TypeInv, TypeOK, ProcsOK
    <3>3. Current(p)'
      BY <2>2 DEF Current, SnapshotPc, TypeInv, TypeOK, ProcsOK
    <3>4. Exclusion'
      BY <2>2 DEF Exclusion, TypeInv, TypeOK, ProcsOK
    <3>5. \A q \in Proc : Holding(q)'
      BY <2>2, <3>1 DEF LockInv, Holding, TypeInv, TypeOK, ProcsOK, ReaderPc, WriterPc
    <3> QED
      BY <3>2, <3>3, <3>4, <3>5 DEF LockInv
  <2> QED
    BY <1>5, <2>1, <2>2 DEF AcquireShared
<1> QED
  BY <1>1, <1>2, <1>3, <1>4, <1>5 DEF Engine, Read

\* Starts, failures, kills and power losses keep the lock discipline.
LEMMA EnvironmentLocks ==
  ASSUME TypeInv, TypeInv', LockInv,
         \/ \E p \in Proc :
              (\E c \in Command : Start(p, c)) \/ IoError(p) \/ ClockError(p) \/ Kill(p)
         \/ PowerLoss
  PROVE LockInv'
<1>1. ASSUME NEW p \in Proc, NEW c \in Command, Start(p, c)
      PROVE LockInv'
  <2>1. SameStore /\ known' = known
    BY <1>1 DEF Start, SameStore, fs, quiet
  <2>2. \A q \in Proc : q # p => Current(q)'
    BY <1>1, <2>1, BystanderCurrent DEF Start, TypeInv, TypeOK, ProcsOK
  <2>3. Current(p)'
    BY <1>1 DEF Start, Current, SnapshotPc, TypeInv, TypeOK, ProcsOK
  <2>4. Exclusion' /\ \A q \in Proc : Holding(q)'
    BY <1>1 DEF Start, LockInv, Exclusion, Holding, TypeInv, TypeOK, ProcsOK, WriterPc, ReaderPc
  <2> QED
    BY <2>2, <2>3, <2>4 DEF LockInv
<1>2. ASSUME NEW p \in Proc, IoError(p) \/ ClockError(p) \/ Kill(p)
      PROVE LockInv'
  BY <1>2, RefuseLocks DEF IoError, ClockError, Kill, quiet
<1>3. CASE PowerLoss
  BY <1>3 DEF PowerLoss, Live, LockInv, Exclusion, Holding, Current, TypeInv, TypeOK, ProcsOK,
     WriterPc, ReaderPc, SnapshotPc
<1> QED
  BY <1>1, <1>2, <1>3

\* Every step keeps the locks and the snapshots they protect.
LEMMA NextLocks ==
  ASSUME TypeInv, LockInv, [Next]_vars
  PROVE LockInv'
<1>0. TypeInv'
  BY NextTypes
<1>1. CASE Next
  BY <1>0, <1>1, OpenLocks, WriterLocks, EngineLocks, EnvironmentLocks DEF Next, Step
<1>2. CASE UNCHANGED vars
  BY <1>2 DEF vars, LockInv, Exclusion, Holding, Current
<1> QED
  BY <1>1, <1>2

\* The advisory lock excludes writers from writers and from readers, although
\* it is only tried, and dropped by every exit, crash and power loss.
THEOREM LocksExclude == Spec => []Exclusion
<1>1. Init => TypeInv /\ LockInv
  BY InitTypes DEF Init, LockInv, Exclusion, Holding, Current, WriterPc, ReaderPc, SnapshotPc
<1>2. TypeInv /\ LockInv /\ [Next]_vars => (TypeInv /\ LockInv)'
  BY NextTypes, NextLocks
<1>3. LockInv => Exclusion
  BY DEF LockInv
<1> QED
  BY <1>1, <1>2, <1>3, PTL DEF Spec

\* From load_committed to the first byte of PREPARED, the snapshot the engine
\* decides on is what the store holds and what clients were last told.
THEOREM SnapshotsStayCurrent == Spec => []SnapshotCurrent
<1>1. Init => TypeInv /\ LockInv
  BY InitTypes DEF Init, LockInv, Exclusion, Holding, Current, WriterPc, ReaderPc, SnapshotPc
<1>2. TypeInv /\ LockInv /\ [Next]_vars => (TypeInv /\ LockInv)'
  BY NextTypes, NextLocks
<1>3. LockInv => SnapshotCurrent
  BY DEF LockInv, Current, SnapshotCurrent, SnapshotPc
<1> QED
  BY <1>1, <1>2, <1>3, PTL DEF Spec

-----------------------------------------------------------------------------
(***************************************************************************)
(* What survives a crash, for every number of processes and power losses.  *)
(*                                                                         *)
(* The argument: at any time the four artifacts are in one of five         *)
(* situations (no commit point, the empty one, a committed history, a      *)
(* record being written, a new commit point renamed into place), each with *)
(* a bound on what every name may fall back to.  A process inside the      *)
(* publication protocol knows which one, by its program counter; when it   *)
(* dies the situation stays and nobody needs to know.                      *)
(***************************************************************************)

-----------------------------------------------------------------------------
(* The situations.                                                         *)

History == {S \in Seq(Entry) : Len(S) <= MaxEntries /\ \A i \in 1 .. Len(S) : S[i].seq = i}

\* The name shows c whatever happens.
Durable(n, c) == data[n] = {c} /\ stale[n] = {}

\* The witnesses of a store that was never released.
Early == {Absent, Torn, initializing}

\* Clients were told exactly S, or all of S but its last entry.
Told(S) == StateDirProvisioned => known = S

Reveals(S) ==
  StateDirProvisioned => known = S \/ (S # <<>> /\ S = Append(known, S[Len(S)]))

NoCommit ==
  /\ data["lock"] \in {{Absent}, {<<>>}} /\ stale["lock"] \subseteq {Absent}
  /\ data["journal"] \in {{Absent}, {<<>>}} /\ stale["journal"] \subseteq {Absent}
  /\ data["commit"] = {Absent} /\ stale["commit"] \subseteq {Absent}
  /\ data["publish"] \subseteq Early /\ stale["publish"] \subseteq Early
  /\ Told(<<>>)

EmptyCommit ==
  /\ Durable("lock", <<>>) /\ Durable("journal", <<>>)
  /\ data["commit"] = {empty} /\ stale["commit"] \subseteq {Absent}
  /\ data["publish"] \subseteq Early /\ stale["publish"] \subseteq Early
  /\ Told(<<>>)

\* The witnesses that may be found beside a commit point over n entries.
Beside(n) == {Torn, prepared(n + 1), clean(n + 1)}
               \cup (IF n < MaxEntries THEN {prepared(n + 2)} ELSE {})

Committed(S) ==
  /\ S \in History
  /\ Durable("lock", <<>>) /\ Durable("journal", S)
  /\ Durable("commit", for_prefix(S, Len(S)))
  /\ data["publish"] \subseteq Beside(Len(S)) /\ stale["publish"] = {}
  /\ Reveals(S)

Writing(S, e) ==
  /\ S \in History /\ Append(S, e) \in History
  /\ Durable("lock", <<>>)
  /\ data["journal"] \subseteq {S, Append(S, Torn), Append(S, e)} /\ stale["journal"] = {}
  /\ Durable("commit", for_prefix(S, Len(S)))
  /\ Durable("publish", prepared(Len(S) + 2))
  /\ Told(S)

Renamed(S, e) ==
  /\ S \in History /\ Append(S, e) \in History
  /\ Durable("lock", <<>>) /\ Durable("journal", Append(S, e))
  /\ data["commit"] = {for_prefix(Append(S, e), Len(S) + 1)}
  /\ stale["commit"] \subseteq {for_prefix(S, Len(S))}
  /\ Durable("publish", prepared(Len(S) + 2))
  /\ Told(S)

Store ==
  \/ NoCommit
  \/ EmptyCommit
  \/ \E S \in History : Committed(S)
  \/ \E S \in History, e \in Entry : Writing(S, e)
  \/ \E S \in History, e \in Entry : Renamed(S, e)

\* A name shows one of the contents its file may have.
Shown == \A n \in Name : vis[n] \in data[n]

-----------------------------------------------------------------------------
(* What a process inside the protocol knows.                               *)

PrepPc == {"prep_trunc", "prep_write", "prep_sync"}
JournalPc == {"jrn_write", "jrn_rest", "jrn_sync"}
TmpPc == {"tmp_open", "tmp_write", "tmp_sync", "rename"}
CleanPc == {"clean_trunc", "clean_write", "clean_sync"}
AppendPc == PrepPc \cup JournalPc \cup TmpPc \cup {"rename_sync"} \cup CleanPc

Modes(p) ==
  /\ mode[p] = "append" => pc[p] \in AppendPc /\ known = snap[p]
  /\ pc[p] \in PrepPc \cup JournalPc => mode[p] = "append"

Opening(p) ==
  /\ pc[p] \in {"sync_lock", "sync_journal", "sync_dir"} =>
       NoCommit /\ data["journal"] = {<<>>}
  /\ pc[p] = "wit_create" => vis["commit"] = empty
  /\ pc[p] = "wit_write" => EmptyCommit /\ vis["publish"] = Torn
  /\ pc[p] = "wit_sync" =>
       vis["publish"] = initializing /\ (EmptyCommit \/ Committed(<<>>))
  /\ pc[p] = "wit_sync_dir" =>
       data["publish"] = {initializing} /\ (EmptyCommit \/ Committed(<<>>))

Publishing(p) ==
  /\ pc[p] = "tmp_sync" => vis["tmp"] = next_point(p)
  /\ pc[p] = "rename" => data["tmp"] = {next_point(p)}

Initializing(p) ==
  mode[p] = "init" =>
    /\ pc[p] \in TmpPc => NoCommit /\ Durable("lock", <<>>) /\ Durable("journal", <<>>)
    /\ pc[p] = "rename_sync" => EmptyCommit
    /\ pc[p] \in CleanPc => Committed(<<>>)
    /\ pc[p] = "clean_trunc" => vis["publish"] = initializing
    /\ pc[p] = "clean_write" => vis["publish"] = Torn

Appending(p) ==
  LET S == snap[p]
      e == next_entry(p)
  IN mode[p] = "append" =>
       /\ S \in History /\ Append(S, e) \in History
       /\ pc[p] \in PrepPc => Committed(S)
       /\ pc[p] = "prep_sync" => vis["publish"] = prepared(Len(S) + 2)
       /\ pc[p] \in JournalPc \cup TmpPc => Writing(S, e)
       /\ pc[p] = "jrn_write" => vis["journal"] = S
       /\ pc[p] = "jrn_rest" => vis["journal"] = Append(S, Torn)
       /\ pc[p] = "jrn_sync" => vis["journal"] = Append(S, e)
       /\ pc[p] \in TmpPc => data["journal"] = {Append(S, e)}
       /\ pc[p] = "rename_sync" => Renamed(S, e)
       /\ pc[p] \in CleanPc => Committed(Append(S, e))

Phase(p) == Modes(p) /\ Opening(p) /\ Publishing(p) /\ Initializing(p) /\ Appending(p)

\* The lock file stays once a process has seen or created it.
LockPc == {"acquire", "open_journal", "sync_lock", "sync_journal", "sync_dir"}

LockSeen(p) ==
  "lock" \in seen[p] \/ pc[p] \in LockPc => data["lock"] = {<<>>}

Provisioned == StateDirProvisioned => dir = "durable"

CrashInv ==
  /\ Shown /\ Store /\ Provisioned
  /\ \A p \in Proc : Phase(p)
  /\ \A p \in Proc : LockSeen(p)

-----------------------------------------------------------------------------
(* What the file-system primitives do, name by name.                       *)

Same(n) == vis'[n] = vis[n] /\ data'[n] = data[n] /\ stale'[n] = stale[n]

\* One lemma per primitive: what it does to its name and that it leaves the
\* other names alone.
LEMMA CreateEffect ==
  ASSUME FilesOK, NEW n \in Name, NEW c, Create(n, c)
  PROVE /\ vis'[n] = c /\ data'[n] = {c} /\ stale'[n] = stale[n] \cup data[n]
        /\ \A m \in Name : m # n => Same(m)
BY DEF FilesOK, Create, Same, Name, Artifact, Visible, Candidates

\* Writing a file.
LEMMA WriteEffect ==
  ASSUME FilesOK, NEW n \in Name, NEW c, NEW part, Write(n, c, part)
  PROVE /\ vis'[n] = c /\ data'[n] = data[n] \cup {part, c} /\ stale'[n] = stale[n]
        /\ \A m \in Name : m # n => Same(m)
BY DEF FilesOK, Write, Same, Name, Artifact, Visible, Candidates

\* Syncing a file.
LEMMA SyncEffect ==
  ASSUME FilesOK, NEW n \in Name, Sync(n)
  PROVE /\ vis'[n] = vis[n] /\ data'[n] = {vis[n]} /\ stale'[n] = stale[n]
        /\ \A m \in Name : m # n => Same(m)
BY DEF FilesOK, Sync, Same, Name, Artifact, Visible, Candidates

\* Syncing the directory: no earlier entry can come back.
LEMMA SyncDirectoryEffect ==
  ASSUME SyncDirectory
  PROVE \A m \in Name : vis'[m] = vis[m] /\ data'[m] = data[m] /\ stale'[m] = {}
BY DEF SyncDirectory

\* Renaming the witness over the committed one.
LEMMA RenameEffect ==
  ASSUME FilesOK, Rename("tmp", "commit")
  PROVE /\ vis'["commit"] = vis["tmp"] /\ data'["commit"] = data["tmp"]
        /\ stale'["commit"] = stale["commit"] \cup data["commit"]
        /\ vis'["tmp"] = Absent /\ data'["tmp"] = {Absent}
        /\ \A m \in Artifact : m # "commit" => Same(m)
BY DEF FilesOK, Rename, Same, Artifact, Visible, Candidates

\* The names, one by one.
LEMMA NamesOfFiles ==
  /\ "lock" \in Artifact /\ "journal" \in Artifact
  /\ "commit" \in Artifact /\ "publish" \in Artifact
  /\ Artifact \subseteq Name /\ "tmp" \in Name
  /\ \A n \in Name : n \in Artifact \/ n = "tmp"
BY DEF Name, Artifact

\* A name always shows one of the contents its file may have.
LEMMA ShownKept ==
  ASSUME FilesOK, Shown
  PROVE /\ \A n \in Name : \A c : Create(n, c) => Shown'
        /\ \A n \in Name : \A c, part : Write(n, c, part) => Shown'
        /\ \A n \in Name : Sync(n) => Shown'
        /\ SyncDirectory => Shown'
        /\ Rename("tmp", "commit") => Shown'
        /\ UNCHANGED fs => Shown'
<1>1. ASSUME NEW n \in Name, NEW c, Create(n, c) PROVE Shown'
  BY <1>1, CreateEffect DEF Shown, Same
<1>2. ASSUME NEW n \in Name, NEW c, NEW part, Write(n, c, part) PROVE Shown'
  BY <1>2, WriteEffect DEF Shown, Same
<1>3. ASSUME NEW n \in Name, Sync(n) PROVE Shown'
  BY <1>3, SyncEffect DEF Shown, Same
<1>4. ASSUME SyncDirectory PROVE Shown'
  BY <1>4, SyncDirectoryEffect DEF Shown
<1>5. ASSUME Rename("tmp", "commit") PROVE Shown'
  BY <1>5, RenameEffect, NamesOfFiles DEF Shown, Same
<1>6. ASSUME UNCHANGED fs PROVE Shown'
  BY <1>6 DEF Shown, fs
<1> QED
  BY <1>1, <1>2, <1>3, <1>4, <1>5, <1>6

\* At most the fall-backs of names are gone.
Calm(names) ==
  \A n \in names : vis'[n] = vis[n] /\ data'[n] = data[n] /\ stale'[n] \in {stale[n], {}}

\* The situations do not depend on how much a directory barrier has made sure.
LEMMA CalmSituations ==
  ASSUME Calm(Artifact), known' = known
  PROVE /\ NoCommit => NoCommit'
        /\ EmptyCommit => EmptyCommit'
        /\ \A S : Committed(S) => Committed(S)'
        /\ \A S, e : Writing(S, e) => Writing(S, e)'
        /\ \A S, e : Renamed(S, e) => Renamed(S, e)'
<1> USE DEF Artifact
<1>1. \A n \in Artifact : /\ vis'[n] = vis[n] /\ data'[n] = data[n]
                          /\ stale'[n] = stale[n] \/ stale'[n] = {}
  BY DEF Calm
<1>2. \A n \in Artifact : \A c : Durable(n, c) => Durable(n, c)'
  BY <1>1 DEF Durable
<1>3. \A S : (Told(S) => Told(S)') /\ (Reveals(S) => Reveals(S)')
  BY DEF Told, Reveals
<1>4. NoCommit => NoCommit'
  BY <1>1, <1>3 DEF NoCommit
<1>5. EmptyCommit => EmptyCommit'
  BY <1>1, <1>2, <1>3 DEF EmptyCommit
<1>6. ASSUME NEW S PROVE Committed(S) => Committed(S)'
  BY <1>1, <1>2, <1>3 DEF Committed
<1>7. ASSUME NEW S, NEW e PROVE Writing(S, e) => Writing(S, e)'
  BY <1>1, <1>2, <1>3 DEF Writing
<1>8. ASSUME NEW S, NEW e PROVE Renamed(S, e) => Renamed(S, e)'
  BY <1>1, <1>2, <1>3 DEF Renamed
<1> QED
  BY <1>4, <1>5, <1>6, <1>7, <1>8

\* Nor does it matter which situation it is.
LEMMA CalmStore ==
  ASSUME Calm(Artifact), known' = known, Store
  PROVE Store'
<1>1. CASE NoCommit
  BY <1>1, CalmSituations DEF Store
<1>2. CASE EmptyCommit
  BY <1>2, CalmSituations DEF Store
<1>3. CASE \E S \in History : Committed(S)
  <2>1. PICK S \in History : Committed(S)
    BY <1>3
  <2>2. Committed(S)'
    BY <2>1, CalmSituations
  <2> QED
    BY <2>2 DEF Store
<1>4. CASE \E S \in History, e \in Entry : Writing(S, e)
  <2>1. PICK S \in History, e \in Entry : Writing(S, e)
    BY <1>4
  <2>2. Writing(S, e)'
    BY <2>1, CalmSituations
  <2> QED
    BY <2>2 DEF Store
<1>5. CASE \E S \in History, e \in Entry : Renamed(S, e)
  <2>1. PICK S \in History, e \in Entry : Renamed(S, e)
    BY <1>5
  <2>2. Renamed(S, e)'
    BY <2>1, CalmSituations
  <2> QED
    BY <2>2 DEF Store
<1> QED
  BY <1>1, <1>2, <1>3, <1>4, <1>5 DEF Store

-----------------------------------------------------------------------------
(* Who knows what after a step of somebody else.                           *)

\* A process outside the protocol claims nothing.
LEMMA IdlePhase ==
  ASSUME NEW q \in Proc, pc'[q] \notin WriterPc, mode'[q] = "init"
  PROVE Phase(q)'
BY DEF Phase, Modes, Opening, Publishing, Initializing, Appending, WriterPc, AppendPc, PrepPc,
   JournalPc, TmpPc, CleanPc

\* A process without the exclusive lock is outside the protocol.
LEMMA LocklessPhase ==
  ASSUME LockInv, NEW q \in Proc, Phase(q), held[q] # "exclusive", mode[q] \in {"init", "append"},
         pc'[q] = pc[q], mode'[q] = mode[q]
  PROVE Phase(q)'
<1>1. pc[q] \notin WriterPc
  BY DEF LockInv, Holding
<1>2. mode[q] # "append"
  BY <1>1 DEF Phase, Modes, AppendPc, PrepPc, JournalPc, TmpPc, CleanPc, WriterPc
<1> QED
  BY <1>1, <1>2, IdlePhase

\* What process p was about to write does not change under it.
LEMMA SamePlan ==
  ASSUME NEW q \in Proc, mode'[q] = mode[q], snap'[q] = snap[q], cmd'[q] = cmd[q]
  PROVE /\ next_entry(q)' = next_entry(q) /\ next_point(q)' = next_point(q)
        /\ clean_witness(q)' = clean_witness(q)
BY DEF next_entry, next_point, clean_witness

\* A step that changes no file leaves a bystander where it was.
LEMMA CalmPhase ==
  ASSUME Calm(Name), known' = known, NEW q \in Proc, Phase(q), pc'[q] = pc[q],
         mode'[q] = mode[q], snap'[q] = snap[q], cmd'[q] = cmd[q]
  PROVE Phase(q)'
<1> USE NamesOfFiles
<1>0. Calm(Artifact)
  BY DEF Calm
<1>1. /\ NoCommit => NoCommit'
      /\ EmptyCommit => EmptyCommit'
      /\ \A S : Committed(S) => Committed(S)'
      /\ \A S, e : Writing(S, e) => Writing(S, e)'
      /\ \A S, e : Renamed(S, e) => Renamed(S, e)'
  BY <1>0, CalmSituations
<1>2. \A n \in Name : /\ vis'[n] = vis[n] /\ data'[n] = data[n]
                      /\ stale'[n] = stale[n] \/ stale'[n] = {}
  BY DEF Calm
<1>3. \A n \in Name : \A c : Durable(n, c) => Durable(n, c)'
  BY <1>2 DEF Durable
<1>4. Modes(q)'
  BY DEF Phase, Modes
<1>5. Opening(q)'
  BY <1>1, <1>2 DEF Phase, Opening
<1>6. Publishing(q)'
  BY <1>2, SamePlan DEF Phase, Publishing
<1>7. Initializing(q)'
  BY <1>1, <1>2, <1>3 DEF Phase, Initializing
<1>8. Appending(q)'
  <2> DEFINE S == snap[q]
             e == next_entry(q)
  <2>1. snap'[q] = S /\ next_entry(q)' = e
    BY SamePlan
  <2> HIDE DEF S, e
  <2>2. Appending(q)
    BY DEF Phase
  <2> QED
    BY <1>1, <1>2, <2>1, <2>2 DEF Appending, S, e
<1> QED
  BY <1>4, <1>5, <1>6, <1>7, <1>8 DEF Phase

\* Nobody but p takes part in the step.
Bystanders(p) ==
  \A q \in Proc \ {p} :
    /\ pc'[q] = pc[q] /\ mode'[q] = mode[q] /\ snap'[q] = snap[q] /\ cmd'[q] = cmd[q]
    /\ seen'[q] = seen[q]

\* A step that changes no file.
LEMMA CalmStep ==
  ASSUME CrashInv, NEW p \in Proc, Bystanders(p), Calm(Name), known' = known,
         Provisioned', Phase(p)', LockSeen(p)'
  PROVE CrashInv'
<1> USE NamesOfFiles
<1>1. Calm(Artifact) /\ data'["lock"] = data["lock"]
  BY DEF Calm
<1>2. Shown'
  BY DEF CrashInv, Shown, Calm
<1>3. Store'
  BY <1>1, CalmStore DEF CrashInv
<1>4. ASSUME NEW q \in Proc PROVE Phase(q)'
  BY CalmPhase DEF CrashInv, Bystanders
<1>5. ASSUME NEW q \in Proc PROVE LockSeen(q)'
  BY <1>1 DEF CrashInv, Bystanders, LockSeen
<1> QED
  BY <1>2, <1>3, <1>4, <1>5 DEF CrashInv

\* A step of a process that holds the lock: nobody else is in the protocol.
LEMMA HolderStep ==
  ASSUME TypeInv, LockInv, CrashInv, NEW p \in Proc, Bystanders(p), held[p] # "none",
         data'["lock"] = data["lock"], Shown', Store', Provisioned', Phase(p)', LockSeen(p)'
  PROVE CrashInv'
<1>1. ASSUME NEW q \in Proc PROVE Phase(q)'
  <2>1. CASE q = p
    BY <2>1
  <2>2. CASE q # p
    <3>1. held[q] # "exclusive" /\ mode[q] \in {"init", "append"}
      BY <2>2 DEF LockInv, Exclusion, TypeInv, TypeOK, ProcsOK
    <3> QED
      BY <2>2, <3>1, LocklessPhase DEF CrashInv, Bystanders
  <2> QED
    BY <2>1, <2>2
<1>2. ASSUME NEW q \in Proc PROVE LockSeen(q)'
  BY DEF CrashInv, Bystanders, LockSeen
<1> QED
  BY <1>1, <1>2 DEF CrashInv

\* Processes that do not act, for the two ways a process acts.
LEMMA ContinueEffect ==
  ASSUME TypeInv, NEW p \in Proc, NEW from, NEW to, Continue(p, from, to)
  PROVE /\ Bystanders(p) /\ pc[p] = from /\ pc'[p] = to /\ mode'[p] = mode[p]
        /\ snap'[p] = snap[p] /\ cmd'[p] = cmd[p] /\ seen'[p] = seen[p] /\ held' = held
BY DEF TypeInv, TypeOK, ProcsOK, Continue, Goto, local, Bystanders

\* A process that answers leaves the protocol.
LEMMA FinishEffect ==
  ASSUME TypeInv, NEW p \in Proc, NEW answer, Finish(p, answer)
  PROVE /\ Bystanders(p) /\ pc'[p] = "done" /\ mode'[p] = "init" /\ seen'[p] = {}
        /\ Phase(p)' /\ LockSeen(p)'
<1>1. /\ Bystanders(p) /\ pc'[p] = "done" /\ mode'[p] = "init" /\ seen'[p] = {}
  BY DEF TypeInv, TypeOK, ProcsOK, Finish, Bystanders
<1>2. Phase(p)'
  BY <1>1, IdlePhase DEF WriterPc
<1>3. LockSeen(p)'
  BY <1>1 DEF LockSeen, LockPc
<1> QED
  BY <1>1, <1>2, <1>3

\* A refusal, an error or a kill leaves the files as they are.
LEMMA RefuseCrash ==
  ASSUME TypeInv, CrashInv, NEW p \in Proc, NEW code, Refuse(p, code), known' = known
  PROVE CrashInv'
<1>1. Calm(Name) /\ Provisioned'
  BY DEF Refuse, fs, Calm, CrashInv, Provisioned
<1>2. Bystanders(p) /\ Phase(p)' /\ LockSeen(p)'
  BY FinishEffect DEF Refuse
<1> QED
  BY <1>1, <1>2, CalmStep

-----------------------------------------------------------------------------
(* The documents of the protocol.                                          *)

\* The commit point over a history.
LEMMA PointOfHistory ==
  ASSUME NEW S \in History
  PROVE LET c == for_prefix(S, Len(S)) IN
        /\ c \in CommitPoint /\ c \notin {Absent, Torn}
        /\ c.generation = Len(S) + 1 /\ c.bytes = Len(S) /\ c.entries = Len(S) /\ c.digest = S
        /\ c.version = STORE_METADATA_VERSION /\ decode_commit(c) = OK
<1> DEFINE c == for_prefix(S, Len(S))
<1>1. S \in Seq(Entry) /\ Len(S) \in Nat /\ Len(S) <= MaxEntries
  BY DEF History
<1>2. S \in Seq(Cell)
  BY <1>1 DEF Cell
<1>3. /\ c.generation = Len(S) + 1 /\ c.bytes = Len(S) /\ c.entries = Len(S) /\ c.digest = S
      /\ c.version = STORE_METADATA_VERSION
  BY DEF for_prefix
<1>4. c \in CommitPoint
  BY <1>1, <1>2 DEF for_prefix, CommitPoint
<1>5. c \notin {Absent, Torn}
  BY <1>4, FileConstants
<1> HIDE DEF c
<1>6. decode_commit(c) = OK
  BY <1>1, <1>3, <1>5, MaxEntriesIsPositive DEF decode_commit
<1> QED
  BY <1>3, <1>4, <1>5, <1>6 DEF c

\* The commit point of a fresh store.
LEMMA EmptyPoint ==
  /\ <<>> \in History /\ Len(<<>>) = 0 /\ empty = for_prefix(<<>>, Len(<<>>))
  /\ empty \in CommitPoint /\ empty # Absent /\ empty # Torn
  /\ \A S \in History : for_prefix(S, Len(S)) = empty => S = <<>>
<1>1. <<>> \in History /\ Len(<<>>) = 0
  BY MaxEntriesIsPositive DEF History
<1>2. empty = for_prefix(<<>>, Len(<<>>))
  BY <1>1 DEF empty
<1>3. empty.digest = <<>>
  BY DEF empty, for_prefix
<1>4. ASSUME NEW S \in History, for_prefix(S, Len(S)) = empty PROVE S = <<>>
  BY <1>3, <1>4, PointOfHistory
<1> QED
  BY <1>1, <1>2, <1>4, PointOfHistory

\* The witnesses.
LEMMA InitializingWitness ==
  /\ initializing \in PublishWitness /\ initializing # Absent /\ initializing # Torn
  /\ is_initializing(initializing) /\ initializing = prepared(1)
  /\ decode_publish(initializing) = OK
  /\ \A w \in PublishWitness : is_initializing(w) => w = initializing
<1>1. initializing \in PublishWitness /\ initializing = prepared(1)
      /\ is_initializing(initializing)
  BY DEF initializing, prepared, witness, PublishWitness, is_initializing
<1>2. initializing # Absent /\ initializing # Torn
  BY <1>1, FileConstants
<1>3. initializing.version = 2 /\ initializing.started = 1 /\ initializing.published = 0
  BY DEF initializing, witness, STORE_METADATA_VERSION
<1>4. decode_publish(initializing) = OK
  BY <1>1, <1>2, <1>3, MaxEntriesIsPositive DEF decode_publish, STORE_METADATA_VERSION
<1>5. ASSUME NEW w \in PublishWitness, is_initializing(w) PROVE w = initializing
  BY <1>5 DEF PublishWitness, is_initializing, initializing, witness
<1> QED
  BY <1>1, <1>2, <1>4, <1>5

\* The PREPARED witness of an append.
LEMMA PreparedWitness ==
  ASSUME NEW n \in Nat
  PROVE LET w == prepared(n + 2) IN
        /\ w \in PublishWitness /\ w # Absent /\ w # Torn
        /\ w.started = n + 2 /\ w.published = n + 1
        /\ is_prepared_successor(w) /\ ~is_initializing(w) /\ w # initializing
        /\ n < MaxEntries => decode_publish(w) = OK
<1> DEFINE w == prepared(n + 2)
<1>1. w \in PublishWitness /\ w.started = n + 2 /\ w.published = n + 1 /\ w.version = 2
  BY DEF prepared, witness, PublishWitness, STORE_METADATA_VERSION
<1>2. w # Absent /\ w # Torn
  BY <1>1, FileConstants
<1> HIDE DEF w
<1>3. is_prepared_successor(w) /\ ~is_initializing(w)
  BY <1>1 DEF is_prepared_successor, is_initializing
<1>4. w # initializing
  BY <1>3, InitializingWitness
<1>5. n < MaxEntries => decode_publish(w) = OK
  BY <1>1, <1>2, <1>3, MaxEntriesIsPositive DEF decode_publish, STORE_METADATA_VERSION
<1> QED
  BY <1>1, <1>2, <1>3, <1>4, <1>5 DEF w

\* The CLEAN witness of a released generation.
LEMMA CleanWitness ==
  ASSUME NEW n \in Nat
  PROVE LET w == clean(n + 1) IN
        /\ w \in PublishWitness /\ w # Absent /\ w # Torn
        /\ ~is_prepared_successor(w) /\ ~is_initializing(w) /\ w # initializing
        /\ n <= MaxEntries => decode_publish(w) = OK
<1> DEFINE w == clean(n + 1)
<1>1. w \in PublishWitness /\ w.started = n + 1 /\ w.published = n + 1 /\ w.version = 2
  BY DEF clean, witness, PublishWitness, STORE_METADATA_VERSION
<1>2. w # Absent /\ w # Torn
  BY <1>1, FileConstants
<1> HIDE DEF w
<1>3. ~is_prepared_successor(w) /\ ~is_initializing(w) /\ is_clean(w)
  BY <1>1 DEF is_prepared_successor, is_initializing, is_clean
<1>4. w # initializing
  BY <1>3, InitializingWitness
<1>5. n <= MaxEntries => decode_publish(w) = OK
  BY <1>1, <1>2, <1>3, MaxEntriesIsPositive DEF decode_publish, STORE_METADATA_VERSION
<1> QED
  BY <1>1, <1>2, <1>3, <1>4, <1>5 DEF w

-----------------------------------------------------------------------------
(* What the visible artifacts say about the situation.                     *)

\* A missing artifact: nothing has been committed.
LEMMA MissingArtifact ==
  ASSUME Shown, Store, vis["lock"] = Absent \/ vis["journal"] = Absent \/ vis["commit"] = Absent
  PROVE NoCommit
<1> USE NamesOfFiles
<1>0. Absent # <<>> /\ \A S \in History : Absent # S
  <2>1. \A S \in History : S \in Seq(Cell)
    BY DEF History, Cell
  <2> QED
    BY <2>1, FileConstants, EmptyPoint
<1>1. vis["lock"] \in data["lock"] /\ vis["journal"] \in data["journal"]
      /\ vis["commit"] \in data["commit"]
  BY DEF Shown
<1>2. EmptyCommit => FALSE
  BY <1>0, <1>1, EmptyPoint DEF EmptyCommit, Durable
<1>3. ASSUME NEW S \in History, Committed(S) PROVE FALSE
  BY <1>0, <1>1, <1>3, PointOfHistory DEF Committed, Durable
<1>4. ASSUME NEW S \in History, NEW e \in Entry, Writing(S, e) PROVE FALSE
  <2>1. Append(S, e) \in History /\ Append(S, Torn) \in Seq(Cell)
    BY <1>4 DEF Writing, History, Cell
  <2> QED
    BY <1>0, <1>1, <1>4, <2>1, PointOfHistory, FileConstants DEF Writing, Durable
<1>5. ASSUME NEW S \in History, NEW e \in Entry, Renamed(S, e) PROVE FALSE
  <2>1. Append(S, e) \in History /\ Len(Append(S, e)) = Len(S) + 1
    BY <1>5 DEF Renamed, History
  <2> QED
    BY <1>0, <1>1, <1>5, <2>1, PointOfHistory DEF Renamed, Durable
<1> QED
  BY <1>2, <1>3, <1>4, <1>5 DEF Store

\* A lock file that is there stays.
LEMMA LockThere ==
  ASSUME Shown, Store, vis["lock"] # Absent
  PROVE data["lock"] = {<<>>}
<1>1. vis["lock"] \in data["lock"]
  BY NamesOfFiles DEF Shown
<1> QED
  BY <1>1 DEF Store, NoCommit, EmptyCommit, Committed, Writing, Renamed, Durable

\* An exactly empty commit point beside no witness, or beside INITIALIZING.
LEMMA EmptyPointThere ==
  ASSUME Shown, Store, vis["commit"] = empty
  PROVE /\ vis["publish"] = Absent => EmptyCommit
        /\ vis["publish"] = initializing => EmptyCommit \/ Committed(<<>>)
<1> USE NamesOfFiles
<1>1. vis["commit"] \in data["commit"] /\ vis["publish"] \in data["publish"]
  BY DEF Shown
<1>2. ~NoCommit
  BY <1>1, EmptyPoint DEF NoCommit
<1>3. ASSUME NEW S \in History, Committed(S)
      PROVE S = <<>> /\ vis["publish"] # Absent
  <2>1. S = <<>>
    BY <1>1, <1>3, EmptyPoint DEF Committed, Durable
  <2>2. Beside(Len(S)) \subseteq {Torn, prepared(1), clean(0 + 1), prepared(0 + 2)}
    BY <2>1, EmptyPoint DEF Beside
  <2>3. Absent \notin Beside(Len(S))
    BY <2>2, CleanWitness, PreparedWitness, InitializingWitness, FileConstants
  <2> QED
    BY <1>1, <1>3, <2>1, <2>3 DEF Committed
<1>4. ASSUME NEW S \in History, NEW e \in Entry, Writing(S, e) \/ Renamed(S, e)
      PROVE vis["publish"] # Absent /\ vis["publish"] # initializing
  <2>1. vis["publish"] = prepared(Len(S) + 2)
    BY <1>1, <1>4 DEF Writing, Renamed, Durable
  <2>2. Len(S) \in Nat
    BY DEF History
  <2> QED
    BY <2>1, <2>2, PreparedWitness
<1> QED
  BY <1>2, <1>3, <1>4 DEF Store

\* Whatever reads as a snapshot is a committed history.
LEMMA SnapshotSituation ==
  ASSUME Shown, Store, FilesOK, read_snapshot(vis) = OK
  PROVE \E S \in History : /\ Committed(S) /\ vis["journal"] = S
                           /\ vis["commit"] = for_prefix(S, Len(S))
<1> USE NamesOfFiles
<1>1. /\ vis["commit"] \in data["commit"] /\ vis["publish"] \in data["publish"]
      /\ vis["journal"] \in data["journal"]
  BY DEF Shown
<1>2. vis.commit # Absent /\ vis.publish # Absent /\ vis.publish # Torn
      /\ ~is_initializing(vis.publish)
  BY DEF read_snapshot, decode_metadata, decode_publish, OK, UNAVAILABLE, CORRUPT
<1>3. ~is_prepared_successor(vis.publish)
  BY <1>2 DEF read_snapshot, read_prepared, require_prepared_commit_relation, OK, CORRUPT,
     OUTCOME_UNKNOWN, UNAVAILABLE
<1>4. ~NoCommit
  BY <1>1, <1>2 DEF NoCommit
<1>5. ~EmptyCommit
  BY <1>1, <1>2, InitializingWitness DEF EmptyCommit, Early
<1>6. ASSUME NEW S \in History, NEW e \in Entry, Writing(S, e) \/ Renamed(S, e) PROVE FALSE
  <2>1. vis["publish"] = prepared(Len(S) + 2) /\ Len(S) \in Nat
    BY <1>1, <1>6 DEF Writing, Renamed, Durable, History
  <2> QED
    BY <1>3, <2>1, PreparedWitness
<1>7. PICK S \in History : Committed(S)
  BY <1>4, <1>5, <1>6 DEF Store
<1>8. vis["journal"] = S /\ vis["commit"] = for_prefix(S, Len(S))
  BY <1>1, <1>7 DEF Committed, Durable
<1> QED
  BY <1>7, <1>8

-----------------------------------------------------------------------------
(* Steps outside the exclusive lock.                                       *)

\* A step of p, outside the protocol before and after, that changes no file.
LEMMA OutsideStep ==
  ASSUME CrashInv, NEW p \in Proc, NEW to, Calm(Name), known' = known, Provisioned',
         Bystanders(p), pc'[p] = to, mode'[p] = mode[p], mode[p] = "init",
         to \notin WriterPc \cup LockPc, "lock" \in seen'[p] => data["lock"] = {<<>>}
  PROVE CrashInv'
<1>1. Phase(p)'
  BY IdlePhase
<1>2. LockSeen(p)'
  BY NamesOfFiles DEF LockSeen, Calm
<1> QED
  BY <1>1, <1>2, CalmStep

\* A process outside the append is not in its mode.
LEMMA InitMode ==
  ASSUME TypeInv, CrashInv, NEW p \in Proc, pc[p] \notin AppendPc
  PROVE mode[p] = "init"
BY DEF TypeInv, TypeOK, ProcsOK, CrashInv, Phase, Modes

\* A request starts.
LEMMA StartCrash ==
  ASSUME TypeInv, CrashInv, NEW p \in Proc, NEW c \in Command, Start(p, c)
  PROVE CrashInv'
<1>1. pc[p] = "idle" /\ mode[p] = "init"
  BY InitMode DEF Start, AppendPc, PrepPc, JournalPc, TmpPc, CleanPc
<1>2. /\ Calm(Name) /\ known' = known /\ Provisioned' /\ mode' = mode /\ seen' = seen
      /\ Bystanders(p)
  BY DEF Start, fs, quiet, Calm, CrashInv, Provisioned, Bystanders, TypeInv, TypeOK, ProcsOK
<1>3. pc'[p] \in {"ensure_dir", "reader_open"}
  BY DEF Start, TypeInv, TypeOK, ProcsOK
<1>4. "lock" \in seen[p] => data["lock"] = {<<>>}
  BY DEF CrashInv, LockSeen
<1> QED
  BY <1>1, <1>2, <1>3, <1>4, OutsideStep DEF WriterPc, LockPc

\* Until the lock is taken.
LEMMA ApproachCrash ==
  ASSUME TypeInv, CrashInv, NEW p \in Proc,
         \/ EnsureStateDir(p) \/ CreateStateDir(p) \/ SyncStateDir(p) \/ SyncParentDir(p)
         \/ StatArtifact(p) \/ ReaderOpen(p)
  PROVE CrashInv'
<1> DEFINE Outside == {"ensure_dir", "mkdir", "sync_state_dir", "sync_parent_dir", "stat_lock",
                       "stat_journal", "stat_commit", "stat_publish", "open_lock",
                       "reader_open", "reader_acquire"}
<1>1. Outside \cap (WriterPc \cup LockPc \cup AppendPc) = {}
  BY DEF WriterPc, LockPc, AppendPc, PrepPc, JournalPc, TmpPc, CleanPc
<1>2. "lock" \in seen[p] => data["lock"] = {<<>>}
  BY DEF CrashInv, LockSeen
<1>3. ASSUME NEW from \in Outside, NEW to \in Outside, Continue(p, from, to),
             Calm(Name), Provisioned', known' = known
      PROVE CrashInv'
  <2>1. /\ Bystanders(p) /\ pc[p] = from /\ pc'[p] = to /\ mode'[p] = mode[p]
        /\ seen'[p] = seen[p]
    BY <1>3, ContinueEffect
  <2> HIDE DEF Outside
  <2>2. from \notin AppendPc /\ to \notin WriterPc \cup LockPc
    BY <1>1, <1>3
  <2> QED
    BY <1>2, <1>3, <2>1, <2>2, InitMode, OutsideStep
<1>4. Provisioned /\ (UNCHANGED fs => Calm(Name) /\ Provisioned')
  BY DEF CrashInv, fs, Calm, Provisioned
<1>5. CASE EnsureStateDir(p)
  <2>1. PICK to \in Outside : Continue(p, "ensure_dir", to)
    BY <1>5 DEF EnsureStateDir
  <2> QED
    BY <1>3, <1>4, <1>5, <2>1 DEF EnsureStateDir, quiet
<1>6. CASE CreateStateDir(p)
  <2>1. CASE Refuse(p, UNAVAILABLE)
    BY <1>6, <2>1, RefuseCrash DEF CreateStateDir, quiet
  <2>2. CASE /\ dir = "absent" /\ Continue(p, "mkdir", "sync_state_dir")
             /\ UNCHANGED <<vis, data, stale>>
    <3>1. Calm(Name) /\ Provisioned' /\ known' = known
      BY <1>4, <1>6, <2>2 DEF CreateStateDir, Calm, Provisioned, quiet
    <3> QED
      BY <1>3, <2>2, <3>1
  <2> QED
    BY <1>6, <2>1, <2>2 DEF CreateStateDir
<1>7. CASE SyncStateDir(p)
  <2>1. Calm(Name) /\ Provisioned' /\ known' = known
    BY <1>4, <1>7, SyncDirectoryEffect DEF SyncStateDir, Calm, Provisioned, quiet
  <2> QED
    BY <1>3, <1>7, <2>1 DEF SyncStateDir
<1>8. CASE SyncParentDir(p)
  <2>1. Calm(Name) /\ Provisioned' /\ known' = known
    BY <1>8 DEF SyncParentDir, Calm, Provisioned, quiet
  <2> QED
    BY <1>3, <1>8, <2>1 DEF SyncParentDir
<1>9. CASE StatArtifact(p)
  <2>1. PICK n \in Artifact, from \in Outside, to \in Outside : Stat(p, n, from, to)
    BY <1>9 DEF StatArtifact, Artifact
  <2>2. /\ Calm(Name) /\ Provisioned' /\ known' = known /\ pc[p] = from /\ pc'[p] = to
        /\ Bystanders(p) /\ mode' = mode
    BY <1>4, <2>1 DEF Stat, Goto, quiet, Bystanders, TypeInv, TypeOK, ProcsOK
  <2>3. "lock" \in seen'[p] => "lock" \in seen[p] \/ vis["lock"] # Absent
    BY <2>1 DEF Stat, TypeInv, TypeOK, ProcsOK
  <2>4. "lock" \in seen'[p] => data["lock"] = {<<>>}
    BY <1>2, <2>3, LockThere DEF CrashInv
  <2> HIDE DEF Outside
  <2>5. from \notin AppendPc /\ to \notin WriterPc \cup LockPc
    BY <1>1
  <2> QED
    BY <2>2, <2>4, <2>5, InitMode, OutsideStep
<1>10. CASE ReaderOpen(p)
  <2>1. CASE Refuse(p, reader_open(vis))
    BY <1>10, <2>1, RefuseCrash DEF ReaderOpen, quiet
  <2>2. CASE Continue(p, "reader_open", "reader_acquire") /\ UNCHANGED fs
    BY <1>3, <1>4, <1>10, <2>2 DEF ReaderOpen, quiet
  <2> QED
    BY <1>10, <2>1, <2>2 DEF ReaderOpen
<1> QED
  BY <1>5, <1>6, <1>7, <1>8, <1>9, <1>10

\* The creation of the lock file, the one write outside the lock.
LEMMA CreateLockCrash ==
  ASSUME TypeInv, CrashInv, NEW p \in Proc, Continue(p, "open_lock", "acquire"),
         vis["lock"] = Absent, Create("lock", <<>>), UNCHANGED <<dir, known>>
  PROVE CrashInv'
<1> USE NamesOfFiles
<1>0. FilesOK /\ Absent # <<>>
  <2>1. <<>> \in Seq(Cell)
    OBVIOUS
  <2> QED
    BY <2>1, FileConstants DEF TypeInv, TypeOK
<1>1. /\ vis'["lock"] = <<>> /\ data'["lock"] = {<<>>}
      /\ stale'["lock"] = stale["lock"] \cup data["lock"]
      /\ \A m \in Name : m # "lock" => Same(m)
  BY <1>0, CreateEffect
<1>2. /\ Bystanders(p) /\ pc[p] = "open_lock" /\ pc'[p] = "acquire" /\ mode'[p] = mode[p]
      /\ seen'[p] = seen[p]
  BY ContinueEffect
<1>3. NoCommit /\ data["lock"] = {Absent}
  <2>1. NoCommit /\ vis["lock"] \in data["lock"]
    BY MissingArtifact DEF CrashInv, Shown
  <2> QED
    BY <1>0, <2>1 DEF NoCommit
<1>4. NoCommit'
  BY <1>1, <1>3 DEF NoCommit, Same, Told
<1>5. Shown'
  BY <1>0, ShownKept DEF CrashInv
<1>6. ASSUME NEW q \in Proc PROVE LockSeen(q)'
  <2>1. data'["lock"] = {<<>>}
    BY <1>1
  <2> QED
    BY <2>1 DEF LockSeen
<1>7. Phase(p)'
  <2>1. mode[p] = "init"
    BY <1>2, InitMode DEF AppendPc, PrepPc, JournalPc, TmpPc, CleanPc
  <2> QED
    BY <1>2, <2>1, IdlePhase DEF WriterPc
<1>8. ASSUME NEW q \in Proc, q # p PROVE Phase(q)'
  <2>1. /\ pc'[q] = pc[q] /\ mode'[q] = mode[q] /\ snap'[q] = snap[q] /\ cmd'[q] = cmd[q]
    BY <1>2, <1>8 DEF Bystanders
  <2>2. /\ ~Durable("lock", <<>>) /\ ~EmptyCommit /\ \A S : ~Committed(S)
        /\ \A S, e : ~Writing(S, e) /\ ~Renamed(S, e)
    BY <1>0, <1>3 DEF Durable, EmptyCommit, Committed, Writing, Renamed
  <2>3. Modes(q) /\ Opening(q) /\ Publishing(q) /\ Initializing(q) /\ Appending(q)
    BY DEF CrashInv, Phase
  <2>4. mode[q] # "append"
    BY <2>2, <2>3 DEF Modes, Appending, AppendPc
  <2>5. Modes(q)' /\ Appending(q)'
    BY <2>1, <2>3, <2>4 DEF Modes, Appending
  <2>6. Opening(q)'
    BY <1>1, <1>4, <2>1, <2>2, <2>3 DEF Opening, Same
  <2>7. Publishing(q)'
    BY <1>1, <2>1, <2>3, SamePlan DEF Publishing, Same
  <2>8. Initializing(q)'
    BY <2>1, <2>2, <2>3 DEF Initializing, CleanPc
  <2> QED
    BY <2>5, <2>6, <2>7, <2>8 DEF Phase
<1> QED
  BY <1>4, <1>5, <1>6, <1>7, <1>8 DEF CrashInv, Store, Provisioned

\* Taking a lock, of either kind.
LEMMA AcquireCrash ==
  ASSUME TypeInv, CrashInv, NEW p \in Proc,
         OpenLock(p) \/ AcquireExclusive(p) \/ AcquireShared(p)
  PROVE CrashInv'
<1>0. ASSUME NEW from \in {"open_lock", "acquire", "reader_acquire"},
             NEW to \in {"acquire", "open_journal", "load"}, pc[p] = from, pc'[p] = to,
             to # "load" => "lock" \in seen[p] \/ from = "acquire",
             Bystanders(p), mode'[p] = mode[p], seen'[p] = seen[p], UNCHANGED <<fs, known>>
      PROVE CrashInv'
  <2>1. Calm(Name) /\ Provisioned' /\ data' = data
    BY <1>0 DEF fs, Calm, Provisioned, CrashInv
  <2>2. mode[p] = "init"
    BY <1>0, InitMode DEF AppendPc, PrepPc, JournalPc, TmpPc, CleanPc
  <2>3. LockSeen(p)'
    BY <1>0, <2>1 DEF CrashInv, LockSeen, LockPc
  <2>4. Phase(p)'
    BY <1>0, <2>2 DEF Phase, Modes, Opening, Publishing, Initializing, Appending, AppendPc,
       PrepPc, JournalPc, TmpPc, CleanPc
  <2> QED
    BY <1>0, <2>1, <2>3, <2>4, CalmStep
<1>1. CASE OpenLock(p)
  <2>1. CASE Refuse(p, UNAVAILABLE)
    BY <1>1, <2>1, RefuseCrash DEF OpenLock, quiet
  <2>2. CASE "lock" \in seen[p] /\ Continue(p, "open_lock", "acquire") /\ UNCHANGED fs
    <3>1. /\ pc[p] = "open_lock" /\ pc'[p] = "acquire" /\ Bystanders(p)
          /\ mode'[p] = mode[p] /\ seen'[p] = seen[p] /\ UNCHANGED <<fs, known>>
      BY <1>1, <2>2, ContinueEffect DEF OpenLock, quiet
    <3> QED
      BY <1>0, <2>2, <3>1
  <2>3. CASE /\ vis["lock"] = Absent /\ Continue(p, "open_lock", "acquire")
             /\ Create("lock", <<>>) /\ UNCHANGED dir
    BY <1>1, <2>3, CreateLockCrash DEF OpenLock, quiet
  <2> QED
    BY <1>1, <2>1, <2>2, <2>3 DEF OpenLock
<1>2. CASE AcquireExclusive(p)
  <2>1. CASE Refuse(p, LOCKED)
    BY <1>2, <2>1, RefuseCrash DEF AcquireExclusive, quiet
  <2>2. CASE pc' = [pc EXCEPT ![p] = "open_journal"] /\ UNCHANGED <<fs, local>>
    <3>1. /\ pc[p] = "acquire" /\ pc'[p] = "open_journal" /\ Bystanders(p)
          /\ mode'[p] = mode[p] /\ seen'[p] = seen[p] /\ UNCHANGED <<fs, known>>
      BY <1>2, <2>2 DEF AcquireExclusive, TypeInv, TypeOK, ProcsOK, local, quiet, Bystanders
    <3> QED
      BY <1>0, <3>1
  <2> QED
    BY <1>2, <2>1, <2>2 DEF AcquireExclusive
<1>3. CASE AcquireShared(p)
  <2>1. CASE Refuse(p, LOCKED)
    BY <1>3, <2>1, RefuseCrash DEF AcquireShared, quiet
  <2>2. CASE pc' = [pc EXCEPT ![p] = "load"] /\ UNCHANGED <<fs, local>>
    <3>1. /\ pc[p] = "reader_acquire" /\ pc'[p] = "load" /\ Bystanders(p)
          /\ mode'[p] = mode[p] /\ seen'[p] = seen[p] /\ UNCHANGED <<fs, known>>
      BY <1>3, <2>2 DEF AcquireShared, TypeInv, TypeOK, ProcsOK, local, quiet, Bystanders
    <3> QED
      BY <1>0, <3>1
  <2> QED
    BY <1>3, <2>1, <2>2 DEF AcquireShared
<1> QED
  BY <1>1, <1>2, <1>3

-----------------------------------------------------------------------------
(* The engine, failures and power losses.                                  *)

\* Loading tells the client exactly the committed history.
LEMMA EngineCrash ==
  ASSUME TypeInv, LockInv, CrashInv, NEW p \in Proc, Engine(p)
  PROVE CrashInv'
<1>1. CASE LoadCommitted(p)
  <2>1. CASE Refuse(p, read_snapshot(vis)) /\ known' = known
    BY <2>1, RefuseCrash
  <2>2. CASE /\ read_snapshot(vis) = OK /\ Goto(p, "load", "decide")
             /\ known' = vis["journal"] /\ UNCHANGED <<fs, cmd, seen, mode>>
             /\ snap' = [snap EXCEPT ![p] = vis["journal"]]
    <3>1. PICK S \in History : Committed(S) /\ vis["journal"] = S
      BY <2>2, SnapshotSituation DEF CrashInv, TypeInv, TypeOK
    <3>2. Committed(S)'
      BY <2>2, <3>1 DEF Committed, Durable, Reveals, fs
    <3>3. /\ Bystanders(p) /\ pc[p] = "load" /\ pc'[p] = "decide" /\ mode'[p] = mode[p]
          /\ seen'[p] = seen[p]
      BY <2>2 DEF Goto, Bystanders, TypeInv, TypeOK, ProcsOK
    <3>4. held[p] # "none" /\ mode[p] = "init"
      BY <3>3, InitMode DEF LockInv, Holding, AppendPc, PrepPc, JournalPc, TmpPc, CleanPc
    <3>5. Phase(p)'
      BY <3>3, <3>4, IdlePhase DEF WriterPc
    <3>6. Shown' /\ Provisioned' /\ data' = data
      BY <2>2 DEF CrashInv, Shown, Provisioned, fs
    <3>7. LockSeen(p)'
      BY <3>3, <3>6 DEF CrashInv, LockSeen, LockPc
    <3>8. Store'
      BY <3>2 DEF Store
    <3> QED
      BY <3>3, <3>4, <3>5, <3>6, <3>7, <3>8, HolderStep
  <2> QED
    BY <1>1, <2>1, <2>2 DEF LoadCommitted
<1>2. CASE Reconcile(p)
  BY <1>2, RefuseCrash DEF Reconcile, quiet
<1>3. CASE Decide(p)
  <2>1. CASE Refuse(p, decision(p))
    BY <1>3, <2>1, RefuseCrash DEF Decide, quiet
  <2>2. CASE Continue(p, "decide", "append") /\ UNCHANGED fs
    <3>1. /\ Bystanders(p) /\ pc[p] = "decide" /\ pc'[p] = "append" /\ mode'[p] = mode[p]
          /\ seen'[p] = seen[p]
      BY <2>2, ContinueEffect
    <3>2. mode[p] = "init"
      BY <3>1, InitMode DEF AppendPc, PrepPc, JournalPc, TmpPc, CleanPc
    <3>3. Phase(p)'
      BY <3>1, <3>2 DEF Phase, Modes, Opening, Publishing, Initializing, Appending, AppendPc,
         PrepPc, JournalPc, TmpPc, CleanPc
    <3>4. Calm(Name) /\ Provisioned' /\ known' = known /\ data' = data
      BY <1>3, <2>2 DEF Decide, quiet, fs, Calm, Provisioned, CrashInv
    <3>5. LockSeen(p)'
      BY <3>1, <3>4 DEF CrashInv, LockSeen, LockPc
    <3> QED
      BY <3>1, <3>3, <3>4, <3>5, CalmStep
  <2> QED
    BY <1>3, <2>1, <2>2 DEF Decide
<1> QED
  BY <1>1, <1>2, <1>3 DEF Engine

\* One of the contents that survive, for every name.
LEMMA SurvivingStore ==
  ASSUME Store, NEW l \in Survive("lock"), NEW j \in Survive("journal"),
         NEW c \in Survive("commit"), NEW w \in Survive("publish"),
         data' = [n \in Name |-> {vis'[n]}], stale' = [n \in Name |-> {}], known' = known,
         vis'["lock"] = l, vis'["journal"] = j, vis'["commit"] = c, vis'["publish"] = w
  PROVE Store'
<1>1. /\ data'["lock"] = {l} /\ data'["journal"] = {j} /\ data'["commit"] = {c}
      /\ data'["publish"] = {w}
      /\ stale'["lock"] = {} /\ stale'["journal"] = {} /\ stale'["commit"] = {}
      /\ stale'["publish"] = {}
  BY NamesOfFiles
<1>2. /\ l \in data["lock"] \cup stale["lock"] /\ j \in data["journal"] \cup stale["journal"]
      /\ c \in data["commit"] \cup stale["commit"]
      /\ w \in data["publish"] \cup stale["publish"]
  BY DEF Survive
<1>3. \A S : (Told(S) <=> Told(S)') /\ (Reveals(S) <=> Reveals(S)')
  BY DEF Told, Reveals
<1>4. CASE NoCommit
  <2>1. /\ l \in {Absent, <<>>} /\ j \in {Absent, <<>>} /\ c = Absent /\ w \in Early
        /\ Told(<<>>)
    BY <1>2, <1>4 DEF NoCommit
  <2>2. NoCommit'
    BY <1>1, <1>3, <2>1 DEF NoCommit
  <2> QED
    BY <2>2 DEF Store
<1>5. CASE EmptyCommit
  <2>1. l = <<>> /\ j = <<>> /\ c \in {Absent, empty} /\ w \in Early /\ Told(<<>>)
    BY <1>2, <1>5 DEF EmptyCommit, Durable
  <2>2. c = Absent => NoCommit'
    BY <1>1, <1>3, <2>1 DEF NoCommit
  <2>3. c = empty => EmptyCommit'
    BY <1>1, <1>3, <2>1 DEF EmptyCommit, Durable
  <2> QED
    BY <2>1, <2>2, <2>3 DEF Store
<1>6. ASSUME NEW S \in History, Committed(S) PROVE Store'
  <2>1. /\ l = <<>> /\ j = S /\ c = for_prefix(S, Len(S)) /\ w \in Beside(Len(S))
        /\ Reveals(S)
    BY <1>2, <1>6 DEF Committed, Durable
  <2>2. Committed(S)'
    BY <1>1, <1>3, <2>1 DEF Committed, Durable
  <2> QED
    BY <2>2 DEF Store
<1>7. ASSUME NEW S \in History, NEW e \in Entry, Writing(S, e) PROVE Store'
  <2>1. /\ l = <<>> /\ j \in {S, Append(S, Torn), Append(S, e)} /\ c = for_prefix(S, Len(S))
        /\ w = prepared(Len(S) + 2) /\ Told(S) /\ Append(S, e) \in History
    BY <1>2, <1>7 DEF Writing, Durable
  <2>2. Writing(S, e)'
    BY <1>1, <1>3, <2>1 DEF Writing, Durable
  <2> QED
    BY <2>2 DEF Store
<1>8. ASSUME NEW S \in History, NEW e \in Entry, Renamed(S, e) PROVE Store'
  <2> DEFINE new == Append(S, e)
  <2>1. /\ l = <<>> /\ j = new /\ new \in History
        /\ c \in {for_prefix(S, Len(S)), for_prefix(new, Len(S) + 1)}
        /\ w = prepared(Len(S) + 2) /\ Told(S)
    BY <1>2, <1>8 DEF Renamed, Durable
  <2>2. c = for_prefix(S, Len(S)) => Writing(S, e)'
    BY <1>1, <1>3, <2>1 DEF Writing, Durable
  <2>3. Len(S) \in Nat /\ Len(new) = Len(S) + 1 /\ new[Len(new)] = e /\ new # <<>>
    BY DEF History
  <2>4. (Len(S) + 1) + 1 = Len(S) + 2
    BY <2>3
  <2>5. Reveals(new)'
    BY <1>3, <2>1, <2>3 DEF Told, Reveals
  <2> HIDE DEF new
  <2>6. w \in Beside(Len(new))
    BY <2>1, <2>3, <2>4 DEF Beside
  <2>7. c = for_prefix(new, Len(S) + 1) => Committed(new)'
    BY <1>1, <2>1, <2>3, <2>5, <2>6 DEF Committed, Durable
  <2> QED
    BY <2>1, <2>2, <2>7 DEF Store
<1> QED
  BY <1>4, <1>5, <1>6, <1>7, <1>8 DEF Store

\* Errors, kills and power losses.
LEMMA EnvironmentCrash ==
  ASSUME TypeInv, CrashInv,
         (\E p \in Proc : IoError(p) \/ ClockError(p) \/ Kill(p)) \/ PowerLoss
  PROVE CrashInv'
<1>1. ASSUME NEW p \in Proc, IoError(p) \/ ClockError(p) \/ Kill(p)
      PROVE CrashInv'
  BY <1>1, RefuseCrash DEF IoError, ClockError, Kill, quiet
<1>2. CASE PowerLoss
  <2>1. ASSUME NEW q \in Proc PROVE Phase(q)' /\ LockSeen(q)'
    <3>1. pc'[q] \in {"idle", "done"} /\ mode'[q] = "init" /\ seen'[q] = {}
      BY <1>2 DEF PowerLoss, Live, TypeInv, TypeOK, ProcsOK
    <3> QED
      BY <3>1, IdlePhase DEF WriterPc, LockSeen, LockPc
  <2>2. /\ data' = [n \in Name |-> {vis'[n]}] /\ stale' = [n \in Name |-> {}]
        /\ known' = known
    BY <1>2 DEF PowerLoss
  <2>3. Shown'
    BY <2>2 DEF Shown
  <2>4. CASE /\ \E l \in Survive("lock"), j \in Survive("journal"), c \in Survive("commit"),
                   w \in Survive("publish"), t \in Survive("tmp") :
                  vis' = [lock |-> l, journal |-> j, commit |-> c, publish |-> w, tmp |-> t]
             /\ dir' = IF dir = "absent" THEN "absent" ELSE "durable"
    <3>1. PICK l \in Survive("lock"), j \in Survive("journal"), c \in Survive("commit"),
               w \in Survive("publish"), t \in Survive("tmp") :
                  vis' = [lock |-> l, journal |-> j, commit |-> c, publish |-> w, tmp |-> t]
      BY <2>4
    <3>2. /\ vis'["lock"] = l /\ vis'["journal"] = j /\ vis'["commit"] = c
          /\ vis'["publish"] = w
      BY <3>1
    <3>3. Store'
      BY <2>2, <3>2, SurvivingStore DEF CrashInv
    <3>4. Provisioned'
      BY <2>4 DEF CrashInv, Provisioned
    <3> QED
      BY <2>1, <2>3, <3>3, <3>4 DEF CrashInv
  <2>5. CASE dir = "volatile" /\ vis' = [n \in Name |-> Absent] /\ dir' = "absent"
    <3>1. ~StateDirProvisioned
      BY <2>5 DEF CrashInv, Provisioned
    <3>2. NoCommit'
      BY <2>2, <2>5, <3>1, NamesOfFiles DEF NoCommit, Told, Early
    <3> QED
      BY <2>1, <2>3, <3>1, <3>2 DEF CrashInv, Store, Provisioned
  <2> QED
    BY <1>2, <2>4, <2>5 DEF PowerLoss
<1> QED
  BY <1>1, <1>2

-----------------------------------------------------------------------------
(* Steps under the exclusive lock.                                         *)

\* A writer that goes on.
LEMMA WriterStep ==
  ASSUME TypeInv, LockInv, CrashInv, NEW p \in Proc, NEW from \in WriterPc, NEW to,
         Continue(p, from, to), to \in LockPc => from \in LockPc, UNCHANGED dir,
         data'["lock"] = data["lock"], Shown', Store', Phase(p)'
  PROVE CrashInv'
<1>1. /\ Bystanders(p) /\ pc[p] = from /\ pc'[p] = to /\ seen'[p] = seen[p]
  BY ContinueEffect
<1>2. held[p] # "none"
  BY <1>1 DEF LockInv, Holding
<1>3. LockSeen(p)'
  BY <1>1 DEF CrashInv, LockSeen
<1>4. Provisioned'
  BY DEF CrashInv, Provisioned
<1> QED
  BY <1>1, <1>2, <1>3, <1>4, HolderStep

\* What a writer in the middle of an initialization knows.
LEMMA OpeningFacts ==
  ASSUME TypeInv, CrashInv, NEW p \in Proc
  PROVE /\ pc[p] \in LockPc => data["lock"] = {<<>>}
        /\ pc[p] \in {"open_journal", "read_store", "sync_lock", "sync_journal", "sync_dir",
                      "wit_create", "wit_write", "wit_sync", "wit_sync_dir"} => mode[p] = "init"
        /\ Opening(p) /\ Publishing(p) /\ Initializing(p) /\ Appending(p) /\ Modes(p)
        /\ FilesOK /\ Shown /\ Store /\ mode[p] \in {"init", "append"}
<1>1. pc[p] \in {"open_journal", "read_store", "sync_lock", "sync_journal", "sync_dir",
                 "wit_create", "wit_write", "wit_sync", "wit_sync_dir"} => pc[p] \notin AppendPc
  BY DEF AppendPc, PrepPc, JournalPc, TmpPc, CleanPc
<1>2. Phase(p) /\ LockSeen(p)
  BY DEF CrashInv
<1> QED
  BY <1>1, <1>2, InitMode DEF CrashInv, Phase, LockSeen, TypeInv, TypeOK, ProcsOK

\* A process that initializes: what it must know at each step.
LEMMA InitPhase ==
  ASSUME NEW p \in Proc, mode'[p] = "init", Opening(p)', Publishing(p)', Initializing(p)',
         pc'[p] \notin PrepPc \cup JournalPc
  PROVE Phase(p)'
BY DEF Phase, Modes, Appending

\* Opening the journal, or creating it.
LEMMA OpenJournalCrash ==
  ASSUME TypeInv, LockInv, CrashInv, NEW p \in Proc, OpenJournal(p)
  PROVE CrashInv'
<1> USE NamesOfFiles
<1>0. /\ pc[p] = "open_journal" /\ data["lock"] = {<<>>} /\ mode[p] = "init" /\ FilesOK
      /\ Shown /\ Store /\ UNCHANGED known
  BY OpeningFacts DEF OpenJournal, LockPc, quiet
<1>1. CASE Continue(p, "open_journal", "read_store") /\ UNCHANGED fs
  <2>1. pc'[p] = "read_store" /\ mode'[p] = "init"
    BY <1>0, <1>1, ContinueEffect
  <2>2. Calm(Artifact) /\ data' = data /\ dir' = dir
    BY <1>1 DEF fs, Calm
  <2>3. Store' /\ Shown'
    BY <1>0, <1>1, <2>2, CalmStore, ShownKept
  <2>4. Phase(p)'
    BY <2>1, InitPhase DEF Opening, Publishing, Initializing, PrepPc, JournalPc, TmpPc, CleanPc
  <2> QED
    BY <1>1, <2>2, <2>3, <2>4, WriterStep DEF WriterPc, LockPc
<1>2. CASE /\ vis["journal"] = Absent /\ Continue(p, "open_journal", "sync_lock")
           /\ Create("journal", <<>>) /\ UNCHANGED dir
  <2>0. Absent # <<>>
    <3>1. <<>> \in Seq(Cell)
      OBVIOUS
    <3> QED
      BY <3>1, FileConstants
  <2>1. pc'[p] = "sync_lock" /\ mode'[p] = "init"
    BY <1>0, <1>2, ContinueEffect
  <2>2. /\ vis'["journal"] = <<>> /\ data'["journal"] = {<<>>}
        /\ stale'["journal"] = stale["journal"] \cup data["journal"]
        /\ \A m \in Name : m # "journal" => Same(m)
    BY <1>0, <1>2, CreateEffect
  <2>3. NoCommit /\ data["journal"] = {Absent}
    <3>1. NoCommit /\ vis["journal"] \in data["journal"]
      BY <1>0, <1>2, MissingArtifact DEF Shown
    <3> QED
      BY <1>2, <2>0, <3>1 DEF NoCommit
  <2>4. NoCommit'
    BY <1>0, <2>2, <2>3 DEF NoCommit, Same, Told
  <2>5. Shown' /\ Store' /\ data'["lock"] = data["lock"]
    BY <1>0, <1>2, <2>2, <2>4, ShownKept DEF Store, Same
  <2>6. Phase(p)'
    BY <2>1, <2>2, <2>4, InitPhase
    DEF Opening, Publishing, Initializing, PrepPc, JournalPc, TmpPc, CleanPc
  <2> QED
    BY <1>2, <2>5, <2>6, WriterStep DEF WriterPc, LockPc
<1> QED
  BY <1>1, <1>2 DEF OpenJournal

\* What the writer concludes from an existing store is the situation it is in.
LEMMA OpenExistingCrash ==
  ASSUME TypeInv, LockInv, CrashInv, NEW p \in Proc, OpenExisting(p)
  PROVE CrashInv'
<1> USE NamesOfFiles
<1> DEFINE verdict == open_existing(vis, "publish" \in seen[p])
<1>0. /\ pc[p] = "read_store" /\ mode[p] = "init" /\ FilesOK
      /\ Shown /\ Store /\ UNCHANGED known
  BY OpeningFacts DEF OpenExisting, quiet
<1>1. ASSUME NEW to \in {"load", "wit_create", "wit_sync"}, Continue(p, "read_store", to),
             UNCHANGED fs, Opening(p)'
      PROVE CrashInv'
  <2>1. pc'[p] = to /\ mode'[p] = "init"
    BY <1>0, <1>1, ContinueEffect
  <2>2. Calm(Artifact) /\ data' = data /\ dir' = dir
    BY <1>1 DEF fs, Calm
  <2>3. Store' /\ Shown'
    BY <1>0, <1>1, <2>2, CalmStore, ShownKept
  <2>4. Phase(p)'
    BY <1>1, <2>1, InitPhase DEF Publishing, Initializing, PrepPc, JournalPc, TmpPc, CleanPc
  <2> QED
    BY <1>1, <2>2, <2>3, <2>4, WriterStep DEF WriterPc, LockPc
<1>2. CASE verdict = OK
  <2>1. Continue(p, "read_store", "load") /\ UNCHANGED fs
    BY <1>2 DEF OpenExisting, OK
  <2>2. pc'[p] = "load"
    BY <2>1, ContinueEffect
  <2> QED
    BY <1>1, <2>1, <2>2 DEF Opening
<1>3. CASE verdict = "create_witness"
  <2>1. Continue(p, "read_store", "wit_create") /\ UNCHANGED fs
    BY <1>3 DEF OpenExisting, OK
  <2>2. pc'[p] = "wit_create" /\ vis' = vis
    BY <2>1, ContinueEffect DEF fs
  <2>3. exact_empty(vis)
    BY <1>3, MetadataCodes, SnapshotCodes
    DEF open_existing, resume_or_validate_existing, JournalErrorCode, OK, UNAVAILABLE, CORRUPT,
        LOCKED, SCHEMA_UNSUPPORTED, BOUND_EXCEEDED, OUTCOME_UNKNOWN
  <2>4. vis'["commit"] = empty
    BY <2>2, <2>3 DEF exact_empty
  <2> QED
    BY <1>1, <2>1, <2>2, <2>4 DEF Opening
<1>4. CASE verdict = "resume_witness"
  <2>1. Continue(p, "read_store", "wit_sync") /\ UNCHANGED fs
    BY <1>4 DEF OpenExisting, OK
  <2>2. pc'[p] = "wit_sync" /\ vis' = vis /\ Calm(Artifact)
    BY <2>1, ContinueEffect DEF fs, Calm
  <2>3. /\ vis.commit = empty /\ decode_metadata(vis) = OK /\ is_initializing(vis.publish)
    <3>1. /\ \A x : x \in JournalErrorCode \cup {OK} => x # "resume_witness"
          /\ UNAVAILABLE # "resume_witness" /\ CORRUPT # "resume_witness"
      BY DEF JournalErrorCode, OK, UNAVAILABLE, CORRUPT, LOCKED, SCHEMA_UNSUPPORTED,
         BOUND_EXCEEDED, OUTCOME_UNKNOWN
    <3>2. resume_or_validate_existing(vis) = "resume_witness"
      BY <1>4, <3>1, MetadataCodes DEF open_existing
    <3> QED
      BY <3>1, <3>2, MetadataCodes, SnapshotCodes
      DEF resume_or_validate_existing, exact_empty
  <2>4. vis.publish \in PublishWitness
    BY <1>0, <2>3 DEF decode_metadata, decode_publish, OK, UNAVAILABLE, CORRUPT, FilesOK,
       Visible, PublishFile
  <2>5. vis["publish"] = initializing
    BY <2>3, <2>4, InitializingWitness
  <2>6. EmptyCommit \/ Committed(<<>>)
    BY <1>0, <2>3, <2>5, EmptyPointThere
  <2>7. EmptyCommit' \/ Committed(<<>>)'
    BY <1>0, <2>2, <2>6, CalmSituations
  <2>8. Opening(p)'
    BY <2>2, <2>5, <2>7 DEF Opening
  <2> QED
    BY <1>1, <2>1, <2>8
<1>5. CASE verdict \notin {OK, "create_witness", "resume_witness"}
  <2>1. Refuse(p, verdict)
    BY <1>5 DEF OpenExisting
  <2> QED
    BY <1>0, <2>1, RefuseCrash
<1> QED
  BY <1>2, <1>3, <1>4, <1>5

\* The barriers of initialize_fresh_store before the commit point.
LEMMA FreshCrash ==
  ASSUME TypeInv, LockInv, CrashInv, NEW p \in Proc,
         SyncLock(p) \/ SyncJournal(p) \/ SyncInitDir(p)
  PROVE CrashInv'
<1> USE NamesOfFiles
<1>0. pc[p] \in {"sync_lock", "sync_journal", "sync_dir"}
  BY DEF SyncLock, SyncJournal, SyncInitDir, Continue, Goto
<1>1. /\ data["lock"] = {<<>>} /\ mode[p] = "init" /\ FilesOK /\ Shown /\ Store
      /\ NoCommit /\ data["journal"] = {<<>>}
  BY <1>0, OpeningFacts DEF LockPc, Opening
<1>2. vis["lock"] = <<>> /\ vis["journal"] = <<>> /\ UNCHANGED <<known, dir>>
  BY <1>1 DEF Shown, SyncLock, SyncJournal, SyncInitDir, quiet
<1>3. ASSUME NEW n \in {"lock", "journal"}, NEW to \in {"sync_journal", "sync_dir"},
             Continue(p, pc[p], to), Sync(n)
      PROVE CrashInv'
  <2>1. pc'[p] = to /\ mode'[p] = "init"
    BY <1>1, <1>3, ContinueEffect
  <2>2. data'["lock"] = {<<>>} /\ data'["journal"] = {<<>>}
    BY <1>1, <1>2, <1>3, SyncEffect DEF Same
  <2>3. Calm(Artifact)
    <3>1. n \in Name /\ data[n] = {vis[n]}
      BY <1>1, <1>2
    <3>2. /\ vis'[n] = vis[n] /\ data'[n] = {vis[n]} /\ stale'[n] = stale[n]
          /\ \A m \in Name : m # n => Same(m)
      BY <1>1, <1>3, <3>1, SyncEffect
    <3>3. \A m \in Name : Same(m)
      BY <3>1, <3>2 DEF Same
    <3> QED
      BY <3>3 DEF Calm, Same
  <2>4. NoCommit' /\ Store' /\ Shown'
    BY <1>1, <1>2, <1>3, <2>3, CalmSituations, CalmStore, ShownKept
  <2>5. Phase(p)'
    BY <2>1, <2>2, <2>4, InitPhase
    DEF Opening, Publishing, Initializing, PrepPc, JournalPc, TmpPc, CleanPc
  <2> QED
    BY <1>0, <1>1, <1>2, <1>3, <2>2, <2>4, <2>5, WriterStep DEF WriterPc, LockPc
<1>4. CASE SyncInitDir(p)
  <2>0. Continue(p, "sync_dir", "tmp_open") /\ SyncDirectory
    BY <1>4 DEF SyncInitDir
  <2>1. pc'[p] = "tmp_open" /\ mode'[p] = "init"
    BY <1>1, <2>0, ContinueEffect
  <2>2. \A m \in Name : vis'[m] = vis[m] /\ data'[m] = data[m] /\ stale'[m] = {}
    BY <2>0, SyncDirectoryEffect
  <2>3. Durable("lock", <<>>)' /\ Durable("journal", <<>>)' /\ Calm(Artifact)
    BY <1>1, <2>2 DEF Durable, Calm
  <2>4. NoCommit' /\ Store' /\ Shown'
    BY <1>1, <1>2, <2>0, <2>3, CalmSituations, CalmStore, ShownKept
  <2>5. Phase(p)'
    BY <2>1, <2>3, <2>4, InitPhase
    DEF Opening, Publishing, Initializing, PrepPc, JournalPc, CleanPc
  <2> QED
    BY <1>2, <2>0, <2>2, <2>4, <2>5, WriterStep DEF WriterPc, LockPc
<1>5. CASE SyncLock(p)
  BY <1>3, <1>5 DEF SyncLock, Continue, Goto
<1>6. CASE SyncJournal(p)
  BY <1>3, <1>6 DEF SyncJournal, Continue, Goto
<1> QED
  BY <1>4, <1>5, <1>6

\* initialize_witness.
LEMMA WitnessCrash ==
  ASSUME TypeInv, LockInv, CrashInv, NEW p \in Proc,
         \/ CreateWitness(p) \/ WriteInitializing(p) \/ SyncInitializing(p)
         \/ SyncWitnessDir(p)
  PROVE CrashInv'
<1> USE NamesOfFiles
<1>0. /\ FilesOK /\ Shown /\ Store /\ Opening(p) /\ UNCHANGED known
      /\ vis["publish"] \in data["publish"]
  BY OpeningFacts DEF CreateWitness, WriteInitializing, SyncInitializing, SyncWitnessDir, quiet,
     Shown
<1>1. CASE CreateWitness(p)
  <2>1. CASE Refuse(p, UNAVAILABLE)
    BY <1>0, <2>1, RefuseCrash
  <2>2. CASE /\ vis["publish"] = Absent /\ Continue(p, "wit_create", "wit_write")
             /\ Create("publish", Torn) /\ UNCHANGED dir
    <3>1. pc[p] = "wit_create" /\ pc'[p] = "wit_write" /\ mode'[p] = mode[p]
      BY <2>2, ContinueEffect
    <3>2. mode'[p] = "init"
      BY <3>1, OpeningFacts
    <3>3. EmptyCommit
      BY <1>0, <2>2, <3>1, EmptyPointThere DEF Opening
    <3>4. /\ vis'["publish"] = Torn /\ data'["publish"] = {Torn}
          /\ stale'["publish"] = stale["publish"] \cup data["publish"]
          /\ \A m \in Name : m # "publish" => Same(m)
      BY <1>0, <2>2, CreateEffect
    <3>5. EmptyCommit' /\ data'["lock"] = data["lock"]
      BY <1>0, <3>3, <3>4 DEF EmptyCommit, Durable, Same, Early, Told
    <3>6. Phase(p)'
      BY <3>1, <3>2, <3>4, <3>5, InitPhase
      DEF Opening, Publishing, Initializing, PrepPc, JournalPc, TmpPc, CleanPc
    <3>7. Store' /\ Shown'
      BY <1>0, <2>2, <3>5, ShownKept DEF Store
    <3> QED
      BY <2>2, <3>5, <3>6, <3>7, WriterStep DEF WriterPc, LockPc
  <2> QED
    BY <1>1, <2>1, <2>2 DEF CreateWitness
<1>2. CASE WriteInitializing(p)
  <2>0. /\ Continue(p, "wit_write", "wit_sync") /\ Write("publish", initializing, Torn)
        /\ UNCHANGED dir
    BY <1>2 DEF WriteInitializing
  <2>1. pc[p] = "wit_write" /\ pc'[p] = "wit_sync" /\ mode'[p] = mode[p]
    BY <2>0, ContinueEffect
  <2>2. mode'[p] = "init" /\ EmptyCommit
    BY <1>0, <2>1, OpeningFacts DEF Opening
  <2>3. /\ vis'["publish"] = initializing
        /\ data'["publish"] = data["publish"] \cup {Torn, initializing}
        /\ stale'["publish"] = stale["publish"]
        /\ \A m \in Name : m # "publish" => Same(m)
    BY <1>0, <2>0, WriteEffect
  <2>4. EmptyCommit' /\ data'["lock"] = data["lock"]
    BY <1>0, <2>2, <2>3 DEF EmptyCommit, Durable, Same, Early, Told
  <2>5. Phase(p)'
    BY <2>1, <2>2, <2>3, <2>4, InitPhase
    DEF Opening, Publishing, Initializing, PrepPc, JournalPc, TmpPc, CleanPc
  <2>6. Store' /\ Shown'
    BY <1>0, <2>0, <2>4, ShownKept DEF Store
  <2> QED
    BY <2>0, <2>4, <2>5, <2>6, WriterStep DEF WriterPc, LockPc
<1>3. CASE SyncInitializing(p)
  <2>0. /\ Continue(p, "wit_sync", "wit_sync_dir") /\ Sync("publish") /\ UNCHANGED dir
    BY <1>3 DEF SyncInitializing
  <2>1. pc[p] = "wit_sync" /\ pc'[p] = "wit_sync_dir" /\ mode'[p] = mode[p]
    BY <2>0, ContinueEffect
  <2>2. mode'[p] = "init" /\ vis["publish"] = initializing /\ (EmptyCommit \/ Committed(<<>>))
    BY <1>0, <2>1, OpeningFacts DEF Opening
  <2>3. /\ vis'["publish"] = initializing /\ data'["publish"] = {initializing}
        /\ stale'["publish"] = stale["publish"]
        /\ \A m \in Name : m # "publish" => Same(m)
    BY <1>0, <2>0, <2>2, SyncEffect
  <2>4. /\ (EmptyCommit' \/ Committed(<<>>)') /\ data'["lock"] = data["lock"]
    <3>1. EmptyCommit => EmptyCommit'
      BY <1>0, <2>3 DEF EmptyCommit, Durable, Same, Early, Told
    <3>2. Committed(<<>>) => Committed(<<>>)'
      BY <1>0, <2>2, <2>3 DEF Committed, Durable, Same, Reveals
    <3> QED
      BY <2>2, <2>3, <3>1, <3>2 DEF Same
  <2>5. Phase(p)'
    BY <2>1, <2>2, <2>3, <2>4, InitPhase
    DEF Opening, Publishing, Initializing, PrepPc, JournalPc, TmpPc, CleanPc
  <2>6. Store' /\ Shown'
    BY <1>0, <2>0, <2>4, ShownKept, EmptyPoint DEF Store
  <2> QED
    BY <2>0, <2>4, <2>5, <2>6, WriterStep DEF WriterPc, LockPc
<1>4. CASE SyncWitnessDir(p)
  <2>0. /\ Continue(p, "wit_sync_dir", "clean_trunc") /\ SyncDirectory /\ UNCHANGED dir
    BY <1>4 DEF SyncWitnessDir
  <2>1. pc[p] = "wit_sync_dir" /\ pc'[p] = "clean_trunc" /\ mode'[p] = mode[p]
    BY <2>0, ContinueEffect
  <2>2. /\ mode'[p] = "init" /\ data["publish"] = {initializing}
        /\ (EmptyCommit \/ Committed(<<>>))
    BY <1>0, <2>1, OpeningFacts DEF Opening
  <2>3. \A m \in Name : vis'[m] = vis[m] /\ data'[m] = data[m] /\ stale'[m] = {}
    BY <2>0, SyncDirectoryEffect
  <2>4. Committed(<<>>)'
    <3>1. Durable("lock", <<>>) /\ Durable("journal", <<>>) /\ data["commit"] = {empty}
      BY <2>2, EmptyPoint DEF EmptyCommit, Committed, Durable
    <3>2. Reveals(<<>>)
      BY <2>2 DEF EmptyCommit, Committed, Told, Reveals
    <3>3. initializing \in Beside(0)
      BY InitializingWitness DEF Beside
    <3>4. /\ data'["lock"] = {<<>>} /\ data'["journal"] = {<<>>} /\ data'["commit"] = {empty}
          /\ data'["publish"] = {initializing} /\ stale'["publish"] = {}
          /\ stale'["lock"] = {} /\ stale'["journal"] = {} /\ stale'["commit"] = {}
      BY <2>2, <2>3, <3>1 DEF Durable
    <3>5. Reveals(<<>>)'
      BY <1>0, <3>2 DEF Reveals
    <3> QED
      BY <3>3, <3>4, <3>5, EmptyPoint DEF Committed, Durable
  <2>5. vis'["publish"] = initializing /\ data'["lock"] = data["lock"]
    BY <1>0, <2>2, <2>3
  <2>6. Phase(p)'
    BY <2>1, <2>2, <2>4, <2>5, InitPhase
    DEF Opening, Publishing, Initializing, PrepPc, JournalPc, TmpPc
  <2>7. Store' /\ Shown'
    BY <1>0, <2>0, <2>4, ShownKept, EmptyPoint DEF Store
  <2> QED
    BY <2>0, <2>5, <2>6, <2>7, WriterStep DEF WriterPc, LockPc
<1> QED
  BY <1>1, <1>2, <1>3, <1>4

\* The temporary file is no artifact: while it is prepared the situation stays.
LEMMA TemporaryPhase ==
  ASSUME TypeInv, CrashInv, NEW p \in Proc, pc[p] \in TmpPc, pc'[p] \in TmpPc,
         mode'[p] = mode[p], snap'[p] = snap[p], cmd'[p] = cmd[p], Calm(Artifact),
         known' = known, Publishing(p)'
  PROVE Phase(p)'
<1> USE NamesOfFiles
<1>1. /\ NoCommit => NoCommit'
      /\ \A S, e : Writing(S, e) => Writing(S, e)'
  BY CalmSituations
<1>2. \A n \in Artifact : /\ vis'[n] = vis[n] /\ data'[n] = data[n]
                          /\ stale'[n] = stale[n] \/ stale'[n] = {}
  BY DEF Calm
<1>3. \A n \in Artifact : \A c : Durable(n, c) => Durable(n, c)'
  BY <1>2 DEF Durable
<1>4. Modes(p) /\ Initializing(p) /\ Appending(p)
  BY OpeningFacts
<1>5. Modes(p)'
  BY <1>4 DEF Modes, TmpPc, AppendPc, PrepPc, JournalPc
<1>6. Opening(p)'
  BY DEF Opening, TmpPc
<1>7. Initializing(p)'
  BY <1>1, <1>3, <1>4 DEF Initializing, TmpPc, CleanPc
<1>8. Appending(p)'
  <2> DEFINE S == snap[p]
             e == next_entry(p)
  <2>1. snap'[p] = S /\ next_entry(p)' = e
    BY SamePlan
  <2> HIDE DEF S, e
  <2>2. mode[p] = "append" =>
          /\ S \in History /\ Append(S, e) \in History /\ Writing(S, e)
          /\ data["journal"] = {Append(S, e)}
    BY <1>4 DEF Appending, S, e
  <2> QED
    BY <1>1, <1>2, <2>1, <2>2 DEF Appending, TmpPc, PrepPc, JournalPc, CleanPc
<1> QED
  BY <1>5, <1>6, <1>7, <1>8 DEF Phase

\* The temporary file is written and synchronized.
LEMMA TemporaryCrash ==
  ASSUME TypeInv, LockInv, CrashInv, NEW p \in Proc,
         OpenTemporary(p) \/ WriteTemporary(p) \/ SyncTemporary(p)
  PROVE CrashInv'
<1> USE NamesOfFiles
<1>0. FilesOK /\ Shown /\ Store /\ UNCHANGED <<known, dir>> /\ Publishing(p)
  BY OpeningFacts DEF OpenTemporary, WriteTemporary, SyncTemporary, quiet
<1>1. ASSUME NEW from \in TmpPc, NEW to \in TmpPc, Continue(p, from, to), Shown',
             \A m \in Name : m # "tmp" => Same(m), Publishing(p)'
      PROVE CrashInv'
  <2>1. /\ pc[p] = from /\ pc'[p] = to /\ mode'[p] = mode[p] /\ snap'[p] = snap[p]
        /\ cmd'[p] = cmd[p]
    BY <1>1, ContinueEffect
  <2>2. Calm(Artifact) /\ data'["lock"] = data["lock"]
    BY <1>1 DEF Calm, Same, Artifact
  <2>3. Phase(p)'
    BY <1>0, <1>1, <2>1, <2>2, TemporaryPhase
  <2>4. Store'
    BY <1>0, <2>2, CalmStore
  <2>5. from \in WriterPc /\ to \notin LockPc
    BY <1>1 DEF TmpPc, WriterPc, LockPc
  <2> QED
    BY <1>0, <1>1, <2>2, <2>3, <2>4, <2>5, WriterStep
<1>2. CASE OpenTemporary(p)
  <2>0. Continue(p, "tmp_open", "tmp_write") /\ Create("tmp", Torn)
    BY <1>2 DEF OpenTemporary
  <2>1. Shown' /\ \A m \in Name : m # "tmp" => Same(m)
    BY <1>0, <2>0, ShownKept, CreateEffect
  <2>2. Publishing(p)'
    BY <2>0, ContinueEffect DEF Publishing
  <2> QED
    BY <1>1, <2>0, <2>1, <2>2 DEF TmpPc
<1>3. CASE WriteTemporary(p)
  <2>0. Continue(p, "tmp_write", "tmp_sync") /\ Write("tmp", next_point(p), Torn)
    BY <1>3 DEF WriteTemporary
  <2>1. /\ Shown' /\ \A m \in Name : m # "tmp" => Same(m)
        /\ vis'["tmp"] = next_point(p)
    BY <1>0, <2>0, ShownKept, WriteEffect
  <2>2. pc'[p] = "tmp_sync" /\ next_point(p)' = next_point(p)
    BY <2>0, ContinueEffect, SamePlan
  <2>3. Publishing(p)'
    BY <2>1, <2>2 DEF Publishing
  <2> QED
    BY <1>1, <2>0, <2>1, <2>3 DEF TmpPc
<1>4. CASE SyncTemporary(p)
  <2>0. Continue(p, "tmp_sync", "rename") /\ Sync("tmp")
    BY <1>4 DEF SyncTemporary
  <2>1. /\ Shown' /\ \A m \in Name : m # "tmp" => Same(m)
        /\ data'["tmp"] = {vis["tmp"]}
    BY <1>0, <2>0, ShownKept, SyncEffect
  <2>2. pc[p] = "tmp_sync" /\ pc'[p] = "rename" /\ next_point(p)' = next_point(p)
    BY <2>0, ContinueEffect, SamePlan
  <2>3. Publishing(p)'
    BY <1>0, <2>1, <2>2 DEF Publishing
  <2> QED
    BY <1>1, <2>0, <2>1, <2>3 DEF TmpPc
<1> QED
  BY <1>2, <1>3, <1>4

\* A process that appends: what it must know at each step.
LEMMA AppendPhase ==
  ASSUME TypeInv, NEW p \in Proc, mode'[p] = "append", pc'[p] \in AppendPc, known' = snap'[p],
         Publishing(p)', Appending(p)'
  PROVE Phase(p)'
<1>1. Opening(p)'
  BY DEF Opening, AppendPc, PrepPc, JournalPc, TmpPc, CleanPc
<1> QED
  BY <1>1 DEF Phase, Modes, Initializing

\* The facts about the append of p that do not change under it.
LEMMA AppendFacts ==
  ASSUME TypeInv, CrashInv, NEW p \in Proc, mode[p] = "append"
  PROVE LET S == snap[p]
            e == next_entry(p)
        IN /\ S \in History /\ Append(S, e) \in History /\ e \in Entry /\ Len(S) \in Nat
           /\ Len(S) < MaxEntries /\ Len(Append(S, e)) = Len(S) + 1
           /\ Append(S, e)[Len(Append(S, e))] = e /\ Append(S, e) # <<>>
           /\ known = S /\ pc[p] \in AppendPc
<1> DEFINE S == snap[p]
           e == next_entry(p)
<1>1. /\ S \in History /\ Append(S, e) \in History /\ known = S /\ pc[p] \in AppendPc
  BY OpeningFacts DEF Appending, Modes
<1>2. e \in Entry
  BY <1>1, WrittenTypes DEF AppendPc, PrepPc, JournalPc, TmpPc, CleanPc
<1> HIDE DEF S, e
<1>3. /\ Len(S) \in Nat /\ Len(Append(S, e)) = Len(S) + 1 /\ Len(Append(S, e)) <= MaxEntries
      /\ Append(S, e)[Len(Append(S, e))] = e /\ Append(S, e) # <<>>
  BY <1>1, <1>2 DEF History
<1> QED
  BY <1>1, <1>2, <1>3, MaxEntriesIsPositive DEF S, e

\* The commit point is renamed into place.
LEMMA RenameCrash ==
  ASSUME TypeInv, LockInv, CrashInv, NEW p \in Proc, RenameCommit(p)
  PROVE CrashInv'
<1> USE NamesOfFiles
<1>s. PICK S, e : S = snap[p] /\ e = next_entry(p)
  OBVIOUS
<1>0. /\ Continue(p, "rename", "rename_sync") /\ Rename("tmp", "commit")
      /\ UNCHANGED <<known, dir>>
  BY DEF RenameCommit, quiet
<1>1. /\ FilesOK /\ Shown /\ Store /\ Publishing(p) /\ Initializing(p) /\ Appending(p)
      /\ mode[p] \in {"init", "append"}
  BY OpeningFacts
<1>2. /\ pc[p] = "rename" /\ pc'[p] = "rename_sync" /\ mode'[p] = mode[p]
      /\ snap'[p] = S /\ next_entry(p)' = e
  BY <1>0, <1>s, ContinueEffect, SamePlan
<1>3. /\ data'["commit"] = {next_point(p)}
      /\ stale'["commit"] = stale["commit"] \cup data["commit"]
      /\ \A m \in Artifact : m # "commit" => Same(m)
  BY <1>0, <1>1, <1>2, RenameEffect DEF Publishing
<1>4. Shown' /\ data'["lock"] = data["lock"]
  BY <1>0, <1>1, <1>3, ShownKept DEF Same
<1>5. Publishing(p)'
  BY <1>2 DEF Publishing
<1>6. CASE mode[p] = "init"
  <2>1. NoCommit /\ Durable("lock", <<>>) /\ Durable("journal", <<>>) /\ next_point(p) = empty
    BY <1>1, <1>2, <1>6 DEF Initializing, TmpPc, next_point
  <2>2. EmptyCommit'
    BY <1>0, <1>3, <2>1 DEF NoCommit, EmptyCommit, Durable, Same, Told
  <2>3. Phase(p)'
    BY <1>2, <1>5, <1>6, <2>2, InitPhase
    DEF Opening, Initializing, PrepPc, JournalPc, TmpPc, CleanPc
  <2> QED
    BY <1>0, <1>4, <2>2, <2>3, WriterStep DEF Store, WriterPc, LockPc
<1>7. CASE mode[p] = "append"
  <2>1. /\ S \in History /\ Append(S, e) \in History /\ e \in Entry /\ known = S
    BY <1>7, <1>s, AppendFacts
  <2>2. /\ Writing(S, e) /\ data["journal"] = {Append(S, e)}
        /\ next_point(p) = for_prefix(Append(S, e), Len(S) + 1)
    BY <1>1, <1>2, <1>7, <1>s DEF Appending, TmpPc, next_point
  <2>3. Renamed(S, e)'
    BY <1>0, <1>3, <2>1, <2>2 DEF Writing, Renamed, Durable, Same, Told
  <2>4. Appending(p)'
    BY <1>2, <2>1, <2>3 DEF Appending, PrepPc, JournalPc, TmpPc, CleanPc
  <2>5. Phase(p)'
    BY <1>0, <1>2, <1>5, <1>7, <2>1, <2>4, AppendPhase DEF AppendPc
  <2>6. Store'
    BY <2>1, <2>3 DEF Store
  <2> QED
    BY <1>0, <1>4, <2>5, <2>6, WriterStep DEF WriterPc, LockPc
<1> QED
  BY <1>1, <1>6, <1>7

\* The directory barrier after the rename.
LEMMA SyncCommitCrash ==
  ASSUME TypeInv, LockInv, CrashInv, NEW p \in Proc, SyncCommitDir(p)
  PROVE CrashInv'
<1> USE NamesOfFiles
<1>s. PICK S, e : S = snap[p] /\ e = next_entry(p)
  OBVIOUS
<1> DEFINE to == IF mode[p] = "init" THEN "wit_create" ELSE "clean_trunc"
<1>0. /\ Continue(p, "rename_sync", to) /\ SyncDirectory /\ UNCHANGED <<known, dir>>
      /\ vis["commit"] = next_point(p)
  BY DEF SyncCommitDir, quiet
<1>1. /\ FilesOK /\ Shown /\ Store /\ Initializing(p) /\ Appending(p)
      /\ mode[p] \in {"init", "append"}
  BY OpeningFacts
<1>2. /\ pc[p] = "rename_sync" /\ pc'[p] = to /\ mode'[p] = mode[p]
      /\ snap'[p] = S /\ next_entry(p)' = e
  BY <1>0, <1>s, ContinueEffect, SamePlan
<1>3. /\ \A m \in Name : vis'[m] = vis[m] /\ data'[m] = data[m] /\ stale'[m] = {}
  BY <1>0, SyncDirectoryEffect
<1>4. Shown' /\ data'["lock"] = data["lock"] /\ Calm(Artifact)
  BY <1>0, <1>1, <1>3, ShownKept DEF Calm
<1>5. Publishing(p)'
  BY <1>2 DEF Publishing
<1>6. CASE mode[p] = "init"
  <2>1. vis'["commit"] = empty
    BY <1>0, <1>3, <1>6 DEF next_point
  <2>2. Store'
    BY <1>0, <1>1, <1>4, CalmStore
  <2>3. Phase(p)'
    BY <1>2, <1>5, <1>6, <2>1, InitPhase
    DEF Opening, Initializing, PrepPc, JournalPc, TmpPc, CleanPc
  <2> QED
    BY <1>0, <1>4, <2>2, <2>3, WriterStep DEF WriterPc, LockPc
<1>7. CASE mode[p] = "append"
  <2> DEFINE new == Append(S, e)
  <2>1. /\ S \in History /\ new \in History /\ e \in Entry /\ known = S
        /\ Len(S) \in Nat /\ Len(new) = Len(S) + 1 /\ new[Len(new)] = e /\ new # <<>>
    BY <1>7, <1>s, AppendFacts
  <2>2. Renamed(S, e)
    BY <1>1, <1>2, <1>7, <1>s DEF Appending
  <2>3. /\ data["lock"] = {<<>>} /\ data["journal"] = {new}
        /\ data["commit"] = {for_prefix(new, Len(new))}
        /\ data["publish"] = {prepared(Len(S) + 2)}
    BY <2>1, <2>2 DEF Renamed, Durable
  <2>4. (Len(S) + 1) + 1 = Len(S) + 2
    BY <2>1
  <2>5. new = Append(S, e)
    OBVIOUS
  <2> HIDE DEF new
  <2>6. prepared(Len(S) + 2) \in Beside(Len(new))
    BY <2>1, <2>4 DEF Beside
  <2>7. Reveals(new)'
    BY <1>0, <2>1, <2>5 DEF Reveals
  <2>8. Committed(new)'
    BY <1>3, <2>1, <2>3, <2>6, <2>7 DEF Committed, Durable
  <2>9. Appending(p)'
    BY <1>2, <1>7, <2>1, <2>5, <2>8
    DEF Appending, PrepPc, JournalPc, TmpPc, CleanPc
  <2>10. Phase(p)'
    BY <1>0, <1>2, <1>5, <1>7, <2>1, <2>9, AppendPhase DEF AppendPc, CleanPc
  <2>11. Store'
    BY <2>1, <2>8 DEF Store
  <2> QED
    BY <1>0, <1>4, <1>7, <2>10, <2>11, WriterStep DEF WriterPc, LockPc
<1> QED
  BY <1>1, <1>6, <1>7

\* append_with_ops finds the history it decided on.
LEMMA RevalidateCrash ==
  ASSUME TypeInv, LockInv, CrashInv, NEW p \in Proc, RevalidateAppend(p)
  PROVE CrashInv'
<1> USE NamesOfFiles
<1>0. /\ FilesOK /\ Shown /\ Store /\ pc[p] = "append" /\ UNCHANGED known
  BY OpeningFacts DEF RevalidateAppend, quiet
<1>1. ASSUME NEW code, Refuse(p, code) PROVE CrashInv'
  BY <1>0, <1>1, RefuseCrash
<1>2. CASE /\ read_snapshot(vis) = OK /\ vis["commit"].generation # MaxEntries + 1
           /\ Goto(p, "append", "prep_trunc")
           /\ mode' = [mode EXCEPT ![p] = "append"]
           /\ snap' = [snap EXCEPT ![p] = vis["journal"]]
           /\ UNCHANGED <<fs, cmd, seen>>
  <2>1. PICK S \in History : /\ Committed(S) /\ vis["journal"] = S
                             /\ vis["commit"] = for_prefix(S, Len(S))
    BY <1>0, <1>2, SnapshotSituation
  <2>2. /\ Bystanders(p) /\ pc'[p] = "prep_trunc" /\ mode'[p] = "append" /\ snap'[p] = S
        /\ cmd'[p] = cmd[p] /\ seen'[p] = seen[p]
    BY <1>2, <2>1 DEF Goto, Bystanders, TypeInv, TypeOK, ProcsOK
  <2>3. known' = S /\ held[p] # "none"
    BY <1>0, <2>1 DEF LockInv, Current, SnapshotPc, Holding, WriterPc
  <2> DEFINE e == [seq |-> Len(S) + 1, at |-> p, signal |-> cmd[p].signal]
  <2>4. next_entry(p)' = e
    BY <2>2 DEF next_entry
  <2>5. S \in Seq(Entry) /\ Len(S) \in Nat /\ Len(S) <= MaxEntries
        /\ \A i \in 1 .. Len(S) : S[i].seq = i
    BY DEF History
  <2>6. cmd[p] \in Command
    BY <1>0 DEF TypeInv, Requested
  <2>7. e \in Entry /\ e.seq = Len(S) + 1
    BY <2>5, <2>6 DEF Entry, Command
  <2> HIDE DEF e
  <2>8. Len(S) < MaxEntries
    BY <1>2, <2>1, <2>5, PointOfHistory, MaxEntriesIsPositive
  <2>9. Append(S, e) \in History
    <3>1. /\ Append(S, e) \in Seq(Entry) /\ Len(Append(S, e)) = Len(S) + 1
          /\ Len(S) + 1 <= MaxEntries
      BY <2>5, <2>7, <2>8, MaxEntriesIsPositive
    <3>2. ASSUME NEW i \in 1 .. Len(Append(S, e)) PROVE Append(S, e)[i].seq = i
      <4>1. CASE i = Len(S) + 1
        BY <2>5, <2>7, <4>1
      <4>2. CASE i \in 1 .. Len(S)
        BY <2>5, <2>7, <4>2
      <4> QED
        BY <2>5, <3>1, <4>1, <4>2
    <3> QED
      BY <3>1, <3>2 DEF History
  <2>10. Calm(Artifact) /\ Provisioned' /\ data'["lock"] = data["lock"]
    BY <1>2 DEF fs, Calm, Provisioned, CrashInv
  <2>11. Committed(S)' /\ Store' /\ Shown'
    BY <1>0, <1>2, <2>1, <2>10, CalmSituations, CalmStore, ShownKept
  <2>12. Appending(p)'
    BY <2>2, <2>4, <2>9, <2>11 DEF Appending, JournalPc, TmpPc, CleanPc
  <2>13. Phase(p)'
    BY <2>2, <2>3, <2>12, AppendPhase DEF AppendPc, PrepPc, Publishing
  <2>14. LockSeen(p)'
    BY <2>2, <2>10 DEF CrashInv, LockSeen, LockPc
  <2> QED
    BY <2>2, <2>3, <2>10, <2>11, <2>13, <2>14, HolderStep
<1> QED
  BY <1>1, <1>2 DEF RevalidateAppend

\* The PREPARED witness.
LEMMA PrepareCrash ==
  ASSUME TypeInv, LockInv, CrashInv, NEW p \in Proc,
         TruncatePrepared(p) \/ WritePrepared(p) \/ SyncPrepared(p)
  PROVE CrashInv'
<1> USE NamesOfFiles
<1>s. PICK S, e : S = snap[p] /\ e = next_entry(p)
  OBVIOUS
<1>0. /\ pc[p] \in PrepPc /\ UNCHANGED <<known, dir>> /\ FilesOK /\ Shown
      /\ Appending(p) /\ Modes(p)
  BY OpeningFacts
  DEF TruncatePrepared, WritePrepared, SyncPrepared, Continue, Goto, PrepPc, quiet
<1>1. mode[p] = "append"
  BY <1>0 DEF Modes
<1>2. /\ S \in History /\ Append(S, e) \in History /\ e \in Entry /\ known = S
      /\ Len(S) \in Nat /\ Len(S) < MaxEntries
  BY <1>1, <1>s, AppendFacts
<1>3. Committed(S)
  BY <1>0, <1>1, <1>s DEF Appending
<1>4. ASSUME NEW to \in {"prep_write", "prep_sync"}, Continue(p, pc[p], to),
             NEW w \in {Torn, prepared(Len(S) + 2)}, Write("publish", w, Torn),
             to = "prep_sync" => w = prepared(Len(S) + 2)
      PROVE CrashInv'
  <2>1. pc'[p] = to /\ mode'[p] = "append" /\ snap'[p] = S /\ next_entry(p)' = e
    BY <1>1, <1>4, <1>s, ContinueEffect, SamePlan
  <2>2. /\ vis'["publish"] = w /\ data'["publish"] = data["publish"] \cup {Torn, w}
        /\ stale'["publish"] = stale["publish"]
        /\ \A m \in Name : m # "publish" => Same(m)
    BY <1>0, <1>4, WriteEffect
  <2>3. {Torn, w} \subseteq Beside(Len(S))
    BY <1>2, <1>4 DEF Beside
  <2>4. Committed(S)'
    BY <1>0, <1>3, <2>2, <2>3 DEF Committed, Durable, Same, Reveals
  <2>5. Appending(p)'
    BY <1>2, <1>4, <2>1, <2>2, <2>4 DEF Appending, JournalPc, TmpPc, CleanPc
  <2>6. Phase(p)'
    BY <1>0, <1>2, <2>1, <2>5, AppendPhase DEF AppendPc, PrepPc, Publishing
  <2>7. Store' /\ Shown' /\ data'["lock"] = data["lock"]
    BY <1>0, <1>2, <1>4, <2>2, <2>4, ShownKept DEF Store, Same
  <2>8. pc[p] \in WriterPc /\ to \notin LockPc
    BY <1>0, <1>4 DEF PrepPc, WriterPc, LockPc
  <2> QED
    BY <1>0, <1>4, <2>6, <2>7, <2>8, WriterStep
<1>5. CASE TruncatePrepared(p)
  BY <1>4, <1>5 DEF TruncatePrepared, Continue, Goto
<1>6. CASE WritePrepared(p)
  <2>1. /\ Continue(p, pc[p], "prep_sync") /\ Write("publish", prepared(Len(S) + 2), Torn)
    BY <1>6, <1>s DEF WritePrepared, Continue, Goto
  <2> QED
    BY <1>4, <2>1
<1>7. CASE SyncPrepared(p)
  <2>0. Continue(p, "prep_sync", "jrn_write") /\ Sync("publish")
    BY <1>7 DEF SyncPrepared
  <2>1. /\ pc[p] = "prep_sync" /\ pc'[p] = "jrn_write" /\ mode'[p] = "append" /\ snap'[p] = S
        /\ next_entry(p)' = e
    BY <1>1, <2>0, <1>s, ContinueEffect, SamePlan
  <2>2. /\ data'["publish"] = {prepared(Len(S) + 2)} /\ stale'["publish"] = stale["publish"]
        /\ \A m \in Name : m # "publish" => Same(m)
    BY <1>0, <1>1, <2>0, <2>1, <1>s, SyncEffect DEF Appending
  <2>3. Writing(S, e)' /\ vis'["journal"] = S
    BY <1>0, <1>2, <1>3, <2>2 DEF Committed, Writing, Durable, Same, Told, Shown
  <2>4. Appending(p)'
    BY <1>2, <2>1, <2>3 DEF Appending, PrepPc, TmpPc, CleanPc
  <2>5. Phase(p)'
    BY <1>0, <1>2, <2>1, <2>4, AppendPhase DEF AppendPc, JournalPc, Publishing
  <2>6. Store' /\ Shown' /\ data'["lock"] = data["lock"]
    BY <1>0, <1>2, <2>0, <2>2, <2>3, ShownKept DEF Store, Same
  <2> QED
    BY <1>0, <2>0, <2>5, <2>6, WriterStep DEF WriterPc, LockPc
<1> QED
  BY <1>5, <1>6, <1>7

\* The record.
LEMMA RecordCrash ==
  ASSUME TypeInv, LockInv, CrashInv, NEW p \in Proc,
         WriteRecordPart(p) \/ WriteRecordRest(p) \/ SyncRecord(p)
  PROVE CrashInv'
<1> USE NamesOfFiles
<1>s. PICK S, e : S = snap[p] /\ e = next_entry(p)
  OBVIOUS
<1>0. /\ pc[p] \in JournalPc /\ UNCHANGED <<known, dir>> /\ FilesOK /\ Shown
      /\ Appending(p) /\ Modes(p)
  BY OpeningFacts
  DEF WriteRecordPart, WriteRecordRest, SyncRecord, Continue, Goto, JournalPc, quiet
<1>1. mode[p] = "append"
  BY <1>0 DEF Modes
<1>2. /\ S \in History /\ Append(S, e) \in History /\ e \in Entry /\ known = S
      /\ Len(S) \in Nat /\ Len(S) < MaxEntries
  BY <1>1, <1>s, AppendFacts
<1>3. Writing(S, e)
  BY <1>0, <1>1, <1>s DEF Appending
<1>4. ASSUME NEW to \in {"jrn_rest", "jrn_sync", "tmp_open"}, Continue(p, pc[p], to),
             Writing(S, e)', Shown', data'["lock"] = data["lock"],
             to = "jrn_rest" => vis'["journal"] = Append(S, Torn),
             to = "jrn_sync" => vis'["journal"] = Append(S, e),
             to = "tmp_open" => data'["journal"] = {Append(S, e)}
      PROVE CrashInv'
  <2>1. pc'[p] = to /\ mode'[p] = "append" /\ snap'[p] = S /\ next_entry(p)' = e
    BY <1>1, <1>4, <1>s, ContinueEffect, SamePlan
  <2>2. Appending(p)'
    BY <1>2, <1>4, <2>1 DEF Appending, PrepPc, TmpPc, CleanPc
  <2>3. Phase(p)'
    BY <1>0, <1>2, <1>4, <2>1, <2>2, AppendPhase DEF AppendPc, JournalPc, TmpPc, Publishing
  <2>4. Store'
    BY <1>2, <1>4 DEF Store
  <2>5. pc[p] \in WriterPc /\ to \notin LockPc
    BY <1>0, <1>4 DEF JournalPc, WriterPc, LockPc
  <2> QED
    BY <1>0, <1>4, <2>3, <2>4, <2>5, WriterStep
<1>5. ASSUME NEW c \in {Append(S, Torn), Append(S, e)}, Write("journal", c, Append(S, Torn))
      PROVE /\ Writing(S, e)' /\ Shown' /\ data'["lock"] = data["lock"]
            /\ vis'["journal"] = c
  <2>1. /\ vis'["journal"] = c /\ data'["journal"] = data["journal"] \cup {Append(S, Torn), c}
        /\ stale'["journal"] = stale["journal"]
        /\ \A m \in Name : m # "journal" => Same(m)
    BY <1>0, <1>5, WriteEffect
  <2>2. Writing(S, e)'
    BY <1>0, <1>3, <1>5, <2>1 DEF Writing, Durable, Same, Told
  <2> QED
    BY <1>0, <1>5, <2>1, <2>2, ShownKept DEF Same
<1>6. CASE WriteRecordPart(p)
  <2>1. Continue(p, pc[p], "jrn_rest") /\ pc[p] = "jrn_write"
    BY <1>6 DEF WriteRecordPart, Continue, Goto
  <2>2. vis["journal"] = S
    BY <1>0, <1>1, <2>1, <1>s DEF Appending
  <2>3. Write("journal", Append(S, Torn), Append(S, Torn))
    BY <1>6, <2>2 DEF WriteRecordPart
  <2> QED
    BY <1>4, <1>5, <2>1, <2>3
<1>7. CASE WriteRecordRest(p)
  <2>1. Continue(p, pc[p], "jrn_sync") /\ pc[p] = "jrn_rest"
    BY <1>7 DEF WriteRecordRest, Continue, Goto
  <2>2. vis["journal"] = Append(S, Torn)
    BY <1>0, <1>1, <2>1, <1>s DEF Appending
  <2>3. [Append(S, Torn) EXCEPT ![Len(Append(S, Torn))] = e] = Append(S, e)
    <3>1. S \in Seq(Cell) /\ e \in Cell /\ Torn \in Cell
      BY <1>2 DEF History, Cell
    <3> DEFINE old == Append(S, Torn)
               new == Append(S, e)
               put == [old EXCEPT ![Len(old)] = e]
    <3>2. /\ old \in Seq(Cell) /\ new \in Seq(Cell) /\ Len(old) = Len(S) + 1
          /\ Len(new) = Len(S) + 1 /\ Len(S) \in Nat
      BY <3>1
    <3>3. /\ old[Len(S) + 1] = Torn /\ new[Len(S) + 1] = e
          /\ \A i \in 1 .. Len(S) : old[i] = S[i] /\ new[i] = S[i]
      BY <3>1
    <3> HIDE DEF old, new
    <3>4. put \in Seq(Cell) /\ Len(put) = Len(S) + 1
      BY <3>1, <3>2
    <3>5. ASSUME NEW i \in 1 .. Len(S) + 1 PROVE put[i] = new[i]
      BY <3>2, <3>3
    <3> HIDE DEF put
    <3>6. put = new
      BY <3>2, <3>4, <3>5
    <3> QED
      BY <3>6 DEF put, old, new
  <2>4. Write("journal", Append(S, e), Append(S, Torn))
    BY <1>7, <2>2, <2>3, <1>s DEF WriteRecordRest
  <2> QED
    BY <1>4, <1>5, <2>1, <2>4
<1>8. CASE SyncRecord(p)
  <2>1. Continue(p, pc[p], "tmp_open") /\ pc[p] = "jrn_sync" /\ Sync("journal")
    BY <1>8 DEF SyncRecord, Continue, Goto
  <2>2. vis["journal"] = Append(S, e)
    BY <1>0, <1>1, <2>1, <1>s DEF Appending
  <2>3. /\ data'["journal"] = {Append(S, e)} /\ stale'["journal"] = stale["journal"]
        /\ \A m \in Name : m # "journal" => Same(m)
    BY <1>0, <2>1, <2>2, SyncEffect
  <2>4. Writing(S, e)'
    BY <1>0, <1>3, <2>3 DEF Writing, Durable, Same, Told
  <2>5. Shown' /\ data'["lock"] = data["lock"]
    BY <1>0, <2>1, <2>3, ShownKept DEF Same
  <2> QED
    BY <1>4, <2>1, <2>3, <2>4, <2>5
<1> QED
  BY <1>6, <1>7, <1>8

\* The CLEAN witness of an initialization or an append.
LEMMA ReleaseCrash ==
  ASSUME TypeInv, LockInv, CrashInv, NEW p \in Proc, Release(p)
  PROVE CrashInv'
<1> USE NamesOfFiles
<1>0. /\ pc[p] \in CleanPc /\ dir' = dir /\ FilesOK /\ Shown /\ Initializing(p) /\ Appending(p)
      /\ mode[p] \in {"init", "append"}
  BY OpeningFacts
  DEF Release, TruncateClean, WriteClean, SyncClean, Continue, Goto, CleanPc
<1>s. PICK S, e : S = snap[p] /\ e = next_entry(p)
  OBVIOUS
\* The history that is being released.
<1>r. PICK R : R = IF mode[p] = "init" THEN <<>> ELSE Append(S, e)
  OBVIOUS
<1>1. /\ Committed(R) /\ R \in History /\ Len(R) \in Nat /\ clean_witness(p) = clean(Len(R) + 1)
      /\ mode[p] = "append" => /\ S \in History /\ Append(S, e) \in History /\ known = S
                               /\ R = Append(S, e)
  <2>1. CASE mode[p] = "init"
    BY <1>0, <1>r, <2>1, EmptyPoint DEF Initializing, clean_witness
  <2>2. CASE mode[p] = "append"
    <3>1. /\ S \in History /\ R \in History /\ known = S /\ Len(R) = Len(S) + 1
          /\ Len(S) \in Nat /\ R = Append(S, e)
      BY <1>s, <1>r, <2>2, AppendFacts
    <3>2. Committed(Append(S, e))
      BY <1>0, <1>s, <2>2 DEF Appending
    <3>3. (Len(S) + 1) + 1 = Len(S) + 2
      BY <3>1
    <3> QED
      BY <1>s, <2>2, <3>1, <3>2, <3>3 DEF clean_witness
  <2> QED
    BY <1>0, <2>1, <2>2
<1>2. ASSUME Committed(R)', known' = known, NEW to \in {"clean_write", "clean_sync", "load"},
             Continue(p, pc[p], to), Shown', data'["lock"] = data["lock"],
             to = "load" => mode[p] = "init",
             to = "clean_write" => vis'["publish"] = Torn
      PROVE CrashInv'
  <2>1. /\ pc'[p] = to /\ mode'[p] = mode[p] /\ snap'[p] = S /\ next_entry(p)' = e
    BY <1>2, <1>s, ContinueEffect, SamePlan
  <2>2. Publishing(p)'
    BY <1>2, <2>1 DEF Publishing
  <2>3. CASE mode[p] = "init"
    <3>1. R = <<>>
      BY <1>r, <2>3
    <3> QED
      BY <1>2, <2>1, <2>2, <2>3, <3>1, InitPhase, WriterStep, <1>0, <1>1
      DEF Opening, Initializing, PrepPc, JournalPc, TmpPc, CleanPc, WriterPc, LockPc, Store
  <2>4. CASE mode[p] = "append"
    <3>1. to \in {"clean_write", "clean_sync"}
      BY <1>2, <2>4
    <3>2. Appending(p)'
      BY <1>1, <1>2, <2>1, <2>4, <3>1 DEF Appending, PrepPc, JournalPc, TmpPc, CleanPc
    <3>3. Phase(p)'
      BY <1>1, <1>2, <2>1, <2>2, <2>4, <3>1, <3>2, AppendPhase DEF AppendPc, CleanPc
    <3>4. Store'
      BY <1>1, <1>2 DEF Store
    <3>5. pc[p] \in WriterPc /\ to \notin LockPc
      BY <1>0, <3>1 DEF CleanPc, WriterPc, LockPc
    <3> QED
      BY <1>0, <1>2, <3>3, <3>4, <3>5, WriterStep
  <2> QED
    BY <1>0, <2>3, <2>4
<1>3. ASSUME NEW w \in {Torn, clean(Len(R) + 1)}, Write("publish", w, Torn), known' = known
      PROVE /\ Committed(R)' /\ Shown' /\ data'["lock"] = data["lock"] /\ vis'["publish"] = w
  <2>1. /\ vis'["publish"] = w /\ data'["publish"] = data["publish"] \cup {Torn, w}
        /\ stale'["publish"] = stale["publish"]
        /\ \A m \in Name : m # "publish" => Same(m)
    BY <1>0, <1>3, WriteEffect
  <2>2. {Torn, w} \subseteq Beside(Len(R))
    BY <1>3 DEF Beside
  <2>3. Committed(R)'
    BY <1>1, <1>3, <2>1, <2>2 DEF Committed, Durable, Same, Reveals
  <2> QED
    BY <1>0, <1>3, <2>1, <2>3, ShownKept DEF Same
<1>4. CASE TruncateClean(p)
  <2>1. /\ Continue(p, pc[p], "clean_write") /\ Write("publish", Torn, Torn) /\ known' = known
    BY <1>4 DEF TruncateClean, Continue, Goto, quiet
  <2> QED
    BY <1>2, <1>3, <2>1
<1>5. CASE WriteClean(p)
  <2>1. /\ Continue(p, pc[p], "clean_sync") /\ Write("publish", clean(Len(R) + 1), Torn)
        /\ known' = known
    BY <1>1, <1>5 DEF WriteClean, Continue, Goto, quiet
  <2> QED
    BY <1>2, <1>3, <2>1
<1>6. CASE SyncClean(p)
  <2>1. Sync("publish") /\ vis["publish"] = clean(Len(R) + 1)
    BY <1>1, <1>6 DEF SyncClean
  <2>2. /\ data'["publish"] = {clean(Len(R) + 1)} /\ stale'["publish"] = stale["publish"]
        /\ \A m \in Name : m # "publish" => Same(m)
    BY <1>0, <2>1, SyncEffect
  <2>3. Shown' /\ data'["lock"] = data["lock"]
    BY <1>0, <2>1, <2>2, ShownKept DEF Same
  <2>4. known' \in {known, R} => Committed(R)'
    BY <1>1, <2>2 DEF Committed, Durable, Same, Beside, Reveals
  <2>5. CASE mode[p] = "init" /\ Continue(p, "clean_sync", "load") /\ known' = known
    <3>1. Continue(p, pc[p], "load")
      BY <2>5 DEF Continue, Goto
    <3> QED
      BY <1>2, <2>3, <2>4, <2>5, <3>1
  <2>6. CASE /\ mode[p] = "append" /\ Finish(p, "accepted")
             /\ known' = Append(snap[p], next_entry(p))
    <3>1. known' = R
      BY <1>1, <1>s, <2>6
    <3>2. Bystanders(p) /\ Phase(p)' /\ LockSeen(p)'
      BY <2>6, FinishEffect
    <3>3. held[p] # "none"
      BY <1>0 DEF LockInv, Holding, CleanPc, WriterPc
    <3>4. Store' /\ Provisioned'
      BY <1>0, <1>1, <2>4, <3>1 DEF Store, CrashInv, Provisioned
    <3> QED
      BY <2>3, <3>2, <3>3, <3>4, HolderStep
  <2> QED
    BY <1>6, <2>5, <2>6 DEF SyncClean
<1> QED
  BY <1>4, <1>5, <1>6 DEF Release

-----------------------------------------------------------------------------
(* The invariant holds.                                                    *)

\* Every step keeps the situations.
LEMMA NextCrash ==
  ASSUME TypeInv, LockInv, CrashInv, [Next]_vars
  PROVE CrashInv'
<1>1. CASE UNCHANGED vars
  <2>1. /\ Calm(Name) /\ Calm(Artifact) /\ UNCHANGED <<known, pc, mode, snap, cmd, seen, dir>>
        /\ UNCHANGED <<vis, data>>
    BY <1>1, NamesOfFiles DEF vars, Calm
  <2>2. Store' /\ \A q \in Proc : Phase(q)'
    BY <2>1, CalmStore, CalmPhase DEF CrashInv
  <2> QED
    BY <2>1, <2>2 DEF CrashInv, Shown, Provisioned, LockSeen
<1>2. ASSUME NEW p \in Proc, Step(p) PROVE CrashInv'
  <2>1. CASE Open(p)
    BY <2>1, ApproachCrash, AcquireCrash, OpenJournalCrash, OpenExistingCrash, FreshCrash,
       WitnessCrash DEF Open
  <2>2. CASE PublishCommit(p)
    BY <2>2, TemporaryCrash, RenameCrash, SyncCommitCrash DEF PublishCommit
  <2>3. CASE AppendEvent(p)
    BY <2>3, RevalidateCrash, PrepareCrash, RecordCrash DEF AppendEvent
  <2>4. CASE Read(p)
    BY <2>4, ApproachCrash, AcquireCrash DEF Read
  <2> QED
    BY <1>2, <2>1, <2>2, <2>3, <2>4, ReleaseCrash, EngineCrash DEF Step
<1> QED
  BY <1>1, <1>2, StartCrash, EnvironmentCrash DEF Next

\* Before anything was created there is no commit point.
LEMMA InitCrash ==
  ASSUME Init
  PROVE CrashInv
<1> USE NamesOfFiles
<1>1. Shown /\ Provisioned
  BY DEF Init, Shown, Provisioned
<1>2. NoCommit
  BY DEF Init, NoCommit, Told, Early
<1>3. \A p \in Proc : Phase(p) /\ LockSeen(p)
  BY DEF Init, Phase, Modes, Opening, Publishing, Initializing, Appending, LockSeen, LockPc,
     AppendPc, PrepPc, JournalPc, TmpPc, CleanPc
<1> QED
  BY <1>1, <1>2, <1>3 DEF CrashInv, Store

StoreInv == TypeInv /\ LockInv /\ CrashInv

\* The invariant of the store: its types, its locks and its situations.
THEOREM StoreInvariant == Spec => []StoreInv
<1>1. Init => StoreInv
  BY InitTypes, InitCrash
  DEF StoreInv, Init, LockInv, Exclusion, Holding, Current, WriterPc, ReaderPc, SnapshotPc
<1>2. StoreInv /\ [Next]_vars => StoreInv'
  BY NextTypes, NextLocks, NextCrash DEF StoreInv
<1> QED
  BY <1>1, <1>2, PTL DEF Spec

-----------------------------------------------------------------------------
(* What clients were told survives.                                        *)

\* Prefixes of a sequence of cells.
LEMMA Prefixing ==
  ASSUME NEW S \in Seq(Cell), NEW x \in Cell
  PROVE /\ IsPrefix(S, S) /\ IsPrefix(<<>>, S)
        /\ Append(S, x) \in Seq(Cell) /\ IsPrefix(S, Append(S, x))
        /\ Len(Append(S, x)) = Len(S) + 1 /\ Len(S) \in Nat
<1>1. /\ Append(S, x) \in Seq(Cell) /\ Len(Append(S, x)) = Len(S) + 1 /\ Len(S) \in Nat
  OBVIOUS
<1>2. SubSeq(S, 1, Len(S)) = S /\ SubSeq(Append(S, x), 1, Len(S)) = S
  OBVIOUS
<1>3. IsPrefix(S, S) /\ IsPrefix(<<>>, S)
  BY <1>1, <1>2 DEF IsPrefix
<1>4. IsPrefix(S, Append(S, x))
  BY <1>1, <1>2 DEF IsPrefix
<1> QED
  BY <1>1, <1>3, <1>4

\* A provisioned store has told a prefix of every history that may survive.
LEMMA ToldIsPrefix ==
  ASSUME StateDirProvisioned, known \in Seq(Entry), NEW S \in History
  PROVE /\ Told(S) => known = S
        /\ Reveals(S) => IsPrefix(known, S) /\ Len(known) <= Len(S)
<1>1. known \in Seq(Cell) /\ S \in Seq(Cell) /\ Len(S) \in Nat
  BY DEF Cell, History
<1>2. ASSUME Reveals(S) PROVE IsPrefix(known, S) /\ Len(known) <= Len(S)
  <2>1. CASE known = S
    BY <1>1, <2>1 DEF IsPrefix
  <2>2. CASE S # <<>> /\ S = Append(known, S[Len(S)])
    <3>1. PICK x \in Cell : S = Append(known, x)
      BY <1>1, <2>2
    <3>2. /\ IsPrefix(known, Append(known, x)) /\ Len(Append(known, x)) = Len(known) + 1
          /\ Len(known) \in Nat
      BY <1>1, Prefixing
    <3> QED
      BY <3>1, <3>2
  <2> QED
    BY <1>2, <2>1, <2>2 DEF Reveals
<1> QED
  BY <1>2 DEF Told

\* KnownSurvives for every number of processes and power losses, when the
\* state directory was provisioned durably: what load_committed or an append
\* ever returned is in every journal and under every commit point that a power
\* loss could leave, whatever step any writer is at.
THEOREM KnownIsNeverLost ==
  ASSUME StateDirProvisioned PROVE Spec => []KnownSurvives
<1>1. StoreInv => KnownSurvives
  <2> SUFFICES ASSUME StoreInv, known # <<>> PROVE
                 /\ \A j \in Survive("journal") : j # Absent /\ IsPrefix(known, j)
                 /\ \A c \in Survive("commit") :
                      c \notin {Absent, Torn} /\ c.entries >= Len(known)
    BY DEF KnownSurvives
  <2>0. known \in Seq(Entry) /\ known \in Seq(Cell) /\ Len(known) \in Nat /\ Store
    BY DEF StoreInv, TypeInv, TypeOK, CrashInv, Cell
  <2>1. ~NoCommit /\ ~EmptyCommit
    BY DEF NoCommit, EmptyCommit, Told
  <2>2. ASSUME NEW S \in History PROVE S \in Seq(Cell) /\ S # Absent /\ Len(S) \in Nat
    BY FileConstants DEF History, Cell
  <2>3. ASSUME NEW S \in History, Committed(S) PROVE
               /\ \A j \in Survive("journal") : j # Absent /\ IsPrefix(known, j)
               /\ \A c \in Survive("commit") :
                    c \notin {Absent, Torn} /\ c.entries >= Len(known)
    <3>1. IsPrefix(known, S) /\ Len(known) <= Len(S) /\ Len(S) \in Nat /\ S # Absent
      BY <2>0, <2>2, <2>3, ToldIsPrefix DEF Committed
    <3>2. Survive("journal") = {S} /\ Survive("commit") = {for_prefix(S, Len(S))}
      BY <2>3 DEF Committed, Durable, Survive
    <3> QED
      BY <2>0, <3>1, <3>2, PointOfHistory
  <2>4. ASSUME NEW S \in History, NEW e \in Entry, Writing(S, e) \/ Renamed(S, e) PROVE
               /\ \A j \in Survive("journal") : j # Absent /\ IsPrefix(known, j)
               /\ \A c \in Survive("commit") :
                    c \notin {Absent, Torn} /\ c.entries >= Len(known)
    <3>1. known = S /\ Append(S, e) \in History
      BY <2>0, <2>4, ToldIsPrefix DEF Writing, Renamed
    <3>2. e \in Cell /\ Torn \in Cell
      BY DEF Cell
    <3>3. \A x \in Cell : /\ Append(S, x) \in Seq(Cell) /\ IsPrefix(S, Append(S, x))
                          /\ IsPrefix(S, S) /\ Len(Append(S, x)) = Len(S) + 1
      BY <2>2, Prefixing
    <3>4. /\ Survive("journal") \subseteq {S, Append(S, Torn), Append(S, e)}
          /\ Survive("commit") \subseteq
               {for_prefix(S, Len(S)), for_prefix(Append(S, e), Len(Append(S, e)))}
      BY <2>4, <3>2, <3>3 DEF Writing, Renamed, Durable, Survive
    <3>5. /\ S # Absent /\ Append(S, Torn) # Absent /\ Append(S, e) # Absent
      BY <2>2, <3>2, <3>3, FileConstants
    <3>6. ASSUME NEW c \in {for_prefix(S, Len(S)), for_prefix(Append(S, e), Len(Append(S, e)))}
          PROVE c \notin {Absent, Torn} /\ c.entries >= Len(known)
      <4>1. CASE c = for_prefix(S, Len(S))
        BY <2>0, <3>1, <4>1, PointOfHistory
      <4>2. CASE c = for_prefix(Append(S, e), Len(Append(S, e)))
        <5>1. Len(Append(S, e)) = Len(S) + 1 /\ Len(S) \in Nat
          BY <2>2, <3>2, <3>3
        <5>2. c \notin {Absent, Torn} /\ c.entries = Len(Append(S, e))
          BY <3>1, <4>2, PointOfHistory
        <5> QED
          BY <3>1, <5>1, <5>2
      <4> QED
        BY <4>1, <4>2
    <3> QED
      BY <3>1, <3>2, <3>3, <3>4, <3>5, <3>6
  <2> QED
    BY <2>0, <2>1, <2>3, <2>4 DEF Store
<1> QED
  BY <1>1, StoreInvariant, PTL

\* Only load_committed and the end of an append tell anybody anything.
LEMMA WhoTells ==
  ASSUME Next, known' # known
  PROVE \E p \in Proc : LoadCommitted(p) \/ SyncClean(p)
<1>1. ASSUME NEW p \in Proc, Open(p) \/ PublishCommit(p) \/ AppendEvent(p) \/ Read(p)
      PROVE FALSE
  <2>1. UNCHANGED quiet
    BY <1>1 DEF Open, PublishCommit, AppendEvent, Read, EnsureStateDir, CreateStateDir,
       SyncStateDir, SyncParentDir, StatArtifact, Stat, OpenLock, AcquireExclusive, OpenJournal,
       OpenExisting, SyncLock, SyncJournal, SyncInitDir, CreateWitness, WriteInitializing,
       SyncInitializing, SyncWitnessDir, OpenTemporary, WriteTemporary, SyncTemporary,
       RenameCommit, SyncCommitDir, RevalidateAppend, TruncatePrepared, WritePrepared,
       SyncPrepared, WriteRecordPart, WriteRecordRest, SyncRecord, ReaderOpen, AcquireShared,
       quiet
  <2> QED
    BY <2>1 DEF quiet
<1>2. ASSUME NEW p \in Proc,
             \/ \E c \in Command : Start(p, c)
             \/ IoError(p) \/ ClockError(p) \/ Kill(p) \/ Reconcile(p) \/ Decide(p)
             \/ TruncateClean(p) \/ WriteClean(p)
      PROVE FALSE
  BY <1>2 DEF Start, IoError, ClockError, Kill, Reconcile, Decide, TruncateClean, WriteClean,
     quiet
<1>3. ~PowerLoss
  BY DEF PowerLoss
<1> QED
  BY <1>1, <1>2, <1>3 DEF Next, Step, Engine, Release

\* KnownMonotone under the same assumption: no client is ever told an older or
\* a different history than any client was told before.
THEOREM KnownOnlyGrows ==
  ASSUME StateDirProvisioned PROVE Spec => KnownMonotone
<1>1. ASSUME StoreInv, [Next]_vars, known' # known PROVE IsPrefix(known, known')
  <2>0. /\ TypeInv /\ LockInv /\ CrashInv /\ known \in Seq(Entry) /\ known \in Seq(Cell)
        /\ FilesOK /\ Shown /\ Store
    BY <1>1 DEF StoreInv, TypeInv, TypeOK, CrashInv, Cell
  <2>1. PICK p \in Proc : LoadCommitted(p) \/ SyncClean(p)
    BY <1>1, WhoTells DEF vars
  <2>2. CASE LoadCommitted(p)
    <3>1. read_snapshot(vis) = OK /\ known' = vis["journal"]
      BY <1>1, <2>2 DEF LoadCommitted
    <3>2. PICK S \in History : Committed(S) /\ vis["journal"] = S
      BY <2>0, <3>1, SnapshotSituation
    <3> QED
      BY <2>0, <3>1, <3>2, ToldIsPrefix DEF Committed
  <2>3. CASE SyncClean(p)
    <3>1. mode[p] = "append" /\ known' = Append(snap[p], next_entry(p))
      BY <1>1, <2>3 DEF SyncClean
    <3>2. known = snap[p] /\ next_entry(p) \in Cell
      BY <2>0, <3>1, AppendFacts DEF Cell
    <3> QED
      BY <2>0, <3>1, <3>2, Prefixing
  <2> QED
    BY <2>1, <2>2, <2>3
<1>2. StoreInv /\ [Next]_vars => [IsPrefix(known, known')]_known
  BY <1>1
<1> QED
  BY <1>2, StoreInvariant, PTL DEF Spec, KnownMonotone

-----------------------------------------------------------------------------
(* What the images a power loss leaves read as.                            *)

\* A committed prefix passes the checks, whatever follows it in the journal.
LEMMA PrefixChecks ==
  ASSUME NEW S \in History, NEW j \in Seq(Cell), Len(S) <= Len(j), SubSeq(j, 1, Len(S)) = S
  PROVE check_prefix(j, for_prefix(S, Len(S))) = OK
<1> DEFINE c == for_prefix(S, Len(S))
<1>1. c.bytes = Len(S) /\ c.entries = Len(S) /\ c.digest = S
  BY PointOfHistory
<1>2. /\ S \in Seq(Entry) /\ Len(S) \in Nat /\ Len(S) <= MaxEntries
      /\ \A i \in 1 .. Len(S) : S[i].seq = i
  BY DEF History
<1> HIDE DEF c
<1>3. prefix_of(j, c) = S
  BY <1>1 DEF prefix_of
<1>4. decode_contents(S) = OK
  <2>1. ASSUME NEW i \in DOMAIN S PROVE ~(i > MaxEntries) /\ decode_line(S, i) = OK
    <3>1. i \in 1 .. Len(S) /\ S[i] \in Entry
      BY <1>2
    <3>2. S[i] # Torn /\ S[i] # Foreign
      BY <3>1, FileConstants
    <3> QED
      BY <1>2, <3>1, <3>2, MaxEntriesIsPositive DEF decode_line
  <2>2. DOMAIN S \in SUBSET Nat
    BY <1>2
  <2> QED
    BY <2>1, <2>2, ContentsDecode
<1>5. check_prefix(j, c) = OK
  BY <1>1, <1>3, <1>4 DEF check_prefix
<1> QED
  BY <1>5 DEF c

\* A journal is there.
LEMMA JournalThere ==
  ASSUME NEW j \in Seq(Cell)
  PROVE j # Absent /\ Len(j) \in Nat
BY FileConstants

\* A history is a journal.
LEMMA HistoryThere ==
  ASSUME NEW S \in History
  PROVE S \in Seq(Cell) /\ Len(S) \in Nat
BY DEF History, Cell

\* The commit point of an append in progress, old or new, is in order.
LEMMA PreparedRelation ==
  ASSUME NEW c, NEW w, NEW n \in Nat, NEW m \in Nat, NEW k \in Nat, n <= k,
         n = m \/ (n = m + 1 /\ k = n), c.generation = n + 1, c.bytes = n,
         w.started = m + 2, w.published = m + 1, NEW j, Len(j) = k, check_prefix(j, c) = OK
  PROVE /\ require_prepared_commit_relation(w, c) = OK
        /\ validate_prepared_commit_prefix(j, c, w) = OK
<1>1. require_prepared_commit_relation(w, c) = OK
  BY DEF require_prepared_commit_relation
<1>2. ~(k < n) /\ (n + 1 = m + 2 => k = n)
  OBVIOUS
<1> QED
  BY <1>1, <1>2 DEF validate_prepared_commit_prefix

\* An append that was interrupted between PREPARED and CLEAN reads as unknown.
LEMMA PreparedReads ==
  ASSUME NEW S \in History, NEW j \in Seq(Cell), Len(S) <= Len(j), SubSeq(j, 1, Len(S)) = S,
         NEW m \in Nat, m < MaxEntries, Len(S) = m \/ (Len(S) = m + 1 /\ Len(j) = Len(S)),
         NEW image, image.journal = j, image.commit = for_prefix(S, Len(S)),
         image.publish = prepared(m + 2)
  PROVE read_snapshot(image) = OUTCOME_UNKNOWN
<1> DEFINE c == for_prefix(S, Len(S))
           w == prepared(m + 2)
<1>1. /\ c # Absent /\ decode_commit(c) = OK /\ c.generation = Len(S) + 1 /\ c.bytes = Len(S)
  BY PointOfHistory
<1>2. /\ w # Absent /\ decode_publish(w) = OK /\ w.started = m + 2 /\ w.published = m + 1
      /\ is_prepared_successor(w) /\ ~is_initializing(w)
  BY PreparedWitness
<1>3. check_prefix(j, c) = OK
  BY PrefixChecks
<1>4. j # Absent /\ Len(S) \in Nat /\ Len(j) \in Nat
  BY JournalThere, HistoryThere, Zenon
<1> HIDE DEF c, w
<1>5. decode_metadata(image) = OK
  BY <1>1, <1>2 DEF decode_metadata, c, w
<1>6. PICK n, k : n = Len(S) /\ k = Len(j)
  OBVIOUS
<1>7. /\ require_prepared_commit_relation(w, c) = OK
      /\ validate_prepared_commit_prefix(j, c, w) = OK
  <2>1. /\ n \in Nat /\ k \in Nat /\ n <= k
        /\ n = m \/ (n = m + 1 /\ k = n)
        /\ c.generation = n + 1 /\ c.bytes = n /\ Len(j) = k
    BY <1>1, <1>4, <1>6, Zenon
  <2> QED
    BY <1>2, <1>3, <2>1, PreparedRelation, Zenon
<1>8. read_prepared(j, c, w) = OUTCOME_UNKNOWN
  BY <1>7 DEF read_prepared
<1> QED
  BY <1>2, <1>4, <1>5, <1>8 DEF read_snapshot, c, w

\* A released history reads as known.
LEMMA CleanReads ==
  ASSUME NEW image, NEW S \in History, image.journal = S,
         image.commit = for_prefix(S, Len(S)), image.publish = clean(Len(S) + 1)
  PROVE read_snapshot(image) = OK
<1> DEFINE c == image.commit
           w == image.publish
<1>0. S \in Seq(Cell) /\ Len(S) \in Nat /\ Len(S) <= MaxEntries /\ SubSeq(S, 1, Len(S)) = S
  BY DEF History, Cell
<1>1. /\ c # Absent /\ decode_commit(c) = OK /\ c.generation = Len(S) + 1 /\ c.bytes = Len(S)
  BY PointOfHistory
<1>2. /\ w # Absent /\ decode_publish(w) = OK /\ ~is_prepared_successor(w)
      /\ ~is_initializing(w) /\ w = clean(c.generation)
  BY <1>0, <1>1, CleanWitness
<1>3. check_prefix(S, c) = OK
  BY <1>0, PrefixChecks
<1>4. S # Absent
  BY <1>0, FileConstants
<1> HIDE DEF c, w
<1>5. decode_metadata(image) = OK
  BY <1>1, <1>2 DEF decode_metadata, c, w
<1>6. read_clean(S, c, w) = OK
  BY <1>0, <1>1, <1>2, <1>3 DEF read_clean
<1> QED
  BY <1>2, <1>4, <1>5, <1>6 DEF read_snapshot, c, w

\* A store that was never released is not initialized.
LEMMA EarlyReads ==
  ASSUME NEW image, image.publish \in {Absent, initializing},
         image.commit = Absent \/ (image.commit = empty /\ image.journal = <<>>)
  PROVE read_snapshot(image) = UNAVAILABLE
<1>1. decode_commit(empty) = OK
  BY EmptyPoint, PointOfHistory
<1>2. CASE image.commit = Absent \/ image.publish = Absent
  BY <1>1, <1>2 DEF read_snapshot, decode_metadata, UNAVAILABLE, OK
<1>3. CASE /\ image.commit = empty /\ image.journal = <<>> /\ image.publish = initializing
  <2>1. decode_metadata(image) = OK
    BY <1>1, <1>3, InitializingWitness, EmptyPoint DEF decode_metadata
  <2>2. exact_empty(image) /\ is_initializing(image.publish)
    BY <1>3, InitializingWitness, EmptyPoint DEF exact_empty
  <2> QED
    BY <2>1, <2>2 DEF read_snapshot
<1> QED
  BY <1>2, <1>3

\* Whatever a power loss leaves, at any step of any writer, is consistent.
LEMMA SurvivorsRead ==
  ASSUME Store, NEW j \in Survive("journal"), NEW c \in Survive("commit"),
         NEW w \in Survive("publish"), w # Torn,
         NEW image, image.journal = j, image.commit = c, image.publish = w
  PROVE read_snapshot(image) \in {OK, OUTCOME_UNKNOWN, UNAVAILABLE}
<1>0. /\ j \in data["journal"] \cup stale["journal"] /\ c \in data["commit"] \cup stale["commit"]
      /\ w \in data["publish"] \cup stale["publish"]
  BY DEF Survive
<1>1. CASE NoCommit
  <2>1. c = Absent /\ w \in {Absent, initializing}
    BY <1>0, <1>1 DEF NoCommit, Early
  <2> QED
    BY <2>1, EarlyReads
<1>2. CASE EmptyCommit
  <2>1. j = <<>> /\ c \in {Absent, empty} /\ w \in {Absent, initializing}
    BY <1>0, <1>2 DEF EmptyCommit, Durable, Early
  <2> QED
    BY <2>1, EarlyReads
<1>3. ASSUME NEW S \in History, Committed(S)
      PROVE read_snapshot(image) \in {OK, OUTCOME_UNKNOWN, UNAVAILABLE}
  <2>1. j = S /\ c = for_prefix(S, Len(S)) /\ w \in Beside(Len(S))
    BY <1>0, <1>3 DEF Committed, Durable
  <2>2. S \in Seq(Cell) /\ Len(S) \in Nat /\ Len(S) <= Len(S) /\ SubSeq(S, 1, Len(S)) = S
        /\ Len(S) <= MaxEntries
    BY DEF History, Cell
  <2>3. CASE w = clean(Len(S) + 1)
    BY <2>1, <2>3, CleanReads
  <2>4. CASE w = prepared(Len(S) + 2) /\ Len(S) < MaxEntries
    BY <2>1, <2>2, <2>4, PreparedReads
  <2>5. CASE w = prepared(Len(S) + 1)
    <3>1. CASE Len(S) = 0
      <4>1. S = <<>> /\ w = initializing
        BY <2>2, <2>5, <3>1, InitializingWitness
      <4>2. c = empty
        BY <2>1, <4>1, EmptyPoint
      <4> QED
        BY <2>1, <4>1, <4>2, EarlyReads
    <3>2. CASE Len(S) # 0
      <4>1. PICK m \in Nat : Len(S) = m + 1
        <5>1. Len(S) - 1 \in Nat /\ Len(S) = (Len(S) - 1) + 1
          BY <2>2, <3>2
        <5> QED
          BY <5>1
      <4>2. (m + 1) + 1 = m + 2 /\ m < MaxEntries
        BY <2>2, <4>1, MaxEntriesIsPositive
      <4>3. w = prepared(m + 2)
        BY <2>5, <4>1, <4>2
      <4> QED
        BY <2>1, <2>2, <4>1, <4>2, <4>3, PreparedReads
    <3> QED
      BY <3>1, <3>2
  <2> QED
    BY <2>1, <2>3, <2>4, <2>5 DEF Beside
<1>4. ASSUME NEW S \in History, NEW e \in Entry, Writing(S, e) \/ Renamed(S, e)
      PROVE read_snapshot(image) \in {OK, OUTCOME_UNKNOWN, UNAVAILABLE}
  <2> DEFINE new == Append(S, e)
  <2>1. /\ new \in History /\ w = prepared(Len(S) + 2)
        /\ j \in {S, Append(S, Torn), new}
        /\ \/ c = for_prefix(S, Len(S))
           \/ c = for_prefix(new, Len(S) + 1) /\ j = new
    BY <1>0, <1>4 DEF Writing, Renamed, Durable
  <2>2. S \in Seq(Cell) /\ Len(S) \in Nat /\ e \in Cell /\ Torn \in Cell
    BY DEF History, Cell
  <2>3. /\ new \in Seq(Cell) /\ Len(new) = Len(S) + 1 /\ SubSeq(new, 1, Len(S) + 1) = new
        /\ Append(S, Torn) \in Seq(Cell) /\ Len(Append(S, Torn)) = Len(S) + 1
        /\ SubSeq(S, 1, Len(S)) = S /\ SubSeq(new, 1, Len(S)) = S
        /\ SubSeq(Append(S, Torn), 1, Len(S)) = S
    BY <2>2
  <2>4. Len(S) < MaxEntries
    <3>1. Len(new) <= MaxEntries
      BY <2>1 DEF History
    <3> QED
      BY <2>2, <2>3, <3>1, MaxEntriesIsPositive
  <2> HIDE DEF new
  <2>5. CASE c = for_prefix(S, Len(S))
    <3>1. j \in Seq(Cell) /\ Len(S) <= Len(j) /\ SubSeq(j, 1, Len(S)) = S
      <4>1. CASE j = S
        BY <2>2, <2>3, <4>1
      <4>2. CASE j = new
        BY <2>2, <2>3, <4>2
      <4>3. CASE j = Append(S, Torn)
        BY <2>2, <2>3, <4>3
      <4> QED
        BY <2>1, <4>1, <4>2, <4>3
    <3> QED
      BY <2>1, <2>2, <2>4, <2>5, <3>1, PreparedReads
  <2>6. CASE c = for_prefix(new, Len(S) + 1) /\ j = new
    <3>1. /\ c = for_prefix(new, Len(new)) /\ Len(new) <= Len(new)
          /\ SubSeq(new, 1, Len(new)) = new
      BY <2>2, <2>3, <2>6
    <3> QED
      BY <2>1, <2>2, <2>3, <2>4, <2>6, <3>1, PreparedReads
  <2> QED
    BY <2>1, <2>5, <2>6
<1> QED
  BY <1>1, <1>2, <1>3, <1>4 DEF Store

\* CrashNeverContradicts, with or without a provisioned directory: at every
\* step of every writer, each combination of journal, commit point and witness
\* that a power loss could leave is read as known, unknown or not initialized;
\* only a witness torn by rewrite_file reads as corrupt.
THEOREM CrashesNeverContradict == Spec => []CrashNeverContradicts
<1>1. StoreInv => CrashNeverContradicts
  <2> SUFFICES ASSUME StoreInv, NEW image \in SurvivingImages, image.publish # Torn
               PROVE read_snapshot(image) # CORRUPT
    BY DEF CrashNeverContradicts
  <2>1. PICK j \in Survive("journal"), c \in Survive("commit"), w \in Survive("publish") :
          image = [lock |-> vis["lock"], journal |-> j, commit |-> c, publish |-> w]
    BY DEF SurvivingImages
  <2>2. image.journal = j /\ image.commit = c /\ image.publish = w
    BY <2>1
  <2>3. Store
    BY DEF StoreInv, CrashInv
  <2>4. read_snapshot(image) \in {OK, OUTCOME_UNKNOWN, UNAVAILABLE}
    BY <2>2, <2>3, SurvivorsRead
  <2> QED
    BY <2>4 DEF OK, OUTCOME_UNKNOWN, UNAVAILABLE, CORRUPT
<1> QED
  BY <1>1, StoreInvariant, PTL

-----------------------------------------------------------------------------
(* An interrupted append stays put.                                        *)

\* What an abandoned append excludes.
LEMMA AbandonedFacts ==
  ASSUME StoreInv, abandoned
  PROVE /\ vis["publish"] \notin Early /\ ~NoCommit
        /\ vis["lock"] # Absent /\ vis["journal"] # Absent
        /\ \A p \in Proc : mode[p] = "init" /\ pc[p] \notin PrepPc \cup JournalPc
<1> USE NamesOfFiles
<1>0. Shown /\ Store /\ vis["publish"] \in data["publish"]
  BY DEF StoreInv, CrashInv, Shown
<1>1. vis["publish"] \notin Early
  <2>1. ~is_prepared_successor(initializing)
    BY DEF is_prepared_successor, initializing, witness
  <2> QED
    BY <2>1 DEF abandoned, Early
<1>2. ~NoCommit
  BY <1>0, <1>1 DEF NoCommit
<1>3. vis["lock"] # Absent /\ vis["journal"] # Absent
  BY <1>0, <1>2, MissingArtifact
<1>4. ASSUME NEW p \in Proc PROVE mode[p] = "init" /\ pc[p] \notin PrepPc \cup JournalPc
  BY OpeningFacts DEF abandoned, StoreInv, Modes
<1> QED
  BY <1>1, <1>2, <1>3, <1>4

\* A step that may change a visible artifact, and why it does not happen.
LEMMA AbandonedStep ==
  ASSUME StoreInv, abandoned, NEW p \in Proc, Step(p)
  PROVE \A n \in Artifact : vis'[n] = vis[n]
<1> USE NamesOfFiles
<1>0. /\ TypeInv /\ CrashInv /\ FilesOK /\ Opening(p) /\ Initializing(p) /\ mode[p] = "init"
      /\ pc[p] \notin PrepPc \cup JournalPc /\ vis["publish"] \notin Early /\ ~NoCommit
      /\ vis["lock"] # Absent /\ vis["journal"] # Absent
  BY AbandonedFacts, OpeningFacts DEF StoreInv
<1>1. CASE Open(p)
  <2>1. ASSUME CreateWitness(p) \/ WriteInitializing(p) PROVE vis' = vis
    BY <1>0, <2>1 DEF CreateWitness, WriteInitializing, Continue, Goto, Opening, Early, Refuse, fs
  <2>2. ASSUME OpenLock(p) \/ OpenJournal(p) PROVE vis' = vis
    BY <1>0, <2>2 DEF OpenLock, OpenJournal, Refuse, fs
  <2>3. CASE OpenExisting(p)
    BY <2>3 DEF OpenExisting, Refuse, fs
  <2>4. CASE CreateStateDir(p)
    BY <2>4 DEF CreateStateDir, Refuse, fs
  <2>5. CASE AcquireExclusive(p)
    BY <2>5 DEF AcquireExclusive, Refuse, fs
  <2>6. CASE StatArtifact(p)
    BY <2>6 DEF StatArtifact, Stat, fs
  <2>7. CASE \/ EnsureStateDir(p) \/ SyncStateDir(p) \/ SyncParentDir(p)
             \/ SyncLock(p) \/ SyncJournal(p) \/ SyncInitDir(p)
             \/ SyncInitializing(p) \/ SyncWitnessDir(p)
    BY <2>7 DEF EnsureStateDir, SyncStateDir, SyncParentDir, SyncLock, SyncJournal, SyncInitDir,
       SyncInitializing, SyncWitnessDir, Sync, SyncDirectory, fs
  <2> QED
    BY <1>1, <2>1, <2>2, <2>3, <2>4, <2>5, <2>6, <2>7 DEF Open
<1>2. CASE PublishCommit(p)
  <2>1. CASE OpenTemporary(p)
    BY <1>0, <2>1, CreateEffect DEF OpenTemporary, Same, Artifact
  <2>2. CASE WriteTemporary(p)
    BY <1>0, <2>2, WriteEffect DEF WriteTemporary, Same, Artifact
  <2>3. CASE SyncTemporary(p) \/ SyncCommitDir(p)
    BY <2>3 DEF SyncTemporary, SyncCommitDir, Sync, SyncDirectory
  <2>4. CASE RenameCommit(p)
    BY <1>0, <2>4 DEF RenameCommit, Continue, Goto, Initializing, TmpPc
  <2> QED
    BY <1>2, <2>1, <2>2, <2>3, <2>4 DEF PublishCommit
<1>3. CASE AppendEvent(p)
  <2>1. RevalidateAppend(p)
    BY <1>0, <1>3 DEF AppendEvent, TruncatePrepared, WritePrepared, SyncPrepared,
       WriteRecordPart, WriteRecordRest, SyncRecord, Continue, Goto, PrepPc, JournalPc
  <2> QED
    BY <2>1 DEF RevalidateAppend, Refuse, fs
<1>4. CASE Release(p)
  <2>1. SyncClean(p)
    BY <1>0, <1>4 DEF Release, TruncateClean, WriteClean, Continue, Goto, Initializing, Early
  <2> QED
    BY <2>1 DEF SyncClean, Sync
<1>5. CASE Engine(p) \/ Read(p)
  BY <1>5 DEF Engine, Read, LoadCommitted, Reconcile, Decide, ReaderOpen, AcquireShared,
     Refuse, fs
<1> QED
  BY <1>1, <1>2, <1>3, <1>4, <1>5 DEF Step

\* AbandonedStaysPut for every number of processes: once the process of an
\* append is gone at a PREPARED generation, no step but a power loss changes an
\* artifact; resume_or_validate_existing neither completes nor undoes it.
THEOREM AbandonedAppendsStayPut == Spec => AbandonedStaysPut
<1>1. ASSUME StoreInv, [Next]_vars, abandoned, losses' = losses
      PROVE \A n \in Artifact : vis'[n] = vis[n]
  <2>1. CASE UNCHANGED vars
    BY <2>1 DEF vars
  <2>2. ~PowerLoss
    BY <1>1 DEF PowerLoss, StoreInv, TypeInv, TypeOK
  <2>3. ASSUME NEW p \in Proc,
               (\E c \in Command : Start(p, c)) \/ IoError(p) \/ ClockError(p) \/ Kill(p)
        PROVE vis' = vis
    BY <2>3 DEF Start, IoError, ClockError, Kill, Refuse, fs
  <2> QED
    BY <1>1, <2>1, <2>2, <2>3, AbandonedStep DEF Next
<1>2. StoreInv /\ [Next]_vars =>
        [abandoned /\ losses' = losses => \A n \in Artifact : vis'[n] = vis[n]]_vars
  BY <1>1
<1> QED
  BY <1>2, StoreInvariant, PTL DEF Spec, AbandonedStaysPut

-----------------------------------------------------------------------------
(***************************************************************************)
(* The store and the engine implement the journal their callers rely on,   *)
(* for every number of processes, requests and power losses.               *)
(*                                                                         *)
(* The situations above say what the artifacts may hold; here is who wrote *)
(* it.  A process that is not appending has written no record, and a       *)
(* record that nobody was told of yet belongs to a submission that the     *)
(* core accepted against exactly the history clients were told, and that   *)
(* is still undetermined.                                                  *)
(***************************************************************************)

-----------------------------------------------------------------------------
(* The invariant.                                                          *)

\* A process has a request once it was started and an answer once it is done.
Answered(p) ==
  /\ pc[p] = "idle" <=> cmd[p] = None
  /\ pc[p] = "done" <=> outcome[p] # None

\* The answers after which the record of a submission may still be found.
OpenEnded == {"accepted", "lost", OUTCOME_UNKNOWN}

\* No journal that a power loss could leave holds a record of p.
Untouched(p) ==
  \A j \in Survive("journal") \ {Absent} : \A i \in DOMAIN j : j[i] = Torn \/ j[i].at # p

\* A process that has an effect, or may have one.
Engaged(p) == IF pc[p] = "done" THEN outcome[p] \in OpenEnded ELSE mode[p] = "append"

Unwritten(p) == ~Engaged(p) => Untouched(p)

\* What the engine decided before it appends stays decided.
Resolved(p) ==
  pc[p] = "append" \/ mode[p] = "append" =>
    /\ cmd[p].op = "submit"
    /\ decide(history(snap[p]), SignalParts[cmd[p].signal], Expected) = "ACCEPTED"
    /\ \A i \in DOMAIN snap[p] : snap[p][i].at # p

\* The record e is the effect of an accepted submission nobody was told of.
Owned(e) ==
  /\ cmd[e.at] # None /\ cmd[e.at].op = "submit" /\ cmd[e.at].signal = e.signal
  /\ decide(history(known), SignalParts[e.signal], Expected) = "ACCEPTED"
  /\ \A i \in DOMAIN known : known[i].at # e.at
  /\ mode[e.at] = "append" \/ outcome[e.at] \in {"lost", OUTCOME_UNKNOWN}

Attributed ==
  \A j \in Survive("journal") : \A e \in Entry : j = Append(known, e) => Owned(e)

JournalInv ==
  /\ \A p \in Proc : Answered(p)
  /\ \A p \in Proc : Unwritten(p)
  /\ \A p \in Proc : Resolved(p)
  /\ Attributed

-----------------------------------------------------------------------------
(* The codes the store answers with.                                       *)

StoreCode == {UNAVAILABLE, LOCKED, CORRUPT, BOUND_EXCEEDED, OUTCOME_UNKNOWN}

\* The store's own documents and records are of its own schema version.
LEMMA OwnCodes ==
  ASSUME FilesOK, Shown, Store, NEW publish_exists
  PROVE /\ read_snapshot(vis) \in StoreCode \cup {OK}
        /\ reader_open(vis) \in StoreCode \cup {OK}
        /\ open_existing(vis, publish_exists)
             \in StoreCode \cup {OK, "create_witness", "resume_witness"}
<1> USE DEF StoreCode, UNAVAILABLE, LOCKED, CORRUPT, BOUND_EXCEEDED, OUTCOME_UNKNOWN, OK
<1>1. /\ vis.journal \in Seq(Cell) \cup {Absent}
      /\ vis.commit \in CommitPoint \cup {Absent, Torn}
      /\ vis.publish \in PublishWitness \cup {Absent, Torn}
  BY DEF FilesOK, Visible, JournalFile, CommitFile, PublishFile
<1>2. vis.commit # Absent => decode_commit(vis.commit) \in StoreCode \cup {OK}
  BY <1>1 DEF decode_commit, CommitPoint
<1>3. vis.publish # Absent => decode_publish(vis.publish) \in StoreCode \cup {OK}
  BY <1>1 DEF decode_publish, PublishWitness
<1>4. decode_metadata(vis) \in StoreCode \cup {OK}
  BY <1>2, <1>3 DEF decode_metadata
<1>5. ASSUME NEW cells \in Seq(Cell) PROVE decode_contents(cells) \in StoreCode \cup {OK}
  <2> DEFINE bad == {i \in DOMAIN cells : i > MaxEntries \/ decode_line(cells, i) # OK}
  <2>1. ASSUME NEW i \in DOMAIN cells PROVE decode_line(cells, i) \in StoreCode \cup {OK}
    <3>1. cells[i] \in Entry \/ cells[i] = Torn
      BY DEF Cell
    <3> QED
      BY <3>1, FileConstants DEF decode_line
  <2>2. bad \in SUBSET Nat
    OBVIOUS
  <2>3. bad # {} => Min(bad) \in bad
    BY <2>2, MinIsMember
  <2>4. bad # {} => decode_line(cells, Min(bad)) \in StoreCode \cup {OK}
    BY <2>1, <2>3
  <2> QED
    BY <2>4 DEF decode_contents
<1>6. ASSUME vis.journal # Absent, vis.commit \notin {Absent, Torn},
             Len(vis.journal) >= vis.commit.bytes
      PROVE check_prefix(vis.journal, vis.commit) \in StoreCode \cup {OK}
  <2>1. vis.journal \in Seq(Cell) /\ vis.commit.bytes \in Nat
    BY <1>1, <1>6 DEF CommitPoint
  <2>2. prefix_of(vis.journal, vis.commit) \in Seq(Cell)
    BY <1>6, <2>1 DEF prefix_of
  <2> QED
    BY <1>5, <2>2 DEF check_prefix
<1>7. ASSUME vis.journal # Absent, vis.commit \notin {Absent, Torn}
      PROVE /\ read_prepared(vis.journal, vis.commit, vis.publish) \in StoreCode \cup {OK}
            /\ read_clean(vis.journal, vis.commit, vis.publish) \in StoreCode \cup {OK}
  <2>1. vis.commit.bytes \in Nat /\ Len(vis.journal) \in Nat
    BY <1>1, <1>7 DEF CommitPoint
  <2>2. ~(Len(vis.journal) < vis.commit.bytes) =>
          check_prefix(vis.journal, vis.commit) \in StoreCode \cup {OK}
    BY <1>6, <1>7, <2>1
  <2> QED
    BY <2>1, <2>2 DEF read_prepared, read_clean, require_prepared_commit_relation,
       validate_prepared_commit_prefix
<1>8. decode_metadata(vis) = OK => vis.commit \notin {Absent, Torn}
  BY DEF decode_metadata, decode_commit
<1>9. read_snapshot(vis) \in StoreCode \cup {OK}
  BY <1>4, <1>7, <1>8 DEF read_snapshot
<1>10. reader_open(vis) \in StoreCode \cup {OK}
  BY <1>2 DEF reader_open
<1>11. open_existing(vis, publish_exists)
         \in StoreCode \cup {OK, "create_witness", "resume_witness"}
  <2>1. vis.journal # Absent => resume_or_validate_existing(vis)
           \in StoreCode \cup {OK, "create_witness", "resume_witness"}
    BY <1>4, <1>7, <1>8, <1>9 DEF resume_or_validate_existing
  <2>2. vis["journal"] = Absent => vis["commit"] = Absent
    BY MissingArtifact, NamesOfFiles DEF Shown, NoCommit
  <2> QED
    BY <1>2, <2>1, <2>2 DEF open_existing
<1> QED
  BY <1>9, <1>10, <1>11

-----------------------------------------------------------------------------
(* The steps, as the journal's clients see them.                           *)

\* p goes on without telling anybody anything.
Onward(p) ==
  /\ Bystanders(p) /\ UNCHANGED <<outcome, cmd, known>>
  /\ Live(p) /\ pc'[p] \notin {"idle", "done", "append"}
  /\ mode'[p] = mode[p] /\ snap'[p] = snap[p]

\* The answer of the core to p's request, from the history that p loaded.
Ruling(p, code) ==
  /\ pc[p] = "decide"
  /\ \/ /\ cmd[p].op = "submit" /\ code # "ACCEPTED"
        /\ code = decide(history(snap[p]), SignalParts[cmd[p].signal], Expected)
     \/ /\ cmd[p].op = "reconcile"
        /\ code = reconcile(history(snap[p]), SignalParts[cmd[p].signal])

\* The answers that say there was no effect, without a decision.
NoEffect == {UNAVAILABLE, LOCKED, CORRUPT, BOUND_EXCEEDED, "INTERNAL"}

\* p ends with an answer that leaves the files alone.
Ends(p) ==
  /\ Live(p) /\ known' = known
  /\ \E code : /\ Refuse(p, code)
               /\ \/ code \in {"lost", OUTCOME_UNKNOWN}
                  \/ mode[p] = "init" /\ (code \in NoEffect \/ Ruling(p, code))

\* p loads what is committed.
Loads(p) ==
  /\ pc[p] = "load" /\ read_snapshot(vis) = OK
  /\ Bystanders(p) /\ UNCHANGED <<fs, outcome, cmd>>
  /\ pc'[p] = "decide" /\ mode'[p] = mode[p] /\ known' = vis["journal"]

\* p is about to append, or begins to.
Prepares(p) ==
  /\ Bystanders(p) /\ UNCHANGED <<fs, outcome, cmd, known>>
  /\ \/ /\ pc[p] = "decide" /\ cmd[p].op = "submit" /\ decision(p) = "ACCEPTED"
        /\ pc'[p] = "append" /\ mode'[p] = mode[p] /\ snap'[p] = snap[p]
     \/ /\ pc[p] = "append" /\ pc'[p] = "prep_trunc"
        /\ mode'[p] = "append" /\ snap'[p] = vis["journal"]

\* p has released its append.
Appends(p) ==
  /\ pc[p] = "clean_sync" /\ mode[p] = "append"
  /\ Sync("publish") /\ Finish(p, "accepted") /\ known' = Append(snap[p], next_entry(p))

\* A process that continues to a step other than the append goes on.
LEMMA ContinueOnward ==
  ASSUME TypeInv, NEW p \in Proc, NEW from, NEW to, Continue(p, from, to),
         from \notin {"idle", "done"}, to \notin {"idle", "done", "append"}, known' = known
  PROVE Onward(p)
BY ContinueEffect DEF Onward, Live, Continue, Goto, local

\* Outside an append, p's mode is that of an initialization.
LEMMA NotAppending ==
  ASSUME StoreInv, NEW p \in Proc, pc[p] \notin AppendPc
  PROVE mode[p] = "init"
BY OpeningFacts DEF StoreInv, Modes

\* Refusals outside an append.
LEMMA RefuseEnds ==
  ASSUME StoreInv, NEW p \in Proc, pc[p] \notin AppendPc \cup {"idle", "done"}, NEW code,
         Refuse(p, code), known' = known,
         code \in StoreCode \cup NoEffect \/ Ruling(p, code)
  PROVE Ends(p)
BY NotAppending DEF Ends, Live, NoEffect, StoreCode

\* The steps of opening a store, as the clients see them.
LEMMA OpenShapes ==
  ASSUME StoreInv, NEW p \in Proc, Open(p) \/ Read(p)
  PROVE Onward(p) \/ Ends(p)
<1>0. /\ TypeInv /\ FilesOK /\ Shown /\ Store
  BY DEF StoreInv, TypeInv, TypeOK, CrashInv
<1>1. known' = known
  BY DEF Open, Read, EnsureStateDir, CreateStateDir, SyncStateDir, SyncParentDir, StatArtifact,
     Stat, OpenLock, AcquireExclusive, OpenJournal, OpenExisting, SyncLock, SyncJournal,
     SyncInitDir, CreateWitness, WriteInitializing, SyncInitializing, SyncWitnessDir, ReaderOpen,
     AcquireShared, quiet
<1> DEFINE Stays == {"mkdir", "open_lock", "acquire", "open_journal", "read_store", "wit_create",
                     "reader_open", "reader_acquire"}
<1>2. ASSUME NEW code, Refuse(p, code), pc[p] \in Stays, code \in StoreCode PROVE Ends(p)
  <2>1. pc[p] \notin AppendPc \cup {"idle", "done"}
    BY <1>2 DEF AppendPc, PrepPc, JournalPc, TmpPc, CleanPc
  <2> QED
    BY <1>1, <1>2, <2>1, RefuseEnds
<1>3. {UNAVAILABLE, LOCKED} \subseteq StoreCode
  BY DEF StoreCode
<1> DEFINE Targets == {"mkdir", "stat_lock", "sync_state_dir", "sync_parent_dir", "acquire",
              "read_store", "sync_lock", "load", "wit_create", "wit_sync", "sync_journal",
              "sync_dir", "tmp_open", "wit_write", "wit_sync_dir", "clean_trunc",
              "reader_acquire"}
<1>4. ASSUME NEW from, NEW to \in Targets, Continue(p, from, to), from \notin {"idle", "done"}
      PROVE Onward(p)
  BY <1>0, <1>1, <1>4, ContinueOnward
<1>5. CASE \/ EnsureStateDir(p) \/ SyncStateDir(p) \/ SyncParentDir(p) \/ SyncLock(p)
           \/ SyncJournal(p) \/ SyncInitDir(p) \/ WriteInitializing(p) \/ SyncInitializing(p)
           \/ SyncWitnessDir(p)
  <2>1. PICK from \in {"ensure_dir", "sync_state_dir", "sync_parent_dir", "sync_lock",
                  "sync_journal", "sync_dir", "wit_write", "wit_sync", "wit_sync_dir"},
             to \in Targets : Continue(p, from, to)
    BY <1>5 DEF EnsureStateDir, SyncStateDir, SyncParentDir, SyncLock, SyncJournal, SyncInitDir,
       WriteInitializing, SyncInitializing, SyncWitnessDir
  <2> QED
    BY <1>4, <2>1
<1>6. CASE CreateStateDir(p)
  BY <1>2, <1>3, <1>4, <1>6 DEF CreateStateDir
<1>7. CASE StatArtifact(p)
  BY <1>0, <1>1, <1>7 DEF StatArtifact, Stat, Goto, Onward, Bystanders, Live, TypeInv, TypeOK,
     ProcsOK
<1>8. CASE OpenLock(p)
  BY <1>2, <1>3, <1>4, <1>8 DEF OpenLock
<1>9. CASE AcquireExclusive(p)
  <2>1. CASE Refuse(p, LOCKED)
    BY <1>2, <1>3, <1>9, <2>1 DEF AcquireExclusive
  <2>2. CASE /\ pc' = [pc EXCEPT ![p] = "open_journal"]
             /\ UNCHANGED <<fs, local, outcome>>
    BY <1>0, <1>1, <1>9, <2>2 DEF AcquireExclusive, local, Onward, Bystanders, Live, TypeInv,
       TypeOK, ProcsOK
  <2> QED
    BY <1>9, <2>1, <2>2 DEF AcquireExclusive
<1>10. CASE OpenJournal(p)
  BY <1>4, <1>10 DEF OpenJournal
<1>11. CASE OpenExisting(p)
  <2>1. PICK verdict : verdict = open_existing(vis, "publish" \in seen[p])
    OBVIOUS
  <2>2. verdict \in StoreCode \cup {OK, "create_witness", "resume_witness"}
    BY <1>0, <2>1, OwnCodes
  <2>3. \/ Continue(p, "read_store", "load")
        \/ Continue(p, "read_store", "wit_create")
        \/ Continue(p, "read_store", "wit_sync")
        \/ Refuse(p, verdict) /\ verdict \in StoreCode /\ pc[p] \in Stays
    BY <1>11, <2>1, <2>2 DEF OpenExisting
  <2> QED
    BY <1>2, <1>4, <2>3
<1>12. CASE CreateWitness(p)
  BY <1>2, <1>3, <1>4, <1>12 DEF CreateWitness
<1>13. CASE ReaderOpen(p)
  <2>1. reader_open(vis) \in StoreCode \cup {OK}
    BY <1>0, OwnCodes
  <2> QED
    BY <1>2, <1>4, <1>13, <2>1 DEF ReaderOpen
<1>14. CASE AcquireShared(p)
  <2>1. CASE Refuse(p, LOCKED)
    BY <1>2, <1>3, <1>14, <2>1 DEF AcquireShared
  <2>2. CASE /\ pc' = [pc EXCEPT ![p] = "load"]
             /\ UNCHANGED <<fs, local, outcome>>
    BY <1>0, <1>1, <1>14, <2>2 DEF AcquireShared, local, Onward, Bystanders, Live, TypeInv,
       TypeOK, ProcsOK
  <2> QED
    BY <1>14, <2>1, <2>2 DEF AcquireShared
<1> QED
  BY <1>5, <1>6, <1>7, <1>8, <1>9, <1>10, <1>11, <1>12, <1>13, <1>14 DEF Open, Read

\* The steps of publishing a commit point and of appending.
LEMMA WriterShapes ==
  ASSUME StoreInv, NEW p \in Proc, PublishCommit(p) \/ AppendEvent(p) \/ Release(p)
  PROVE Onward(p) \/ Ends(p) \/ Prepares(p) \/ Appends(p)
<1>0. /\ TypeInv /\ FilesOK /\ Shown /\ Store
  BY DEF StoreInv, TypeInv, TypeOK, CrashInv
<1> DEFINE Froms == {"tmp_open", "tmp_write", "tmp_sync", "rename", "rename_sync", "prep_trunc",
              "prep_write", "prep_sync", "jrn_write", "jrn_rest", "jrn_sync", "clean_trunc",
              "clean_write", "clean_sync"}
           Targets == {"tmp_open", "tmp_write", "tmp_sync", "rename", "rename_sync", "wit_create",
              "clean_trunc", "prep_write", "prep_sync", "jrn_write", "jrn_rest", "jrn_sync",
              "clean_write", "clean_sync", "load"}
<1>1. ASSUME NEW from \in Froms, NEW to \in Targets, Continue(p, from, to), known' = known
      PROVE Onward(p)
  BY <1>0, <1>1, ContinueOnward
<1>2. CASE PublishCommit(p)
  <2>1. PICK from \in Froms, to \in Targets : Continue(p, from, to)
    BY <1>2 DEF PublishCommit, OpenTemporary, WriteTemporary, SyncTemporary, RenameCommit,
       SyncCommitDir
  <2>2. known' = known
    BY <1>2 DEF PublishCommit, OpenTemporary, WriteTemporary, SyncTemporary, RenameCommit,
       SyncCommitDir, quiet
  <2> QED
    BY <1>1, <2>1, <2>2
<1>3. CASE \/ TruncatePrepared(p) \/ WritePrepared(p) \/ SyncPrepared(p) \/ WriteRecordPart(p)
           \/ WriteRecordRest(p) \/ SyncRecord(p) \/ TruncateClean(p) \/ WriteClean(p)
  <2>1. PICK from \in Froms, to \in Targets : Continue(p, from, to)
    BY <1>3 DEF TruncatePrepared, WritePrepared, SyncPrepared, WriteRecordPart, WriteRecordRest,
       SyncRecord, TruncateClean, WriteClean
  <2>2. known' = known
    BY <1>3 DEF TruncatePrepared, WritePrepared, SyncPrepared, WriteRecordPart, WriteRecordRest,
       SyncRecord, TruncateClean, WriteClean, quiet
  <2> QED
    BY <1>1, <2>1, <2>2
<1>4. CASE SyncClean(p)
  <2>1. CASE mode[p] = "init"
    <3>1. Continue(p, "clean_sync", "load") /\ known' = known
      BY <1>4, <2>1 DEF SyncClean
    <3> QED
      BY <1>1, <3>1
  <2>2. CASE mode[p] # "init"
    BY <1>4, <2>2 DEF SyncClean, Appends
  <2> QED
    BY <2>1, <2>2
<1>5. CASE RevalidateAppend(p)
  <2>0. pc[p] = "append" /\ known' = known
    BY <1>5 DEF RevalidateAppend, quiet
  <2>1. pc[p] \notin AppendPc \cup {"idle", "done"}
    BY <2>0 DEF AppendPc, PrepPc, JournalPc, TmpPc, CleanPc
  <2>2. CASE read_snapshot(vis) # OK
    <3>1. read_snapshot(vis) \in StoreCode /\ Refuse(p, read_snapshot(vis))
      BY <1>0, <1>5, <2>2, OwnCodes DEF RevalidateAppend
    <3> QED
      BY <2>0, <2>1, <3>1, RefuseEnds
  <2>3. CASE Refuse(p, BOUND_EXCEEDED)
    BY <2>0, <2>1, <2>3, RefuseEnds DEF NoEffect
  <2>4. CASE /\ Goto(p, "append", "prep_trunc")
             /\ mode' = [mode EXCEPT ![p] = "append"]
             /\ snap' = [snap EXCEPT ![p] = vis["journal"]]
             /\ UNCHANGED <<fs, cmd, seen>>
    BY <1>0, <2>0, <2>4 DEF Goto, Prepares, Bystanders, TypeInv, TypeOK, ProcsOK
  <2> QED
    BY <1>5, <2>2, <2>3, <2>4 DEF RevalidateAppend
<1> QED
  BY <1>2, <1>3, <1>4, <1>5 DEF AppendEvent, Release

\* The steps of the engine and the failures.
LEMMA EngineShapes ==
  ASSUME StoreInv, NEW p \in Proc, Engine(p) \/ IoError(p) \/ ClockError(p) \/ Kill(p)
  PROVE Ends(p) \/ Loads(p) \/ Prepares(p)
<1>0. /\ TypeInv /\ FilesOK /\ Shown /\ Store /\ mode[p] \in {"init", "append"}
  BY DEF StoreInv, TypeInv, TypeOK, CrashInv, ProcsOK
<1>1. ASSUME pc[p] \in {"load", "decide"}
      PROVE pc[p] \notin AppendPc \cup {"idle", "done"}
  BY <1>1 DEF AppendPc, PrepPc, JournalPc, TmpPc, CleanPc
<1>2. CASE LoadCommitted(p)
  <2>1. CASE read_snapshot(vis) = OK
    BY <1>0, <1>2, <2>1 DEF LoadCommitted, Goto, Loads, Bystanders, TypeInv, TypeOK, ProcsOK
  <2>2. CASE read_snapshot(vis) # OK
    <3>1. /\ read_snapshot(vis) \in StoreCode /\ Refuse(p, read_snapshot(vis)) /\ known' = known
          /\ pc[p] = "load"
      BY <1>0, <1>2, <2>2, OwnCodes DEF LoadCommitted
    <3> QED
      BY <1>1, <3>1, RefuseEnds
  <2> QED
    BY <2>1, <2>2
<1>3. CASE Reconcile(p)
  <2>1. PICK code : Refuse(p, code) /\ (code = CORRUPT \/ Ruling(p, code))
    BY <1>3 DEF Reconcile, Ruling
  <2>2. known' = known /\ pc[p] = "decide"
    BY <1>3 DEF Reconcile, quiet
  <2> QED
    BY <1>1, <2>1, <2>2, RefuseEnds DEF NoEffect
<1>4. CASE Decide(p)
  <2>1. known' = known /\ pc[p] = "decide" /\ cmd[p].op = "submit"
    BY <1>4 DEF Decide, quiet
  <2>2. CASE decision(p) = "ACCEPTED"
    <3>1. Continue(p, "decide", "append") /\ UNCHANGED fs
      BY <1>4, <2>2 DEF Decide
    <3> QED
      BY <1>0, <2>1, <2>2, <3>1, ContinueEffect DEF Prepares, Continue, Goto, local
  <2>3. CASE decision(p) # "ACCEPTED"
    <3>1. Refuse(p, decision(p))
      BY <1>4, <2>3 DEF Decide
    <3>2. decision(p) = CORRUPT \/ Ruling(p, decision(p))
      BY <2>1, <2>3 DEF decision, Ruling
    <3> QED
      BY <1>1, <2>1, <3>1, <3>2, RefuseEnds DEF NoEffect
  <2> QED
    BY <2>2, <2>3
<1>5. CASE IoError(p)
  <2>1. Refuse(p, failure_code(p)) /\ known' = known /\ Live(p)
    BY <1>5 DEF IoError, quiet
  <2>2. \/ failure_code(p) = OUTCOME_UNKNOWN
        \/ mode[p] = "init" /\ failure_code(p) \in NoEffect
    BY <1>0 DEF failure_code, NoEffect
  <2> QED
    BY <2>1, <2>2 DEF Ends
<1>6. CASE ClockError(p)
  <2>1. Refuse(p, "INTERNAL") /\ known' = known /\ pc[p] = "decide"
    BY <1>6 DEF ClockError, quiet
  <2> QED
    BY <1>1, <2>1, RefuseEnds DEF NoEffect
<1>7. CASE Kill(p)
  BY <1>7 DEF Kill, quiet, Ends
<1> QED
  BY <1>2, <1>3, <1>4, <1>5, <1>6, <1>7 DEF Engine

\* Every step, as the clients see it.
LEMMA Shapes ==
  ASSUME StoreInv, Next
  PROVE \/ PowerLoss
        \/ \E p \in Proc : \/ \E c \in Command : Start(p, c)
                           \/ Onward(p) \/ Ends(p) \/ Loads(p) \/ Prepares(p) \/ Appends(p)
BY OpenShapes, WriterShapes, EngineShapes DEF Next, Step

-----------------------------------------------------------------------------
(* What a step may add to the journals a power loss could leave.           *)

Journals == Survive("journal")

\* A file-system primitive on another name.
LEMMA OtherName ==
  ASSUME FilesOK, NEW n \in Name, n # "journal"
  PROVE /\ \A c : Create(n, c) => Journals' = Journals
        /\ \A c, part : Write(n, c, part) => Journals' = Journals
        /\ Sync(n) => Journals' = Journals
        /\ Rename("tmp", "commit") => Journals' = Journals
<1> USE NamesOfFiles
<1>1. Same("journal") => Journals' = Journals
  BY DEF Same, Journals, Survive
<1>2. ASSUME NEW c, Create(n, c) PROVE Journals' = Journals
  BY <1>1, <1>2, CreateEffect
<1>3. ASSUME NEW c, NEW part, Write(n, c, part) PROVE Journals' = Journals
  BY <1>1, <1>3, WriteEffect
<1>4. ASSUME Sync(n) PROVE Journals' = Journals
  BY <1>1, <1>4, SyncEffect
<1>5. ASSUME Rename("tmp", "commit") PROVE Journals' = Journals
  BY <1>1, <1>5, RenameEffect
<1> QED
  BY <1>2, <1>3, <1>4, <1>5

\* No step adds a record but the two writes of an append.
LEMMA JournalsGrow ==
  ASSUME StoreInv, Next
  PROVE \/ Journals' \subseteq Journals \cup {<<>>, Absent}
        \/ \E p \in Proc : WriteRecordPart(p) \/ WriteRecordRest(p)
<1> USE NamesOfFiles
<1>0. TypeInv /\ FilesOK /\ Shown
  BY DEF StoreInv, TypeInv, TypeOK, CrashInv
<1> DEFINE Goal == Journals' \subseteq Journals \cup {<<>>, Absent}
<1>1. ASSUME UNCHANGED fs PROVE Goal
  BY <1>1 DEF fs, Journals, Survive
<1>2. ASSUME SyncDirectory PROVE Goal
  BY <1>2, SyncDirectoryEffect DEF Journals, Survive
<1>3. ASSUME Sync("journal") PROVE Goal
  BY <1>0, <1>3, SyncEffect DEF Journals, Survive, Shown
<1>4. ASSUME Create("journal", <<>>) PROVE Goal
  BY <1>0, <1>4, CreateEffect DEF Journals, Survive
<1>5. ASSUME NEW n \in Name \ {"journal"},
             \/ \E c : Create(n, c)
             \/ \E c, part : Write(n, c, part)
             \/ Sync(n) \/ Rename("tmp", "commit")
      PROVE Goal
  BY <1>0, <1>5, OtherName
<1>6. ASSUME UNCHANGED <<vis, data, stale>> PROVE Goal
  BY <1>6 DEF Journals, Survive
<1> USE DEF Name, Artifact
<1> HIDE DEF Goal
<1>7. ASSUME NEW p \in Proc, Open(p) PROVE Goal
  <2>1. CASE EnsureStateDir(p) \/ StatArtifact(p)
    BY <1>1, <2>1 DEF EnsureStateDir, StatArtifact, Stat
  <2>2. CASE CreateStateDir(p) \/ SyncParentDir(p)
    BY <1>1, <1>6, <2>2 DEF CreateStateDir, SyncParentDir, Refuse
  <2>3. CASE SyncStateDir(p) \/ SyncInitDir(p) \/ SyncWitnessDir(p)
    BY <1>2, <2>3 DEF SyncStateDir, SyncInitDir, SyncWitnessDir
  <2>4. CASE OpenLock(p)
    BY <1>1, <1>5, <2>4 DEF OpenLock, Refuse
  <2>5. CASE AcquireExclusive(p)
    BY <1>1, <2>5 DEF AcquireExclusive, Refuse
  <2>6. CASE OpenJournal(p)
    BY <1>1, <1>4, <2>6 DEF OpenJournal
  <2>7. CASE OpenExisting(p)
    <3>1. UNCHANGED fs
      BY <2>7 DEF OpenExisting, Refuse
    <3> QED
      BY <1>1, <3>1
  <2>8. CASE SyncLock(p) \/ SyncInitializing(p)
    BY <1>5, <2>8 DEF SyncLock, SyncInitializing
  <2>9. CASE SyncJournal(p)
    BY <1>3, <2>9 DEF SyncJournal
  <2>10. CASE CreateWitness(p)
    BY <1>1, <1>5, <2>10 DEF CreateWitness, Refuse
  <2>11. CASE WriteInitializing(p)
    BY <1>5, <2>11 DEF WriteInitializing
  <2> QED
    BY <1>7, <2>1, <2>2, <2>3, <2>4, <2>5, <2>6, <2>7, <2>8, <2>9, <2>10, <2>11 DEF Open
<1>8. ASSUME NEW p \in Proc, PublishCommit(p) PROVE Goal
  <2>1. CASE OpenTemporary(p)
    BY <1>5, <2>1 DEF OpenTemporary
  <2>2. CASE WriteTemporary(p)
    BY <1>5, <2>2 DEF WriteTemporary
  <2>3. CASE SyncTemporary(p)
    BY <1>5, <2>3 DEF SyncTemporary
  <2>4. CASE RenameCommit(p)
    BY <1>5, <2>4 DEF RenameCommit
  <2>5. CASE SyncCommitDir(p)
    BY <1>2, <2>5 DEF SyncCommitDir
  <2> QED
    BY <1>8, <2>1, <2>2, <2>3, <2>4, <2>5 DEF PublishCommit
<1>9. ASSUME NEW p \in Proc, AppendEvent(p), ~WriteRecordPart(p), ~WriteRecordRest(p) PROVE Goal
  <2>1. CASE RevalidateAppend(p)
    BY <1>1, <2>1 DEF RevalidateAppend, Refuse
  <2>2. CASE TruncatePrepared(p) \/ WritePrepared(p)
    BY <1>5, <2>2 DEF TruncatePrepared, WritePrepared
  <2>3. CASE SyncPrepared(p)
    BY <1>5, <2>3 DEF SyncPrepared
  <2>4. CASE SyncRecord(p)
    BY <1>3, <2>4 DEF SyncRecord
  <2> QED
    BY <1>9, <2>1, <2>2, <2>3, <2>4 DEF AppendEvent
<1>10. ASSUME NEW p \in Proc, Release(p) PROVE Goal
  <2>1. CASE TruncateClean(p) \/ WriteClean(p)
    BY <1>5, <2>1 DEF TruncateClean, WriteClean
  <2>2. CASE SyncClean(p)
    BY <1>5, <2>2 DEF SyncClean
  <2> QED
    BY <1>10, <2>1, <2>2 DEF Release
<1>11. ASSUME NEW p \in Proc, \/ Engine(p) \/ Read(p) \/ IoError(p) \/ ClockError(p) \/ Kill(p)
                              \/ \E c \in Command : Start(p, c)
       PROVE Goal
  <2>1. UNCHANGED fs
    BY <1>11 DEF Engine, Read, LoadCommitted, Reconcile, Decide, ReaderOpen, AcquireShared,
       IoError, ClockError, Kill, Start, Refuse, fs
  <2> QED
    BY <1>1, <2>1
<1>12. ASSUME PowerLoss PROVE Goal
  <2>1. vis'["journal"] \in Journals \cup {Absent}
    BY <1>12 DEF PowerLoss, Journals
  <2>2. Journals' = {vis'["journal"]}
    BY <1>12 DEF PowerLoss, Journals, Survive
  <2> QED
    BY <2>1, <2>2 DEF Goal
<1> QED
  BY <1>7, <1>8, <1>9, <1>10, <1>11, <1>12 DEF Next, Step, Goal

-----------------------------------------------------------------------------
(* The invariant is kept.                                                  *)

\* The core never answers with nothing, or with what an effect is reported by.
LEMMA RulingCodes ==
  ASSUME NEW p \in Proc, NEW code, Ruling(p, code)
  PROVE code \in Answers
BY DEF Ruling, Answers, decide, reconcile, check_expected

\* What a process ends with is an answer.
LEMMA EndCodes ==
  ASSUME NEW p \in Proc, Ends(p)
  PROVE \E code \in Answers :
          /\ Refuse(p, code)
          /\ code \in {"lost", OUTCOME_UNKNOWN} \/ mode[p] = "init"
<1>1. PICK code : /\ Refuse(p, code)
                  /\ \/ code \in {"lost", OUTCOME_UNKNOWN}
                     \/ mode[p] = "init" /\ (code \in NoEffect \/ Ruling(p, code))
  BY DEF Ends
<1>2. code \in {"lost", OUTCOME_UNKNOWN} \cup NoEffect => code \in Answers
  BY DEF NoEffect, Answers, JournalErrorCode
<1> QED
  BY <1>1, <1>2, RulingCodes

\* Who has a request and who has an answer.
LEMMA AnsweredKept ==
  ASSUME StoreInv, JournalInv, Next, NEW q \in Proc
  PROVE Answered(q)'
<1>0. /\ TypeInv /\ ProcsOK /\ Answered(q) /\ \A p \in Proc : Answered(p)
      /\ None \notin Command /\ None \notin Answers
  BY NoneConstants DEF StoreInv, TypeInv, TypeOK, JournalInv
<1>1. CASE PowerLoss
  <2>1. "lost" # None
    BY <1>0 DEF Answers
  <2> QED
    BY <1>0, <1>1, <2>1 DEF PowerLoss, Answered, Live
<1>2. ASSUME NEW p \in Proc, NEW c \in Command, Start(p, c) PROVE Answered(q)'
  BY <1>0, <1>2 DEF Start, Answered, ProcsOK
<1>3. ASSUME NEW p \in Proc, Onward(p) \/ Loads(p) \/ Prepares(p) PROVE Answered(q)'
  BY <1>0, <1>3 DEF Onward, Loads, Prepares, Answered, Bystanders, Live
<1>4. ASSUME NEW p \in Proc, NEW code \in Answers, Finish(p, code), pc[p] # "idle"
      PROVE Answered(q)'
  BY <1>0, <1>4 DEF Finish, Answered, ProcsOK
<1>5. ASSUME NEW p \in Proc, Ends(p) PROVE Answered(q)'
  BY <1>4, <1>5, EndCodes DEF Ends, Live, Refuse
<1>6. ASSUME NEW p \in Proc, Appends(p) PROVE Answered(q)'
  BY <1>4, <1>6 DEF Appends, Answers
<1> QED
  BY <1>1, <1>2, <1>3, <1>5, <1>6, Shapes

\* An engagement is for ever.
LEMMA EngagedKept ==
  ASSUME StoreInv, JournalInv, Next, NEW q \in Proc, Engaged(q)
  PROVE Engaged(q)'
<1>0. /\ TypeInv /\ ProcsOK /\ Answered(q)
      /\ mode[q] = "append" => pc[q] \in AppendPc
  BY NotAppending DEF StoreInv, TypeInv, TypeOK, JournalInv
<1>1. mode[q] = "append" => pc[q] \notin {"idle", "done", "load", "decide", "append"}
  BY <1>0 DEF AppendPc, PrepPc, JournalPc, TmpPc, CleanPc
<1>2. CASE PowerLoss
  BY <1>0, <1>1, <1>2 DEF PowerLoss, Engaged, Live, OpenEnded
<1>3. ASSUME NEW p \in Proc, NEW c \in Command, Start(p, c) PROVE Engaged(q)'
  BY <1>0, <1>1, <1>3 DEF Start, Engaged, ProcsOK
<1>4. ASSUME NEW p \in Proc, Onward(p) \/ Loads(p) \/ Prepares(p) PROVE Engaged(q)'
  BY <1>0, <1>1, <1>4 DEF Onward, Loads, Prepares, Bystanders, Live, Engaged
<1>5. ASSUME NEW p \in Proc, NEW code, Finish(p, code), pc[p] # "done",
             mode[p] = "init" \/ code \in OpenEnded
      PROVE Engaged(q)'
  BY <1>0, <1>5 DEF Finish, Engaged, ProcsOK
<1>6. ASSUME NEW p \in Proc, Ends(p) PROVE Engaged(q)'
  BY <1>5, <1>6, EndCodes DEF Ends, Live, Refuse, OpenEnded
<1>7. ASSUME NEW p \in Proc, Appends(p) PROVE Engaged(q)'
  BY <1>5, <1>7 DEF Appends, OpenEnded
<1> QED
  BY <1>2, <1>3, <1>4, <1>6, <1>7, Shapes

\* The two writes of a record, as the clients see them.
LEMMA RecordWritten ==
  ASSUME StoreInv, Next, NEW p \in Proc, WriteRecordPart(p) \/ WriteRecordRest(p)
  PROVE /\ mode[p] = "append" /\ pc[p] # "done" /\ known = snap[p] /\ known \in History
        /\ Onward(p) /\ next_entry(p) \in Entry
        /\ vis["journal"] \in Journals
        /\ vis["journal"] = known \/ vis["journal"] = Append(known, Torn)
        /\ \E x \in {Torn, next_entry(p)} : Journals' = Journals \cup {Append(known, x)}
<1> USE NamesOfFiles
<1>0. /\ TypeInv /\ CrashInv /\ FilesOK /\ Shown /\ Appending(p) /\ Modes(p)
  BY OpeningFacts DEF StoreInv, TypeInv, TypeOK
<1>1. pc[p] \in {"jrn_write", "jrn_rest"} /\ mode[p] = "append" /\ known' = known
  BY <1>0 DEF WriteRecordPart, WriteRecordRest, Continue, Goto, Modes, JournalPc, quiet
<1>2. known = snap[p] /\ known \in History /\ next_entry(p) \in Entry
  BY <1>0, <1>1, AppendFacts
<1>3. Onward(p)
  BY <1>0, <1>1, ContinueOnward DEF WriteRecordPart, WriteRecordRest
<1>4. vis["journal"] \in data["journal"] /\ vis["journal"] \in Journals
  BY <1>0 DEF Shown, Journals, Survive
<1>5. vis["journal"] = known \/ vis["journal"] = Append(known, Torn)
  BY <1>0, <1>1, <1>2 DEF Appending
<1>6. StoreInv'
  BY NextTypes, NextLocks, NextCrash DEF StoreInv
<1>7. Appending(p)' /\ mode'[p] = "append" /\ snap'[p] = snap[p] /\ next_entry(p)' = next_entry(p)
  BY <1>1, <1>3, <1>6 DEF StoreInv, CrashInv, Phase, Onward, next_entry
<1>8. CASE WriteRecordPart(p)
  <2>1. pc'[p] = "jrn_rest" /\ vis["journal"] = known
    BY <1>0, <1>2, <1>1, <1>8, ContinueEffect DEF WriteRecordPart, Appending
  <2>w. Write("journal", Append(known, Torn), Append(known, Torn))
    BY <1>8, <2>1 DEF WriteRecordPart
  <2>2. /\ data'["journal"] = data["journal"] \cup {Append(known, Torn), Append(known, Torn)}
        /\ stale'["journal"] = stale["journal"]
    BY <1>0, <2>w, WriteEffect
  <2>3. Journals' = Journals \cup {Append(known, Torn)}
    BY <2>2 DEF Journals, Survive
  <2> QED
    BY <1>1, <1>2, <1>3, <1>4, <1>5, <2>3
<1>9. CASE WriteRecordRest(p)
  <2>1. pc'[p] = "jrn_sync"
    BY <1>0, <1>9, ContinueEffect DEF WriteRecordRest
  <2>2. vis'["journal"] = Append(known, next_entry(p))
    BY <1>2, <1>7, <2>1 DEF Appending
  <2>3. /\ data'["journal"] = data["journal"] \cup {vis["journal"], vis'["journal"]}
        /\ stale'["journal"] = stale["journal"]
    BY <1>0, <1>9, WriteEffect DEF WriteRecordRest
  <2>4. Journals' = Journals \cup {Append(known, next_entry(p))}
    BY <1>4, <2>2, <2>3 DEF Journals, Survive
  <2> QED
    BY <1>1, <1>2, <1>3, <1>4, <1>5, <2>4
<1> QED
  BY <1>8, <1>9

\* Records only come from processes that are engaged.
LEMMA UnwrittenKept ==
  ASSUME StoreInv, JournalInv, Next, NEW q \in Proc
  PROVE Unwritten(q)'
<1> SUFFICES ASSUME ~Engaged(q)' PROVE Untouched(q)'
  BY DEF Unwritten
<1>0. ~Engaged(q)
  BY EngagedKept
<1>1. Untouched(q)
  BY <1>0 DEF JournalInv, Unwritten
<1>2. CASE Journals' \subseteq Journals \cup {<<>>, Absent}
  <2>1. ASSUME NEW j \in Journals' \ {Absent}, NEW i \in DOMAIN j
        PROVE j[i] = Torn \/ j[i].at # q
    <3>1. j # <<>>
      BY <2>1
    <3>2. j \in Journals \ {Absent}
      BY <1>2, <2>1, <3>1
    <3> QED
      BY <1>1, <2>1, <3>2 DEF Untouched, Journals
  <2> QED
    BY <2>1 DEF Untouched, Journals
<1>3. ASSUME NEW p \in Proc, WriteRecordPart(p) \/ WriteRecordRest(p) PROVE Untouched(q)'
  <2>1. /\ mode[p] = "append" /\ pc[p] # "done" /\ known \in History
        /\ next_entry(p) \in Entry /\ vis["journal"] \in Journals
        /\ vis["journal"] = known \/ vis["journal"] = Append(known, Torn)
    BY <1>3, RecordWritten
  <2>2. PICK x \in {Torn, next_entry(p)} : Journals' = Journals \cup {Append(known, x)}
    BY <1>3, RecordWritten
  <2>3. q # p
    BY <1>0, <2>1 DEF Engaged
  <2>4. known \in Seq(Cell) /\ Torn \in Cell /\ x \in Cell
    BY <2>1 DEF History, Cell
  <2>5. vis["journal"] # Absent
    BY <2>1, <2>4, FileConstants, Prefixing
  <2>6. ASSUME NEW i \in DOMAIN known PROVE known[i] = Torn \/ known[i].at # q
    <3>1. i \in DOMAIN vis["journal"] /\ vis["journal"][i] = known[i]
      BY <2>1, <2>4
    <3> QED
      BY <1>1, <2>1, <2>5, <3>1 DEF Untouched, Journals
  <2>7. x = Torn \/ x.at # q
    BY <2>2, <2>3 DEF next_entry
  <2>8. ASSUME NEW i \in DOMAIN Append(known, x)
        PROVE Append(known, x)[i] = Torn \/ Append(known, x)[i].at # q
    <3>1. \/ i \in DOMAIN known /\ Append(known, x)[i] = known[i]
          \/ Append(known, x)[i] = x
      BY <2>4
    <3> QED
      BY <2>6, <2>7, <3>1
  <2> QED
    BY <1>1, <2>2, <2>8 DEF Untouched, Journals
<1> QED
  BY <1>2, <1>3, JournalsGrow

\* A decision to append stands until the append is over.
LEMMA ResolvedKept ==
  ASSUME StoreInv, JournalInv, Next, NEW q \in Proc
  PROVE Resolved(q)'
<1> USE NamesOfFiles
<1>0. /\ TypeInv /\ ProcsOK /\ Resolved(q) /\ Current(q) /\ Unwritten(q) /\ Shown
      /\ pc[q] \notin AppendPc => mode[q] = "init"
  BY NotAppending DEF StoreInv, TypeInv, TypeOK, JournalInv, LockInv, CrashInv
<1>1. pc[q] \in {"idle", "done", "load", "decide", "append"} => mode[q] = "init"
  BY <1>0 DEF AppendPc, PrepPc, JournalPc, TmpPc, CleanPc
<1>2. CASE PowerLoss
  BY <1>2 DEF PowerLoss, Resolved, Live
<1>3. ASSUME NEW p \in Proc, NEW c \in Command, Start(p, c) PROVE Resolved(q)'
  BY <1>0, <1>1, <1>3 DEF Start, Resolved, ProcsOK
<1>4. ASSUME NEW p \in Proc, Bystanders(p), q # p PROVE Resolved(q)'
  BY <1>0, <1>4 DEF Bystanders, Resolved
<1>5. CASE Onward(q)
  BY <1>0, <1>5 DEF Onward, Resolved
<1>6. ASSUME NEW code, Finish(q, code) PROVE Resolved(q)'
  BY <1>0, <1>6 DEF Finish, Resolved, ProcsOK
<1>7. ASSUME NEW p \in Proc, NEW code, Finish(p, code) PROVE Resolved(q)'
  BY <1>0, <1>4, <1>6, <1>7, FinishEffect
<1>8. CASE Loads(q)
  BY <1>1, <1>8 DEF Loads, Resolved
<1>9. CASE Prepares(q)
  <2>1. /\ read_snapshot(vis) = OK /\ vis["journal"] = snap[q] /\ cmd'[q] = cmd[q]
        /\ snap'[q] = snap[q]
    BY <1>0, <1>9 DEF Prepares, Current, SnapshotPc
  <2>2. CASE pc[q] = "append"
    BY <1>0, <2>1, <2>2 DEF Resolved
  <2>3. CASE pc[q] = "decide"
    <3>1. /\ cmd[q].op = "submit"
          /\ decide(history(snap[q]), SignalParts[cmd[q].signal], Expected) = "ACCEPTED"
      BY <1>9, <2>3 DEF Prepares, decision, CORRUPT
    <3>2. snap[q] \in Seq(Entry) /\ snap[q] \in Seq(Cell) /\ Torn \notin Entry
      BY <1>0, FileConstants DEF ProcsOK, Cell
    <3>3. snap[q] \in Survive("journal") \ {Absent} /\ Untouched(q)
      BY <1>0, <1>1, <2>1, <2>3, <3>2, FileConstants DEF Shown, Survive, Unwritten, Engaged
    <3>4. \A i \in DOMAIN snap[q] : snap[q][i].at # q
      BY <3>2, <3>3 DEF Untouched
    <3> QED
      BY <2>1, <3>1, <3>4 DEF Resolved
  <2> QED
    BY <1>9, <2>2, <2>3 DEF Prepares
<1>10. ASSUME NEW p \in Proc, Onward(p) \/ Loads(p) \/ Prepares(p) PROVE Resolved(q)'
  BY <1>4, <1>5, <1>8, <1>9, <1>10 DEF Onward, Loads, Prepares
<1>11. ASSUME NEW p \in Proc, Ends(p) \/ Appends(p) PROVE Resolved(q)'
  BY <1>7, <1>11 DEF Ends, Appends, Refuse
<1> QED
  BY <1>2, <1>3, <1>10, <1>11, Shapes

\* A record that nobody was told of keeps its owner.
LEMMA OwnedKept ==
  ASSUME StoreInv, JournalInv, NEW e \in Entry, Owned(e), known' = known,
         \/ PowerLoss
         \/ \E p \in Proc : \/ \E c \in Command : Start(p, c)
                            \/ Onward(p) \/ Ends(p) \/ Prepares(p)
  PROVE Owned(e)'
<1>s. PICK q \in Proc : q = e.at
  BY DEF Entry
<1>0. /\ TypeInv /\ ProcsOK /\ Answered(q) /\ cmd[q] # None
      /\ mode[q] = "append" => pc[q] \in AppendPc
      /\ mode[q] = "append" \/ outcome[q] \in {"lost", OUTCOME_UNKNOWN}
  BY <1>s, NotAppending DEF StoreInv, TypeInv, TypeOK, JournalInv, Owned
<1>1. /\ mode[q] = "append" => pc[q] \notin {"idle", "done", "load", "decide", "append"}
      /\ pc[q] # "idle"
  BY <1>0 DEF AppendPc, PrepPc, JournalPc, TmpPc, CleanPc, Answered
<1>2. outcome[q] \in {"lost", OUTCOME_UNKNOWN} => pc[q] = "done"
  BY <1>0, NoneConstants DEF Answered, Answers, JournalErrorCode
<1>3. ASSUME cmd'[q] = cmd[q], mode'[q] = "append" \/ outcome'[q] \in {"lost", OUTCOME_UNKNOWN}
      PROVE Owned(e)'
  BY <1>3, <1>s DEF Owned
<1>4. CASE PowerLoss
  <2>1. cmd'[q] = cmd[q] /\ outcome'[q] \in {"lost", OUTCOME_UNKNOWN}
    BY <1>0, <1>1, <1>2, <1>4 DEF PowerLoss, Live
  <2> QED
    BY <1>3, <2>1
<1>5. ASSUME NEW p \in Proc, NEW c \in Command, Start(p, c) PROVE Owned(e)'
  <2>1. p # q /\ cmd'[q] = cmd[q] /\ mode'[q] = mode[q] /\ outcome'[q] = outcome[q]
    BY <1>0, <1>1, <1>5 DEF Start, ProcsOK
  <2> QED
    BY <1>0, <1>3, <2>1
<1>6. ASSUME NEW p \in Proc, Onward(p) \/ Prepares(p) PROVE Owned(e)'
  <2>1. /\ cmd'[q] = cmd[q] /\ outcome'[q] = outcome[q]
        /\ mode'[q] = mode[q] \/ mode'[q] = "append"
    BY <1>6 DEF Onward, Prepares, Bystanders
  <2> QED
    BY <1>0, <1>3, <2>1
<1>7. ASSUME NEW p \in Proc, Ends(p) PROVE Owned(e)'
  <2>1. PICK code : /\ Finish(p, code) /\ Live(p)
                    /\ code \in {"lost", OUTCOME_UNKNOWN} \/ mode[p] = "init"
    BY <1>7, EndCodes DEF Refuse, Ends
  <2>2. /\ cmd'[q] = cmd[q]
        /\ q = p => outcome'[q] = code /\ mode[q] = "append"
        /\ q # p => outcome'[q] = outcome[q] /\ mode'[q] = mode[q]
    BY <1>0, <1>2, <2>1 DEF Finish, ProcsOK, Live
  <2> QED
    BY <1>0, <1>3, <2>1, <2>2
<1> QED
  BY <1>4, <1>5, <1>6, <1>7

\* A longer journal is another one, and not a missing one.
LEMMA AppendIsNew ==
  ASSUME NEW S \in Seq(Cell), NEW x \in Cell
  PROVE Append(S, x) \notin {S, <<>>, Absent}
<1>1. /\ Append(S, x) \in Seq(Cell) /\ Len(Append(S, x)) = Len(S) + 1 /\ Len(S) \in Nat
  OBVIOUS
<1>2. Append(S, x) # S
  BY <1>1
<1>3. Append(S, x) # <<>>
  BY <1>1, Len(<<>>) = 0
<1>4. Append(S, x) # Absent
  BY <1>1, FileConstants
<1> QED
  BY <1>2, <1>3, <1>4

\* Its last element says which.
LEMMA AppendInjective ==
  ASSUME NEW S \in Seq(Cell), NEW x \in Cell, NEW y \in Cell, Append(S, x) = Append(S, y)
  PROVE x = y
<1>1. Append(S, x)[Len(S) + 1] = x /\ Append(S, y)[Len(S) + 1] = y
  OBVIOUS
<1> QED
  BY <1>1, Zenon

\* A record beyond what was told has an owner.
LEMMA AttributedKept ==
  ASSUME StoreInv, JournalInv, Next
  PROVE Attributed'
<1> USE NamesOfFiles
<1>0. /\ TypeInv /\ FilesOK /\ Shown /\ Store /\ CrashInv /\ known \in Seq(Entry)
      /\ known \in Seq(Cell) /\ Attributed /\ Torn \in Cell
      /\ Torn \notin Entry /\ \A e \in Entry : e \in Cell
  BY FileConstants DEF StoreInv, TypeInv, TypeOK, CrashInv, JournalInv, Cell
<1>1. ASSUME NEW S \in Seq(Cell), Journals' = {S}, known' = S PROVE Attributed'
  <2>1. \A e \in Entry : Append(S, e) # S
    BY <1>0, <1>1, AppendIsNew
  <2> QED
    BY <1>1, <2>1 DEF Attributed, Journals
<1>2. ASSUME NEW p \in Proc, Loads(p) PROVE Attributed'
  <2>1. known' = vis["journal"] /\ read_snapshot(vis) = OK /\ UNCHANGED fs
    BY <1>2 DEF Loads
  <2>2. PICK S \in History : Committed(S) /\ vis["journal"] = S
    BY <1>0, <2>1, SnapshotSituation
  <2>3. Journals' = {S} /\ S \in Seq(Cell)
    BY <2>1, <2>2 DEF Committed, Durable, Journals, Survive, fs, History, Cell
  <2> QED
    BY <1>1, <2>1, <2>2, <2>3
<1>3. ASSUME NEW p \in Proc, Appends(p) PROVE Attributed'
  <2>1. /\ mode[p] = "append" /\ pc[p] = "clean_sync" /\ Sync("publish")
        /\ known' = Append(snap[p], next_entry(p))
    BY <1>3 DEF Appends
  <2>2. PICK S : S = Append(snap[p], next_entry(p))
    OBVIOUS
  <2>3. S \in History /\ Committed(S)
    BY <1>0, <2>1, <2>2, AppendFacts, OpeningFacts DEF Appending, CleanPc
  <2>4. Journals = {S} /\ S \in Seq(Cell)
    BY <2>3 DEF Committed, Durable, Journals, Survive, History, Cell
  <2>5. Journals' = Journals
    BY <1>0, <2>1, OtherName
  <2> QED
    BY <1>1, <2>1, <2>2, <2>4, <2>5
<1>4. ASSUME known' = known,
             \/ PowerLoss
             \/ \E p \in Proc : \/ \E c \in Command : Start(p, c)
                                \/ Onward(p) \/ Ends(p) \/ Prepares(p)
      PROVE Attributed'
  <2>1. ASSUME NEW e \in Entry, Owned(e) PROVE Owned(e)'
    BY <1>4, <2>1, OwnedKept
  <2>2. ASSUME NEW j \in Journals', NEW e \in Entry, j = Append(known, e) PROVE Owned(e)'
    <3>1. CASE j \in Journals
      BY <1>0, <2>1, <2>2, <3>1 DEF Attributed, Journals
    <3>2. CASE Journals' \subseteq Journals \cup {<<>>, Absent}
      <4>1. e \in Cell /\ known \in Seq(Cell)
        BY <1>0
      <4>2. Append(known, e) \notin {known, <<>>, Absent}
        BY <4>1, AppendIsNew
      <4>3. j # <<>> /\ j # Absent
        BY <2>2, <4>2
      <4> QED
        BY <2>2, <3>1, <3>2, <4>3
    <3>3. ASSUME NEW p \in Proc, WriteRecordPart(p) \/ WriteRecordRest(p), j \notin Journals
          PROVE Owned(e)'
      <4>1. /\ mode[p] = "append" /\ pc[p] # "done" /\ known = snap[p] /\ Onward(p)
            /\ next_entry(p) \in Entry
        BY <3>3, RecordWritten
      <4>2. PICK x \in {Torn, next_entry(p)} : Journals' = Journals \cup {Append(known, x)}
        BY <3>3, RecordWritten
      <4>3. x \in Cell /\ e \in Cell
        BY <1>0, <4>1, <4>2
      <4>4. Append(known, x) = Append(known, e)
        BY <2>2, <3>3, <4>2
      <4>5. e = next_entry(p)
        BY <1>0, <4>2, <4>3, <4>4, AppendInjective
      <4>6. e.at = p /\ e.signal = cmd[p].signal
        BY <4>5 DEF next_entry
      <4>7. Resolved(p) /\ Answered(p) /\ pc[p] # "idle"
        BY <4>1 DEF JournalInv, Onward, Live
      <4>8. cmd' = cmd /\ mode'[p] = "append"
        BY <4>1 DEF Onward
      <4> QED
        BY <1>4, <4>1, <4>6, <4>7, <4>8 DEF Owned, Resolved, Answered
    <3> QED
      BY <3>1, <3>2, <3>3, JournalsGrow
  <2> QED
    BY <1>4, <2>2 DEF Attributed, Journals
<1>5. ASSUME PowerLoss PROVE known' = known
  BY <1>5 DEF PowerLoss
<1>6. ASSUME NEW p \in Proc, \/ \E c \in Command : Start(p, c)
                             \/ Onward(p) \/ Ends(p) \/ Prepares(p)
      PROVE known' = known
  BY <1>6 DEF Start, Onward, Ends, Prepares, quiet
<1> QED
  BY <1>2, <1>3, <1>4, <1>5, <1>6, Shapes

-----------------------------------------------------------------------------
(* What follows.                                                           *)

RecordInv == StoreInv /\ JournalInv

\* Before the first request there is no record and no answer.
LEMMA InitJournal ==
  ASSUME Init
  PROVE JournalInv
<1>1. Journals = {Absent}
  BY NamesOfFiles DEF Init, Journals, Survive
<1>2. \A e \in Entry : Append(<<>>, e) # Absent
  <2>1. <<>> \in Seq(Cell) /\ \A e \in Entry : e \in Cell
    BY DEF Cell
  <2> QED
    BY <2>1, AppendIsNew
<1>3. Attributed
  BY <1>1, <1>2 DEF Init, Attributed, Journals
<1>4. \A p \in Proc : Answered(p) /\ Unwritten(p) /\ Resolved(p)
  BY <1>1 DEF Init, Answered, Unwritten, Untouched, Resolved, Journals
<1> QED
  BY <1>3, <1>4 DEF JournalInv

\* A step that changes nothing.
LEMMA StutterJournal ==
  ASSUME JournalInv, UNCHANGED vars
  PROVE JournalInv'
<1>1. Journals' = Journals
  BY DEF vars, Journals, Survive
<1>2. \A e : Owned(e) => Owned(e)'
  BY DEF vars, Owned
<1>3. Attributed'
  BY <1>1, <1>2 DEF vars, JournalInv, Attributed, Journals
<1>4. ASSUME NEW p \in Proc PROVE Answered(p)' /\ Unwritten(p)' /\ Resolved(p)'
  BY <1>1 DEF vars, JournalInv, Answered, Unwritten, Untouched, Engaged, Resolved, Journals
<1> QED
  BY <1>3, <1>4 DEF JournalInv

\* Every record in a journal that a power loss could leave has an accountable
\* owner, for every number of processes and power losses.
THEOREM RecordInvariant == Spec => []RecordInv
<1>1. Init => JournalInv
  BY InitJournal
<1>2. StoreInv /\ JournalInv /\ [Next]_vars => JournalInv'
  BY AnsweredKept, UnwrittenKept, ResolvedKept, AttributedKept, StutterJournal DEF JournalInv
<1> QED
  BY <1>1, <1>2, StoreInvariant, PTL DEF Spec, RecordInv

\* RefusedNeverApplied for every number of processes and power losses: a
\* definite failure or rejection, from whatever step of open_with_ops or
\* append_with_ops, means that no record of the submission exists, and none
\* ever will.
THEOREM RefusalsLeaveNothing == Spec => []RefusedNeverApplied
<1>1. ASSUME RecordInv, NEW p \in Proc,
             outcome[p] \notin {None, "accepted", "lost", OUTCOME_UNKNOWN}
      PROVE Untouched(p)
  <2>1. Answered(p) /\ Unwritten(p)
    BY <1>1 DEF RecordInv, JournalInv
  <2> QED
    BY <1>1, <2>1 DEF Answered, Unwritten, Engaged, OpenEnded
<1>2. RecordInv => RefusedNeverApplied
  BY <1>1 DEF RefusedNeverApplied, Untouched
<1> QED
  BY <1>2, RecordInvariant, PTL

-----------------------------------------------------------------------------
(* The refinement.                                                         *)

\* The journal's core is the engine's.
LEMMA SameCore ==
  /\ \A h, s, x : Journal!decide(h, s, x) = decide(h, s, x)
  /\ \A h, s : Journal!reconcile(h, s) = reconcile(h, s)
  /\ \A entries : Journal!history(entries) = history(entries)
<1>1. \A h, id : Journal!accepted(h, id) = accepted(h, id)
  BY DEF Journal!accepted, accepted
<1>2. \A s, x : Journal!check_expected(s, x) = check_expected(s, x)
  BY DEF Journal!check_expected, check_expected
<1>3. ASSUME NEW h, NEW s, NEW x PROVE Journal!decide(h, s, x) = decide(h, s, x)
  BY <1>1, <1>2 DEF Journal!decide, decide
<1>4. ASSUME NEW h, NEW s PROVE Journal!reconcile(h, s) = reconcile(h, s)
  BY <1>1 DEF Journal!reconcile, reconcile
<1>5. ASSUME NEW entries PROVE Journal!history(entries) = history(entries)
  BY DEF Journal!history, history
<1> QED
  BY <1>3, <1>4, <1>5

\* A process that ends without an effect answers, refuses or gives up.
LEMMA EndsAbstractly ==
  ASSUME RecordInv, NEW p \in Proc, Ends(p)
  PROVE Journal!Answer(p) \/ Journal!Refuse(p) \/ Journal!GiveUp(p)
<1>0. ProcsOK /\ Answered(p) /\ Current(p) /\ Live(p)
  BY DEF RecordInv, StoreInv, JournalInv, TypeInv, TypeOK, LockInv, Ends
<1>1. Journal!pending(p)
  BY <1>0 DEF Journal!pending, Answered, Live
<1>2. PICK code : /\ Refuse(p, code)
                  /\ \/ code \in {"lost", OUTCOME_UNKNOWN}
                     \/ code \in NoEffect
                     \/ Ruling(p, code)
  BY DEF Ends
<1>3. outcome' = [outcome EXCEPT ![p] = code] /\ UNCHANGED <<known, cmd>>
  BY <1>2 DEF Refuse, Finish, Ends
<1>4. CASE code \in {"lost", OUTCOME_UNKNOWN}
  BY <1>1, <1>3, <1>4 DEF Journal!GiveUp, OUTCOME_UNKNOWN
<1>5. CASE code \in NoEffect
  BY <1>1, <1>3, <1>5 DEF Journal!Refuse, Journal!Refusal, NoEffect, UNAVAILABLE, LOCKED,
     CORRUPT, BOUND_EXCEEDED
<1>6. CASE Ruling(p, code)
  <2>1. known = snap[p]
    BY <1>0, <1>6 DEF Ruling, Current, SnapshotPc
  <2>2. Journal!history(known) = history(snap[p])
    BY <2>1, SameCore
  <2>3. Journal!signal(p) = SignalParts[cmd[p].signal]
    BY DEF Journal!signal
  <2> QED
    BY <1>1, <1>3, <1>6, <2>2, <2>3, SameCore DEF Journal!Answer, Ruling
<1> QED
  BY <1>2, <1>4, <1>5, <1>6

\* What is loaded is what was told, or reveals the record of one undetermined
\* submission.
LEMMA LoadsAbstractly ==
  ASSUME StateDirProvisioned, RecordInv, NEW p \in Proc, Loads(p)
  PROVE (\E q \in Proc : Journal!Reveal(q)) \/ UNCHANGED Journal!vars
<1> USE NamesOfFiles
<1>0. /\ StoreInv /\ JournalInv /\ TypeInv /\ FilesOK /\ ProcsOK /\ Shown /\ Store /\ LockInv
      /\ CrashInv
  BY DEF RecordInv, StoreInv, TypeInv, TypeOK, CrashInv
<1>1. /\ known' = vis["journal"] /\ read_snapshot(vis) = OK /\ cmd' = cmd
      /\ outcome' = outcome /\ pc[p] = "load"
  BY DEF Loads
<1>2. PICK S \in History : Committed(S) /\ vis["journal"] = S
  BY <1>0, <1>1, SnapshotSituation
<1>3. CASE S = known
  BY <1>1, <1>2, <1>3 DEF Journal!vars
<1>4. CASE S # known
  <2>1. S # <<>> /\ S = Append(known, S[Len(S)])
    BY <1>2, <1>4 DEF Committed, Reveals
  <2>2. PICK e \in Entry : S = Append(known, e)
    BY <2>1 DEF History
  <2>3. Owned(e)
    <3>1. S \in Survive("journal")
      BY <1>2 DEF Committed, Durable, Survive
    <3> QED
      BY <1>0, <2>2, <3>1 DEF JournalInv, Attributed
  <2>4. PICK q \in Proc : q = e.at
    BY DEF Entry
  <2>5. mode[q] # "append"
    <3>1. ASSUME mode[q] = "append" PROVE FALSE
      <4>1. pc[q] \in AppendPc
        BY <1>0, <3>1, NotAppending
      <4>2. q # p /\ held[q] = "exclusive"
        BY <1>0, <1>1, <4>1 DEF LockInv, Holding, AppendPc, PrepPc, JournalPc, TmpPc, CleanPc,
           WriterPc
      <4>3. held[p] # "none"
        BY <1>0, <1>1 DEF LockInv, Holding
      <4> QED
        BY <1>0, <4>2, <4>3 DEF LockInv, Exclusion
    <3> QED
      BY <3>1
  <2>6. Journal!undetermined(q)
    BY <2>3, <2>4, <2>5 DEF Owned, Journal!undetermined, OUTCOME_UNKNOWN
  <2>7. known \in Seq(Entry) /\ Len(known) \in Nat
    BY <1>0 DEF TypeInv, TypeOK
  <2>8. /\ Len(S) = Len(known) + 1 /\ Len(S) <= MaxEntries /\ S[Len(S)] = e
        /\ e.seq = Len(known) + 1
    <3>1. S \in Seq(Entry) /\ Len(S) <= MaxEntries /\ \A i \in 1 .. Len(S) : S[i].seq = i
      BY DEF History
    <3>2. Len(S) = Len(known) + 1 /\ S[Len(known) + 1] = e
      BY <2>2, <2>7
    <3>3. Len(S) \in 1 .. Len(S)
      BY <2>7, <3>2
    <3> QED
      BY <3>1, <3>2, <3>3
  <2>9. Journal!acceptable(q)
    <3>1. Journal!history(known) = history(known)
      BY SameCore
    <3>2. Journal!signal(q) = SignalParts[e.signal]
      BY <2>3, <2>4 DEF Journal!signal, Owned
    <3> QED
      BY <2>3, <2>7, <2>8, <3>1, <3>2, MaxEntriesIsPositive, SameCore DEF Owned, Journal!acceptable
  <2>10. e = Journal!entry(q)
    BY <2>3, <2>4, <2>8 DEF Owned, Journal!entry, Entry
  <2> QED
    BY <1>1, <1>2, <2>2, <2>6, <2>9, <2>10 DEF Journal!Reveal
<1> QED
  BY <1>3, <1>4

\* The end of an append is the acceptance of its submission.
LEMMA AppendsAbstractly ==
  ASSUME RecordInv, NEW p \in Proc, Appends(p)
  PROVE Journal!Accept(p)
<1>0. /\ TypeInv /\ CrashInv /\ ProcsOK /\ Answered(p) /\ Resolved(p) /\ mode[p] = "append"
      /\ pc[p] = "clean_sync"
  BY DEF RecordInv, StoreInv, JournalInv, TypeInv, TypeOK, Appends
<1>1. known = snap[p] /\ Len(known) < MaxEntries
  BY <1>0, AppendFacts
<1>2. /\ known' = Append(known, next_entry(p)) /\ cmd' = cmd
      /\ outcome' = [outcome EXCEPT ![p] = "accepted"]
  BY <1>1 DEF Appends, Finish
<1>3. Journal!pending(p) /\ cmd[p].op = "submit"
  BY <1>0 DEF Journal!pending, Answered, Resolved
<1>4. Journal!acceptable(p)
  <2>1. Journal!history(known) = history(snap[p])
    BY <1>1, SameCore
  <2>2. Journal!signal(p) = SignalParts[cmd[p].signal]
    BY DEF Journal!signal
  <2> QED
    BY <1>0, <1>1, <2>1, <2>2, SameCore DEF Journal!acceptable, Resolved
<1>5. next_entry(p) = Journal!entry(p)
  BY <1>1 DEF next_entry, Journal!entry
<1> QED
  BY <1>2, <1>3, <1>4, <1>5 DEF Journal!Accept

\* Every step of the store is a step of the journal, or none.
LEMMA NextAbstractly ==
  ASSUME StateDirProvisioned, RecordInv, [Next]_vars
  PROVE [Journal!Next]_(Journal!vars)
<1>0. StoreInv /\ JournalInv
  BY DEF RecordInv
<1>1. CASE UNCHANGED vars
  BY <1>1 DEF vars, Journal!vars
<1>2. CASE PowerLoss
  <2>1. ASSUME NEW p \in Proc PROVE Journal!pending(p) <=> Live(p)
    BY <1>0 DEF JournalInv, Answered, Journal!pending, Live
  <2>2. Journal!GiveUpAll
    BY <1>2, <2>1 DEF PowerLoss, Journal!GiveUpAll
  <2> QED
    BY <2>2 DEF Journal!Next
<1>3. ASSUME NEW p \in Proc, NEW c \in Command, Start(p, c) PROVE Journal!Next
  <2>1. Journal!Begin(p, c)
    BY <1>0, <1>3 DEF Start, JournalInv, Answered, Journal!Begin, quiet
  <2>2. c \in Journal!Command
    BY DEF Journal!Command, Command
  <2> QED
    BY <2>1, <2>2 DEF Journal!Next
<1>4. ASSUME NEW p \in Proc, Onward(p) \/ Prepares(p) PROVE UNCHANGED Journal!vars
  BY <1>4 DEF Onward, Prepares, Journal!vars
<1>5. ASSUME NEW p \in Proc, Ends(p) PROVE Journal!Next
  BY <1>5, EndsAbstractly DEF Journal!Next
<1>6. ASSUME NEW p \in Proc, Loads(p) PROVE [Journal!Next]_(Journal!vars)
  BY <1>6, LoadsAbstractly DEF Journal!Next
<1>7. ASSUME NEW p \in Proc, Appends(p) PROVE Journal!Next
  BY <1>7, AppendsAbstractly DEF Journal!Next
<1> QED
  BY <1>0, <1>1, <1>2, <1>3, <1>4, <1>5, <1>6, <1>7, Shapes

\* The store and the engine implement the journal of ControlJournal, when the
\* state directory was provisioned durably: whatever the processes, the file
\* system, kills and power losses do, what clients are told is one append-only
\* log of accepted submissions, with answers that stay true.
THEOREM StoreImplementsJournal ==
  ASSUME StateDirProvisioned PROVE Spec => ImplementsJournal
<1>1. Init => Journal!Init
  BY DEF Init, Journal!Init
<1>2. RecordInv /\ [Next]_vars => [Journal!Next]_(Journal!vars)
  BY NextAbstractly
<1> QED
  BY <1>1, <1>2, RecordInvariant, PTL DEF Spec, ImplementsJournal, Journal!Spec

-----------------------------------------------------------------------------
(* What the journal promises, the store keeps: the theorems about          *)
(* ControlJournal hold of the store through the refinement.                *)

Promised == INSTANCE ControlJournalProofs WITH log <- known, request <- cmd, answer <- outcome

\* The journal's assumption on its constants holds of the store's.
LEMMA PromisedConstants == Promised!NoneIsNoValue
BY NoneConstants DEF Promised!NoneIsNoValue, Promised!Code, Promised!Refusal, Promised!Command, Command, Answers,
   JournalErrorCode, UNAVAILABLE, LOCKED, CORRUPT, BOUND_EXCEEDED, OUTCOME_UNKNOWN

\* The two instances of the journal are the same.
LEMMA SameJournal ==
  /\ Journal!Init => Promised!Init
  /\ [Journal!Next]_(Journal!vars) => [Promised!Next]_(Promised!vars)
<1>0. /\ \A h, s, x : Journal!decide(h, s, x) = Promised!decide(h, s, x)
      /\ \A h, s : Journal!reconcile(h, s) = Promised!reconcile(h, s)
      /\ \A entries : Journal!history(entries) = Promised!history(entries)
  BY DEF Journal!decide, Journal!reconcile, Journal!history, Journal!accepted,
     Journal!check_expected, Promised!decide, Promised!reconcile, Promised!history,
     Promised!accepted, Promised!check_expected
<1>1. ASSUME NEW p \in Proc
      PROVE /\ Journal!pending(p) = Promised!pending(p) /\ Journal!signal(p) = Promised!signal(p)
            /\ Journal!entry(p) = Promised!entry(p)
            /\ Journal!undetermined(p) = Promised!undetermined(p)
  BY DEF Journal!pending, Journal!signal, Journal!entry, Journal!undetermined,
     Promised!pending, Promised!signal, Promised!entry, Promised!undetermined
<1>2. ASSUME NEW p \in Proc PROVE Journal!acceptable(p) = Promised!acceptable(p)
  BY <1>0, <1>1 DEF Journal!acceptable, Promised!acceptable
<1>3. ASSUME NEW p \in Proc
      PROVE /\ \A c : Journal!Begin(p, c) => Promised!Begin(p, c)
            /\ Journal!Accept(p) => Promised!Accept(p)
            /\ Journal!Refuse(p) => Promised!Refuse(p)
            /\ Journal!GiveUp(p) => Promised!GiveUp(p)
            /\ Journal!Reveal(p) => Promised!Reveal(p)
  BY <1>1, <1>2 DEF Journal!Begin, Journal!Accept, Journal!Refuse, Journal!GiveUp,
     Journal!Reveal, Journal!Refusal, Promised!Begin, Promised!Accept, Promised!Refuse,
     Promised!GiveUp, Promised!Reveal, Promised!Refusal
<1>4. ASSUME NEW p \in Proc PROVE Journal!Answer(p) => Promised!Answer(p)
  BY <1>0, <1>1 DEF Journal!Answer, Promised!Answer
<1>5. Journal!GiveUpAll => Promised!GiveUpAll
  BY <1>1 DEF Journal!GiveUpAll, Promised!GiveUpAll
<1>6. Journal!Command = Promised!Command
  BY DEF Journal!Command, Promised!Command
<1>7. Journal!Next => Promised!Next
  BY <1>3, <1>4, <1>5, <1>6 DEF Journal!Next, Promised!Next
<1>8. Journal!vars' = Journal!vars => Promised!vars' = Promised!vars
  BY DEF Journal!vars, Promised!vars
<1>9. Journal!Init => Promised!Init
  BY DEF Journal!Init, Promised!Init
<1> QED
  BY <1>7, <1>8, <1>9

\* With a durably provisioned state directory, no event is ever accepted twice
\* and every answer stays true, across processes, kills and power losses: the
\* promises of ControlJournal, kept by the file protocol.
THEOREM PromisesAreKept ==
  ASSUME StateDirProvisioned PROVE Spec => [](NoEventTwice /\ AnswersHold)
<1>1. Promised!OneEntryPerEvent => NoEventTwice
  BY DEF Promised!OneEntryPerEvent, NoEventTwice, Promised!replay_ok, replay_ok,
     Promised!history, history
<1>2. Promised!AnswersAreFinal /\ Promised!DuplicateIsAccepted => AnswersHold
  <2>1. \A h, s : Promised!reconcile(h, s) = reconcile(h, s)
    BY DEF Promised!reconcile, reconcile, Promised!accepted, accepted
  <2>2. \A entries : Promised!history(entries) = history(entries)
    BY DEF Promised!history, history
  <2> QED
    BY <2>1, <2>2 DEF Promised!AnswersAreFinal, Promised!DuplicateIsAccepted, AnswersHold,
       Promised!signal, OUTCOME_UNKNOWN
<1>3. Journal!Spec => Promised!Spec
  BY SameJournal, PTL DEF Journal!Spec, Promised!Spec
<1>4. Promised!Init => Promised!IInv
  BY PromisedConstants, Promised!InitIInv
<1>5. Promised!IInv /\ [Promised!Next]_(Promised!vars) => Promised!IInv'
  BY PromisedConstants, Promised!NextIInv
<1>6. Promised!IInv => NoEventTwice /\ AnswersHold
  BY <1>1, <1>2 DEF Promised!IInv
<1> QED
  BY <1>3, <1>4, <1>5, <1>6, StoreImplementsJournal, PTL DEF ImplementsJournal, Promised!Spec
=============================================================================
