----------------------------- MODULE JsonlStore -----------------------------
(***************************************************************************)
(* The JSONL control-journal store (crates/aizign-store-jsonl) driven by   *)
(* the one-shot engine (crates/aizign-engine): each process handles one    *)
(* submit or reconcile request against four files in one state directory,  *)
(* and the processes meet only in the file system and its advisory lock.   *)
(*                                                                         *)
(* One action is one durability primitive of the code, so a process may be *)
(* killed, an operation may fail and the machine may lose power between    *)
(* any two of them.                                                        *)
(*                                                                         *)
(* The file system (external).  vis[n] is what the name n shows to every   *)
(* process.  data[n] is the set of contents the file n names may have      *)
(* after a power loss: a write adds to it, fsync of the file leaves only   *)
(* the visible contents.  stale[n] is the set of contents the NAME may     *)
(* fall back to, its previous file or Absent: creating a file or renaming  *)
(* over the name adds to it, fsync of the directory empties it.            *)
(***************************************************************************)
EXTENDS WorkflowCore, StoreImage, SequencesExt

CONSTANTS
  Proc,                 \* the processes; one handles one request, once
  Signal,               \* the signals that are submitted or reconciled
  SignalParts,          \* their contents: [Signal -> SignalParts record]
  Expected,             \* the assignment the shell binds submissions to
  StateDirProvisioned,  \* TRUE: the state directory exists, durably, before
  MaxPowerLoss          \* bound: power losses in one behaviour

ASSUME StoreConstants ==
  /\ StateDirProvisioned \in BOOLEAN
  /\ MaxPowerLoss \in Nat
  /\ None \notin Proc

VARIABLES
  vis, data, stale,     \* the files, as above
  dir,                  \* the state directory's own entry in its parent
  held,                 \* held[p]: the advisory lock process p holds
  pc,                   \* pc[p]: the primitive p executes next
  cmd,                  \* cmd[p]: the request p was started for
  seen,                 \* seen[p]: artifacts p saw before it took the lock
  mode,                 \* mode[p]: is p initializing or appending
  snap,                 \* snap[p]: the committed entries p loaded
  outcome,              \* outcome[p]: what p answered
  known,                \* history: the last committed entries anyone was told
  losses                \* number of power losses so far

fs == <<vis, data, stale, dir>>
local == <<cmd, seen, mode, snap>>
vars == <<vis, data, stale, dir, held, pc, cmd, seen, mode, snap, outcome,
          known, losses>>

Artifact == {"lock", "journal", "commit", "publish"}
Name == Artifact \cup {"tmp"}      \* tmp is workflow.commit.tmp

Command == [op : {"submit", "reconcile"}, signal : Signal]
Entry == [seq : Nat \ {0}, at : Proc, signal : Signal]

history(entries) == [i \in DOMAIN entries |-> SignalParts[entries[i].signal]]

-----------------------------------------------------------------------------
(* File-system primitives.                                                 *)

\* A new file under the name n, holding c.
Create(n, c) ==
  /\ vis' = [vis EXCEPT ![n] = c]
  /\ data' = [data EXCEPT ![n] = {c}]
  /\ stale' = [stale EXCEPT ![n] = @ \cup data[n]]

\* A write to the file n that makes it hold c; a power loss may leave the
\* file as it was or with only part of the write.
Write(n, c, partial) ==
  /\ vis' = [vis EXCEPT ![n] = c]
  /\ data' = [data EXCEPT ![n] = @ \cup {partial, c}]
  /\ UNCHANGED stale

Sync(n) ==
  /\ data' = [data EXCEPT ![n] = {vis[n]}]
  /\ UNCHANGED <<vis, stale>>

SyncDirectory ==
  /\ stale' = [n \in Name |-> {}]
  /\ UNCHANGED <<vis, data>>

Rename(from, to) ==
  /\ vis' = [vis EXCEPT ![to] = vis[from], ![from] = Absent]
  /\ data' = [data EXCEPT ![to] = data[from], ![from] = {Absent}]
  /\ stale' = [stale EXCEPT ![to] = @ \cup data[to], ![from] = @ \cup data[from]]

\* What the name n may show after a power loss.
Survive(n) == data[n] \cup stale[n]

-----------------------------------------------------------------------------
(* Process steps.                                                          *)

Goto(p, from, to) ==
  /\ pc[p] = from
  /\ pc' = [pc EXCEPT ![p] = to]
  /\ UNCHANGED <<held, outcome>>

\* Process p answers and exits; dropping JournalLock releases the lock.
Finish(p, answer) ==
  /\ pc' = [pc EXCEPT ![p] = "done"]
  /\ outcome' = [outcome EXCEPT ![p] = answer]
  /\ held' = [held EXCEPT ![p] = "none"]
  /\ seen' = [seen EXCEPT ![p] = {}]
  /\ mode' = [mode EXCEPT ![p] = "init"]
  /\ snap' = [snap EXCEPT ![p] = <<>>]
  /\ UNCHANGED cmd

Continue(p, from, to) == Goto(p, from, to) /\ UNCHANGED local

Refuse(p, code) == Finish(p, code) /\ UNCHANGED fs

quiet == <<known, losses>>

Start(p, c) ==
  /\ pc[p] = "idle"
  /\ pc' = [pc EXCEPT ![p] = IF c.op = "submit" THEN "ensure_dir" ELSE "reader_open"]
  /\ cmd' = [cmd EXCEPT ![p] = c]
  /\ UNCHANGED <<fs, held, seen, mode, snap, outcome, quiet>>

-----------------------------------------------------------------------------
(* JsonlJournal::open_with_ops: the state directory and the lock.          *)

\* ensure_state_directory: an existing directory is only qualified.
EnsureStateDir(p) ==
  /\ Continue(p, "ensure_dir", IF dir = "absent" THEN "mkdir" ELSE "stat_lock")
  /\ UNCHANGED <<fs, quiet>>

\* Faulty variant of CreateStateDir: the loser of the race tries again.
CreateStateDirRetries(p) ==
  /\ pc[p] = "mkdir"
  /\ \/ /\ dir = "absent"
        /\ dir' = "volatile"
        /\ Continue(p, "mkdir", "sync_state_dir")
     \/ dir # "absent" /\ Continue(p, "mkdir", "mkdir") /\ UNCHANGED dir
  /\ UNCHANGED <<vis, data, stale, quiet>>

\* create_state_directory fails when another process was faster.
CreateStateDir(p) ==
  /\ pc[p] = "mkdir"
  /\ \/ /\ dir = "absent"
        /\ dir' = "volatile"
        /\ Continue(p, "mkdir", "sync_state_dir")
        /\ UNCHANGED <<vis, data, stale>>
     \/ dir # "absent" /\ Refuse(p, UNAVAILABLE)
  /\ UNCHANGED quiet

SyncStateDir(p) ==
  /\ Continue(p, "sync_state_dir", "sync_parent_dir")
  /\ SyncDirectory
  /\ UNCHANGED <<dir, quiet>>

SyncParentDir(p) ==
  /\ Continue(p, "sync_parent_dir", "stat_lock")
  /\ dir' = "durable"
  /\ UNCHANGED <<vis, data, stale, quiet>>

\* The four path_entry_exists calls, each at its own moment and all before
\* the lock is taken.
Stat(p, n, here, next) ==
  /\ Goto(p, here, next)
  /\ seen' = [seen EXCEPT ![p] = IF vis[n] = Absent THEN @ ELSE @ \cup {n}]
  /\ UNCHANGED <<fs, cmd, mode, snap, quiet>>

StatArtifact(p) ==
  \/ Stat(p, "lock", "stat_lock", "stat_journal")
  \/ Stat(p, "journal", "stat_journal", "stat_commit")
  \/ Stat(p, "commit", "stat_commit", "stat_publish")
  \/ Stat(p, "publish", "stat_publish", "open_lock")

\* "partial pre-marker store state"
partial(p) == seen[p] # {} /\ ~({"lock", "journal", "commit"} \subseteq seen[p])

\* Faulty variant of OpenLock: existence is sampled again after the creation.
OpenLockResamples(p) ==
  /\ pc[p] = "open_lock"
  /\ \/ partial(p) /\ Refuse(p, UNAVAILABLE)
     \/ ~partial(p) /\ "lock" \in seen[p] /\ Continue(p, "open_lock", "acquire")
          /\ UNCHANGED fs
     \/ /\ seen[p] = {} /\ vis["lock"] = Absent
        /\ Continue(p, "open_lock", "stat_lock")
        /\ Create("lock", <<>>) /\ UNCHANGED dir
     \/ seen[p] = {} /\ vis["lock"] # Absent /\ Refuse(p, UNAVAILABLE)
  /\ UNCHANGED quiet

\* open_private_writable_file with create_new for a name that p saw absent:
\* a file that appeared meanwhile is refused.
OpenLock(p) ==
  /\ pc[p] = "open_lock"
  /\ \/ partial(p) /\ Refuse(p, UNAVAILABLE)
     \/ ~partial(p) /\ "lock" \in seen[p] /\ Continue(p, "open_lock", "acquire")
          /\ UNCHANGED fs
     \/ /\ seen[p] = {} /\ vis["lock"] = Absent
        /\ Continue(p, "open_lock", "acquire")
        /\ Create("lock", <<>>) /\ UNCHANGED dir
     \/ seen[p] = {} /\ vis["lock"] # Absent /\ Refuse(p, UNAVAILABLE)
  /\ UNCHANGED quiet

\* Faulty variant of AcquireExclusive: the lock does not exclude.
AcquireNothing(p) ==
  /\ pc[p] = "acquire"
  /\ held' = [held EXCEPT ![p] = "exclusive"]
  /\ pc' = [pc EXCEPT ![p] = "open_journal"]
  /\ UNCHANGED <<fs, local, outcome, quiet>>

\* JournalLock::acquire_exclusive, a try_lock: nobody waits.
AcquireExclusive(p) ==
  /\ pc[p] = "acquire"
  /\ \/ /\ \A q \in Proc : held[q] = "none"
        /\ held' = [held EXCEPT ![p] = "exclusive"]
        /\ pc' = [pc EXCEPT ![p] = "open_journal"]
        /\ UNCHANGED <<fs, local, outcome>>
     \/ (\E q \in Proc : held[q] # "none") /\ Refuse(p, LOCKED)
  /\ UNCHANGED quiet

\* The journal is opened under the lock; an initialization goes on from here.
OpenJournal(p) ==
  /\ pc[p] = "open_journal"
  /\ \/ /\ "journal" \in seen[p]
        /\ Continue(p, "open_journal", "read_store")
        /\ UNCHANGED fs
     \/ /\ "journal" \notin seen[p] /\ vis["journal"] = Absent
        /\ Continue(p, "open_journal", "sync_lock")
        /\ Create("journal", <<>>) /\ UNCHANGED dir
  /\ UNCHANGED quiet

\* Faulty variant of OpenExisting: an unknown outcome is released as CLEAN.
OpenExistingReleases(p) ==
  /\ pc[p] = "read_store"
  /\ open_existing(vis, "publish" \in seen[p]) = OUTCOME_UNKNOWN
  /\ Continue(p, "read_store", "clean_trunc")
  /\ UNCHANGED <<fs, quiet>>

\* The existing-store branch up to its first write.
OpenExisting(p) ==
  /\ pc[p] = "read_store"
  /\ LET verdict == open_existing(vis, "publish" \in seen[p]) IN
       CASE verdict = OK -> Continue(p, "read_store", "load") /\ UNCHANGED fs
         [] verdict = "create_witness" ->
              Continue(p, "read_store", "wit_create") /\ UNCHANGED fs
         [] verdict = "resume_witness" ->
              Continue(p, "read_store", "wit_sync") /\ UNCHANGED fs
         [] OTHER -> Refuse(p, verdict)
  /\ UNCHANGED quiet

-----------------------------------------------------------------------------
(* initialize_fresh_store and initialize_witness.                          *)

SyncLock(p) ==
  Continue(p, "sync_lock", "sync_journal") /\ Sync("lock") /\ UNCHANGED <<dir, quiet>>

SyncJournal(p) ==
  Continue(p, "sync_journal", "sync_dir") /\ Sync("journal") /\ UNCHANGED <<dir, quiet>>

SyncInitDir(p) ==
  Continue(p, "sync_dir", "tmp_open") /\ SyncDirectory /\ UNCHANGED <<dir, quiet>>

\* initialize_witness refuses a witness that appeared since p looked.
CreateWitness(p) ==
  /\ pc[p] = "wit_create"
  /\ \/ /\ vis["publish"] = Absent
        /\ Continue(p, "wit_create", "wit_write")
        /\ Create("publish", Torn) /\ UNCHANGED dir
     \/ vis["publish"] # Absent /\ Refuse(p, UNAVAILABLE)
  /\ UNCHANGED quiet

WriteInitializing(p) ==
  /\ Continue(p, "wit_write", "wit_sync")
  /\ Write("publish", initializing, Torn)
  /\ UNCHANGED <<dir, quiet>>

\* The barrier and the verification, of a new witness or of a visible one an
\* earlier process left behind.
SyncInitializing(p) ==
  /\ vis["publish"] = initializing
  /\ Continue(p, "wit_sync", "wit_sync_dir")
  /\ Sync("publish")
  /\ UNCHANGED <<dir, quiet>>

SyncWitnessDir(p) ==
  Continue(p, "wit_sync_dir", "clean_trunc") /\ SyncDirectory /\ UNCHANGED <<dir, quiet>>

-----------------------------------------------------------------------------
(* publish_commit, for the empty commit point and for an append.           *)

\* Faulty variant of next_entry: sequence numbers count from zero.
next_entry_from_zero(p) ==
  [seq |-> Len(snap[p]), at |-> p, signal |-> cmd[p].signal]

next_entry(p) ==
  [seq |-> Len(snap[p]) + 1, at |-> p, signal |-> cmd[p].signal]

next_point(p) ==
  IF mode[p] = "init" THEN empty
  ELSE for_prefix(Append(snap[p], next_entry(p)), Len(snap[p]) + 1)

\* open_private_replace_file: a stale temporary file is removed first.
OpenTemporary(p) ==
  Continue(p, "tmp_open", "tmp_write") /\ Create("tmp", Torn) /\ UNCHANGED <<dir, quiet>>

WriteTemporary(p) ==
  /\ Continue(p, "tmp_write", "tmp_sync")
  /\ Write("tmp", next_point(p), Torn)
  /\ UNCHANGED <<dir, quiet>>

SyncTemporary(p) ==
  Continue(p, "tmp_sync", "rename") /\ Sync("tmp") /\ UNCHANGED <<dir, quiet>>

RenameCommit(p) ==
  Continue(p, "rename", "rename_sync") /\ Rename("tmp", "commit") /\ UNCHANGED <<dir, quiet>>

\* Faulty variant of SyncCommitDir: no directory barrier after the rename.
SyncCommitDirSkipped(p) ==
  /\ vis["commit"] = next_point(p)
  /\ Continue(p, "rename_sync", IF mode[p] = "init" THEN "wit_create" ELSE "clean_trunc")
  /\ UNCHANGED <<fs, quiet>>

\* The directory barrier, then the published document is read back.
SyncCommitDir(p) ==
  /\ vis["commit"] = next_point(p)
  /\ Continue(p, "rename_sync", IF mode[p] = "init" THEN "wit_create" ELSE "clean_trunc")
  /\ SyncDirectory
  /\ UNCHANGED <<dir, quiet>>

-----------------------------------------------------------------------------
(* The engine: load, replay, decide, append.                               *)

\* Faulty variant of LoadCommitted: the visible commit point is authority even
\* while an append is PREPARED.
LoadVisibleCommit(p) ==
  /\ pc[p] = "load"
  /\ \/ /\ read_snapshot(vis) \in {OK, OUTCOME_UNKNOWN}
        /\ Goto(p, "load", "decide")
        /\ snap' = [snap EXCEPT ![p] = prefix_of(vis["journal"], vis["commit"])]
        /\ known' = prefix_of(vis["journal"], vis["commit"])
        /\ UNCHANGED <<fs, cmd, seen, mode>>
     \/ /\ read_snapshot(vis) \notin {OK, OUTCOME_UNKNOWN}
        /\ Refuse(p, read_snapshot(vis))
        /\ UNCHANGED known
  /\ UNCHANGED losses

\* load_committed under the lock; what it returns is told to a client.
LoadCommitted(p) ==
  /\ pc[p] = "load"
  /\ \/ /\ read_snapshot(vis) = OK
        /\ Goto(p, "load", "decide")
        /\ snap' = [snap EXCEPT ![p] = vis["journal"]]
        /\ known' = vis["journal"]
        /\ UNCHANGED <<fs, cmd, seen, mode>>
     \/ /\ read_snapshot(vis) # OK
        /\ Refuse(p, read_snapshot(vis))
        /\ UNCHANGED known
  /\ UNCHANGED losses

\* The answer of execute_reconciliation.
Reconcile(p) ==
  /\ pc[p] = "decide" /\ cmd[p].op = "reconcile"
  /\ Refuse(p, IF replay_ok(history(snap[p]))
               THEN reconcile(history(snap[p]), SignalParts[cmd[p].signal])
               ELSE CORRUPT)
  /\ UNCHANGED quiet

\* execute_workflow_signal between the load and the append: the replay may
\* fail, then the core decides.
decision(p) ==
  IF replay_ok(history(snap[p]))
  THEN decide(history(snap[p]), SignalParts[cmd[p].signal], Expected)
  ELSE CORRUPT

Decide(p) ==
  /\ pc[p] = "decide" /\ cmd[p].op = "submit"
  /\ \/ decision(p) = "ACCEPTED" /\ Continue(p, "decide", "append") /\ UNCHANGED fs
     \/ decision(p) # "ACCEPTED" /\ Refuse(p, decision(p))
  /\ UNCHANGED quiet

\* The clock is read only for an accepted signal, and may fail.
ClockError(p) ==
  /\ pc[p] = "decide" /\ cmd[p].op = "submit" /\ decision(p) = "ACCEPTED"
  /\ Refuse(p, "INTERNAL")
  /\ UNCHANGED quiet

\* append_with_ops before its first write: everything is read again.
RevalidateAppend(p) ==
  /\ pc[p] = "append"
  /\ \/ read_snapshot(vis) # OK /\ Refuse(p, read_snapshot(vis))
     \/ /\ read_snapshot(vis) = OK
        /\ vis["commit"].generation = MaxEntries + 1
        /\ Refuse(p, BOUND_EXCEEDED)
     \/ /\ read_snapshot(vis) = OK
        /\ vis["commit"].generation # MaxEntries + 1
        /\ Goto(p, "append", "prep_trunc")
        /\ mode' = [mode EXCEPT ![p] = "append"]
        /\ snap' = [snap EXCEPT ![p] = vis["journal"]]
        /\ UNCHANGED <<fs, cmd, seen>>
  /\ UNCHANGED quiet

\* rewrite_file truncates before it writes.
TruncatePrepared(p) ==
  Continue(p, "prep_trunc", "prep_write") /\ Write("publish", Torn, Torn)
    /\ UNCHANGED <<dir, quiet>>

WritePrepared(p) ==
  /\ Continue(p, "prep_write", "prep_sync")
  /\ Write("publish", prepared(Len(snap[p]) + 2), Torn)
  /\ UNCHANGED <<dir, quiet>>

\* Faulty variant of SyncPrepared: no barrier before the journal is written.
SyncPreparedSkipped(p) ==
  Continue(p, "prep_sync", "jrn_write") /\ UNCHANGED <<fs, quiet>>

SyncPrepared(p) ==
  Continue(p, "prep_sync", "jrn_write") /\ Sync("publish") /\ UNCHANGED <<dir, quiet>>

\* write_all may need several writes for one record: a part at the end of
\* the file, then the rest of it.
WriteRecordPart(p) ==
  /\ Continue(p, "jrn_write", "jrn_rest")
  /\ Write("journal", Append(vis["journal"], Torn), Append(vis["journal"], Torn))
  /\ UNCHANGED <<dir, quiet>>

WriteRecordRest(p) ==
  /\ Continue(p, "jrn_rest", "jrn_sync")
  /\ Write("journal", [vis["journal"] EXCEPT ![Len(vis["journal"])] = next_entry(p)],
           vis["journal"])
  /\ UNCHANGED <<dir, quiet>>

SyncRecord(p) ==
  Continue(p, "jrn_sync", "tmp_open") /\ Sync("journal") /\ UNCHANGED <<dir, quiet>>

-----------------------------------------------------------------------------
(* The CLEAN rewrite that ends an initialization or an append.             *)

clean_witness(p) == IF mode[p] = "init" THEN clean(1) ELSE clean(Len(snap[p]) + 2)

TruncateClean(p) ==
  Continue(p, "clean_trunc", "clean_write") /\ Write("publish", Torn, Torn)
    /\ UNCHANGED <<dir, quiet>>

WriteClean(p) ==
  Continue(p, "clean_write", "clean_sync") /\ Write("publish", clean_witness(p), Torn)
    /\ UNCHANGED <<dir, quiet>>

\* The barrier and the verification; an append now returns its entry.
SyncClean(p) ==
  /\ pc[p] = "clean_sync"
  /\ vis["publish"] = clean_witness(p)
  /\ Sync("publish")
  /\ \/ /\ mode[p] = "init"
        /\ Continue(p, "clean_sync", "load")
        /\ UNCHANGED known
     \/ /\ mode[p] = "append"
        /\ Finish(p, "accepted")
        /\ known' = Append(snap[p], next_entry(p))
  /\ UNCHANGED <<dir, losses>>

-----------------------------------------------------------------------------
(* The reader, failures and the environment.                               *)

\* JsonlJournalReader::open before its lock.  Its checks are one step: the
\* names it requires never disappear while it runs.
ReaderOpen(p) ==
  /\ pc[p] = "reader_open"
  /\ \/ reader_open(vis) = OK /\ Continue(p, "reader_open", "reader_acquire") /\ UNCHANGED fs
     \/ reader_open(vis) # OK /\ Refuse(p, reader_open(vis))
  /\ UNCHANGED quiet

\* Faulty variant of AcquireShared: a reader does not respect a writer.
AcquireSharedAnyway(p) ==
  /\ pc[p] = "reader_acquire"
  /\ held' = [held EXCEPT ![p] = "shared"]
  /\ pc' = [pc EXCEPT ![p] = "load"]
  /\ UNCHANGED <<fs, local, outcome, quiet>>

\* JournalLock::acquire_shared.
AcquireShared(p) ==
  /\ pc[p] = "reader_acquire"
  /\ \/ /\ \A q \in Proc : held[q] # "exclusive"
        /\ held' = [held EXCEPT ![p] = "shared"]
        /\ pc' = [pc EXCEPT ![p] = "load"]
        /\ UNCHANGED <<fs, local, outcome>>
     \/ (\E q \in Proc : held[q] = "exclusive") /\ Refuse(p, LOCKED)
  /\ UNCHANGED quiet

\* Faulty variant of failure_code: unknown only once the record is synchronized.
failure_code_late(p) ==
  IF mode[p] = "append" /\ pc[p] \notin {"prep_trunc", "prep_write", "prep_sync", "jrn_write",
                                        "jrn_rest", "jrn_sync"}
  THEN OUTCOME_UNKNOWN ELSE UNAVAILABLE

\* Any primitive may report an error and any verification may fail; from the
\* first byte of PREPARED on the code is OUTCOME_UNKNOWN.
failure_code(p) == IF mode[p] = "append" THEN OUTCOME_UNKNOWN ELSE UNAVAILABLE

Live(p) == pc[p] \notin {"idle", "done"}

IoError(p) ==
  /\ Live(p) /\ pc[p] # "decide"
  /\ Refuse(p, failure_code(p))
  /\ UNCHANGED quiet

\* The parent kills the process, or it crashes, before it answers.
Kill(p) ==
  /\ Live(p)
  /\ Refuse(p, "lost")
  /\ UNCHANGED quiet

\* Every process dies and every name falls back to something that survives;
\* a state directory whose entry was not synchronized may be gone.
PowerLoss ==
  /\ losses < MaxPowerLoss
  /\ losses' = losses + 1
  /\ \/ /\ \E l \in Survive("lock"), j \in Survive("journal"), c \in Survive("commit"),
              w \in Survive("publish"), t \in Survive("tmp") :
             vis' = [lock |-> l, journal |-> j, commit |-> c, publish |-> w, tmp |-> t]
        /\ dir' = IF dir = "absent" THEN "absent" ELSE "durable"
     \/ /\ dir = "volatile"
        /\ vis' = [n \in Name |-> Absent]
        /\ dir' = "absent"
  /\ data' = [n \in Name |-> {vis'[n]}]
  /\ stale' = [n \in Name |-> {}]
  /\ held' = [p \in Proc |-> "none"]
  /\ pc' = [p \in Proc |-> IF Live(p) THEN "done" ELSE pc[p]]
  /\ outcome' = [p \in Proc |-> IF Live(p) THEN "lost" ELSE outcome[p]]
  /\ seen' = [p \in Proc |-> {}]
  /\ mode' = [p \in Proc |-> "init"]
  /\ snap' = [p \in Proc |-> <<>>]
  /\ UNCHANGED <<cmd, known>>

-----------------------------------------------------------------------------
Init ==
  /\ vis = [n \in Name |-> Absent]
  /\ data = [n \in Name |-> {Absent}]
  /\ stale = [n \in Name |-> {}]
  /\ dir = IF StateDirProvisioned THEN "durable" ELSE "absent"
  /\ held = [p \in Proc |-> "none"]
  /\ pc = [p \in Proc |-> "idle"]
  /\ cmd = [p \in Proc |-> None]
  /\ seen = [p \in Proc |-> {}]
  /\ mode = [p \in Proc |-> "init"]
  /\ snap = [p \in Proc |-> <<>>]
  /\ outcome = [p \in Proc |-> None]
  /\ known = <<>>
  /\ losses = 0

Open(p) ==
  \/ EnsureStateDir(p) \/ CreateStateDir(p) \/ SyncStateDir(p) \/ SyncParentDir(p)
  \/ StatArtifact(p) \/ OpenLock(p) \/ AcquireExclusive(p) \/ OpenJournal(p)
  \/ OpenExisting(p) \/ SyncLock(p) \/ SyncJournal(p) \/ SyncInitDir(p)
  \/ CreateWitness(p) \/ WriteInitializing(p) \/ SyncInitializing(p) \/ SyncWitnessDir(p)

PublishCommit(p) ==
  \/ OpenTemporary(p) \/ WriteTemporary(p) \/ SyncTemporary(p)
  \/ RenameCommit(p) \/ SyncCommitDir(p)

AppendEvent(p) ==
  \/ RevalidateAppend(p) \/ TruncatePrepared(p) \/ WritePrepared(p) \/ SyncPrepared(p)
  \/ WriteRecordPart(p) \/ WriteRecordRest(p) \/ SyncRecord(p)

Release(p) == TruncateClean(p) \/ WriteClean(p) \/ SyncClean(p)

Engine(p) == LoadCommitted(p) \/ Reconcile(p) \/ Decide(p)

Read(p) == ReaderOpen(p) \/ AcquireShared(p)

Step(p) ==
  Open(p) \/ PublishCommit(p) \/ AppendEvent(p) \/ Release(p) \/ Engine(p) \/ Read(p)

Next ==
  \/ \E p \in Proc :
       \/ \E c \in Command : Start(p, c)
       \/ Step(p) \/ IoError(p) \/ ClockError(p) \/ Kill(p)
  \/ PowerLoss

Spec == Init /\ [][Next]_vars

\* The processes when nothing fails: the operating system schedules every one of
\* them, and nothing makes a request start.
FaultFreeSpec ==
  /\ Init
  /\ [][\E p \in Proc : Step(p) \/ \E c \in Command : Start(p, c)]_vars
  /\ \A p \in Proc : WF_vars(Step(p))

-----------------------------------------------------------------------------
(* Correctness.                                                            *)

Cell == Entry \cup {Torn}
CommitPoint == [version : {STORE_METADATA_VERSION}, generation : Nat, bytes : Nat,
                entries : Nat, digest : Seq(Cell)]
PublishWitness == [version : {STORE_METADATA_VERSION}, started : Nat, published : Nat]

\* No record or document is mistaken for a missing or an unreadable file.
ASSUME FileConstants ==
  /\ Absent # Torn
  /\ Torn \notin Entry /\ Foreign \notin Entry
  /\ Absent \notin Seq(Cell)
  /\ \A none \in {Absent, Torn} :
       none \notin CommitPoint /\ none \notin PublishWitness

\* What each name may hold.
LockFile == {Absent, <<>>}
JournalFile == Seq(Cell) \cup {Absent}
CommitFile == CommitPoint \cup {Absent, Torn}
PublishFile == PublishWitness \cup {Absent, Torn}

Visible == [lock : LockFile, journal : JournalFile, commit : CommitFile,
            publish : PublishFile, tmp : CommitFile]
Candidates == [lock : SUBSET LockFile, journal : SUBSET JournalFile,
               commit : SUBSET CommitFile, publish : SUBSET PublishFile,
               tmp : SUBSET CommitFile]

Pc == {"idle", "done", "ensure_dir", "mkdir", "sync_state_dir", "sync_parent_dir",
       "stat_lock", "stat_journal", "stat_commit", "stat_publish", "open_lock",
       "acquire", "open_journal", "read_store", "sync_lock", "sync_journal",
       "sync_dir", "wit_create", "wit_write", "wit_sync", "wit_sync_dir", "tmp_open",
       "tmp_write", "tmp_sync", "rename", "rename_sync", "clean_trunc",
       "clean_write", "clean_sync", "load", "decide", "append", "prep_trunc",
       "prep_write", "prep_sync", "jrn_write", "jrn_rest", "jrn_sync",
       "reader_open", "reader_acquire"}

Answers == JournalErrorCode \cup
  {"accepted", "absent", "conflict", "lost", "INTERNAL", "DUPLICATE",
   "EVENT_CONFLICT", "WORKFLOW_MISMATCH", "ASSIGNMENT_MISMATCH", "ATTEMPT_MISMATCH",
   "ROLE_MISMATCH", "REVISION_MISMATCH", "CANDIDATE_DIGEST_MISMATCH"}
Outcome == Answers \cup {None}

\* A missing request or answer is neither a request nor an answer.
ASSUME NoneConstants == None \notin Command /\ None \notin Answers

FilesOK ==
  /\ vis \in Visible /\ data \in Candidates /\ stale \in Candidates
  /\ dir \in {"absent", "volatile", "durable"}

ProcsOK ==
  /\ held \in [Proc -> {"none", "shared", "exclusive"}]
  /\ pc \in [Proc -> Pc]
  /\ cmd \in [Proc -> Command \cup {None}]
  /\ seen \in [Proc -> SUBSET Artifact]
  /\ mode \in [Proc -> {"init", "append"}]
  /\ snap \in [Proc -> Seq(Entry)]
  /\ outcome \in [Proc -> Outcome]

\* Every variable has its type.  What a process loads, and what a client is
\* told, are complete records only: read_snapshot never returns torn bytes.
TypeOK == FilesOK /\ ProcsOK /\ known \in Seq(Entry) /\ losses \in 0 .. MaxPowerLoss

\* The artifacts a power loss right now could leave.
SurvivingImages ==
  {[lock |-> vis["lock"], journal |-> j, commit |-> c, publish |-> w] :
     j \in Survive("journal"), c \in Survive("commit"), w \in Survive("publish")}

\* What anyone was ever told to be committed is in every journal and under
\* every commit point a power loss could leave, also while the next append is
\* half done: append_with_ops synchronizes each artifact before it writes the
\* next, and CLEAN is the last.
KnownSurvives ==
  known # <<>> =>
    /\ \A j \in Survive("journal") : j # Absent /\ IsPrefix(known, j)
    /\ \A c \in Survive("commit") :
         c \notin {Absent, Torn} /\ c.entries >= Len(known)

\* An interrupted append is never mistaken for corruption: at every crash point
\* each image a power loss could leave reads as known, unknown or not
\* initialized, the torn witness of an interrupted rewrite_file aside (see
\* ReleaseWeakensToUnknown).
CrashNeverContradicts ==
  \A image \in SurvivingImages :
    read_snapshot(image) = CORRUPT => image.publish = Torn

\* The store README of version 2: "A crash may lose only that final
\* release-marker rewrite and weaken the result from known to unknown."  So once
\* an append has published its commit point, a store that no process has open
\* reads as known or unknown.  rewrite_file, which empties the witness before it
\* writes it, breaks this.
ReleaseWeakensToUnknown ==
  (/\ \A p \in Proc : held[p] = "none"
   /\ vis["commit"] \notin {Absent, Torn} /\ vis["commit"].entries > Len(known))
    => read_snapshot(vis) \in {OK, OUTCOME_UNKNOWN}

\* Between load_committed and the append the engine decides on a snapshot it
\* loaded earlier; the lock keeps it current the whole time, for a writer and
\* for a reader.
SnapshotCurrent ==
  \A p \in Proc : pc[p] \in {"decide", "append", "prep_trunc"} =>
    read_snapshot(vis) = OK /\ vis["journal"] = snap[p] /\ known = snap[p]

\* A submission answered with a definite failure has left nothing behind: its
\* record is in no journal a power loss could leave, so reporting anything but
\* OUTCOME_UNKNOWN from the first byte of PREPARED on would be wrong.
RefusedNeverApplied ==
  \A p \in Proc :
    outcome[p] \notin {None, "accepted", "lost", OUTCOME_UNKNOWN} =>
      \A j \in Survive("journal") \ {Absent} : \A i \in DOMAIN j :
        j[i] = Torn \/ j[i].at # p

\* An append whose process is gone is never completed, released or undone by
\* another one: nothing but a power loss changes the artifacts again
\* (resume_or_validate_existing, "store is left at a PREPARED publication
\* generation").
abandoned ==
  /\ vis["publish"] \notin {Absent, Torn} /\ is_prepared_successor(vis["publish"])
  /\ \A p \in Proc : mode[p] # "append"

AbandonedStaysPut ==
  [][abandoned /\ losses' = losses => \A n \in Artifact : vis'[n] = vis[n]]_vars

\* ADR-0028: "Crash loss can weaken a result to unknown without producing a
\* contradictory older known result."  What is told to be committed only grows.
KnownMonotone == [][IsPrefix(known, known')]_known

\* The store and the engine implement the journal their callers rely on; the
\* log is what anyone was told to be committed.
Journal == INSTANCE ControlJournal WITH log <- known, request <- cmd, answer <- outcome

ImplementsJournal == Journal!Spec

\* What clients are told holds no event twice, whichever processes raced, failed
\* or died: WorkflowState::replay, which fails on the second, always succeeds
\* (ControlJournal's OneEntryPerEvent, of the files).
NoEventTwice == replay_ok(history(known))

\* A definite answer to a submission is true of what clients are told, now and
\* after every later step: an accepted one has its entry, one that was refused
\* has none, and a duplicate's very content is there (ControlJournal's
\* AnswersAreFinal and DuplicateIsAccepted, of the files).
AnswersHold ==
  \A p \in Proc : cmd[p] # None /\ cmd[p].op = "submit" =>
    /\ outcome[p] = "accepted" => \E i \in DOMAIN known : known[i].at = p
    /\ (\E i \in DOMAIN known : known[i].at = p)
         => outcome[p] \in {"accepted", OUTCOME_UNKNOWN, "lost"}
    /\ outcome[p] = "DUPLICATE" =>
         reconcile(history(known), SignalParts[cmd[p].signal]) = "accepted"

\* Every request is answered although nobody coordinates the processes: locks
\* are tried and not waited for, and losers of a creation race are refused, so
\* that again and again no request is pending (a process handles one).
EveryRequestAnswered == []<>(\A p \in Proc : ~Live(p))

\* When nothing fails, racing submissions to a store that does not exist yet
\* never all refuse one another: one of them gets as far as the decision.
Decided(p) ==
  outcome[p] \notin {None, UNAVAILABLE, LOCKED, SCHEMA_UNSUPPORTED, CORRUPT,
                     OUTCOME_UNKNOWN}

SomeSubmitDecided ==
  (\E p \in Proc : Live(p) /\ cmd[p].op = "submit")
    ~> (\E p \in Proc : cmd[p] # None /\ cmd[p].op = "submit" /\ Decided(p))
=============================================================================
