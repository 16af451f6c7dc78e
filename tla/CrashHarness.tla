---------------------------- MODULE CrashHarness ----------------------------
(***************************************************************************)
(* The process-crash harness of the store (crash_harness.rs), run over the *)
(* store of module JsonlStore.  A parent walks the manifest; for each row  *)
(* it starts a primary child (the holder, or the response child) in a new  *)
(* temporary directory, lets the controller inside the child stop it after *)
(* the named primitive, kills or releases it, possibly while a contender   *)
(* tries the store, and has an inspector check how the store then answers. *)
(*                                                                         *)
(* The children execute the production code: each of their store           *)
(* operations is a process of JsonlStore, and one step of it reports the   *)
(* events of the primitives it completes.  A child may hang, fail or be    *)
(* killed at any point; the parent's deadlines are steps that may happen   *)
(* whenever it waits.  SIGKILL leaves the files as they are: no power is   *)
(* lost here.                                                              *)
(***************************************************************************)
EXTENDS JsonlStore, CrashManifest, BagsExt

CONSTANT RecordBytes    \* the length of the encoded record of evt-same

ASSUME RecordBytesIsUsable == RecordBytes \in Nat /\ RecordBytes > 2

VARIABLES
  row,        \* the scenario being executed, an index into required_matrix
  parent,     \* what the parent does next
  verdict,    \* None, or how run_required_matrix returned
  child,      \* child[r]: state or exit status of the child in role r
  stage,      \* the point of run_primary the primary child is at
  todo,       \* events completed by the primary and not yet reported
  counts,     \* Controller::counts, a bag of <<operation, artifact>>
  selected,   \* Controller::selected
  deferred,   \* Controller::deferred_ready
  blocked,    \* the primary is in wait_for_release
  gate,       \* the contender was released
  stdout,     \* ready records of the primary the parent has not read
  stderr,     \* acknowledgements the primary has written
  inspection, \* the inspector's position in inspections
  before,     \* the artifact snapshot a child compares with
  blocked_snapshot, \* the one the parent took of a stopped primary's image
  inspected,  \* history: the image the inspector was started on
  faulted     \* history: an I/O error, a dead or hanging child, a timeout

controller == <<counts, selected, deferred, blocked, todo>>
streams == <<stdout, stderr>>
snapshots == <<blocked_snapshot, inspected>>
harness == <<row, parent, verdict, child, stage, controller, gate, streams,
             inspection, before, snapshots, faulted>>

s == required_matrix[row]

Child == {"primary", "contender", "inspector"}

\* The store operations each child performs.
operations(r) ==
  CASE r = "primary" -> {"setup", "holder"}
    [] r = "contender" -> {"contender"}
    [] r = "inspector" -> {"reader", "again", "recon", "same", "next"}

primary_role == IF is_response(s) THEN "response-child" ELSE "holder"
role_name(r) == IF r = "primary" THEN primary_role ELSE r

same == [op |-> "submit", signal |-> "evt-same"]
next == [op |-> "submit", signal |-> "evt-next"]
read == [op |-> "reconcile", signal |-> "evt-same"]

store == <<fs, held, pc, local, outcome, quiet>>

-----------------------------------------------------------------------------
(* Children.                                                               *)

\* The store operations of the children in R end; a JournalLock that is still
\* held is released by the operating system.
Vanish(R) ==
  LET P == UNION {operations(r) : r \in R} IN
    /\ pc' = [p \in Proc |-> IF p \in P THEN "done" ELSE pc[p]]
    /\ held' = [p \in Proc |-> IF p \in P THEN "none" ELSE held[p]]
    /\ UNCHANGED <<fs, local, outcome, quiet>>

\* Child r returns from its entry point.
Exit(r, status) ==
  /\ child' = [child EXCEPT ![r] = status]
  /\ Vanish({r})

alive(r) == child[r] = "alive"
exited(r) == child[r] \in {"ok", "error", "sigkill"}

\* start_helper: the helper refuses a role that its scenario does not have.
Started(r) == IF validate_role_pair(s, role_name(r)) THEN "alive" ELSE "error"

-----------------------------------------------------------------------------
(* The controller inside the primary child.                                *)

evidence(operation, artifact) ==
  [operation |-> operation, artifact |-> artifact, durability_point |-> None,
   byte_count |-> None]

\* PrimitiveEvent::durable.
durable(point) ==
  LET event(operation, artifact) ==
        [evidence(operation, artifact) EXCEPT !.durability_point = point]
  IN CASE point \in {"PreparedWriteComplete", "CleanWriteComplete"} ->
            event("write-complete", "publish-witness")
       [] point \in {"PreparedBarrierComplete", "CleanBarrierComplete"} ->
            event("file-barrier-complete", "publish-witness")
       [] point = "JournalRecordWriteComplete" -> event("write-complete", "journal")
       [] point = "JournalBarrierComplete" -> event("file-barrier-complete", "journal")
       [] point = "CommitTemporaryWriteComplete" -> event("write-complete", "commit-temporary")
       [] point = "CommitTemporaryBarrierComplete" ->
            event("file-barrier-complete", "commit-temporary")
       [] point = "CommitRenameComplete" -> event("rename-complete", "commit")
       [] point = "CommitDirectoryBarrierComplete" ->
            event("directory-barrier-complete", "state-directory")
       [] point = "DurableAppendComplete" -> event("durable-append-complete", "journal")

\* A file that is created reports its opening and its mode.
created(artifact) ==
  <<evidence("open-complete", artifact), evidence("permissions-normalized", artifact)>>

\* selected_partial_write: where the record of a partial row is cut.
partial_length(kind) ==
  CASE kind = 1 -> 1 [] kind = 2 -> RecordBytes \div 2 [] kind = 3 -> RecordBytes - 1

stops_partially == role_name("primary") = "holder" /\ s.partial_kind # None

partial_write_stopped ==
  [evidence("partial-write-stopped", "journal")
     EXCEPT !.byte_count = partial_length(s.partial_kind)]

\* The events the holder's next step reports when it succeeds.
events_of_open ==
  CASE pc["holder"] = "mkdir" ->
         <<evidence("create-complete", "state-directory"),
           evidence("permissions-normalized", "state-directory")>>
    [] pc["holder"] \in {"sync_state_dir", "sync_dir", "wit_sync_dir"} ->
         <<evidence("directory-barrier-complete", "state-directory")>>
    [] pc["holder"] = "sync_parent_dir" ->
         <<evidence("directory-barrier-complete", "parent-directory")>>
    [] pc["holder"] = "open_lock" /\ "lock" \notin seen["holder"] -> created("lock")
    [] pc["holder"] = "acquire" -> <<evidence("lock-acquired", "lock")>>
    [] pc["holder"] = "open_journal" /\ "journal" \notin seen["holder"] -> created("journal")
    [] pc["holder"] = "sync_lock" -> <<evidence("file-barrier-complete", "lock")>>
    [] pc["holder"] = "sync_journal" -> <<evidence("file-barrier-complete", "journal")>>
    [] pc["holder"] = "wit_create" -> created("publish-witness")
    [] OTHER -> <<>>

events_of_publication ==
  CASE pc["holder"] = "tmp_open" -> created("commit-temporary")
    [] pc["holder"] = "tmp_write" -> <<durable("CommitTemporaryWriteComplete")>>
    [] pc["holder"] = "tmp_sync" -> <<durable("CommitTemporaryBarrierComplete")>>
    [] pc["holder"] = "rename" -> <<durable("CommitRenameComplete")>>
    [] pc["holder"] = "rename_sync" -> <<durable("CommitDirectoryBarrierComplete")>>
    [] pc["holder"] \in {"wit_write", "prep_write"} -> <<durable("PreparedWriteComplete")>>
    [] pc["holder"] \in {"wit_sync", "prep_sync"} -> <<durable("PreparedBarrierComplete")>>
    [] pc["holder"] = "jrn_write" /\ stops_partially -> <<partial_write_stopped>>
    [] pc["holder"] = "jrn_rest" -> <<durable("JournalRecordWriteComplete")>>
    [] pc["holder"] = "jrn_sync" -> <<durable("JournalBarrierComplete")>>
    [] pc["holder"] = "clean_write" -> <<durable("CleanWriteComplete")>>
    [] pc["holder"] = "clean_sync" -> <<durable("CleanBarrierComplete")>>
    [] OTHER -> <<>>

events_completed == events_of_open \o events_of_publication

\* write_ready: the record announcing that the primary has stopped.
ready(event, occurrence) ==
  [case_id |-> s.id, operation |-> event.operation, artifact |-> event.artifact,
   occurrence |-> occurrence, durability_point |-> event.durability_point,
   byte_count |-> event.byte_count]

occurrence(event) ==
  LET key == <<event.operation, event.artifact>> IN
    IF BagIn(key, counts) THEN counts[key] + 1 ELSE 1

\* primitive_completed, up to the decision whether the primary stops here.
is_selected(event) ==
  /\ ~selected /\ role_name("primary") = s.actor
  /\ event.operation = s.operation /\ event.artifact = s.artifact
  /\ occurrence(event) = s.occurrence

is_well_formed(event) ==
  /\ event.durability_point = s.durability_point
  /\ (event.byte_count # None) <=> (s.partial_kind # None)
  /\ event.byte_count # 0

\* Faulty variant of PrimitiveCompleted: the event is announced, but the child
\* does not wait for its release.
PrimitiveCompletedRunsOn ==
  /\ alive("primary") /\ todo # <<>> /\ ~blocked
  /\ LET event == Head(todo) IN
       /\ counts' = BagAdd(counts, <<event.operation, event.artifact>>)
       /\ \/ ~is_selected(event) /\ UNCHANGED <<selected, stdout>>
          \/ /\ is_selected(event)
             /\ selected' = TRUE
             /\ stdout' = Append(stdout, ready(event, occurrence(event)))
  /\ todo' = Tail(todo)
  /\ UNCHANGED <<store, child, deferred, blocked, row, parent, verdict, stage, gate, stderr,
                 inspection, before, snapshots, faulted>>

\* primitive_completed for the first event not yet reported: it is counted;
\* the selected one is announced, at once or, for the row that stops before the
\* response, later, and the child waits.
PrimitiveCompleted ==
  /\ alive("primary") /\ todo # <<>> /\ ~blocked
  /\ LET event == Head(todo) IN
       /\ counts' = BagAdd(counts, <<event.operation, event.artifact>>)
       /\ \/ /\ ~is_selected(event)
             /\ UNCHANGED <<selected, deferred, blocked, stdout, child, store>>
          \/ /\ is_selected(event) /\ ~is_well_formed(event)
             /\ Exit("primary", "error")
             /\ UNCHANGED <<selected, deferred, blocked, stdout>>
          \/ /\ is_selected(event) /\ is_well_formed(event)
             /\ selected' = TRUE
             /\ IF s.id = "append-durable-before-response-write"
                THEN deferred' = ready(event, occurrence(event)) /\ UNCHANGED <<blocked, stdout>>
                ELSE /\ stdout' = Append(stdout, ready(event, occurrence(event)))
                     /\ blocked' = TRUE /\ UNCHANGED deferred
             /\ UNCHANGED <<child, store>>
  /\ todo' = Tail(todo)
  /\ UNCHANGED <<row, parent, verdict, stage, gate, stderr, inspection, before, snapshots,
                 faulted>>

-----------------------------------------------------------------------------
(* run_primary.                                                            *)

\* The primary executes its own code: nothing to report, not stopped.
primary_runs == alive("primary") /\ todo = <<>> /\ ~blocked

controls == <<counts, selected, deferred, blocked>>
unmoved == <<row, parent, verdict, gate, inspection, before, snapshots, faulted>>

\* prepare_resume_state: the files of an initialization that stopped at PREPARED.
PrepareResumeState ==
  /\ primary_runs /\ stage = "begin" /\ s.phase = "reopen-submit"
  /\ vis' = [vis EXCEPT !["lock"] = <<>>, !["journal"] = <<>>, !["commit"] = empty,
                        !["publish"] = initializing]
  /\ data' = [n \in Name |-> {vis'[n]}]
  /\ stale' = [n \in Name |-> IF n \in Artifact THEN {Absent} ELSE {}]
  /\ dir' = "volatile"
  /\ stage' = "prepared"
  /\ UNCHANGED <<held, pc, local, outcome, quiet, unmoved, child, controller, streams>>

\* prepare_clean_state: a complete JsonlJournal::open with the controller
\* disabled, dropped when it has succeeded.
prepares_clean == s.phase \in {"append", "response", "reopen-read"}

PrepareCleanState ==
  /\ primary_runs /\ prepares_clean
  /\ \/ /\ stage = "begin"
        /\ Start("setup", same)
        /\ stage' = "setup" /\ UNCHANGED child
     \/ /\ stage = "setup" /\ pc["setup"] \notin {"idle", "load", "done"}
        /\ Step("setup")
        /\ UNCHANGED <<stage, child>>
     \/ /\ stage = "setup" /\ pc["setup"] = "load"
        /\ Refuse("setup", OK) /\ UNCHANGED quiet
        /\ stage' = "prepared" /\ UNCHANGED child
     \/ /\ stage = "setup" /\ pc["setup"] = "done"
        /\ Exit("primary", "error") /\ UNCHANGED stage
  /\ UNCHANGED <<controller, streams, unmoved>>

\* reset_phase, then the journal or, for the row with a reader as its holder,
\* the reader is opened.
OpenStore ==
  /\ primary_runs
  /\ stage = (IF s.phase = "initialize" THEN "begin" ELSE "prepared")
  /\ Start("holder", IF s.phase = "reopen-read" THEN read ELSE same)
  /\ counts' = EmptyBag /\ selected' = FALSE /\ deferred' = None
  /\ stage' = "open"
  /\ UNCHANGED <<blocked, todo, child, streams, unmoved>>

\* A primitive of the production code.  A partial row ends in an error should
\* it ever be released.
StorePrimitive ==
  /\ primary_runs /\ stage = "open"
  /\ pc["holder"] \notin {"load", "decide", "returned", "done"}
  /\ ~(stops_partially /\ pc["holder"] = "jrn_rest")
  /\ ~(pc["holder"] = "clean_sync" /\ mode["holder"] = "append")
  /\ Step("holder")
  /\ todo' = IF pc'["holder"] = "done" THEN <<>> ELSE events_completed
  /\ UNCHANGED <<controls, stage, child, streams, unmoved>>

\* The end of append_with_ops; the journal, and with it the lock, is dropped
\* only when run_primary returns.
AppendReturns ==
  /\ primary_runs /\ stage = "open"
  /\ pc["holder"] = "clean_sync" /\ mode["holder"] = "append"
  /\ vis["publish"] = clean_witness("holder")
  /\ Sync("publish")
  /\ pc' = [pc EXCEPT !["holder"] = "returned"]
  /\ todo' = events_completed \o <<durable("DurableAppendComplete")>>
  /\ UNCHANGED <<dir, held, local, outcome, quiet, controls, stage, child, streams, unmoved>>

\* The store refused, or a partial write was released.
PrimaryFails ==
  /\ primary_runs /\ stage = "open"
  /\ pc["holder"] = "done" \/ (stops_partially /\ pc["holder"] = "jrn_rest")
  /\ Exit("primary", "error")
  /\ UNCHANGED <<controller, stage, streams, unmoved>>

\* The store is open.  An initialization is over; a reader announces itself and
\* waits; the other rows append.
StoreOpened ==
  /\ primary_runs /\ stage = "open" /\ pc["holder"] = "load"
  /\ \/ /\ s.phase \in {"initialize", "reopen-submit"}
        /\ Exit("primary", IF s.normal_exit THEN "ok" ELSE "error")
        /\ UNCHANGED <<controller, stage, streams>>
     \/ /\ s.phase = "reopen-read"
        /\ stdout' = Append(stdout, ready(evidence("lock-acquired", "lock"), 1))
        /\ blocked' = TRUE /\ stage' = "reading"
        /\ UNCHANGED <<counts, selected, deferred, todo, stderr, child, store>>
     \/ /\ s.phase \in {"append", "response"} /\ s.result = "C6"
        /\ Exit("primary", "ok")
        /\ UNCHANGED <<controller, stage, streams>>
     \/ /\ s.phase \in {"append", "response"} /\ s.result # "C6"
        /\ Continue("holder", "load", "append") /\ UNCHANGED <<fs, quiet>>
        /\ UNCHANGED <<controller, stage, streams, child>>
  /\ UNCHANGED unmoved

\* After the append: response_boundary, or the end of the child.  A row whose
\* event was never selected must not look like a success.
AfterAppend ==
  /\ primary_runs /\ stage = "open" /\ pc["holder"] = "returned"
  /\ IF is_response(s)
     THEN /\ stage' = "responding"
          /\ UNCHANGED <<child, store, controller, streams>>
     ELSE /\ Exit("primary", IF s.normal_exit \/ is_concurrency(s) THEN "ok" ELSE "error")
          /\ UNCHANGED <<stage, controller, streams>>
  /\ UNCHANGED unmoved

\* Announces the response boundary and waits.
Announce(record) ==
  /\ stdout' = Append(stdout, record)
  /\ blocked' = TRUE /\ stage' = "responded"

ResponseBoundary ==
  /\ primary_runs /\ stage = "responding"
  /\ \/ /\ s.id = "append-durable-before-response-write" /\ deferred # None
        /\ Announce(deferred) /\ deferred' = None
        /\ UNCHANGED <<stderr, child, store>>
     \/ /\ s.id = "append-durable-before-response-write" /\ deferred = None
        /\ Exit("primary", "error")
        /\ UNCHANGED <<deferred, blocked, stage, streams>>
     \/ /\ s.id \in {"response-after-write", "response-after-flush"}
        /\ stderr' = stderr + 1
        /\ Announce(ready(evidence(IF s.id = "response-after-write"
                                   THEN "response-write-complete"
                                   ELSE "response-flush-complete", "response"), 1))
        /\ UNCHANGED <<deferred, child, store>>
     \/ /\ s.id = "response-normal-exit"
        /\ stderr' = stderr + 1
        /\ Exit("primary", "ok")
        /\ UNCHANGED <<deferred, blocked, stage, stdout>>
  /\ UNCHANGED <<counts, selected, todo, unmoved>>

\* What follows a release: the reader loads the committed entries, and a
\* response boundary would simply return.
PrimaryReleased ==
  /\ primary_runs /\ stage \in {"reading", "responded"}
  /\ Exit("primary", IF stage = "reading" /\ read_snapshot(vis) # OK THEN "error" ELSE "ok")
  /\ UNCHANGED <<controller, stage, streams, unmoved>>

RunPrimary ==
  \/ PrimitiveCompleted \/ PrepareResumeState \/ PrepareCleanState \/ OpenStore
  \/ StorePrimitive \/ AppendReturns \/ PrimaryFails \/ StoreOpened
  \/ AfterAppend \/ ResponseBoundary \/ PrimaryReleased

-----------------------------------------------------------------------------
(* run_contender and run_inspector.                                        *)

\* artifact_snapshot: it fails without a state directory and for a journal of
\* more than two records.
artifact_snapshot == [n \in Name |-> vis[n]]

snapshot_possible ==
  /\ dir # "absent"
  /\ vis["journal"] # Absent => Len(vis["journal"]) <= 2

others == <<row, parent, verdict, stage, controller, gate, streams, snapshots, faulted>>

\* What the contender attempts, and the error it must get.
contends ==
  IF s.id \in {"concurrency-same-event-submit", "concurrency-different-event-submit",
               "concurrency-submit-under-reader", "concurrency-writer-after-partial-tail"}
  THEN same ELSE read

contention ==
  IF s.id = "concurrency-writer-after-partial-tail" THEN OUTCOME_UNKNOWN ELSE LOCKED

RunContender ==
  /\ alive("contender") /\ gate
  /\ \/ /\ pc["contender"] = "idle" /\ snapshot_possible
        /\ before' = artifact_snapshot
        /\ Start("contender", contends) /\ UNCHANGED child
     \/ /\ pc["contender"] = "idle" /\ ~snapshot_possible
        /\ Exit("contender", "error") /\ UNCHANGED before
     \/ /\ pc["contender"] \notin {"idle", "load", "done"}
        /\ Step("contender") /\ UNCHANGED <<child, before>>
     \/ /\ pc["contender"] \in {"load", "done"}
        /\ Exit("contender", IF /\ pc["contender"] = "done"
                                /\ outcome["contender"] = contention
                                /\ snapshot_possible /\ artifact_snapshot = before
                             THEN "ok" ELSE "error")
        /\ UNCHANGED before
  /\ UNCHANGED <<others, inspection>>

\* The operations of the inspector, in order.
inspections == <<"reader", "again", "recon", "same", "next">>

request(op) == CASE op = "same" -> same [] op = "next" -> next [] OTHER -> read

\* What the operation must answer.
projection(op) ==
  LET expected == result_expectation(s) IN
    CASE op = "reader" -> expected.reader
      [] op = "again" -> expected.reconcile
      [] op = "same" -> expected.same_submit
      [] op = "next" -> expected.next_submit
      [] op = "recon" ->
           IF expected.reconcile \in JournalErrorCode THEN expected.reconcile
           ELSE IF expected.same_submit = "DUPLICATE" THEN "accepted" ELSE "absent"

\* Reading must not change the artifacts, nor may a refused or repeated
\* submission; the snapshot before the second read also serves the reconciliation.
must_not_change(op) ==
  \/ op \in {"reader", "recon"}
  \/ /\ op \in {"same", "next"} /\ result_expectation(s).equality_required
     /\ projection(op) \in JournalErrorCode \cup {"DUPLICATE"}

\* read_image ends with the load: its result is the number of entries.
ReadImage(p) ==
  \/ pc[p] # "decide" /\ Step(p)
  \/ pc[p] = "decide" /\ Refuse(p, Known(Len(snap[p]))) /\ UNCHANGED quiet

BeginInspection(op) ==
  \/ /\ projection(op) = "not-applicable"
     /\ inspection' = inspection + 1
     /\ UNCHANGED <<before, child, store>>
  \/ /\ projection(op) # "not-applicable"
     /\ validate_mutation_projection(s) /\ snapshot_possible
     /\ before' = IF op = "recon" THEN before ELSE artifact_snapshot
     /\ Start(op, request(op)) /\ UNCHANGED <<inspection, child>>
  \/ /\ projection(op) # "not-applicable"
     /\ ~(validate_mutation_projection(s) /\ snapshot_possible)
     /\ Exit("inspector", "error") /\ UNCHANGED <<inspection, before>>

EndInspection(op) ==
  IF /\ outcome[op] = projection(op) /\ snapshot_possible
     /\ must_not_change(op) => artifact_snapshot = before
  THEN inspection' = inspection + 1 /\ UNCHANGED <<before, child, store>>
  ELSE Exit("inspector", "error") /\ UNCHANGED <<inspection, before>>

RunInspector ==
  /\ alive("inspector")
  /\ IF inspection > Len(inspections)
     THEN Exit("inspector", "ok") /\ UNCHANGED <<inspection, before>>
     ELSE LET op == inspections[inspection] IN
            \/ pc[op] = "idle" /\ BeginInspection(op)
            \/ /\ pc[op] \notin {"idle", "done"}
               /\ IF op \in {"reader", "again"} THEN ReadImage(op) ELSE Step(op)
               /\ UNCHANGED <<inspection, before, child>>
            \/ pc[op] = "done" /\ EndInspection(op)
  /\ UNCHANGED others

-----------------------------------------------------------------------------
(* The parent: execute_scenario and run_required_matrix.                   *)

untouched == <<row, stage, controller, gate, inspection, before, snapshots, streams>>

\* An early return: ReapedChild::drop kills and reaps what still runs.
Fail ==
  /\ verdict' = "fail"
  /\ child' = [r \in Child |-> IF alive(r) THEN "sigkill" ELSE child[r]]
  /\ Vanish(Child)
  /\ UNCHANGED <<parent, untouched>>

\* The parent goes on when its check holds and fails otherwise.
Proceed(check, to, step) ==
  \/ check /\ step /\ parent' = to /\ UNCHANGED verdict
  \/ ~check /\ Fail

running == verdict = None

\* The primary and, for most rows of the concurrency family, a contender that
\* waits at its gate.
SpawnChildren ==
  /\ running /\ parent = "spawn" /\ UNCHANGED faulted
  /\ Proceed(assert_manifest, IF s.normal_exit THEN "wait_exit" ELSE "wait_ready",
       /\ child' = [child EXCEPT !["primary"] = Started("primary"),
                                 !["contender"] = IF prestarts_contender(s)
                                                  THEN Started("contender") ELSE @]
       /\ UNCHANGED <<store, untouched>>)

\* read_until_ready and parse_ready: the first record decides; a child that
\* ends without one fails the row.
parse_ready(record) ==
  /\ record.case_id = s.id
  /\ record.operation = s.operation /\ record.artifact = s.artifact
  /\ record.occurrence = s.occurrence
  /\ record.durability_point = s.durability_point
  /\ (record.byte_count # None) <=> (s.partial_kind # None)

\* validate_ready_measurement: the announced cut is where the journal really ends.
validate_ready_measurement(record) ==
  s.partial_kind # None =>
    /\ record.byte_count = partial_length(s.partial_kind)
    /\ vis["journal"] # <<>> /\ Last(vis["journal"]) = Torn

ReadReady ==
  /\ running /\ parent = "wait_ready" /\ UNCHANGED faulted
  /\ stdout # <<>> \/ exited("primary")
  /\ Proceed(stdout # <<>> /\ parse_ready(Head(stdout))
               /\ validate_ready_measurement(Head(stdout)), "at_cut",
       /\ stdout' = Tail(stdout)
       /\ blocked_snapshot' = IF s.termination = "sigkill-then-fresh-writer"
                              THEN artifact_snapshot ELSE None
       /\ UNCHANGED <<store, child, row, stage, controller, gate, inspection, before,
                      inspected, stderr>>)

\* Faulty variant of KillPrimary: the exit status of the killed child is not
\* looked at.
KillPrimaryUnchecked(to) ==
  Proceed(TRUE, to,
    /\ child' = [child EXCEPT !["primary"] = IF @ = "alive" THEN "sigkill" ELSE @]
    /\ Vanish({"primary"})
    /\ UNCHANGED untouched)

\* kill_and_reap and assert_sigkill: a child that is already gone keeps its status.
KillPrimary(to) ==
  Proceed(alive("primary"), to,
    child' = [child EXCEPT !["primary"] = "sigkill"] /\ Vanish({"primary"})
      /\ UNCHANGED untouched)

\* The stopped primary is killed, or the contender is let in first.
AtCut ==
  /\ running /\ parent = "at_cut" /\ UNCHANGED faulted
  /\ \/ /\ prestarts_contender(s)
        /\ gate' = TRUE /\ parent' = "wait_contender"
        /\ UNCHANGED <<verdict, child, store, row, stage, controller, inspection, before,
                       snapshots, streams>>
     \/ /\ s.termination = "sigkill-then-fresh-writer"
        /\ KillPrimary("fresh_contender")
     \/ /\ s.termination \in {"sigkill", "sigkill-before-ack", "sigkill-before-ack-flush",
                              "sigkill-after-ack-flush"}
        /\ KillPrimary("drain")

FreshContender ==
  /\ running /\ parent = "fresh_contender" /\ UNCHANGED faulted
  /\ child' = [child EXCEPT !["contender"] = Started("contender")]
  /\ gate' = TRUE /\ parent' = "wait_contender"
  /\ UNCHANGED <<verdict, store, row, stage, controller, inspection, before, snapshots,
                 streams>>

ContenderEnds ==
  /\ running /\ parent = "wait_contender" /\ exited("contender") /\ UNCHANGED faulted
  /\ Proceed(/\ child["contender"] = "ok"
             /\ s.termination = "sigkill-then-fresh-writer" => artifact_snapshot = blocked_snapshot,
       IF s.termination = "sigkill-then-fresh-writer" THEN "drain" ELSE "end_primary",
       UNCHANGED <<child, store, untouched>>)

\* Faulty variant of EndPrimary: the parent waits without releasing.
EndPrimaryUnreleased ==
  /\ running /\ parent = "end_primary" /\ UNCHANGED faulted
  /\ IF s.termination = "sigkill-after-contender" THEN KillPrimary("drain")
     ELSE parent' = "wait_exit" /\ UNCHANGED <<verdict, child, store, untouched>>

\* The primary is killed where it stopped, or released to finish.
EndPrimary ==
  /\ running /\ parent = "end_primary" /\ UNCHANGED faulted
  /\ IF s.termination = "sigkill-after-contender" THEN KillPrimary("drain")
     ELSE /\ blocked' = FALSE /\ parent' = "wait_exit"
          /\ UNCHANGED <<verdict, child, store, row, stage, counts, selected, deferred, todo,
                         gate, inspection, before, snapshots, streams>>

\* wait_child and assert_normal_exit for a primary that ends by itself.
PrimaryEnds ==
  /\ running /\ parent = "wait_exit" /\ exited("primary") /\ UNCHANGED faulted
  /\ Proceed(child["primary"] = "ok", "drain", UNCHANGED <<child, store, untouched>>)

\* assert_output_closed and assert_stderr, then run_inspection_after_exit: no
\* further control record, and exactly the acknowledgement the row promises.
expected_stderr == IF s.phase = "response" THEN 1 ELSE 0

StartInspector ==
  /\ running /\ parent = "drain" /\ UNCHANGED faulted
  /\ Proceed(stdout = <<>> /\ stderr = expected_stderr, "inspecting",
       /\ child' = [child EXCEPT !["inspector"] = Started("inspector")]
       /\ inspected' = artifact_snapshot
       /\ UNCHANGED <<store, row, stage, controller, gate, inspection, before,
                      blocked_snapshot, streams>>)

\* A row that passed is followed by the next one, with new processes in a new
\* directory.
InspectorEnds ==
  /\ running /\ parent = "inspecting" /\ exited("inspector") /\ UNCHANGED faulted
  /\ \/ child["inspector"] # "ok" /\ Fail
     \/ /\ child["inspector"] = "ok" /\ row = Len(required_matrix)
        /\ verdict' = "pass"
        /\ UNCHANGED <<parent, child, store, untouched>>
     \/ /\ child["inspector"] = "ok" /\ row < Len(required_matrix)
        /\ row' = row + 1 /\ parent' = "spawn" /\ UNCHANGED verdict
        /\ child' = [r \in Child |-> "unborn"]
        /\ stage' = "begin" /\ todo' = <<>>
        /\ counts' = EmptyBag /\ selected' = FALSE /\ deferred' = None /\ blocked' = FALSE
        /\ gate' = FALSE /\ stdout' = <<>> /\ stderr' = 0
        /\ inspection' = 1 /\ before' = None /\ blocked_snapshot' = None /\ inspected' = None
        /\ vis' = [n \in Name |-> Absent]
        /\ data' = [n \in Name |-> {Absent}] /\ stale' = [n \in Name |-> {}]
        /\ dir' = "absent"
        /\ held' = [p \in Proc |-> "none"] /\ pc' = [p \in Proc |-> "idle"]
        /\ cmd' = [p \in Proc |-> None] /\ seen' = [p \in Proc |-> {}]
        /\ mode' = [p \in Proc |-> "init"] /\ snap' = [p \in Proc |-> <<>>]
        /\ outcome' = [p \in Proc |-> None]
        /\ known' = <<>> /\ UNCHANGED losses

\* The ten seconds from the start of a child, the second for draining its
\* output, and the four minutes of the whole matrix: the parent gives up.
Deadline ==
  /\ running
  /\ parent \in {"spawn", "wait_ready", "wait_contender", "wait_exit", "drain", "inspecting"}
  /\ faulted' = TRUE
  /\ Fail

Parent ==
  \/ SpawnChildren \/ ReadReady \/ AtCut \/ FreshContender \/ ContenderEnds \/ EndPrimary
  \/ PrimaryEnds \/ StartInspector \/ InspectorEnds

-----------------------------------------------------------------------------
(* Faults.                                                                 *)

\* A child dies by itself: a panic, a failing read of its standard input.
ChildDies(r) ==
  /\ running /\ alive(r)
  /\ Exit(r, "error")
  /\ faulted' = TRUE
  /\ UNCHANGED <<row, parent, verdict, stage, controller, gate, streams, inspection, before,
                 snapshots>>

\* A primitive of the store reports an error inside a child.
StoreError(r, p) ==
  /\ running /\ alive(r) /\ ~(r = "primary" /\ blocked)
  /\ IoError(p)
  /\ faulted' = TRUE
  /\ todo' = IF r = "primary" THEN <<>> ELSE todo
  /\ UNCHANGED <<row, parent, verdict, child, stage, controls, gate, streams, inspection,
                 before, snapshots>>

-----------------------------------------------------------------------------
HarnessInit ==
  /\ Init
  /\ row = 1 /\ parent = "spawn" /\ verdict = None
  /\ child = [r \in Child |-> "unborn"]
  /\ stage = "begin" /\ todo = <<>>
  /\ counts = EmptyBag /\ selected = FALSE /\ deferred = None /\ blocked = FALSE
  /\ gate = FALSE /\ stdout = <<>> /\ stderr = 0
  /\ inspection = 1 /\ before = None /\ blocked_snapshot = None /\ inspected = None
  /\ faulted = FALSE

Children == running /\ (RunPrimary \/ RunContender \/ RunInspector)

Faults ==
  \/ Deadline
  \/ \E r \in Child : ChildDies(r) \/ \E p \in operations(r) : StoreError(r, p)

HarnessNext == Parent \/ Children \/ Faults

hvars == <<vars, harness>>

-----------------------------------------------------------------------------
(* Correctness.                                                            *)

\* Every row of the manifest describes the store: as long as nothing fails, no
\* check of the parent, of a contender or of an inspector does, for any of the
\* 61 places at which a process is stopped.
MatrixHolds == verdict = "fail" => faulted

\* The image each result code of the manifest stands for.
claimed(code, image) ==
  CASE code = "I0" -> \A n \in Name : image[n] = Absent
    [] code = "I1" -> image["lock"] # Absent /\ image["commit"] = Absent
    [] code = "I2" -> image["commit"] = empty /\ image["publish"] = Absent
    [] code = "I3" -> image["commit"] = empty /\ image["publish"] = Torn
    [] code = "I4" -> image["publish"] = initializing /\ exact_empty(image)
    [] code \in {"I5", "A0", "C6", "C7"} -> image["publish"] = clean(1) /\ exact_empty(image)
    [] code \in {"A1", "C1"} -> image["publish"] = prepared(2) /\ image["commit"] = empty
    [] code \in {"A2", "C2"} ->
         /\ image["publish"] = prepared(2) /\ image["commit"] = for_prefix(image["journal"], 1)
    [] code \in {"A3", "C3", "C4", "C5"} ->
         /\ image["publish"] = clean(2) /\ image["commit"] = for_prefix(image["journal"], 1)
    [] code = "C8" ->
         /\ image["publish"] = prepared(2) /\ image["commit"] = empty
         /\ image["journal"] = <<Torn>>

\* Whatever fails, an inspector is only ever started on the image the row's
\* result code names: no early exit, skipped or repeated event or late write of
\* a primary turns into evidence about another crash point.
InspectedImageIsClaimed == inspected # None => claimed(s.result, inspected)

\* A row passes only with the whole evidence it asks for: the primary ended the
\* way the row says, at the event it names, and, when it was to be killed, the
\* store lock it held did not outlive it.
kills == s.termination \notin {"normal-exit", "release-complete-after-contender",
                               "release-no-append-after-contender",
                               "release-reader-then-fresh-submit"}

PassIsEvidence ==
  [][(row' # row \/ verdict' = "pass") =>
       /\ child["primary"] = (IF kills THEN "sigkill" ELSE "ok")
       /\ is_concurrency(s) => child["contender"] = "ok"
       /\ s.normal_exit \/ selected \/ s.phase \in {"response", "reopen-read"}
       /\ kills => selected \/ stage = "responded"
       /\ \A p \in Proc : held[p] = "none"]_hvars

\* As long as nothing fails, somebody can go on: no child waits at a gate or for
\* a release that never comes and no parent for a record or an exit that never
\* comes, so that a deadline is never what ends a healthy row.
NoVainWait == running /\ ~faulted => ENABLED (Parent \/ Children)
=============================================================================
