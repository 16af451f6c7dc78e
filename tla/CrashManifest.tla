--------------------------- MODULE CrashManifest ---------------------------
(***************************************************************************)
(* The closed manifest of the store's process-crash evidence               *)
(* (crates/aizign-store-jsonl/src/crash_harness.rs): the 61 scenarios, each *)
(* naming the durability primitive after which a store process is stopped, *)
(* and the 18 result records that say how the store must then answer.      *)
(***************************************************************************)
EXTENDS WorkflowCore, StoreImage, SequencesExt

-----------------------------------------------------------------------------
(* Scenario and its constructors.                                          *)

new(id, phase, operation, artifact, occurrence, durability_point, actor, result) ==
  [id |-> id, phase |-> phase, operation |-> operation, artifact |-> artifact,
   occurrence |-> occurrence, durability_point |-> durability_point, actor |-> actor,
   result |-> result, termination |-> "sigkill", partial_kind |-> None,
   normal_exit |-> FALSE]

normal(id, phase, result) ==
  [new(id, phase, "process-exit-observed", "response", 1, None, "holder", result)
     EXCEPT !.termination = "normal-exit", !.normal_exit = TRUE]

normal_response(id) == [normal(id, "response", "A3") EXCEPT !.actor = "response-child"]

with_termination(scenario, termination) == [scenario EXCEPT !.termination = termination]

initialize(id, operation, artifact, occurrence, durability_point, result) ==
  new(id, "initialize", operation, artifact, occurrence, durability_point, "holder", result)

resume(id, operation, artifact, occurrence, durability_point, result) ==
  new(id, "reopen-submit", operation, artifact, occurrence, durability_point, "holder", result)

append(id, operation, artifact, occurrence, durability_point, result) ==
  new(id, "append", operation, artifact, occurrence, durability_point, "holder", result)

partial_write(id, kind) ==
  [append(id, "partial-write-stopped", "journal", 1, None, "A1") EXCEPT !.partial_kind = kind]

partial_custom(id) ==
  [partial_write(id, 2) EXCEPT !.result = "C8", !.termination = "sigkill-then-fresh-writer"]

\* Scenario::is_concurrency looks at the id; the ids with the prefix
\* "concurrency-" are exactly those whose result is one of C1 .. C8.
is_concurrency(s) == s.result \in {"C1", "C2", "C3", "C4", "C5", "C6", "C7", "C8"}

prestarts_contender(s) == is_concurrency(s) /\ s.termination # "sigkill-then-fresh-writer"

is_response(s) == s.phase = "response" \/ s.id = "append-durable-before-response-write"

-----------------------------------------------------------------------------
(* SCENARIOS, in the order of the manifest.                                *)

initialize_directory_and_files ==
  << initialize("init-state-directory-create", "create-complete", "state-directory", 1, None, "I0"),
     initialize("init-state-directory-permissions", "permissions-normalized",
                "state-directory", 1, None, "I0"),
     initialize("init-state-directory-barrier", "directory-barrier-complete",
                "state-directory", 1, None, "I0"),
     initialize("init-parent-directory-barrier", "directory-barrier-complete",
                "parent-directory", 1, None, "I0"),
     initialize("init-lock-create-open", "open-complete", "lock", 1, None, "I1"),
     initialize("init-lock-permissions", "permissions-normalized", "lock", 1, None, "I1"),
     initialize("init-writer-lock-acquired", "lock-acquired", "lock", 1, None, "I1"),
     initialize("init-journal-create-open", "open-complete", "journal", 1, None, "I1"),
     initialize("init-journal-permissions", "permissions-normalized", "journal", 1, None, "I1"),
     initialize("init-lock-barrier", "file-barrier-complete", "lock", 1, None, "I1"),
     initialize("init-journal-barrier", "file-barrier-complete", "journal", 1, None, "I1"),
     initialize("init-initial-namespace-barrier", "directory-barrier-complete",
                "state-directory", 2, None, "I1") >>

initialize_commit_and_witness ==
  << initialize("init-commit-temporary-create-open", "open-complete", "commit-temporary",
                1, None, "I1"),
     initialize("init-commit-temporary-permissions", "permissions-normalized",
                "commit-temporary", 1, None, "I1"),
     initialize("init-commit-temporary-write", "write-complete", "commit-temporary", 1,
                "CommitTemporaryWriteComplete", "I1"),
     initialize("init-commit-temporary-barrier", "file-barrier-complete", "commit-temporary",
                1, "CommitTemporaryBarrierComplete", "I1"),
     initialize("init-commit-rename", "rename-complete", "commit", 1,
                "CommitRenameComplete", "I2"),
     initialize("init-commit-directory-barrier", "directory-barrier-complete",
                "state-directory", 3, "CommitDirectoryBarrierComplete", "I2"),
     initialize("init-publish-witness-create-open", "open-complete", "publish-witness",
                1, None, "I3"),
     initialize("init-publish-witness-permissions", "permissions-normalized",
                "publish-witness", 1, None, "I3"),
     initialize("init-prepared-write", "write-complete", "publish-witness", 1,
                "PreparedWriteComplete", "I4"),
     initialize("init-prepared-barrier", "file-barrier-complete", "publish-witness", 1,
                "PreparedBarrierComplete", "I4"),
     initialize("init-publish-witness-directory-barrier", "directory-barrier-complete",
                "state-directory", 4, None, "I4"),
     initialize("init-clean-write", "write-complete", "publish-witness", 2,
                "CleanWriteComplete", "I5"),
     initialize("init-clean-barrier", "file-barrier-complete", "publish-witness", 2,
                "CleanBarrierComplete", "I5"),
     normal("init-normal-exit", "initialize", "I5") >>

resume_scenarios ==
  << resume("resume-writer-lock-acquired", "lock-acquired", "lock", 1, None, "I4"),
     resume("resume-prepared-rebarrier", "file-barrier-complete", "publish-witness", 1,
            "PreparedBarrierComplete", "I4"),
     resume("resume-publish-witness-directory-barrier", "directory-barrier-complete",
            "state-directory", 1, None, "I4"),
     resume("resume-clean-write", "write-complete", "publish-witness", 1,
            "CleanWriteComplete", "I5"),
     resume("resume-clean-barrier", "file-barrier-complete", "publish-witness", 2,
            "CleanBarrierComplete", "I5"),
     normal("resume-normal-exit", "reopen-submit", "I5") >>

append_scenarios ==
  << append("append-writer-lock-acquired", "lock-acquired", "lock", 1, None, "A0"),
     append("append-prepared-write", "write-complete", "publish-witness", 1,
            "PreparedWriteComplete", "A1"),
     append("append-prepared-barrier", "file-barrier-complete", "publish-witness", 1,
            "PreparedBarrierComplete", "A1"),
     partial_write("append-journal-partial-1", 1),
     partial_write("append-journal-partial-half", 2),
     partial_write("append-journal-partial-last-minus-one", 3),
     append("append-journal-write", "write-complete", "journal", 1,
            "JournalRecordWriteComplete", "A1"),
     append("append-journal-barrier", "file-barrier-complete", "journal", 1,
            "JournalBarrierComplete", "A1"),
     append("append-commit-temporary-create-open", "open-complete", "commit-temporary",
            1, None, "A1"),
     append("append-commit-temporary-permissions", "permissions-normalized",
            "commit-temporary", 1, None, "A1"),
     append("append-commit-temporary-write", "write-complete", "commit-temporary", 1,
            "CommitTemporaryWriteComplete", "A1"),
     append("append-commit-temporary-barrier", "file-barrier-complete", "commit-temporary",
            1, "CommitTemporaryBarrierComplete", "A1"),
     append("append-commit-rename", "rename-complete", "commit", 1,
            "CommitRenameComplete", "A2"),
     append("append-commit-directory-barrier", "directory-barrier-complete",
            "state-directory", 1, "CommitDirectoryBarrierComplete", "A2"),
     append("append-clean-write", "write-complete", "publish-witness", 2,
            "CleanWriteComplete", "A3"),
     append("append-clean-barrier", "file-barrier-complete", "publish-witness", 2,
            "CleanBarrierComplete", "A3") >>

response_scenarios ==
  << with_termination(
       new("append-durable-before-response-write", "append", "durable-append-complete",
           "journal", 1, "DurableAppendComplete", "response-child", "A3"),
       "sigkill-before-ack"),
     with_termination(
       new("response-after-write", "response", "response-write-complete", "response", 1,
           None, "response-child", "A3"),
       "sigkill-before-ack-flush"),
     with_termination(
       new("response-after-flush", "response", "response-flush-complete", "response", 1,
           None, "response-child", "A3"),
       "sigkill-after-ack-flush"),
     normal_response("response-normal-exit") >>

concurrency_scenarios ==
  << with_termination(
       append("concurrency-reader-at-prepared", "file-barrier-complete", "publish-witness",
              1, "PreparedBarrierComplete", "C1"), "sigkill-after-contender"),
     with_termination(
       append("concurrency-reader-at-journal", "file-barrier-complete", "journal",
              1, "JournalBarrierComplete", "C1"), "sigkill-after-contender"),
     with_termination(
       append("concurrency-reader-at-commit-namespace", "directory-barrier-complete",
              "state-directory", 1, "CommitDirectoryBarrierComplete", "C2"),
       "sigkill-after-contender"),
     with_termination(
       append("concurrency-reader-at-clean", "file-barrier-complete", "publish-witness",
              2, "CleanBarrierComplete", "C3"), "sigkill-after-contender"),
     with_termination(
       append("concurrency-same-event-submit", "lock-acquired", "lock", 1, None, "C4"),
       "release-complete-after-contender"),
     with_termination(
       append("concurrency-different-event-submit", "lock-acquired", "lock", 1, None, "C5"),
       "release-complete-after-contender"),
     with_termination(
       append("concurrency-reconcile-under-writer", "lock-acquired", "lock", 1, None, "C6"),
       "release-no-append-after-contender"),
     with_termination(
       new("concurrency-submit-under-reader", "reopen-read", "lock-acquired", "lock", 1,
           None, "holder", "C7"), "release-reader-then-fresh-submit"),
     partial_custom("concurrency-writer-after-partial-tail") >>

SCENARIOS ==
  initialize_directory_and_files \o initialize_commit_and_witness \o resume_scenarios
    \o append_scenarios \o response_scenarios \o concurrency_scenarios

MUTATION_SENTINELS ==
  <<"mutation-prepared-barrier-noop", "mutation-journal-barrier-noop",
    "mutation-commit-temporary-barrier-noop", "mutation-commit-directory-barrier-noop",
    "mutation-clean-barrier-noop", "mutation-commit-before-journal-barrier",
    "mutation-reader-accepts-incomplete-generation", "mutation-tail-repair-or-promotion",
    "mutation-append-revalidation-bypass">>

\* run_sentinel: the scenarios a sentinel executes.  The other sentinels run a
\* fixture of their own in the parent process.
relevant_ids(sentinel) ==
  CASE sentinel \in {"mutation-prepared-barrier-noop",
                     "mutation-reader-accepts-incomplete-generation"} ->
         <<"init-prepared-barrier", "resume-prepared-rebarrier", "append-prepared-barrier">>
    [] sentinel = "mutation-journal-barrier-noop" -> <<"append-journal-barrier">>
    [] sentinel = "mutation-commit-temporary-barrier-noop" ->
         <<"init-commit-temporary-barrier", "append-commit-temporary-barrier">>
    [] sentinel = "mutation-commit-directory-barrier-noop" ->
         <<"init-commit-directory-barrier", "append-commit-directory-barrier">>
    [] sentinel = "mutation-clean-barrier-noop" ->
         <<"init-clean-barrier", "resume-clean-barrier", "append-clean-barrier">>
    [] OTHER -> <<>>

\* run_required_matrix: every scenario once, then those of each sentinel.
required_matrix ==
  LET rows(sentinel) ==
        [i \in DOMAIN relevant_ids(sentinel) |->
           CHOOSE s \in Range(SCENARIOS) : s.id = relevant_ids(sentinel)[i]]
  IN SCENARIOS \o
       FlattenSeq([i \in DOMAIN MUTATION_SENTINELS |-> rows(MUTATION_SENTINELS[i])])

-----------------------------------------------------------------------------
(* RESULT_EXPECTATIONS.  A projection of an image is an error code or the   *)
(* number of known entries; one of a submission is an error code or one of *)
(* accepted, DUPLICATE and not-applicable.                                 *)

\* ImageProjection::Known { entries }
Known(entries) == <<"known-0", "known-1", "known-2">>[entries + 1]

expectation(image, same_submit, next_submit, mutation) ==
  [reader |-> image, reconcile |-> image, same_submit |-> same_submit,
   next_submit |-> next_submit, mutation |-> mutation, equality_required |-> TRUE]

\* Every operation on the image ends with one code and changes nothing.
refused(code) == expectation(code, code, code, "None")

expectation_of_initialization(code) ==
  CASE code = "I0" -> expectation(UNAVAILABLE, "accepted", "accepted", "FreshInitialization")
    [] code = "I1" -> refused(UNAVAILABLE)
    [] code = "I2" -> expectation(UNAVAILABLE, "accepted", "accepted", "WitnessInitialization")
    [] code = "I3" -> refused(CORRUPT)
    [] code = "I4" -> expectation(UNAVAILABLE, "accepted", "accepted", "PreparedResume")
    [] code = "I5" -> expectation(Known(0), "accepted", "accepted", "OrdinaryAppend")

expectation_of_append(code) ==
  CASE code = "A0" -> expectation(Known(0), "accepted", "accepted", "OrdinaryAppend")
    [] code \in {"A1", "A2"} -> refused(OUTCOME_UNKNOWN)
    [] code = "A3" -> expectation(Known(1), "DUPLICATE", "accepted", "OrdinaryAppend")

expectation_of_concurrency(code) ==
  CASE code \in {"C1", "C2", "C8"} -> refused(OUTCOME_UNKNOWN)
    [] code \in {"C3", "C5"} -> expectation(Known(1), "DUPLICATE", "accepted", "OrdinaryAppend")
    [] code = "C4" -> expectation(Known(1), "DUPLICATE", "not-applicable", "OrdinaryAppend")
    [] code = "C6" -> expectation(Known(0), "accepted", "accepted", "None")
    [] code = "C7" -> expectation(Known(0), "accepted", "accepted", "OrdinaryAppend")

initialization_codes == {"I0", "I1", "I2", "I3", "I4", "I5"}
append_codes == {"A0", "A1", "A2", "A3"}

result_expectation(s) ==
  IF s.result \in initialization_codes THEN expectation_of_initialization(s.result)
  ELSE IF s.result \in append_codes THEN expectation_of_append(s.result)
  ELSE expectation_of_concurrency(s.result)

validate_mutation_projection(s) ==
  LET results ==
        [FreshInitialization |-> {"I0"}, WitnessInitialization |-> {"I2"},
         PreparedResume |-> {"I4"},
         OrdinaryAppend |-> {"I5", "A0", "A3", "C3", "C4", "C5", "C7"},
         None |-> {"I1", "I3", "A1", "A2", "C1", "C2", "C6", "C8"}]
  IN s.result \in results[result_expectation(s).mutation]

\* The roles a helper process may be started in for a scenario.
validate_role_pair(s, role) ==
  IF is_response(s) THEN role \in {"response-child", "inspector"}
  ELSE IF is_concurrency(s) THEN role \in {"holder", "contender", "inspector"}
  ELSE role \in {"holder", "inspector"}

terminations ==
  {"sigkill", "normal-exit", "sigkill-before-ack", "sigkill-before-ack-flush",
   "sigkill-after-ack-flush", "sigkill-after-contender", "release-complete-after-contender",
   "release-no-append-after-contender", "release-reader-then-fresh-submit",
   "sigkill-then-fresh-writer"}

assert_manifest ==
  /\ Len(SCENARIOS) = 61
  /\ \A i, j \in DOMAIN SCENARIOS : SCENARIOS[i].id = SCENARIOS[j].id => i = j
  /\ \A i \in DOMAIN SCENARIOS :
       LET s == SCENARIOS[i] IN
         /\ s.actor \in {"holder", "response-child"}
         /\ s.termination \in terminations
         /\ result_expectation(s).equality_required
         /\ s.normal_exit <=> s.termination = "normal-exit"
         /\ s.normal_exit => (s.actor = "response-child" <=> s.phase = "response")

\* The rows end in one way each: the primary ends by itself, it is killed where
\* it stopped, or a contender tries the store before or after its end.
ASSUME RowsEndInOneWay ==
  /\ Len(required_matrix) \in Nat /\ Len(required_matrix) > 0
  /\ \A i \in 1 .. Len(required_matrix) :
       LET s == required_matrix[i] IN
         /\ s.normal_exit => s.termination = "normal-exit" /\ ~is_concurrency(s)
         /\ ~s.normal_exit /\ ~is_concurrency(s) =>
              s.termination \in {"sigkill", "sigkill-before-ack", "sigkill-before-ack-flush",
                                "sigkill-after-ack-flush"}
         /\ is_concurrency(s) =>
              s.termination \in {"sigkill-after-contender", "sigkill-then-fresh-writer",
                                "release-complete-after-contender",
                                "release-no-append-after-contender",
                                "release-reader-then-fresh-submit"}
         /\ s.phase = "reopen-read" => s.termination = "release-reader-then-fresh-submit"
=============================================================================
