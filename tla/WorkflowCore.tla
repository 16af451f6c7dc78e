---------------------------- MODULE WorkflowCore ----------------------------
(***************************************************************************)
(* The pure workflow core (crates/aizign-core): validating a signal,       *)
(* comparing it with the assignment a shell is bound to, deciding a        *)
(* submission against the accepted history, and reconciling one signal     *)
(* against that history.                                                   *)
(*                                                                         *)
(* WorkflowState is rebuilt from the journal by every one-shot process, so *)
(* it is represented here by what it is rebuilt from: the sequence of      *)
(* accepted signals.  WorkflowReplay checks this closed form against the   *)
(* loop of WorkflowState::replay.                                          *)
(***************************************************************************)
EXTENDS Naturals, Sequences

CONSTANT None            \* Rust's Option::None

Role == {"implementation", "review"}

SignalKind == {"implementation_ready", "review_findings", "review_passed",
               "repair_submitted", "blocked"}

\* The roles a kind may be emitted by: its required role, or any role.
required_role(kind) ==
  CASE kind \in {"implementation_ready", "repair_submitted"} -> {"implementation"}
    [] kind \in {"review_findings", "review_passed"} -> {"review"}
    [] kind = "blocked" -> Role

\* The kind-specific invariants of WorkflowSignal::validate.  Every violation
\* has the one stable code INVALID_SIGNAL; the reason is wording.
validate(parts) ==
  /\ parts.role \in required_role(parts.kind)
  /\ CASE parts.kind \in {"review_findings", "repair_submitted"} ->
            parts.finding_count # None /\ parts.finding_count # 0
       [] parts.kind = "review_passed" -> parts.finding_count = 0
       [] OTHER -> parts.finding_count = None
  /\ parts.kind = "repair_submitted" => parts.artifact_ref # None
  /\ parts.kind \in {"implementation_ready", "review_passed", "blocked"}
       => parts.artifact_ref = None
  /\ parts.kind = "blocked" <=> parts.short_error_code # None

\* The binding fields, in the order check_expected compares them.
check_expected(signal, expected) ==
  IF signal.workflow_id # expected.workflow_id THEN "WORKFLOW_MISMATCH"
  ELSE IF signal.assignment_id # expected.assignment_id THEN "ASSIGNMENT_MISMATCH"
  ELSE IF signal.attempt_id # expected.attempt_id THEN "ATTEMPT_MISMATCH"
  ELSE IF signal.role # expected.role THEN "ROLE_MISMATCH"
  ELSE IF signal.artifact_revision # expected.artifact_revision THEN "REVISION_MISMATCH"
  ELSE IF signal.candidate_digest # expected.candidate_digest
       THEN "CANDIDATE_DIGEST_MISMATCH"
  ELSE "OK"

-----------------------------------------------------------------------------
\* WorkflowState::replay succeeds exactly when no event id is applied twice.
replay_ok(history) ==
  \A i, j \in DOMAIN history :
    history[i].event_id = history[j].event_id => i = j

\* WorkflowState::accepted: the accepted signal with this id, if any.
accepted(history, event_id) ==
  {history[i] : i \in {j \in DOMAIN history : history[j].event_id = event_id}}

\* Faulty variant of decide: any signal with an accepted event id is a duplicate.
decide_by_id(history, signal, expected) ==
  IF check_expected(signal, expected) # "OK" THEN check_expected(signal, expected)
  ELSE IF accepted(history, signal.event_id) = {} THEN "ACCEPTED"
  ELSE "DUPLICATE"

\* decide: ACCEPTED and DUPLICATE are decisions, anything else the code of
\* the rejection.
decide(history, signal, expected) ==
  IF check_expected(signal, expected) # "OK" THEN check_expected(signal, expected)
  ELSE IF accepted(history, signal.event_id) = {} THEN "ACCEPTED"
  ELSE IF signal \in accepted(history, signal.event_id) THEN "DUPLICATE"
  ELSE "EVENT_CONFLICT"

\* Faulty variant of reconcile: identity alone counts as acceptance.
reconcile_by_id(history, signal) ==
  IF accepted(history, signal.event_id) = {} THEN "absent" ELSE "accepted"

\* recovery::reconcile_workflow_signal.
reconcile(history, signal) ==
  IF accepted(history, signal.event_id) = {} THEN "absent"
  ELSE IF signal \in accepted(history, signal.event_id) THEN "accepted"
  ELSE "conflict"
=============================================================================
