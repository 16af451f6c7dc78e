---- MODULE MCStoreCrashCheck ----
(***************************************************************************)
(* The crash check: the store operations of the children of the matrix and *)
(* the two events they submit, as in the helpers of aizign-testkit.        *)
(***************************************************************************)
EXTENDS StoreCrashCheck

MCProc == UNION {operations(r) : r \in Child}

parts(id) ==
  [event_id |-> id, workflow_id |-> "w", assignment_id |-> "s",
   attempt_id |-> "t", role |-> "implementation", kind |-> "implementation_ready",
   artifact_revision |-> "r", candidate_digest |-> "d",
   finding_count |-> None, artifact_ref |-> None, short_error_code |-> None]

MCSignalParts == [e \in Signal |-> parts(e)]

MCExpected ==
  [workflow_id |-> "w", assignment_id |-> "s", attempt_id |-> "t",
   role |-> "implementation", artifact_revision |-> "r", candidate_digest |-> "d"]
====
