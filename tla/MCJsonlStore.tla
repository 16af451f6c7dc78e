---- MODULE MCJsonlStore ----
(***************************************************************************)
(* Small instances of JsonlStore.  Four signals: a and a2 share an event   *)
(* id and differ in content, b is independent, and m names another         *)
(* assignment than the shell is bound to.                                  *)
(***************************************************************************)
EXTENDS JsonlStore, TLC

parts(id, revision, assignment) ==
  [event_id |-> id, workflow_id |-> "w", assignment_id |-> assignment,
   attempt_id |-> "t", role |-> "implementation", kind |-> "implementation_ready",
   artifact_revision |-> revision, candidate_digest |-> "d",
   finding_count |-> None, artifact_ref |-> None, short_error_code |-> None]

MCSignalParts ==
  [s \in Signal |->
     CASE s = "a" -> parts("e1", "r", "s")
       [] s = "a2" -> [parts("e1", "r", "s") EXCEPT !.kind = "blocked",
                                                    !.short_error_code = "x"]
       [] s = "b" -> parts("e2", "r", "s")
       [] s = "m" -> parts("e3", "r", "other")]

MCExpected ==
  [workflow_id |-> "w", assignment_id |-> "s", attempt_id |-> "t",
   role |-> "implementation", artifact_revision |-> "r", candidate_digest |-> "d"]

Symmetry == Permutations(Proc)
====
