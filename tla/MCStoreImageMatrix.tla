------------------------- MODULE MCStoreImageMatrix -------------------------
(***************************************************************************)
(* Instance of StoreImageMatrix: a bound of three entries.  In arbitrary   *)
(* images the journal has up to two cells, so that every generation from 0 *)
(* to the bound and past it occurs in the commit document and in both      *)
(* halves of the witness; published histories have up to three entries,    *)
(* over three event ids with two contents each and one signal of another   *)
(* attempt, which the bound assignment refuses.                            *)
(***************************************************************************)
EXTENDS StoreImageMatrix, TLC

Binding == [workflow_id |-> "w", assignment_id |-> "a", attempt_id |-> "t1",
            role |-> "implementation", artifact_revision |-> "r",
            candidate_digest |-> "d"]

ReadySignal(id) ==
  Binding @@ [event_id |-> id, kind |-> "implementation_ready",
              finding_count |-> None, artifact_ref |-> None,
              short_error_code |-> None]

BlockedSignal(id) ==
  [ReadySignal(id) EXCEPT !.kind = "blocked", !.short_error_code = "E"]

MCSignals ==
  {ReadySignal(id) : id \in 1..3} \cup {BlockedSignal(id) : id \in 1..3}
    \cup {[ReadySignal(1) EXCEPT !.attempt_id = "t2"]}

MCExpected == Binding

MCCells ==
  {[seq |-> 1, signal |-> ReadySignal(1)], [seq |-> 2, signal |-> ReadySignal(1)],
   [seq |-> 2, signal |-> ReadySignal(2)], Torn, Foreign}
=============================================================================
