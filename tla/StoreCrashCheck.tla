--------------------------- MODULE StoreCrashCheck ---------------------------
(***************************************************************************)
(* `cargo xtask store-crash-check` (xtask/src/store_crash.rs): audits of   *)
(* the sources, the mutation campaign on a throwaway copy of them, and the *)
(* crash matrix of module CrashHarness, run as a command of its own whose  *)
(* printed evidence is validated.                                          *)
(*                                                                         *)
(* What a command prints is abstracted to what `run` tells apart.  A       *)
(* focused test may end in any way whatever the candidate contains, and    *)
(* need not end at all; the four minutes are over at any time.             *)
(***************************************************************************)
EXTENDS CrashHarness

ASSUME NoneIsNoStatus ==
  None \notin {"pass", "fail", "killed", "running", "green", "detected", "other", "error",
               "success", "failure", "ok"}

VARIABLES
  progress,   \* the point of `run` that has been reached
  executed,   \* how many of MUTATIONS have been executed
  candidate,  \* the mutations in each file of the candidate, or Absent
  output,     \* the command: None, "running" or how it ended
  records,    \* the evidence records the matrix command printed
  late,       \* the deadline has passed
  returned,   \* None, or how `run` returned
  observed    \* history: what each focused test ran on and how it ended

check_state == <<progress, executed, candidate, output, records, late, returned,
                 observed>>

MutationSpec(id, relative) == [id |-> id, relative |-> relative]

MUTATIONS ==
  <<MutationSpec("mutation-prepared-barrier-noop", "durability.rs"),
    MutationSpec("mutation-journal-barrier-noop", "journal.rs"),
    MutationSpec("mutation-commit-temporary-barrier-noop", "durability.rs"),
    MutationSpec("mutation-commit-directory-barrier-noop", "durability.rs"),
    MutationSpec("mutation-clean-barrier-noop", "durability.rs"),
    MutationSpec("mutation-commit-before-journal-barrier", "journal.rs"),
    MutationSpec("mutation-reader-accepts-incomplete-generation", "journal.rs"),
    MutationSpec("mutation-tail-repair-or-promotion", "journal.rs"),
    MutationSpec("mutation-append-revalidation-bypass", "journal.rs")>>

mutation == MUTATIONS[executed + 1]

Candidate == [f \in {m.relative : m \in Range(MUTATIONS)} |-> {}]

checking == returned = None

\* An early return: the throwaway candidate, if there is one, is dropped.
Err ==
  /\ returned' = "error" /\ candidate' = Absent
  /\ UNCHANGED <<progress, executed, output, records, late, observed>>

-----------------------------------------------------------------------------
(* run_command_bounded.                                                    *)

all_but_output == <<progress, executed, candidate, records, late, returned, observed>>

is_command == progress \in {"green_before", "mutant", "green_after", "matrix"}

RunCommand ==
  /\ checking /\ is_command /\ output = None
  /\ \/ /\ ~late /\ output' = "running"
        /\ UNCHANGED all_but_output
     \/ /\ progress = "mutant" /\ output' = "error"
        /\ UNCHANGED all_but_output
     \/ progress # "mutant" /\ Err
  /\ UNCHANGED hvars

\* A focused test ends: exactly one green test, an assertion of the sentinel,
\* or anything else, such as a build that fails or a test that is not found.
FocusedTestEnds ==
  /\ checking /\ output = "running" /\ progress # "matrix"
  /\ \E o \in {"green", "detected", "other"} :
       /\ output' = o
       /\ observed' = Append(observed, [id |-> mutation.id, source |-> candidate, output |-> o])
  /\ UNCHANGED <<progress, executed, candidate, records, late, returned, hvars>>

\* The matrix command ends without having executed the matrix.
MatrixNotExecuted ==
  /\ checking /\ output = "running" /\ progress = "matrix" /\ row = 1 /\ parent = "spawn"
  /\ verdict = None
  /\ output' \in {"success", "failure"}
  /\ UNCHANGED <<progress, executed, candidate, records, late, returned, observed, hvars>>

\* Faulty variant of KillCommandTree: only the command itself is killed.
KillCommandOnly ==
  /\ checking /\ output = "running" /\ late
  /\ verdict' = IF progress = "matrix" /\ verdict = None THEN "killed" ELSE verdict
  /\ UNCHANGED <<store, row, parent, child, stage, controller, gate, streams, inspection,
                 before, snapshots, faulted>>
  /\ IF progress = "mutant"
     THEN output' = "error" /\ UNCHANGED all_but_output
     ELSE Err

\* At the deadline the whole process group is killed, helpers included.
KillCommandTree ==
  /\ checking /\ output = "running" /\ late
  /\ IF progress = "matrix" /\ verdict = None
     THEN /\ verdict' = "killed"
          /\ child' = [r \in Child |-> IF alive(r) THEN "sigkill" ELSE child[r]]
          /\ Vanish(Child)
          /\ UNCHANGED <<row, parent, stage, controller, gate, streams, inspection, before,
                         snapshots, faulted>>
     ELSE UNCHANGED hvars
  /\ IF progress = "mutant"
     THEN output' = "error" /\ UNCHANGED all_but_output
     ELSE Err

-----------------------------------------------------------------------------
(* run and run_mutation_campaign.                                          *)

\* The five audits, the platform and the toolchain.
Audit ==
  /\ checking /\ progress = "audit"
  /\ \/ /\ progress' = "copy"
        /\ UNCHANGED <<executed, candidate, output, records, late, returned, observed>>
     \/ Err
  /\ UNCHANGED hvars

CopyCandidate ==
  /\ checking /\ progress = "copy"
  /\ \/ /\ candidate' = Candidate /\ progress' = "begin"
        /\ UNCHANGED <<executed, output, records, late, returned, observed>>
     \/ Err
  /\ UNCHANGED hvars

\* The next mutation: its expression must occur exactly once in the candidate.
BeginMutation ==
  /\ checking /\ progress = "begin"
  /\ \/ /\ ~late /\ progress' = "green_before"
        /\ UNCHANGED <<executed, candidate, output, records, late, returned, observed>>
     \/ Err
  /\ UNCHANGED hvars

require_green_focused == output = "green"

require_detected_mutant == output = "detected"

ApplyMutation ==
  /\ checking /\ progress = "green_before" /\ output \notin {None, "running"}
  /\ \/ /\ require_green_focused
        /\ candidate' = [candidate EXCEPT ![mutation.relative] = @ \cup {mutation.id}]
        /\ progress' = "mutant" /\ output' = None
        /\ UNCHANGED <<executed, records, late, returned, observed>>
     \/ Err
  /\ UNCHANGED hvars

\* The candidate is restored whatever became of the test, and only then is the
\* test looked at.
Restore ==
  /\ checking /\ progress = "mutant" /\ output \notin {None, "running"}
  /\ \/ /\ candidate' = [candidate EXCEPT ![mutation.relative] = @ \ {mutation.id}]
        /\ progress' = "judge"
        /\ UNCHANGED <<executed, output, records, late, returned, observed>>
     \/ Err
  /\ UNCHANGED hvars

Judge ==
  /\ checking /\ progress = "judge"
  /\ IF require_detected_mutant
     THEN /\ progress' = "green_after" /\ output' = None
          /\ UNCHANGED <<executed, candidate, records, late, returned, observed>>
     ELSE Err
  /\ UNCHANGED hvars

\* The candidate is dropped when the ninth mutation is through.
EndMutation ==
  /\ checking /\ progress = "green_after" /\ output \notin {None, "running"}
  /\ \/ /\ require_green_focused /\ candidate[mutation.relative] = {}
        /\ executed' = executed + 1 /\ output' = None
        /\ IF executed' = Len(MUTATIONS) THEN progress' = "matrix" /\ candidate' = Absent
           ELSE progress' = "begin" /\ UNCHANGED candidate
        /\ UNCHANGED <<records, late, returned, observed>>
     \/ Err
  /\ UNCHANGED hvars

-----------------------------------------------------------------------------
(* run_parent_matrix and validate_evidence.                                *)

evidence_record ==
  [scenarioCount |-> Len(SCENARIOS), mutationSentinelCount |-> Len(MUTATION_SENTINELS)]

\* A matrix that passed may still fail in a fixture of a sentinel or when the
\* profile of the evidence directory is qualified.
MatrixExits ==
  /\ checking /\ progress = "matrix" /\ output = "running" /\ verdict \in {"pass", "fail"}
  /\ \/ /\ verdict = "pass" /\ output' = "success"
        /\ records' = Append(records, evidence_record)
     \/ output' = "failure" /\ UNCHANGED records
  /\ UNCHANGED <<progress, executed, candidate, late, returned, observed, hvars>>

\* Faulty variant of validate_evidence: no record is no objection.
validate_any_evidence(lines) ==
  \A i \in DOMAIN lines :
    lines[i] = [scenarioCount |-> 61, mutationSentinelCount |-> 9]

validate_evidence(lines) ==
  /\ Len(lines) = 1
  /\ lines[1].scenarioCount = 61 /\ lines[1].mutationSentinelCount = 9

Conclude ==
  /\ checking /\ progress = "matrix" /\ output \notin {None, "running"}
  /\ IF output = "success" /\ validate_evidence(records)
     THEN /\ returned' = "ok"
          /\ UNCHANGED <<progress, executed, candidate, output, records, late, observed>>
     ELSE Err
  /\ UNCHANGED hvars

-----------------------------------------------------------------------------
Run ==
  \/ Audit \/ CopyCandidate \/ BeginMutation \/ RunCommand \/ KillCommandTree
  \/ ApplyMutation \/ Restore \/ Judge \/ EndMutation \/ MatrixExits \/ Conclude

TimePasses ==
  /\ ~late /\ late' = TRUE
  /\ UNCHANGED <<progress, executed, candidate, output, records, returned, observed, hvars>>

Matrix ==
  /\ checking /\ progress = "matrix" /\ output = "running"
  /\ HarnessNext
  /\ UNCHANGED check_state

MatrixParent ==
  /\ checking /\ progress = "matrix" /\ output = "running"
  /\ Parent \/ Deadline
  /\ UNCHANGED check_state

CheckInit ==
  /\ HarnessInit
  /\ progress = "audit" /\ executed = 0 /\ candidate = Absent /\ output = None
  /\ records = <<>> /\ late = FALSE /\ returned = None /\ observed = <<>>

CheckNext == Run \/ FocusedTestEnds \/ MatrixNotExecuted \/ Matrix \/ TimePasses

cvars == <<vars, harness, check_state>>

\* `run` and the parent of the matrix keep running.  Nothing is assumed of the
\* commands and the children, for whose hanging the deadlines are there.
CheckSpec ==
  CheckInit /\ [][CheckNext]_cvars /\ WF_cvars(Run) /\ WF_cvars(MatrixParent)

-----------------------------------------------------------------------------
\* The k-th focused test of a campaign that finds what it should.
sentinel_run(k) ==
  LET m == MUTATIONS[(k + 2) \div 3]
      mutated == k % 3 = 2
  IN [id |-> m.id,
      source |-> IF mutated THEN [Candidate EXCEPT ![m.relative] = {m.id}] ELSE Candidate,
      output |-> IF mutated THEN "detected" ELSE "green"]

\* The check succeeds only with all its evidence: for each of the nine
\* mutations, in order, the sentinel was green on the untouched candidate,
\* failed by its assertion on a candidate with that mutation and no other, and
\* was green again on the restored one; and every row of the matrix passed.
CheckIsEvidence ==
  returned = "ok" =>
    /\ verdict = "pass" /\ row = Len(required_matrix)
    /\ observed = [k \in 1 .. 3 * Len(MUTATIONS) |-> sentinel_run(k)]

\* The matrix ends by its own deadlines, before those of the check are needed,
\* and with no child left running, although any child may hang: every wait of
\* the parent has a deadline, and ReapedChild kills whatever an early return
\* leaves behind.  When the four minutes of the check are over it ends too,
\* whatever process hangs at that time, and leaves neither a process nor the
\* throwaway candidate behind.  The waits without a deadline (for git and rustc,
\* for a process that was killed, for the readers of its pipes) are taken to end.
CheckEnds ==
  /\ (progress = "matrix" /\ output = "running") ~>
       (late \/ output # "running" \/ (verdict # None /\ \A r \in Child : ~alive(r)))
  /\ late ~> (returned # None /\ candidate = Absent /\ \A r \in Child : ~alive(r))
=============================================================================
