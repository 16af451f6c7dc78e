----------------------- MODULE StoreCrashCheckProofs -----------------------
(***************************************************************************)
(* What `cargo xtask store-crash-check` may report, and what a row of the  *)
(* crash matrix may pass on, whatever the commands and the children do.    *)
(***************************************************************************)
EXTENDS StoreCrashCheck, TLAPS

-----------------------------------------------------------------------------
(* The verdict of the matrix.                                              *)

\* Only the end of the last inspector lets the matrix pass.
Verdict == verdict = "pass" => row = Len(required_matrix)

\* A child never gives the verdict, and never moves the parent to another row.
LEMMA PrimaryVerdict ==
  ASSUME RunPrimary
  PROVE  UNCHANGED <<row, verdict, parent, inspection>>
<1>1. CASE PrimitiveCompleted
  BY <1>1 DEF PrimitiveCompleted
<1>2. CASE PrepareResumeState
  BY <1>2 DEF PrepareResumeState, unmoved
<1>3. CASE PrepareCleanState
  BY <1>3 DEF PrepareCleanState, unmoved
<1>4. CASE OpenStore
  BY <1>4 DEF OpenStore, unmoved
<1>5. CASE StorePrimitive
  BY <1>5 DEF StorePrimitive, unmoved
<1>6. CASE AppendReturns
  BY <1>6 DEF AppendReturns, unmoved
<1>7. CASE PrimaryFails
  BY <1>7 DEF PrimaryFails, unmoved
<1>8. CASE StoreOpened
  BY <1>8 DEF StoreOpened, unmoved
<1>9. CASE AfterAppend
  BY <1>9 DEF AfterAppend, unmoved
<1>10. CASE ResponseBoundary
  BY <1>10 DEF ResponseBoundary, unmoved
<1>11. CASE PrimaryReleased
  BY <1>11 DEF PrimaryReleased, unmoved
<1> QED
  BY <1>1, <1>2, <1>3, <1>4, <1>5, <1>6, <1>7, <1>8, <1>9, <1>10, <1>11 DEF RunPrimary

\* A step of the parent ends the row or goes on with it; only the end of the
\* inspector of the last row passes.
LEMMA ParentVerdict ==
  ASSUME Parent
  PROVE  /\ verdict = None
         /\ verdict' = "pass" => row' = row /\ row = Len(required_matrix)
<1> USE DEF running, Proceed, Fail, untouched
<1>0. None # "pass"
  BY NoneIsNoStatus
<1>1. CASE SpawnChildren
  BY <1>0, <1>1 DEF SpawnChildren
<1>2. CASE ReadReady
  BY <1>0, <1>2 DEF ReadReady
<1>3. CASE AtCut
  BY <1>0, <1>3 DEF AtCut, KillPrimary
<1>4. CASE FreshContender
  BY <1>0, <1>4 DEF FreshContender
<1>5. CASE ContenderEnds
  BY <1>0, <1>5 DEF ContenderEnds
<1>6. CASE EndPrimary
  BY <1>0, <1>6 DEF EndPrimary, KillPrimary
<1>7. CASE PrimaryEnds
  BY <1>0, <1>7 DEF PrimaryEnds
<1>8. CASE StartInspector
  BY <1>0, <1>8 DEF StartInspector
<1>9. CASE InspectorEnds
  BY <1>0, <1>9 DEF InspectorEnds
<1> QED
  BY <1>1, <1>2, <1>3, <1>4, <1>5, <1>6, <1>7, <1>8, <1>9 DEF Parent

\* A step of the matrix is taken before the verdict, and lets the matrix pass
\* only on its last row.
LEMMA MatrixVerdict ==
  ASSUME HarnessNext
  PROVE  /\ verdict = None
         /\ verdict' = "pass" => row' = row /\ row = Len(required_matrix)
<1>0. None # "pass"
  BY NoneIsNoStatus
<1>1. CASE Parent
  BY <1>1, ParentVerdict
<1>2. CASE Children
  <2>1. verdict = None
    BY <1>2 DEF Children, running
  <2>2. CASE RunPrimary
    BY <1>0, <2>1, <2>2, PrimaryVerdict
  <2>3. CASE RunContender
    BY <1>0, <2>1, <2>3 DEF RunContender, others
  <2>4. CASE RunInspector
    BY <1>0, <2>1, <2>4 DEF RunInspector, others
  <2> QED
    BY <1>2, <2>2, <2>3, <2>4 DEF Children
<1>3. CASE Faults
  BY <1>0, <1>3 DEF Faults, Deadline, ChildDies, StoreError, running, Fail
<1> QED
  BY <1>1, <1>2, <1>3 DEF HarnessNext

-----------------------------------------------------------------------------
(* The mutation campaign.                                                  *)

\* The files of the candidate are those of the nine mutations, each clean.
LEMMA Mutations ==
  /\ Len(MUTATIONS) = 9 /\ DOMAIN MUTATIONS = 1 .. 9
  /\ \A i \in 1 .. 9 : /\ MUTATIONS[i] \in Range(MUTATIONS)
                       /\ MUTATIONS[i].relative \in DOMAIN Candidate
  /\ \A f \in DOMAIN Candidate : Candidate[f] = {}
<1>1. Len(MUTATIONS) = 9 /\ DOMAIN MUTATIONS = 1 .. 9
  BY DEF MUTATIONS, MutationSpec
<1>2. \A i \in 1 .. 9 : MUTATIONS[i] \in Range(MUTATIONS)
  BY <1>1 DEF Range
<1>3. DOMAIN Candidate = {m.relative : m \in Range(MUTATIONS)}
  BY DEF Candidate
<1>4. \A i \in 1 .. 9 : MUTATIONS[i].relative \in DOMAIN Candidate
  BY <1>2, <1>3
<1>5. \A f \in DOMAIN Candidate : Candidate[f] = {}
  BY DEF Candidate
<1> QED
  BY <1>1, <1>2, <1>4, <1>5

\* The candidate with one mutation.
Mutated(m) == [Candidate EXCEPT ![m.relative] = {m.id}]

\* What the three focused tests of a mutation should show.
LEMMA SentinelRuns ==
  ASSUME NEW e \in 0 .. 8
  PROVE  LET m == MUTATIONS[e + 1] IN
         /\ sentinel_run(3 * e + 1) = [id |-> m.id, source |-> Candidate, output |-> "green"]
         /\ sentinel_run(3 * e + 2) = [id |-> m.id, source |-> Mutated(m),
                                       output |-> "detected"]
         /\ sentinel_run(3 * e + 3) = [id |-> m.id, source |-> Candidate, output |-> "green"]
<1> DEFINE m == MUTATIONS[e + 1]
<1>1. sentinel_run(3 * e + 1) = [id |-> m.id, source |-> Candidate, output |-> "green"]
  <2>1. ((3 * e + 1) + 2) \div 3 = e + 1 /\ (3 * e + 1) % 3 = 1
    OBVIOUS
  <2> QED
    BY <2>1 DEF sentinel_run
<1>2. sentinel_run(3 * e + 2) = [id |-> m.id, source |-> Mutated(m), output |-> "detected"]
  <2>1. ((3 * e + 2) + 2) \div 3 = e + 1 /\ (3 * e + 2) % 3 = 2
    OBVIOUS
  <2> QED
    BY <2>1 DEF sentinel_run, Mutated
<1>3. sentinel_run(3 * e + 3) = [id |-> m.id, source |-> Candidate, output |-> "green"]
  <2>1. ((3 * e + 3) + 2) \div 3 = e + 1 /\ (3 * e + 3) % 3 = 0
    OBVIOUS
  <2> QED
    BY <2>1 DEF sentinel_run
<1> QED
  BY <1>1, <1>2, <1>3

\* A mutation that is applied to the untouched candidate is the only one in it,
\* and restoring leaves the candidate as it was.
LEMMA RestoredCandidate ==
  ASSUME NEW i \in 1 .. 9
  PROVE  LET m == MUTATIONS[i]
         IN /\ [Candidate EXCEPT ![m.relative] = @ \cup {m.id}] = Mutated(m)
            /\ [Mutated(m) EXCEPT ![m.relative] = @ \ {m.id}] = Candidate
<1> DEFINE f == MUTATIONS[i].relative
<1>1. f \in DOMAIN Candidate /\ Candidate[f] = {}
  BY Mutations
<1>2. Candidate = [x \in DOMAIN Candidate |-> Candidate[x]]
  BY DEF Candidate
<1> HIDE DEF f
<1> QED
  BY <1>1, <1>2 DEF Mutated, f

\* The focused test has ended by itself.
Ended == output \in {"green", "detected", "other"}

\* What the k-th test ran on, and how it ended.
Observed(k, o) ==
  [id |-> sentinel_run(k).id, source |-> sentinel_run(k).source, output |-> o]

Observation == {Observed(k, o) : k \in 1 .. 27, o \in {"green", "detected", "other"}}

\* The tests of the current mutation that have been judged.
Judged ==
  IF progress \in {"mutant", "judge"} THEN 1 ELSE IF progress = "green_after" THEN 2 ELSE 0

Campaign == {"begin", "green_before", "mutant", "judge", "green_after"}

\* Every test that was judged showed what it should, on the candidate it
\* should; the last one, when it has not been judged, ran on that candidate.
CampaignInv ==
  /\ executed \in 0 .. 9
  /\ progress \in {"audit", "copy", "matrix"} \cup Campaign
  /\ progress # "matrix" => executed < 9
  /\ progress = "matrix" => executed = 9
  /\ Ended => progress \in {"green_before", "mutant", "judge", "green_after"}
  /\ output = "running" => is_command
  /\ progress \in Campaign \ {"mutant"} => candidate = Candidate
  /\ progress = "mutant" => candidate = Mutated(mutation)
  /\ observed \in Seq(Observation)
  /\ Len(observed) = 3 * executed + Judged + (IF Ended THEN 1 ELSE 0)
  /\ \A k \in 1 .. Len(observed) :
       observed[k] = Observed(k, IF Ended /\ k = Len(observed) THEN output
                                 ELSE sentinel_run(k).output)

\* A check that has not failed has the evidence that its progress stands for.
CheckInv ==
  returned = "error" \/
    /\ CampaignInv
    /\ Verdict
    /\ records # <<>> => verdict = "pass"
    /\ returned # None => returned = "ok" /\ progress = "matrix" /\ records # <<>>

\* The invariant holds at first.
LEMMA InitCheck == CheckInit => CheckInv
<1> SUFFICES ASSUME CheckInit PROVE CheckInv
  OBVIOUS
<1>1. ~Ended /\ output # "running" /\ verdict # "pass"
  BY NoneIsNoStatus DEF CheckInit, HarnessInit, Ended
<1>2. observed = <<>> /\ Len(observed) = 0 /\ observed \in Seq(Observation)
  BY DEF CheckInit
<1>3. Judged = 0
  BY DEF CheckInit, Judged
<1>4. CampaignInv
  BY <1>1, <1>2, <1>3 DEF CheckInit, CampaignInv, Campaign, is_command
<1> QED
  BY <1>1, <1>4 DEF CheckInit, CheckInv, Verdict

\* A test that ends is observed on the candidate that its place in the
\* campaign asks for.
LEMMA TestObserved ==
  ASSUME CampaignInv, FocusedTestEnds
  PROVE  CampaignInv'
<1>1. PICK o \in {"green", "detected", "other"} :
        /\ output' = o
        /\ observed' = Append(observed,
                              [id |-> mutation.id, source |-> candidate, output |-> o])
  BY DEF FocusedTestEnds
<1>2. /\ output = "running" /\ ~Ended /\ Ended'
      /\ UNCHANGED <<progress, executed, candidate>>
  BY <1>1 DEF FocusedTestEnds, Ended
<1> DEFINE k == 3 * executed + Judged + 1
<1>3. progress \in {"green_before", "mutant", "green_after"}
  BY DEF FocusedTestEnds, CampaignInv, is_command
<1>4. executed \in 0 .. 8
  BY <1>3 DEF CampaignInv
<1>5. [id |-> mutation.id, source |-> candidate, output |-> o] = Observed(k, o)
  <2>1. CASE progress = "green_before"
    <3>1. k = 3 * executed + 1
      BY <1>4, <2>1 DEF Judged
    <3>2. sentinel_run(k) = [id |-> MUTATIONS[executed + 1].id,
                             source |-> Candidate, output |-> "green"]
      BY <1>4, <3>1, SentinelRuns
    <3>3. candidate = Candidate
      BY <2>1 DEF CampaignInv, Campaign, mutation
    <3> QED
      BY <3>2, <3>3 DEF Observed, mutation
  <2>2. CASE progress = "mutant"
    <3>1. k = 3 * executed + 2
      BY <1>4, <2>2 DEF Judged
    <3>2. sentinel_run(k) = [id |-> MUTATIONS[executed + 1].id,
                             source |-> Mutated(MUTATIONS[executed + 1]), output |-> "detected"]
      BY <1>4, <3>1, SentinelRuns
    <3>3. candidate = Mutated(MUTATIONS[executed + 1])
      BY <2>2 DEF CampaignInv, Campaign, mutation
    <3> QED
      BY <3>2, <3>3 DEF Observed, mutation
  <2>3. CASE progress = "green_after"
    <3>1. k = 3 * executed + 3
      BY <1>4, <2>3 DEF Judged
    <3>2. sentinel_run(k) = [id |-> MUTATIONS[executed + 1].id,
                             source |-> Candidate, output |-> "green"]
      BY <1>4, <3>1, SentinelRuns
    <3>3. candidate = Candidate
      BY <2>3 DEF CampaignInv, Campaign, mutation
    <3> QED
      BY <3>2, <3>3 DEF Observed, mutation
  <2> QED
    BY <1>3, <2>1, <2>2, <2>3
<1>6. k \in 1 .. 27 /\ Judged' = Judged
  BY <1>2, <1>3, <1>4 DEF Judged
<1> HIDE DEF k
<1>7. Observed(k, o) \in Observation
  BY <1>6 DEF Observation
<1>8. observed \in Seq(Observation) /\ Len(observed) = k - 1
  BY <1>2, <1>4, <1>6 DEF CampaignInv, k, Judged
<1>9. /\ observed' \in Seq(Observation) /\ Len(observed') = k
      /\ observed'[k] = Observed(k, o)
      /\ \A i \in 1 .. k - 1 : observed'[i] = observed[i]
  <2>1. observed' = Append(observed, Observed(k, o))
    BY <1>1, <1>5
  <2> QED
    BY <1>6, <1>7, <1>8, <2>1, SMTT(30)
<1>10. \A i \in 1 .. k - 1 : observed[i] = Observed(i, sentinel_run(i).output)
  BY <1>2, <1>8 DEF CampaignInv
<1>11. \A i \in 1 .. Len(observed') :
         observed'[i] = Observed(i, IF Ended' /\ i = Len(observed') THEN output'
                                    ELSE sentinel_run(i).output)
  BY <1>1, <1>2, <1>6, <1>9, <1>10
<1>12. Len(observed') = 3 * executed' + Judged' + (IF Ended' THEN 1 ELSE 0)
  BY <1>2, <1>4, <1>6, <1>9 DEF k, Judged
<1>13. (progress = "mutant" => candidate = Mutated(mutation))'
  BY <1>2 DEF CampaignInv, mutation
<1> QED
  BY <1>2, <1>3, <1>4, <1>9, <1>11, <1>12, <1>13 DEF CampaignInv, Campaign, is_command

\* What is true of the tests observed so far, when the last of them showed what
\* it should.
LEMMA TestsJudged ==
  ASSUME CampaignInv, Ended => output = sentinel_run(Len(observed)).output
  PROVE  \A k \in 1 .. Len(observed) : observed[k] = Observed(k, sentinel_run(k).output)
BY DEF CampaignInv

\* Judging a test that showed what it should is one test more that did.
LEMMA StepsOfCampaign ==
  ASSUME CampaignInv,
         UNCHANGED observed, ~Ended',
         Ended => output = sentinel_run(Len(observed)).output,
         executed' \in 0 .. 9,
         Len(observed) = 3 * executed' + Judged',
         (progress \in {"audit", "copy", "matrix"} \cup Campaign)',
         (progress # "matrix" => executed < 9)',
         (progress = "matrix" => executed = 9)',
         (output = "running" => is_command)',
         (progress \in Campaign \ {"mutant"} => candidate = Candidate)',
         (progress = "mutant" => candidate = Mutated(mutation))'
  PROVE  CampaignInv'
<1>1. \A k \in 1 .. Len(observed) : observed[k] = Observed(k, sentinel_run(k).output)
  BY TestsJudged
<1>2. observed' = observed /\ observed \in Seq(Observation)
  BY DEF CampaignInv
<1>3. Len(observed') = 3 * executed' + Judged' + (IF Ended' THEN 1 ELSE 0)
  <2>1. Len(observed) \in Nat
    BY <1>2
  <2> QED
    BY <1>2, <2>1
<1>4. \A k \in 1 .. Len(observed') :
         observed'[k] = Observed(k, IF Ended' /\ k = Len(observed') THEN output'
                                    ELSE sentinel_run(k).output)
  BY <1>1, <1>2
<1> QED
  BY <1>2, <1>3, <1>4 DEF CampaignInv

\* A step that leaves the campaign and the command alone.
LEMMA CampaignKept ==
  ASSUME CampaignInv, UNCHANGED <<progress, executed, candidate, observed>>,
         output' = output \/ (~Ended /\ ~Ended' /\ (output' = "running" => is_command))
  PROVE  CampaignInv'
<1>1. Ended' = Ended /\ Judged' = Judged /\ is_command' = is_command
  BY DEF Ended, Judged, is_command
<1>2. mutation' = mutation
  BY DEF mutation
<1>3. output' = "running" => is_command
  BY DEF CampaignInv
<1>4. \A k \in 1 .. Len(observed) :
        observed[k] = Observed(k, IF Ended' /\ k = Len(observed) THEN output'
                                  ELSE sentinel_run(k).output)
  <2>1. CASE output' = output
    BY <1>1, <2>1 DEF CampaignInv
  <2>2. CASE ~Ended /\ ~Ended'
    BY <2>2 DEF CampaignInv
  <2> QED
    BY <2>1, <2>2
<1>5. \A k \in 1 .. Len(observed') :
        observed'[k] = Observed(k, IF Ended' /\ k = Len(observed') THEN output'
                                   ELSE sentinel_run(k).output)
  BY <1>4
<1> QED
  BY <1>1, <1>2, <1>3, <1>5 DEF CampaignInv

\* A command that is started or cannot be started has not ended by itself.
LEMMA CommandCampaign ==
  ASSUME CampaignInv, RunCommand \/ KillCommandTree, returned' # "error"
  PROVE  CampaignInv'
<1>1. /\ UNCHANGED <<progress, executed, candidate, observed>>
      /\ output \in {None, "running"} /\ output' \in {"running", "error"}
      /\ is_command
  <2>1. CASE RunCommand
    BY <2>1 DEF RunCommand, Err, all_but_output
  <2>2. CASE KillCommandTree
    BY <2>2 DEF KillCommandTree, Err, all_but_output, CampaignInv
  <2> QED
    BY <2>1, <2>2
<1>2. ~Ended /\ ~Ended'
  BY <1>1, NoneIsNoStatus DEF Ended
<1> QED
  BY <1>1, <1>2, CampaignKept

\* The audits, the copy and the beginning of a mutation observe nothing.
LEMMA BeginCampaign ==
  ASSUME CampaignInv, Audit \/ CopyCandidate \/ BeginMutation, returned' # "error"
  PROVE  CampaignInv'
<1>1. /\ UNCHANGED <<executed, output, observed>>
      /\ progress' \in {"copy", "begin", "green_before"}
      /\ progress \in {"audit", "copy", "begin"}
      /\ progress' \in {"begin", "green_before"} => candidate' = Candidate
  BY DEF Audit, CopyCandidate, BeginMutation, Err, CampaignInv, Campaign
<1>2. ~Ended /\ ~Ended' /\ output' # "running"
  BY <1>1 DEF CampaignInv, Ended, is_command
<1>3. Judged = 0 /\ Judged' = 0 /\ executed \in 0 .. 9 /\ executed < 9
  BY <1>1 DEF Judged, CampaignInv
<1>4. Len(observed) = 3 * executed' + Judged'
  BY <1>1, <1>2, <1>3 DEF CampaignInv
<1> QED
  BY <1>1, <1>2, <1>3, <1>4, StepsOfCampaign DEF Campaign

\* A mutation is applied after a green test of the clean candidate.
LEMMA ApplyCampaign ==
  ASSUME CampaignInv, ApplyMutation, returned' # "error"
  PROVE  CampaignInv'
<1>1. /\ UNCHANGED <<executed, observed>>
      /\ progress = "green_before" /\ progress' = "mutant"
      /\ output = "green" /\ output' = None
      /\ candidate' = [candidate EXCEPT ![mutation.relative] = @ \cup {mutation.id}]
  BY DEF ApplyMutation, Err, require_green_focused
<1>2. Ended /\ ~Ended' /\ output' # "running"
  BY <1>1, NoneIsNoStatus DEF Ended
<1>3. Judged = 0 /\ Judged' = 1 /\ executed \in 0 .. 8
  BY <1>1 DEF Judged, CampaignInv
<1>4. Len(observed) = 3 * executed + 1
  BY <1>1, <1>2, <1>3 DEF CampaignInv
<1>5. sentinel_run(3 * executed + 1).output = "green"
  BY <1>3, SentinelRuns
<1>6. candidate' = Mutated(mutation')
  <2>1. candidate = Candidate /\ executed + 1 \in 1 .. 9
    BY <1>1, <1>3 DEF CampaignInv, Campaign
  <2> QED
    BY <1>1, <2>1, RestoredCandidate DEF mutation
<1> QED
  BY <1>1, <1>2, <1>3, <1>4, <1>5, <1>6, StepsOfCampaign DEF Campaign

\* The candidate is restored, and the test of the mutant is judged.
LEMMA RestoreCampaign ==
  ASSUME CampaignInv, Restore, returned' # "error"
  PROVE  CampaignInv'
<1>1. /\ UNCHANGED <<executed, observed, output>>
      /\ progress = "mutant" /\ progress' = "judge"
      /\ output # "running"
      /\ candidate' = [candidate EXCEPT ![mutation.relative] = @ \ {mutation.id}]
  BY DEF Restore, Err
<1>2. executed + 1 \in 1 .. 9 /\ executed \in 0 .. 9 /\ executed < 9
  BY <1>1 DEF CampaignInv
<1>3. candidate' = Candidate
  BY <1>1, <1>2, RestoredCandidate DEF CampaignInv, mutation
<1>4. Ended' = Ended /\ Judged' = Judged
  BY <1>1 DEF Ended, Judged
<1>5. \A k \in 1 .. Len(observed') :
        observed'[k] = Observed(k, IF Ended' /\ k = Len(observed') THEN output'
                                   ELSE sentinel_run(k).output)
  BY <1>1, <1>4 DEF CampaignInv
<1> QED
  BY <1>1, <1>2, <1>3, <1>4, <1>5 DEF CampaignInv, Campaign

\* The test of the mutant was detected.
LEMMA JudgeCampaign ==
  ASSUME CampaignInv, Judge, returned' # "error"
  PROVE  CampaignInv'
<1>1. /\ UNCHANGED <<executed, observed, candidate>>
      /\ progress = "judge" /\ progress' = "green_after"
      /\ output = "detected" /\ output' = None
  BY DEF Judge, Err, require_detected_mutant
<1>2. Ended /\ ~Ended' /\ output' # "running"
  BY <1>1, NoneIsNoStatus DEF Ended
<1>3. Judged = 1 /\ Judged' = 2 /\ executed \in 0 .. 8
  BY <1>1 DEF Judged, CampaignInv
<1>4. Len(observed) = 3 * executed + 2
  BY <1>1, <1>2, <1>3 DEF CampaignInv
<1>5. sentinel_run(3 * executed + 2).output = "detected"
  BY <1>3, SentinelRuns
<1>6. candidate' = Candidate
  BY <1>1 DEF CampaignInv, Campaign
<1> QED
  BY <1>1, <1>2, <1>3, <1>4, <1>5, <1>6, StepsOfCampaign DEF Campaign

\* The test of the restored candidate was green: one mutation more.
LEMMA EndCampaign ==
  ASSUME CampaignInv, EndMutation, returned' # "error"
  PROVE  CampaignInv'
<1>1. /\ UNCHANGED observed
      /\ executed' = executed + 1
      /\ progress = "green_after"
      /\ IF executed' = 9 THEN progress' = "matrix"
         ELSE progress' = "begin" /\ candidate' = candidate
      /\ output = "green" /\ output' = None
  BY Mutations DEF EndMutation, Err, require_green_focused
<1>2. Ended /\ ~Ended' /\ output' # "running"
  BY <1>1, NoneIsNoStatus DEF Ended
<1>3. Judged = 2 /\ Judged' = 0 /\ executed \in 0 .. 8
  BY <1>1 DEF Judged, CampaignInv
<1>4. Len(observed) = 3 * executed + 3 /\ Len(observed) = 3 * executed' + Judged'
  BY <1>1, <1>2, <1>3 DEF CampaignInv
<1>5. sentinel_run(3 * executed + 3).output = "green"
  BY <1>3, SentinelRuns
<1>6. candidate = Candidate
  BY <1>1 DEF CampaignInv, Campaign
<1> QED
  BY <1>1, <1>2, <1>3, <1>4, <1>5, <1>6, StepsOfCampaign DEF Campaign

\* Every step of the check, of its commands and of the matrix keeps the
\* invariant.
LEMMA NextCheck == CheckInv /\ [CheckNext]_cvars => CheckInv'
<1> SUFFICES ASSUME CheckInv, [CheckNext]_cvars, returned' # "error"
             PROVE  CheckInv'
  BY DEF CheckInv
<1>1. CASE UNCHANGED cvars
  <2>1. UNCHANGED <<check_state, verdict, row>>
    BY <1>1 DEF cvars, harness
  <2>2. returned # "error"
    BY <2>1 DEF check_state
  <2>3. CampaignInv'
    BY <2>1, <2>2, CampaignKept DEF check_state, CheckInv
  <2> QED
    BY <2>1, <2>2, <2>3 DEF check_state, CheckInv, Verdict
<1>2. CASE checking /\ CampaignInv' /\ UNCHANGED <<records, returned, verdict, row>>
  BY <1>2, NoneIsNoStatus DEF checking, CheckInv, Verdict
<1>3. CASE Audit \/ CopyCandidate \/ BeginMutation
  BY <1>2, <1>3, BeginCampaign, NoneIsNoStatus
  DEF Audit, CopyCandidate, BeginMutation, Err, checking, hvars, harness, CheckInv
<1>4. CASE RunCommand
  BY <1>2, <1>4, CommandCampaign, NoneIsNoStatus
  DEF RunCommand, Err, checking, all_but_output, hvars, harness, CheckInv
<1>5. CASE KillCommandTree
  <2>1. checking /\ CampaignInv' /\ UNCHANGED <<records, returned>> /\ progress = "mutant"
    BY <1>5, CommandCampaign, NoneIsNoStatus
    DEF KillCommandTree, Err, checking, all_but_output, CheckInv
  <2>2. UNCHANGED <<verdict, row>>
    BY <1>5, <2>1 DEF KillCommandTree, hvars, harness
  <2> QED
    BY <1>2, <2>1, <2>2
<1>6. CASE ApplyMutation
  BY <1>2, <1>6, ApplyCampaign, NoneIsNoStatus
  DEF ApplyMutation, Err, checking, hvars, harness, CheckInv
<1>7. CASE Restore
  BY <1>2, <1>7, RestoreCampaign, NoneIsNoStatus
  DEF Restore, Err, checking, hvars, harness, CheckInv
<1>8. CASE Judge
  BY <1>2, <1>8, JudgeCampaign, NoneIsNoStatus
  DEF Judge, Err, checking, hvars, harness, CheckInv
<1>9. CASE EndMutation
  BY <1>2, <1>9, EndCampaign, NoneIsNoStatus
  DEF EndMutation, Err, checking, hvars, harness, CheckInv
<1>10. CASE MatrixExits
  <2>1. /\ checking /\ UNCHANGED <<progress, executed, candidate, observed, returned>>
        /\ output = "running" /\ output' \in {"success", "failure"}
        /\ UNCHANGED <<verdict, row>>
        /\ records' # records => verdict = "pass"
    BY <1>10 DEF MatrixExits, hvars, harness
  <2>2. ~Ended /\ ~Ended' /\ output' # "running"
    BY <2>1 DEF Ended
  <2>3. CampaignInv /\ Verdict /\ (records # <<>> => verdict = "pass")
    BY <2>1, NoneIsNoStatus DEF CheckInv, checking
  <2>4. CampaignInv'
    BY <2>1, <2>2, <2>3, CampaignKept
  <2> QED
    BY <2>1, <2>3, <2>4 DEF CheckInv, Verdict, checking
<1>11. CASE Conclude
  <2>1. /\ UNCHANGED <<progress, executed, candidate, output, records, observed>>
        /\ checking /\ progress = "matrix" /\ validate_evidence(records)
        /\ returned' = "ok" /\ UNCHANGED <<verdict, row>>
    BY <1>11 DEF Conclude, Err, hvars, harness
  <2>2. CampaignInv /\ Verdict /\ (records # <<>> => verdict = "pass")
    BY <2>1, NoneIsNoStatus DEF CheckInv, checking
  <2>3. CampaignInv'
    BY <2>1, <2>2, CampaignKept
  <2>4. records # <<>>
    BY <2>1 DEF validate_evidence
  <2> QED
    BY <2>1, <2>2, <2>3, <2>4 DEF CheckInv, Verdict
<1>12. CASE FocusedTestEnds
  <2>1. checking /\ UNCHANGED <<records, returned, verdict, row>>
    BY <1>12 DEF FocusedTestEnds, hvars, harness
  <2>2. CampaignInv
    BY <2>1, NoneIsNoStatus DEF CheckInv, checking
  <2> QED
    BY <1>2, <1>12, <2>1, <2>2, TestObserved
<1>13. CASE MatrixNotExecuted
  <2>1. /\ checking /\ UNCHANGED <<progress, executed, candidate, observed>>
        /\ UNCHANGED <<records, returned, verdict, row>>
        /\ output = "running" /\ output' \in {"success", "failure"}
    BY <1>13 DEF MatrixNotExecuted, hvars, harness
  <2>2. ~Ended /\ ~Ended' /\ output' # "running"
    BY <2>1 DEF Ended
  <2>3. CampaignInv
    BY <2>1, NoneIsNoStatus DEF CheckInv, checking
  <2> QED
    BY <1>2, <2>1, <2>2, <2>3, CampaignKept
<1>14. CASE Matrix
  <2>1. checking /\ HarnessNext /\ UNCHANGED check_state
    BY <1>14 DEF Matrix
  <2>2. CampaignInv /\ Verdict /\ (records # <<>> => verdict = "pass") /\ returned = None
    BY <2>1, NoneIsNoStatus DEF CheckInv, checking
  <2>3. CampaignInv' /\ records = <<>> /\ Verdict'
    BY <2>1, <2>2, CampaignKept, MatrixVerdict, NoneIsNoStatus DEF check_state, Verdict
  <2> QED
    BY <2>1, <2>2, <2>3 DEF check_state, CheckInv
<1>15. CASE TimePasses
  <2>1. UNCHANGED <<progress, executed, candidate, output, records, returned, observed>>
        /\ UNCHANGED <<verdict, row>>
    BY <1>15 DEF TimePasses, hvars, harness
  <2>2. CampaignInv'
    BY <2>1, CampaignKept DEF CheckInv
  <2> QED
    BY <2>1, <2>2 DEF CheckInv, Verdict
<1> QED
  BY <1>1, <1>3, <1>4, <1>5, <1>6, <1>7, <1>8, <1>9, <1>10, <1>11, <1>12, <1>13, <1>14, <1>15
  DEF CheckNext, Run

\* In every behaviour, with whatever ends of the focused tests and whatever
\* happens in the matrix, a check that has not failed has the evidence that its
\* progress stands for.
THEOREM CheckInvariant == CheckSpec => []CheckInv
BY InitCheck, NextCheck, PTL DEF CheckSpec

\* CheckIsEvidence, for every store, every set of processes and however often a
\* command fails or hangs: `run` returns Ok only with the verdict of the whole
\* matrix and the three observations of each of the nine mutations, in order.
THEOREM CheckIsAlwaysEvidence == CheckSpec => []CheckIsEvidence
<1>1. CheckInv => CheckIsEvidence
  <2> SUFFICES ASSUME CheckInv, returned = "ok" PROVE CheckIsEvidence
    BY DEF CheckIsEvidence
  <2>1. CampaignInv /\ progress = "matrix" /\ verdict = "pass" /\ row = Len(required_matrix)
    BY NoneIsNoStatus DEF CheckInv, Verdict
  <2>2. executed = 9 /\ ~Ended /\ Judged = 0
    BY <2>1 DEF CampaignInv, Judged
  <2>3. Len(observed) = 27 /\ observed \in Seq(Observation)
    BY <2>1, <2>2 DEF CampaignInv
  <2>4. \A k \in 1 .. 27 : observed[k] = Observed(k, sentinel_run(k).output)
    BY <2>1, <2>2, <2>3 DEF CampaignInv
  <2>5. \A k \in 1 .. 27 : observed[k] = sentinel_run(k)
    BY <2>4 DEF Observed, sentinel_run
  <2>6. observed = [k \in 1 .. 27 |-> sentinel_run(k)]
    BY <2>3, <2>5
  <2> QED
    BY <2>1, <2>6, Mutations DEF CheckIsEvidence
<1> QED
  BY <1>1, CheckInvariant, PTL

-----------------------------------------------------------------------------
(* The store lock and its holders.                                         *)

\* A step of the store operation p changes no other operation's lock.
HeldBy(p) == \/ held' = held
             \/ \E mode_of_p : held' = [held EXCEPT ![p] = mode_of_p]

\* The three ways a step of the store ends.
LEMMA StepEnds ==
  ASSUME NEW p
  PROVE  /\ \A from, to : Continue(p, from, to) => HeldBy(p)
         /\ \A from, to : Goto(p, from, to) => HeldBy(p)
         /\ \A code : Refuse(p, code) => HeldBy(p)
         /\ \A answer : Finish(p, answer) => HeldBy(p)
BY DEF Continue, Goto, Refuse, Finish, HeldBy

\* No store operation takes or releases the lock for another one.
LEMMA StepHeld ==
  ASSUME NEW p, Step(p)
  PROVE  HeldBy(p)
<1>1. CASE EnsureStateDir(p)
  BY <1>1, StepEnds DEF EnsureStateDir
<1>2. CASE CreateStateDir(p)
  BY <1>2, StepEnds DEF CreateStateDir
<1>3. CASE SyncStateDir(p)
  BY <1>3, StepEnds DEF SyncStateDir
<1>4. CASE SyncParentDir(p)
  BY <1>4, StepEnds DEF SyncParentDir
<1>5. CASE StatArtifact(p)
  BY <1>5, StepEnds DEF StatArtifact, Stat
<1>6. CASE OpenLock(p)
  BY <1>6, StepEnds DEF OpenLock
<1>7. CASE AcquireExclusive(p)
  BY <1>7, StepEnds DEF AcquireExclusive, HeldBy
<1>8. CASE OpenJournal(p)
  BY <1>8, StepEnds DEF OpenJournal
<1>9. CASE OpenExisting(p)
  BY <1>9, StepEnds DEF OpenExisting
<1>10. CASE SyncLock(p)
  BY <1>10, StepEnds DEF SyncLock
<1>11. CASE SyncJournal(p)
  BY <1>11, StepEnds DEF SyncJournal
<1>12. CASE SyncInitDir(p)
  BY <1>12, StepEnds DEF SyncInitDir
<1>13. CASE CreateWitness(p)
  BY <1>13, StepEnds DEF CreateWitness
<1>14. CASE WriteInitializing(p)
  BY <1>14, StepEnds DEF WriteInitializing
<1>15. CASE SyncInitializing(p)
  BY <1>15, StepEnds DEF SyncInitializing
<1>16. CASE SyncWitnessDir(p)
  BY <1>16, StepEnds DEF SyncWitnessDir
<1>17. CASE OpenTemporary(p)
  BY <1>17, StepEnds DEF OpenTemporary
<1>18. CASE WriteTemporary(p)
  BY <1>18, StepEnds DEF WriteTemporary
<1>19. CASE SyncTemporary(p)
  BY <1>19, StepEnds DEF SyncTemporary
<1>20. CASE RenameCommit(p)
  BY <1>20, StepEnds DEF RenameCommit
<1>21. CASE SyncCommitDir(p)
  BY <1>21, StepEnds DEF SyncCommitDir
<1>22. CASE RevalidateAppend(p)
  BY <1>22, StepEnds DEF RevalidateAppend
<1>23. CASE TruncatePrepared(p)
  BY <1>23, StepEnds DEF TruncatePrepared
<1>24. CASE WritePrepared(p)
  BY <1>24, StepEnds DEF WritePrepared
<1>25. CASE SyncPrepared(p)
  BY <1>25, StepEnds DEF SyncPrepared
<1>26. CASE WriteRecordPart(p)
  BY <1>26, StepEnds DEF WriteRecordPart
<1>27. CASE WriteRecordRest(p)
  BY <1>27, StepEnds DEF WriteRecordRest
<1>28. CASE SyncRecord(p)
  BY <1>28, StepEnds DEF SyncRecord
<1>29. CASE TruncateClean(p)
  BY <1>29, StepEnds DEF TruncateClean
<1>30. CASE WriteClean(p)
  BY <1>30, StepEnds DEF WriteClean
<1>31. CASE SyncClean(p)
  BY <1>31, StepEnds DEF SyncClean
<1>32. CASE LoadCommitted(p)
  BY <1>32, StepEnds DEF LoadCommitted
<1>33. CASE Reconcile(p)
  BY <1>33, StepEnds DEF Reconcile
<1>34. CASE Decide(p)
  BY <1>34, StepEnds DEF Decide
<1>35. CASE ReaderOpen(p)
  BY <1>35, StepEnds DEF ReaderOpen
<1>36. CASE AcquireShared(p)
  BY <1>36, StepEnds DEF AcquireShared, HeldBy
<1> QED
  BY <1>1, <1>2, <1>3, <1>4, <1>5, <1>6, <1>7, <1>8, <1>9, <1>10, <1>11, <1>12,
     <1>13, <1>14, <1>15, <1>16, <1>17, <1>18, <1>19, <1>20, <1>21, <1>22, <1>23,
     <1>24, <1>25, <1>26, <1>27, <1>28, <1>29, <1>30, <1>31, <1>32, <1>33, <1>34,
     <1>35, <1>36
  DEF Step, Open, PublishCommit, AppendEvent, Release, Engine, Read

-----------------------------------------------------------------------------
(* What a row passes on.                                                   *)

\* How the row ends decides whether its primary is killed.
LEMMA RowKind ==
  ASSUME row \in 1 .. Len(required_matrix)
  PROVE  /\ s.normal_exit => ~kills /\ ~is_concurrency(s)
         /\ is_concurrency(s) /\ kills =>
              s.termination \in {"sigkill-after-contender", "sigkill-then-fresh-writer"}
         /\ s.termination \in {"sigkill-after-contender", "sigkill-then-fresh-writer"} =>
              kills /\ is_concurrency(s)
         /\ s.termination \in {"sigkill", "sigkill-before-ack", "sigkill-before-ack-flush",
                               "sigkill-after-ack-flush"} => kills /\ ~is_concurrency(s)
         /\ s.phase = "reopen-read" => ~kills
BY RowsEndInOneWay DEF s, kills

\* The primary announced that it stopped at the row's event, or at the place
\* that stands for it in a reader or at the response.
Announced == selected \/ stage \in {"reading", "responded"}

\* The primary has not opened the store of the row yet.
Early == {"begin", "setup", "prepared"}

\* What the primary announces, and when.
PrimaryInv ==
  /\ stage \in Early => todo = <<>> /\ ~selected /\ stdout = <<>>
  /\ stage = "reading" => s.phase = "reopen-read"
  /\ stage = "responding" => is_response(s)
  /\ stage = "responded" => selected \/ s.phase = "response"
  /\ deferred # None => selected
  /\ stdout # <<>> => Announced

\* What the parent has seen of its children, by what it does next.
ParentInv ==
  /\ parent # "inspecting" => child["inspector"] = "unborn"
  /\ parent = "spawn" => child["primary"] = "unborn" /\ child["contender"] = "unborn"
  /\ parent \in {"wait_ready", "at_cut", "fresh_contender"}
       /\ s.termination = "sigkill-then-fresh-writer" => child["contender"] = "unborn"
  /\ child["contender"] # "unborn" => is_concurrency(s)
  /\ parent \in {"at_cut", "fresh_contender", "wait_contender", "end_primary"} => Announced
  /\ parent = "wait_contender" => is_concurrency(s)
  /\ parent = "fresh_contender" => s.termination = "sigkill-then-fresh-writer"
  /\ parent \in {"fresh_contender", "wait_contender"}
       /\ s.termination = "sigkill-then-fresh-writer" => child["primary"] = "sigkill"
  /\ parent = "end_primary" =>
       /\ is_concurrency(s) /\ s.termination # "sigkill-then-fresh-writer"
       /\ child["contender"] = "ok"
  /\ parent = "wait_exit" => ~kills
  /\ parent \in {"wait_exit", "drain", "inspecting"} =>
       /\ s.normal_exit \/ Announced
       /\ is_concurrency(s) => child["contender"] = "ok"
  /\ parent \in {"drain", "inspecting"} =>
       child["primary"] = (IF kills THEN "sigkill" ELSE "ok")

\* Only a child that is alive holds the store lock.
HeldInv ==
  /\ held = [p \in Proc |-> held[p]]
  /\ \A p \in Proc : held[p] # "none" => \E r \in Child : alive(r) /\ p \in operations(r)

RowInv ==
  /\ row \in 1 .. Len(required_matrix) /\ inspection \in 1 .. 6
  /\ child \in [Child -> {"unborn", "alive", "ok", "error", "sigkill"}]
  /\ PrimaryInv /\ ParentInv /\ HeldInv

\* Until the verdict, the parent knows what it concludes from.
PassInv == verdict = None => RowInv

\* A child that is alive ends by itself, or none does.
ChildEnds ==
  \/ child' = child
  \/ \E r \in Child, status \in {"ok", "error"} :
       alive(r) /\ child' = [child EXCEPT ![r] = status]

\* The end of a child contradicts nothing that the parent has seen.
LEMMA ParentSaw ==
  ASSUME RowInv, ChildEnds, UNCHANGED <<row, parent>>, Announced => Announced'
  PROVE  /\ child' \in [Child -> {"unborn", "alive", "ok", "error", "sigkill"}]
         /\ ParentInv'
<1>1. s' = s /\ kills' = kills /\ is_concurrency(s)' = is_concurrency(s)
  BY DEF s, kills, is_concurrency
<1>2. child' \in [Child -> {"unborn", "alive", "ok", "error", "sigkill"}]
  BY DEF RowInv, ChildEnds
<1>3. \A r \in Child : child[r] # "alive" => child'[r] = child[r]
  BY DEF RowInv, ChildEnds, alive
<1>4. \A r \in Child : child'[r] # "unborn" => child[r] # "unborn"
  BY DEF RowInv, ChildEnds, alive
<1>5. "primary" \in Child /\ "contender" \in Child /\ "inspector" \in Child
  BY DEF Child
<1> QED
  BY <1>1, <1>2, <1>3, <1>4, <1>5 DEF RowInv, ParentInv

\* A step of a store operation leaves the lock with a child that is alive.
LEMMA HeldStep ==
  ASSUME RowInv, NEW r \in Child, NEW p \in operations(r), alive(r),
         HeldBy(p), UNCHANGED child
  PROVE  HeldInv'
<1>1. held' = [q \in Proc |-> held'[q]] /\ \A q \in Proc : q # p => held'[q] = held[q]
  BY DEF RowInv, HeldInv, HeldBy
<1>2. ASSUME NEW q \in Proc, held'[q] # "none"
      PROVE  \E x \in Child : alive(x)' /\ q \in operations(x)
  <2>1. CASE q = p
    BY <2>1 DEF alive
  <2>2. CASE q # p
    BY <1>1, <1>2, <2>2 DEF RowInv, HeldInv, alive
  <2> QED
    BY <2>1, <2>2
<1> QED
  BY <1>1, <1>2 DEF HeldInv

\* The lock of a child that ends is released.
LEMMA HeldExit ==
  ASSUME RowInv, NEW r \in Child, NEW status, Exit(r, status)
  PROVE  HeldInv'
<1>1. /\ held' = [p \in Proc |-> IF p \in operations(r) THEN "none" ELSE held[p]]
      /\ child' = [child EXCEPT ![r] = status]
  BY DEF Exit, Vanish
<1>2. held' = [q \in Proc |-> held'[q]]
  BY <1>1
<1>3. ASSUME NEW q \in Proc, held'[q] # "none"
      PROVE  \E x \in Child : alive(x)' /\ q \in operations(x)
  <2>1. q \notin operations(r) /\ held[q] # "none"
    BY <1>1, <1>3
  <2>2. PICK x \in Child : alive(x) /\ q \in operations(x)
    BY <2>1 DEF RowInv, HeldInv
  <2>3. x # r
    BY <2>1, <2>2
  <2>4. child'[x] = child[x]
    BY <1>1, <2>3 DEF RowInv
  <2> QED
    BY <2>2, <2>4 DEF alive
<1> QED
  BY <1>2, <1>3 DEF HeldInv

\* Nothing happens to the children and the lock.
LEMMA HeldKept ==
  ASSUME RowInv, UNCHANGED <<held, child>>
  PROVE  HeldInv'
BY DEF RowInv, HeldInv, alive

\* What a step of the primary must do for the parent to be right.
PrimaryStep ==
  PrimaryInv' /\ (Announced => Announced') /\ ChildEnds /\ HeldInv'

\* The primary is a child, and these are its store operations.
LEMMA PrimaryOperations ==
  "primary" \in Child /\ "setup" \in operations("primary")
    /\ "holder" \in operations("primary")
BY DEF Child, operations

\* An event is announced only when the store of the row is open.
LEMMA EventStep == ASSUME RowInv, PrimitiveCompleted PROVE PrimaryStep
<1>1. /\ alive("primary") /\ todo # <<>> /\ UNCHANGED <<row, stage>>
      /\ stage \notin Early
  BY DEF PrimitiveCompleted, RowInv, PrimaryInv
<1>2. s' = s
  BY <1>1 DEF s
<1>3. \/ UNCHANGED <<selected, deferred, stdout>>
      \/ selected' = TRUE
  BY DEF PrimitiveCompleted
<1>4. PrimaryInv' /\ (Announced => Announced')
  BY <1>1, <1>2, <1>3 DEF RowInv, PrimaryInv, Announced, is_response
<1>5. UNCHANGED <<child, held>> \/ Exit("primary", "error")
  BY DEF PrimitiveCompleted, store
<1>6. ChildEnds /\ HeldInv'
  BY <1>1, <1>5, HeldKept, HeldExit, PrimaryOperations DEF ChildEnds, Exit
<1> QED
  BY <1>4, <1>6 DEF PrimaryStep

\* The state of the row is prepared before anything is announced.
LEMMA PrepareStep ==
  ASSUME RowInv, PrepareResumeState \/ PrepareCleanState PROVE PrimaryStep
<1>1. /\ alive("primary") /\ UNCHANGED <<row, todo, selected, deferred, stdout>>
      /\ stage \in Early /\ stage' \in Early
  BY DEF PrepareResumeState, PrepareCleanState, primary_runs, controller, streams, unmoved,
         Early
<1>2. PrimaryInv' /\ (Announced => Announced')
  BY <1>1 DEF RowInv, PrimaryInv, Announced, Early
<1>3. \/ UNCHANGED child /\ (held' = held \/ HeldBy("setup"))
      \/ Exit("primary", "error")
  BY StepHeld, StepEnds DEF PrepareResumeState, PrepareCleanState, Start
<1>4. ChildEnds /\ HeldInv'
  BY <1>1, <1>3, HeldKept, HeldStep, HeldExit, PrimaryOperations DEF ChildEnds, Exit
<1> QED
  BY <1>2, <1>4 DEF PrimaryStep

\* The counters start anew when the store of the row is opened.
LEMMA OpenStep == ASSUME RowInv, OpenStore PROVE PrimaryStep
<1>1. /\ UNCHANGED <<row, stdout, child, held>>
      /\ stage \in Early /\ stage' = "open" /\ ~selected' /\ deferred' = None
  BY DEF OpenStore, Start, streams, unmoved, Early
<1>2. PrimaryInv' /\ ~Announced
  BY <1>1 DEF RowInv, PrimaryInv, Announced, Early
<1>3. HeldInv'
  BY <1>1, HeldKept
<1> QED
  BY <1>1, <1>2, <1>3 DEF PrimaryStep, ChildEnds

\* The production code runs.
LEMMA StoreStep ==
  ASSUME RowInv, StorePrimitive \/ AppendReturns PROVE PrimaryStep
<1>1. /\ alive("primary") /\ UNCHANGED <<row, stage, selected, deferred, stdout, child>>
      /\ stage = "open"
  BY DEF StorePrimitive, AppendReturns, primary_runs, controls, streams, unmoved
<1>2. s' = s
  BY <1>1 DEF s
<1>3. PrimaryInv' /\ (Announced => Announced')
  BY <1>1, <1>2 DEF RowInv, PrimaryInv, Announced, Early
<1>4. HeldBy("holder")
  BY StepHeld DEF StorePrimitive, AppendReturns, HeldBy
<1>5. HeldInv'
  BY <1>1, <1>4, HeldStep, PrimaryOperations
<1> QED
  BY <1>1, <1>3, <1>5 DEF PrimaryStep, ChildEnds

\* The store is open, or the primary gives up.
LEMMA OpenedStep ==
  ASSUME RowInv, StoreOpened \/ PrimaryFails PROVE PrimaryStep
<1>1. /\ alive("primary") /\ UNCHANGED <<row, selected, deferred, todo>>
      /\ stage = "open"
      /\ \/ UNCHANGED <<stage, stdout>>
         \/ stage' = "reading" /\ s.phase = "reopen-read"
  BY DEF StoreOpened, PrimaryFails, primary_runs, controller, streams, unmoved
<1>2. s' = s
  BY <1>1 DEF s
<1>3. PrimaryInv' /\ (Announced => Announced')
  BY <1>1, <1>2 DEF RowInv, PrimaryInv, Announced, Early
<1>4. \/ UNCHANGED child /\ (held' = held \/ HeldBy("holder"))
      \/ \E status \in {"ok", "error"} : Exit("primary", status)
  BY StepEnds DEF StoreOpened, PrimaryFails, store
<1>5. ChildEnds /\ HeldInv'
  BY <1>1, <1>4, HeldKept, HeldStep, HeldExit, PrimaryOperations DEF ChildEnds, Exit
<1> QED
  BY <1>3, <1>5 DEF PrimaryStep

\* After the append: the response, or the end.
LEMMA AfterStep == ASSUME RowInv, AfterAppend PROVE PrimaryStep
<1>1. /\ alive("primary") /\ UNCHANGED <<row, selected, deferred, todo, stdout>>
      /\ stage = "open"
      /\ stage' = stage \/ (stage' = "responding" /\ is_response(s))
  BY DEF AfterAppend, primary_runs, controller, streams, unmoved
<1>2. s' = s
  BY <1>1 DEF s
<1>3. PrimaryInv' /\ (Announced => Announced')
  BY <1>1, <1>2 DEF RowInv, PrimaryInv, Announced, Early
<1>4. \/ UNCHANGED <<child, held>>
      \/ \E status \in {"ok", "error"} : Exit("primary", status)
  BY DEF AfterAppend, store
<1>5. ChildEnds /\ HeldInv'
  BY <1>1, <1>4, HeldKept, HeldExit, PrimaryOperations DEF ChildEnds, Exit
<1> QED
  BY <1>3, <1>5 DEF PrimaryStep

\* The response boundary announces the deferred event or itself.
LEMMA ResponseStep ==
  ASSUME RowInv, ResponseBoundary \/ PrimaryReleased PROVE PrimaryStep
<1>1. /\ alive("primary") /\ UNCHANGED <<row, selected, todo>>
      /\ stage \in {"responding", "reading", "responded"}
      /\ \/ UNCHANGED <<stage, stdout, deferred>>
         \/ /\ stage = "responding" /\ stage' = "responded"
            /\ \/ deferred # None
               \/ deferred' = deferred /\ s.id # "append-durable-before-response-write"
            /\ deferred' = None \/ deferred' = deferred
  BY DEF ResponseBoundary, PrimaryReleased, Announce, primary_runs, controller, streams, unmoved
<1>2. s' = s
  BY <1>1 DEF s
<1>3. PrimaryInv' /\ (Announced => Announced')
  BY <1>1, <1>2 DEF RowInv, PrimaryInv, Announced, Early, is_response
<1>4. \/ UNCHANGED <<child, held>>
      \/ \E status \in {"ok", "error"} : Exit("primary", status)
  BY DEF ResponseBoundary, PrimaryReleased, store
<1>5. ChildEnds /\ HeldInv'
  BY <1>1, <1>4, HeldKept, HeldExit, PrimaryOperations DEF ChildEnds, Exit
<1> QED
  BY <1>3, <1>5 DEF PrimaryStep

\* Whatever the primary does, the parent is right about it.
LEMMA PrimaryRow ==
  ASSUME RowInv, RunPrimary
  PROVE  RowInv'
<1>1. PrimaryStep
  BY EventStep, PrepareStep, OpenStep, StoreStep, OpenedStep, AfterStep, ResponseStep
  DEF RunPrimary
<1>2. UNCHANGED <<row, parent, inspection>>
  BY PrimaryVerdict
<1> QED
  BY <1>1, <1>2, ParentSaw DEF RowInv, PrimaryStep

\* A step that leaves the primary and its records alone keeps what is known of
\* it.
LEMMA PrimaryKept ==
  ASSUME RowInv, UNCHANGED <<row, stage, selected, deferred, stdout>>,
         todo' \in {todo, <<>>}
  PROVE  PrimaryInv' /\ (Announced => Announced')
<1>1. s' = s
  BY DEF s
<1> QED
  BY <1>1 DEF RowInv, PrimaryInv, Announced, Early

\* A step of the contender.
LEMMA ContenderRow == ASSUME RowInv, RunContender PROVE RowInv'
<1>1. /\ alive("contender") /\ UNCHANGED <<row, parent, inspection>>
      /\ UNCHANGED <<stage, selected, deferred, stdout, todo>>
  BY DEF RunContender, others, controller, streams
<1>2. "contender" \in Child /\ "contender" \in operations("contender")
  BY DEF Child, operations
<1>3. \/ UNCHANGED child /\ (held' = held \/ HeldBy("contender"))
      \/ \E status \in {"ok", "error"} : Exit("contender", status)
  BY StepHeld DEF RunContender, Start
<1>4. ChildEnds /\ HeldInv'
  BY <1>1, <1>2, <1>3, HeldKept, HeldStep, HeldExit DEF ChildEnds, Exit
<1>5. PrimaryInv' /\ (Announced => Announced')
  BY <1>1, PrimaryKept
<1> QED
  BY <1>1, <1>4, <1>5, ParentSaw DEF RowInv

\* A step of the inspector.
LEMMA InspectorRow == ASSUME RowInv, RunInspector PROVE RowInv'
<1>1. alive("inspector") /\ UNCHANGED <<row, parent, stage, selected, deferred, stdout, todo>>
  BY DEF RunInspector, others, controller, streams
<1>2. "inspector" \in Child
      /\ \A i \in 1 .. 5 : inspections[i] \in operations("inspector")
  BY DEF Child, operations, inspections
<1>3. Len(inspections) = 5 /\ inspection \in 1 .. 6
  BY DEF inspections, RowInv
<1>4. \/ \E op \in operations("inspector") : UNCHANGED child /\ HeldBy(op)
      \/ \E status \in {"ok", "error"} : Exit("inspector", status)
  <2>1. CASE inspection > 5
    BY <1>3, <2>1 DEF RunInspector
  <2>2. CASE ~(inspection > 5)
    <3> DEFINE op == inspections[inspection]
    <3>1. op \in operations("inspector")
      BY <1>2, <1>3, <2>2
    <3>2. \/ BeginInspection(op)
          \/ (ReadImage(op) \/ Step(op)) /\ UNCHANGED child
          \/ EndInspection(op)
      BY <1>3, <2>2 DEF RunInspector
    <3> HIDE DEF op
    <3>3. CASE BeginInspection(op)
      BY <3>1, <3>3 DEF BeginInspection, store, Start, HeldBy
    <3>4. CASE (ReadImage(op) \/ Step(op)) /\ UNCHANGED child
      BY <3>1, <3>4, StepHeld, StepEnds DEF ReadImage
    <3>5. CASE EndInspection(op)
      BY <3>1, <3>5 DEF EndInspection, store, HeldBy
    <3> QED
      BY <3>2, <3>3, <3>4, <3>5
  <2> QED
    BY <2>1, <2>2
<1>5. ChildEnds /\ HeldInv'
  BY <1>1, <1>2, <1>4, HeldStep, HeldExit DEF ChildEnds, Exit
<1>6. PrimaryInv' /\ (Announced => Announced')
  BY <1>1, PrimaryKept
<1>7. inspection' \in 1 .. 6
  BY <1>3 DEF RunInspector, BeginInspection, EndInspection
<1> QED
  BY <1>1, <1>5, <1>6, <1>7, ParentSaw DEF RowInv

\* A child that dies and a store that reports an error leave the parent right;
\* a deadline ends the matrix.
LEMMA FaultRow == ASSUME RowInv, Faults, verdict' = None PROVE RowInv'
<1>1. ~Deadline
  BY NoneIsNoStatus DEF Deadline, Fail
<1>2. ASSUME NEW r \in Child, ChildDies(r)
      PROVE  RowInv'
  <2>1. /\ alive(r) /\ UNCHANGED <<row, parent, inspection>>
        /\ UNCHANGED <<stage, selected, deferred, stdout, todo>>
    BY <1>2 DEF ChildDies, controller, streams
  <2>2. ChildEnds /\ HeldInv'
    BY <1>2, <2>1, HeldExit DEF ChildDies, ChildEnds, Exit
  <2>3. PrimaryInv' /\ (Announced => Announced')
    BY <2>1, PrimaryKept
  <2> QED
    BY <2>1, <2>2, <2>3, ParentSaw DEF RowInv
<1>3. ASSUME NEW r \in Child, NEW p \in operations(r), StoreError(r, p)
      PROVE  RowInv'
  <2>1. /\ alive(r) /\ UNCHANGED <<row, parent, inspection, child>>
        /\ UNCHANGED <<stage, selected, deferred, stdout>>
        /\ todo' \in {todo, <<>>}
    BY <1>3 DEF StoreError, controls, streams
  <2>2. HeldBy(p)
    BY <1>3, StepEnds DEF StoreError, IoError
  <2>3. ChildEnds /\ HeldInv'
    BY <2>1, <2>2, HeldStep DEF ChildEnds
  <2>4. PrimaryInv' /\ (Announced => Announced')
    BY <2>1, PrimaryKept
  <2> QED
    BY <2>1, <2>3, <2>4, ParentSaw DEF RowInv
<1> QED
  BY <1>1, <1>2, <1>3 DEF Faults

\* The parent goes on with a row.
LEMMA ParentGoesOn ==
  ASSUME RowInv, UNCHANGED <<row, inspection, stage, selected, deferred, todo>>,
         stdout' = stdout \/ (stdout # <<>> /\ stdout' = Tail(stdout)),
         child' \in [Child -> {"unborn", "alive", "ok", "error", "sigkill"}],
         HeldInv', ParentInv'
  PROVE  RowInv'
<1>1. s' = s
  BY DEF s
<1>2. PrimaryInv'
  BY <1>1 DEF RowInv, PrimaryInv, Announced, Early
<1> QED
  BY <1>2 DEF RowInv

\* A child that is started holds nothing.
LEMMA HeldSpawn ==
  ASSUME RowInv, UNCHANGED held, \A r \in Child : alive(r) => alive(r)'
  PROVE  HeldInv'
BY DEF RowInv, HeldInv

\* A child that is killed releases its lock.
LEMMA HeldKill ==
  ASSUME RowInv, NEW r \in Child, NEW status, child' = [child EXCEPT ![r] = status],
         Vanish({r})
  PROVE  HeldInv'
BY HeldExit DEF Exit

\* The row, what it asks for and the stage of the primary stay as they are.
SameRow ==
  /\ UNCHANGED <<row, inspection, stage, selected, deferred, todo>>
  /\ s' = s /\ kills' = kills /\ is_concurrency(s)' = is_concurrency(s)
  /\ Announced' = Announced

LEMMA RowStays ==
  ASSUME UNCHANGED <<row, inspection, stage, selected, deferred, todo>>
  PROVE  SameRow
BY DEF SameRow, s, kills, is_concurrency, Announced

\* The three children.
LEMMA ThreeChildren == Child = {"primary", "contender", "inspector"}
BY DEF Child

\* The primary and the contender that waits for its gate are started.
LEMMA SpawnRow == ASSUME RowInv, SpawnChildren, verdict' = None PROVE RowInv'
<1>1. /\ parent = "spawn"
      /\ parent' = (IF s.normal_exit THEN "wait_exit" ELSE "wait_ready")
      /\ child' = [child EXCEPT !["primary"] = Started("primary"),
                                !["contender"] = IF prestarts_contender(s)
                                                 THEN Started("contender") ELSE @]
      /\ UNCHANGED <<store, untouched>>
  BY NoneIsNoStatus DEF SpawnChildren, Proceed, Fail
<1>2. SameRow /\ UNCHANGED <<stdout, held>>
  BY <1>1, RowStays DEF untouched, controller, streams, store
<1>3. \A r \in Child : Started(r) \in {"alive", "error"} /\ child[r] = "unborn"
  BY <1>1 DEF Started, RowInv, ParentInv, Child
<1>4. /\ child' \in [Child -> {"unborn", "alive", "ok", "error", "sigkill"}]
      /\ child'["inspector"] = "unborn"
      /\ ~prestarts_contender(s) => child'["contender"] = "unborn"
  BY <1>1, <1>3, ThreeChildren DEF RowInv
<1>5. HeldInv'
  BY <1>2, <1>3, HeldSpawn DEF alive
<1>6. s.normal_exit => ~kills /\ ~is_concurrency(s)
  BY RowKind DEF RowInv
<1>7. ParentInv'
  BY <1>1, <1>2, <1>4, <1>6 DEF ParentInv, SameRow, prestarts_contender
<1> QED
  BY <1>2, <1>4, <1>5, <1>7, ParentGoesOn DEF SameRow

\* The record the parent reads was announced.
LEMMA ReadyRow == ASSUME RowInv, ReadReady, verdict' = None PROVE RowInv'
<1>1. /\ parent = "wait_ready" /\ parent' = "at_cut"
      /\ stdout # <<>> /\ stdout' = Tail(stdout)
      /\ UNCHANGED <<store, child, row, stage, controller, inspection>>
  BY NoneIsNoStatus DEF ReadReady, Proceed, Fail
<1>2. SameRow /\ UNCHANGED held
  BY <1>1, RowStays DEF controller, store
<1>3. HeldInv' /\ Announced
  BY <1>1, <1>2, HeldKept DEF RowInv, PrimaryInv
<1>4. ParentInv'
  BY <1>1, <1>2, <1>3 DEF RowInv, ParentInv, SameRow
<1> QED
  BY <1>1, <1>2, <1>3, <1>4, ParentGoesOn DEF SameRow, RowInv

\* The primary is killed.
PrimaryKilled ==
  /\ SameRow /\ UNCHANGED stdout
  /\ child' \in [Child -> {"unborn", "alive", "ok", "error", "sigkill"}]
  /\ child'["primary"] = "sigkill"
  /\ child'["contender"] = child["contender"]
  /\ child'["inspector"] = child["inspector"]

LEMMA KillRow ==
  ASSUME RowInv, NEW to, KillPrimary(to), verdict' = None
  PROVE  parent' = to /\ PrimaryKilled /\ HeldInv'
<1>1. /\ parent' = to /\ child' = [child EXCEPT !["primary"] = "sigkill"]
      /\ Vanish({"primary"}) /\ UNCHANGED untouched
  BY NoneIsNoStatus DEF KillPrimary, Proceed, Fail
<1>2. SameRow /\ UNCHANGED stdout
  BY <1>1, RowStays DEF untouched, controller, streams
<1>3. HeldInv'
  BY <1>1, HeldKill, ThreeChildren
<1> QED
  BY <1>1, <1>2, <1>3, ThreeChildren DEF RowInv, PrimaryKilled

\* The stopped primary is killed, or the contender is let in first.
LEMMA CutRow == ASSUME RowInv, AtCut, verdict' = None PROVE RowInv'
<1>1. parent = "at_cut" /\ Announced /\ child["inspector"] = "unborn"
  BY DEF AtCut, RowInv, ParentInv
<1>2. CASE /\ prestarts_contender(s) /\ parent' = "wait_contender"
           /\ UNCHANGED <<child, store, row, stage, controller, inspection, streams>>
  <2>1. SameRow /\ UNCHANGED <<held, stdout>>
    BY <1>2, RowStays DEF controller, store, streams
  <2>2. HeldInv'
    BY <1>2, <2>1, HeldKept
  <2>3. ParentInv'
    BY <1>1, <1>2, <2>1 DEF RowInv, ParentInv, SameRow, prestarts_contender
  <2> QED
    BY <1>2, <2>1, <2>2, <2>3, ParentGoesOn DEF SameRow, RowInv
<1>3. CASE s.termination = "sigkill-then-fresh-writer" /\ KillPrimary("fresh_contender")
  <2>1. parent' = "fresh_contender" /\ PrimaryKilled /\ HeldInv'
    BY <1>3, KillRow
  <2>2. ParentInv'
    BY <1>1, <1>3, <2>1 DEF RowInv, ParentInv, SameRow, PrimaryKilled
  <2> QED
    BY <2>1, <2>2, ParentGoesOn DEF SameRow, PrimaryKilled
<1>4. CASE /\ s.termination \in {"sigkill", "sigkill-before-ack", "sigkill-before-ack-flush",
                                 "sigkill-after-ack-flush"}
           /\ KillPrimary("drain")
  <2>1. kills /\ ~is_concurrency(s)
    BY <1>4, RowKind DEF RowInv
  <2>2. parent' = "drain" /\ PrimaryKilled /\ HeldInv'
    BY <1>4, KillRow
  <2>3. ParentInv'
    BY <1>1, <2>1, <2>2 DEF RowInv, ParentInv, SameRow, PrimaryKilled
  <2> QED
    BY <2>2, <2>3, ParentGoesOn DEF SameRow, PrimaryKilled
<1> QED
  BY <1>2, <1>3, <1>4 DEF AtCut

\* A contender is started on what the killed primary left.
LEMMA FreshRow == ASSUME RowInv, FreshContender PROVE RowInv'
<1>1. /\ parent = "fresh_contender" /\ parent' = "wait_contender"
      /\ child' = [child EXCEPT !["contender"] = Started("contender")]
      /\ UNCHANGED <<store, row, stage, controller, inspection, streams>>
  BY DEF FreshContender
<1>2. SameRow /\ UNCHANGED <<stdout, held>>
  BY <1>1, RowStays DEF controller, streams, store
<1>3. /\ Started("contender") \in {"alive", "error"} /\ child["contender"] = "unborn"
      /\ is_concurrency(s)
  BY <1>1, RowKind DEF Started, RowInv, ParentInv
<1>4. /\ child' \in [Child -> {"unborn", "alive", "ok", "error", "sigkill"}]
      /\ child'["primary"] = child["primary"] /\ child'["inspector"] = child["inspector"]
      /\ \A r \in Child : alive(r) => alive(r)'
  BY <1>1, <1>3, ThreeChildren DEF RowInv, alive
<1>5. HeldInv'
  BY <1>2, <1>4, HeldSpawn
<1>6. ParentInv'
  BY <1>1, <1>2, <1>3, <1>4 DEF RowInv, ParentInv, SameRow
<1> QED
  BY <1>2, <1>4, <1>5, <1>6, ParentGoesOn DEF SameRow

\* The contender did what it should.
LEMMA ContendedRow == ASSUME RowInv, ContenderEnds, verdict' = None PROVE RowInv'
<1>1. /\ parent = "wait_contender" /\ child["contender"] = "ok"
      /\ parent' = (IF s.termination = "sigkill-then-fresh-writer" THEN "drain"
                    ELSE "end_primary")
      /\ UNCHANGED <<child, store, untouched>>
  BY NoneIsNoStatus DEF ContenderEnds, Proceed, Fail
<1>2. SameRow /\ UNCHANGED <<stdout, held>>
  BY <1>1, RowStays DEF untouched, controller, streams, store
<1>3. HeldInv'
  BY <1>1, <1>2, HeldKept
<1>4. s.termination = "sigkill-then-fresh-writer" => kills
  BY RowKind DEF RowInv
<1>5. ParentInv'
  BY <1>1, <1>2, <1>4 DEF RowInv, ParentInv, SameRow
<1> QED
  BY <1>1, <1>2, <1>3, <1>5, ParentGoesOn DEF SameRow, RowInv

\* The primary is killed where it stopped, or released to finish.
LEMMA EndRow == ASSUME RowInv, EndPrimary, verdict' = None PROVE RowInv'
<1>1. /\ parent = "end_primary" /\ Announced /\ child["inspector"] = "unborn"
      /\ child["contender"] = "ok" /\ is_concurrency(s)
      /\ s.termination # "sigkill-then-fresh-writer"
  BY DEF EndPrimary, RowInv, ParentInv
<1>2. CASE s.termination = "sigkill-after-contender"
  <2>1. kills
    BY <1>2, RowKind DEF RowInv
  <2>2. parent' = "drain" /\ PrimaryKilled /\ HeldInv'
    BY <1>2, KillRow DEF EndPrimary
  <2>3. ParentInv'
    BY <1>1, <2>1, <2>2 DEF RowInv, ParentInv, SameRow, PrimaryKilled
  <2> QED
    BY <2>2, <2>3, ParentGoesOn DEF SameRow, PrimaryKilled
<1>3. CASE s.termination # "sigkill-after-contender"
  <2>1. ~kills
    BY <1>1, <1>3, RowKind DEF RowInv
  <2>2. /\ parent' = "wait_exit"
        /\ UNCHANGED <<child, store, row, stage, selected, deferred, todo, inspection, streams>>
    BY <1>3 DEF EndPrimary
  <2>3. SameRow /\ UNCHANGED <<stdout, held>>
    BY <2>2, RowStays DEF streams, store
  <2>4. HeldInv'
    BY <2>2, <2>3, HeldKept
  <2>5. ParentInv'
    BY <1>1, <2>1, <2>2, <2>3 DEF RowInv, ParentInv, SameRow
  <2> QED
    BY <2>2, <2>3, <2>4, <2>5, ParentGoesOn DEF SameRow, RowInv
<1> QED
  BY <1>2, <1>3

\* The primary ended well by itself.
LEMMA EndedRow == ASSUME RowInv, PrimaryEnds, verdict' = None PROVE RowInv'
<1>1. /\ parent = "wait_exit" /\ child["primary"] = "ok" /\ parent' = "drain"
      /\ UNCHANGED <<child, store, untouched>>
  BY NoneIsNoStatus DEF PrimaryEnds, Proceed, Fail
<1>2. SameRow /\ UNCHANGED <<stdout, held>>
  BY <1>1, RowStays DEF untouched, controller, streams, store
<1>3. HeldInv'
  BY <1>1, <1>2, HeldKept
<1>4. ParentInv'
  BY <1>1, <1>2 DEF RowInv, ParentInv, SameRow
<1> QED
  BY <1>1, <1>2, <1>3, <1>4, ParentGoesOn DEF SameRow, RowInv

\* The inspector is started.
LEMMA InspectRow == ASSUME RowInv, StartInspector, verdict' = None PROVE RowInv'
<1>1. /\ parent = "drain" /\ parent' = "inspecting"
      /\ child' = [child EXCEPT !["inspector"] = Started("inspector")]
      /\ UNCHANGED <<store, row, stage, controller, inspection, streams>>
  BY NoneIsNoStatus DEF StartInspector, Proceed, Fail
<1>2. SameRow /\ UNCHANGED <<stdout, held>>
  BY <1>1, RowStays DEF controller, streams, store
<1>3. Started("inspector") \in {"alive", "error"} /\ child["inspector"] = "unborn"
  BY <1>1 DEF Started, RowInv, ParentInv
<1>4. /\ child' \in [Child -> {"unborn", "alive", "ok", "error", "sigkill"}]
      /\ child'["primary"] = child["primary"] /\ child'["contender"] = child["contender"]
      /\ \A r \in Child : alive(r) => alive(r)'
  BY <1>1, <1>3, ThreeChildren DEF RowInv, alive
<1>5. HeldInv'
  BY <1>2, <1>4, HeldSpawn
<1>6. ParentInv'
  BY <1>1, <1>2, <1>4 DEF RowInv, ParentInv, SameRow
<1> QED
  BY <1>2, <1>4, <1>5, <1>6, ParentGoesOn DEF SameRow

\* The next row starts with new processes in a new directory.
LEMMA NextRow == ASSUME RowInv, InspectorEnds, verdict' = None PROVE RowInv'
<1>1. /\ row < Len(required_matrix) /\ row' = row + 1 /\ parent' = "spawn"
      /\ child' = [r \in Child |-> "unborn"]
      /\ stage' = "begin" /\ todo' = <<>> /\ ~selected' /\ deferred' = None
      /\ stdout' = <<>> /\ inspection' = 1 /\ held' = [p \in Proc |-> "none"]
  BY NoneIsNoStatus DEF InspectorEnds, Fail
<1>2. row' \in 1 .. Len(required_matrix)
  BY <1>1, RowsEndInOneWay DEF RowInv
<1>3. PrimaryInv'
  BY <1>1 DEF PrimaryInv, Early
<1>4. ParentInv'
  BY <1>1, ThreeChildren DEF ParentInv
<1>5. HeldInv'
  BY <1>1 DEF HeldInv
<1> QED
  BY <1>1, <1>2, <1>3, <1>4, <1>5 DEF RowInv

\* Every step of the matrix before its verdict leaves the parent right.
LEMMA MatrixRow ==
  ASSUME PassInv, HarnessNext
  PROVE  PassInv'
<1> SUFFICES ASSUME verdict' = None PROVE RowInv'
  BY DEF PassInv
<1>1. RowInv
  BY MatrixVerdict DEF PassInv
<1>2. CASE Parent
  BY <1>1, <1>2, SpawnRow, ReadyRow, CutRow, FreshRow, ContendedRow, EndRow, EndedRow,
     InspectRow, NextRow
  DEF Parent
<1>3. CASE Children
  BY <1>1, <1>3, PrimaryRow, ContenderRow, InspectorRow DEF Children
<1>4. CASE Faults
  BY <1>1, <1>4, FaultRow
<1> QED
  BY <1>2, <1>3, <1>4 DEF HarnessNext

\* The invariant holds at first.
LEMMA InitRow == CheckInit => PassInv
<1> SUFFICES ASSUME CheckInit PROVE RowInv
  BY DEF PassInv
<1>1. /\ row = 1 /\ inspection = 1 /\ parent = "spawn" /\ child = [r \in Child |-> "unborn"]
      /\ stage = "begin" /\ todo = <<>> /\ ~selected /\ deferred = None /\ stdout = <<>>
      /\ held = [p \in Proc |-> "none"]
  BY DEF CheckInit, HarnessInit, Init
<1>2. row \in 1 .. Len(required_matrix)
  BY <1>1, RowsEndInOneWay
<1>3. PrimaryInv
  BY <1>1 DEF PrimaryInv, Early
<1>4. ParentInv
  BY <1>1, ThreeChildren DEF ParentInv
<1>5. HeldInv
  BY <1>1 DEF HeldInv
<1> QED
  BY <1>1, <1>2, <1>3, <1>4, <1>5 DEF RowInv

\* A step that does not touch the harness.
LEMMA HarnessKept == ASSUME PassInv, UNCHANGED hvars PROVE PassInv'
<1>1. /\ UNCHANGED <<verdict, row, inspection, parent, child, stage, todo, selected, deferred>>
      /\ UNCHANGED <<stdout, held>>
  BY DEF hvars, harness, controller, streams, vars
<1>2. SameRow
  BY <1>1, RowStays
<1> SUFFICES ASSUME RowInv PROVE RowInv'
  BY <1>1 DEF PassInv
<1>3. HeldInv'
  BY <1>1, HeldKept
<1>4. ParentInv'
  BY <1>1, <1>2 DEF RowInv, ParentInv, SameRow
<1> QED
  BY <1>1, <1>2, <1>3, <1>4, ParentGoesOn DEF RowInv, SameRow

\* A step of the check is a step of the matrix, ends it, or does not touch it.
LEMMA HarnessSteps ==
  ASSUME [CheckNext]_cvars
  PROVE  HarnessNext \/ UNCHANGED hvars \/ (verdict = None /\ verdict' = "killed" /\ row' = row)
<1>1. CASE UNCHANGED cvars
  BY <1>1 DEF cvars, hvars
<1>2. CASE Audit \/ CopyCandidate \/ BeginMutation \/ RunCommand \/ ApplyMutation \/ Restore
  BY <1>2 DEF Audit, CopyCandidate, BeginMutation, RunCommand, ApplyMutation, Restore
<1>3. CASE Judge \/ EndMutation \/ MatrixExits \/ Conclude
  BY <1>3 DEF Judge, EndMutation, MatrixExits, Conclude
<1>4. CASE KillCommandTree
  BY <1>4 DEF KillCommandTree
<1>5. CASE FocusedTestEnds \/ MatrixNotExecuted \/ TimePasses
  BY <1>5 DEF FocusedTestEnds, MatrixNotExecuted, TimePasses
<1>6. CASE Matrix
  BY <1>6 DEF Matrix
<1> QED
  BY <1>1, <1>2, <1>3, <1>4, <1>5, <1>6 DEF CheckNext, Run

\* Every step of the check keeps the invariant.
LEMMA NextRowKept == PassInv /\ [CheckNext]_cvars => PassInv'
BY HarnessSteps, HarnessKept, MatrixRow, NoneIsNoStatus DEF PassInv

\* Until its verdict, the parent of the matrix is right about what its children
\* announced and how they ended, and only a child that is alive holds the lock.
THEOREM RowInvariant == CheckSpec => []PassInv
BY InitRow, NextRowKept, PTL DEF CheckSpec

\* Only the end of an inspector passes a row.
LEMMA PassStep ==
  ASSUME HarnessNext, row' # row \/ verdict' = "pass"
  PROVE  InspectorEnds /\ child["inspector"] = "ok"
<1>1. verdict = None /\ None # "pass"
  BY MatrixVerdict, NoneIsNoStatus
<1>2. CASE Children
  BY <1>1, <1>2, PrimaryVerdict DEF Children, RunContender, RunInspector, others
<1>3. CASE Faults
  BY <1>1, <1>3 DEF Faults, Deadline, ChildDies, StoreError, Fail, untouched
<1>4. CASE Parent /\ ~InspectorEnds
  <2> USE DEF Proceed, Fail, untouched
  <2>1. CASE SpawnChildren
    BY <1>1, <2>1 DEF SpawnChildren
  <2>2. CASE ReadReady
    BY <1>1, <2>2 DEF ReadReady
  <2>3. CASE AtCut
    BY <1>1, <2>3 DEF AtCut, KillPrimary
  <2>4. CASE FreshContender
    BY <1>1, <2>4 DEF FreshContender
  <2>5. CASE ContenderEnds
    BY <1>1, <2>5 DEF ContenderEnds
  <2>6. CASE EndPrimary
    BY <1>1, <2>6 DEF EndPrimary, KillPrimary
  <2>7. CASE PrimaryEnds
    BY <1>1, <2>7 DEF PrimaryEnds
  <2>8. CASE StartInspector
    BY <1>1, <2>8 DEF StartInspector
  <2> QED
    BY <1>4, <2>1, <2>2, <2>3, <2>4, <2>5, <2>6, <2>7, <2>8 DEF Parent
<1>5. CASE InspectorEnds
  BY <1>1, <1>5 DEF InspectorEnds, Fail, untouched
<1> QED
  BY <1>2, <1>3, <1>4, <1>5 DEF HarnessNext

\* PassIsEvidence, for every set of store operations, every content of the
\* signals and every record length: a row passes only when its primary ended as
\* the row says, at the event it names, its contender got its answer, and no
\* process that was killed still holds the store lock.
THEOREM RowsPassOnEvidence == CheckSpec => PassIsEvidence
<1> DEFINE Evidence ==
      /\ child["primary"] = (IF kills THEN "sigkill" ELSE "ok")
      /\ is_concurrency(s) => child["contender"] = "ok"
      /\ s.normal_exit \/ selected \/ s.phase \in {"response", "reopen-read"}
      /\ kills => selected \/ stage = "responded"
      /\ \A p \in Proc : held[p] = "none"
<1>1. ASSUME PassInv, [CheckNext]_cvars
      PROVE  [(row' # row \/ verdict' = "pass") => Evidence]_hvars
  <2> SUFFICES ASSUME ~UNCHANGED hvars, row' # row \/ verdict' = "pass"
               PROVE  Evidence
    OBVIOUS
  <2>1. HarnessNext
    BY <1>1, HarnessSteps
  <2>2. verdict = None /\ parent = "inspecting" /\ child["inspector"] = "ok"
    BY <2>1, PassStep DEF InspectorEnds, running
  <2>3. RowInv
    BY <1>1, <2>2 DEF PassInv
  <2>4. /\ child["primary"] = (IF kills THEN "sigkill" ELSE "ok")
        /\ is_concurrency(s) => child["contender"] = "ok"
        /\ s.normal_exit \/ Announced
        /\ child["contender"] # "unborn" => is_concurrency(s)
    BY <2>2, <2>3 DEF RowInv, ParentInv
  <2>5. s.normal_exit \/ selected \/ s.phase \in {"response", "reopen-read"}
    BY <2>3, <2>4 DEF RowInv, PrimaryInv, Announced
  <2>6. kills => selected \/ stage = "responded"
    BY <2>3, <2>4, RowKind DEF RowInv, PrimaryInv, Announced
  <2>7. \A r \in Child : ~alive(r)
    BY <2>2, <2>4, ThreeChildren DEF alive
  <2>8. \A p \in Proc : held[p] = "none"
    BY <2>3, <2>7 DEF RowInv, HeldInv
  <2> QED
    BY <2>4, <2>5, <2>6, <2>8
<1> QED
  BY <1>1, RowInvariant, PTL DEF CheckSpec, PassIsEvidence
=============================================================================
