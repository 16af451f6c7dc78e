------------------------ MODULE ControlJournalProofs ------------------------
(***************************************************************************)
(* ControlJournal keeps its promises for every set of requests, every set  *)
(* of signals and every bound.                                             *)
(***************************************************************************)
EXTENDS ControlJournal, TLAPS

\* What ties an entry to the request it came from; with it the three promises
\* are inductive.
EntriesHaveRequests ==
  /\ \A p \in Proc : answer[p] # None => request[p] # None
  /\ \A i \in DOMAIN log :
       /\ request[log[i].at] # None /\ request[log[i].at].op = "submit"
       /\ answer[log[i].at] \in {"accepted", "JOURNAL_OUTCOME_UNKNOWN", "lost"}

IInv == TypeOK /\ EntriesHaveRequests /\ OneEntryPerEvent /\ AnswersAreFinal
          /\ DuplicateIsAccepted

\* A rejection of check_expected is none of the decisions.
LEMMA MismatchCodes ==
  ASSUME NEW s, NEW e
  PROVE check_expected(s, e) \in {"OK", "WORKFLOW_MISMATCH", "ASSIGNMENT_MISMATCH",
          "ATTEMPT_MISMATCH", "ROLE_MISMATCH", "REVISION_MISMATCH",
          "CANDIDATE_DIGEST_MISMATCH"}
BY DEF check_expected

\* What decide can return.
LEMMA DecisionCodes ==
  ASSUME NEW h, NEW s, NEW e
  PROVE decide(h, s, e) \in {"ACCEPTED", "DUPLICATE", "EVENT_CONFLICT",
          "WORKFLOW_MISMATCH", "ASSIGNMENT_MISMATCH", "ATTEMPT_MISMATCH",
          "ROLE_MISMATCH", "REVISION_MISMATCH", "CANDIDATE_DIGEST_MISMATCH"}
BY MismatchCodes DEF decide

\* decide accepts only an event id the history does not hold.
LEMMA AcceptedIsNew ==
  ASSUME NEW h, NEW s, NEW e, decide(h, s, e) = "ACCEPTED"
  PROVE \A i \in DOMAIN h : h[i].event_id # s.event_id
BY MismatchCodes DEF decide, accepted

\* The signals of a longer log.
LEMMA HistoryOfAppend ==
  ASSUME NEW l \in Seq(Entry), NEW x \in Entry
  PROVE /\ Append(l, x) \in Seq(Entry)
        /\ DOMAIN Append(l, x) = 1 .. Len(l) + 1
        /\ DOMAIN l = 1 .. Len(l)
        /\ DOMAIN history(Append(l, x)) = 1 .. Len(l) + 1
        /\ DOMAIN history(l) = 1 .. Len(l)
        /\ \A i \in 1 .. Len(l) : history(Append(l, x))[i] = history(l)[i]
        /\ history(Append(l, x))[Len(l) + 1] = SignalParts[x.signal]
        /\ \A i \in 1 .. Len(l) : Append(l, x)[i] = l[i]
        /\ Append(l, x)[Len(l) + 1] = x
BY DEF history

\* Every entry was written for some request.
LEMMA WriterIsProc ==
  ASSUME TypeOK
  PROVE \A i \in DOMAIN log : log[i].at \in Proc
<1> SUFFICES ASSUME NEW i \in DOMAIN log PROVE log[i].at \in Proc
  OBVIOUS
<1>1. log[i] \in Entry
  BY DEF TypeOK
<1> QED
  BY <1>1 DEF Entry

-----------------------------------------------------------------------------
\* The effect a step can have on the log: none, or the entry of p with an
\* event id that is new.
LEMMA AppendKeeps ==
  ASSUME TypeOK, OneEntryPerEvent, NEW p \in Proc, request[p] \in Command,
         acceptable(p), log' = Append(log, entry(p))
  PROVE /\ log' \in Seq(Entry)
        /\ replay_ok(history(log'))
        /\ DOMAIN log = 1 .. Len(log) /\ DOMAIN log' = 1 .. Len(log) + 1
        /\ \A i \in 1 .. Len(log) : log'[i] = log[i]
        /\ log'[Len(log) + 1].at = p
        /\ \A s : reconcile(history(log), s) = "accepted"
                  => reconcile(history(log'), s) = "accepted"
<1>1. entry(p) \in Entry
  BY DEF TypeOK, entry, Entry, Command
<1>2. log \in Seq(Entry)
  BY DEF TypeOK
<1> DEFINE h == history(log)
           g == history(Append(log, entry(p)))
<1>3. /\ DOMAIN g = 1 .. Len(log) + 1
      /\ DOMAIN h = 1 .. Len(log)
      /\ \A i \in 1 .. Len(log) : g[i] = h[i]
      /\ g[Len(log) + 1] = SignalParts[entry(p).signal]
  BY <1>1, <1>2, HistoryOfAppend
<1>4. \A i \in 1 .. Len(log) : h[i].event_id # signal(p).event_id
  BY <1>3, AcceptedIsNew DEF acceptable
<1>5. SignalParts[entry(p).signal] = signal(p)
  BY DEF entry, signal
<1>6. Len(log) \in Nat
  BY <1>2
<1>7. replay_ok(g)
  <2> SUFFICES ASSUME NEW i \in 1 .. Len(log) + 1, NEW j \in 1 .. Len(log) + 1,
                      g[i].event_id = g[j].event_id
               PROVE i = j
    BY <1>3 DEF replay_ok
  <2>1. CASE i \in 1 .. Len(log) /\ j \in 1 .. Len(log)
    BY <2>1, <1>3 DEF OneEntryPerEvent, replay_ok
  <2>2. CASE i = Len(log) + 1 /\ j \in 1 .. Len(log)
    BY <2>2, <1>3, <1>4, <1>5
  <2>3. CASE j = Len(log) + 1 /\ i \in 1 .. Len(log)
    BY <2>3, <1>3, <1>4, <1>5
  <2> QED
    BY <2>1, <2>2, <2>3, <1>6
<1>8. ASSUME NEW s, reconcile(h, s) = "accepted"
      PROVE reconcile(g, s) = "accepted"
  <2>1. s \in accepted(h, s.event_id)
    BY <1>8 DEF reconcile
  <2>2. PICK i \in DOMAIN h : h[i] = s /\ h[i].event_id = s.event_id
    BY <2>1 DEF accepted
  <2>3. i \in DOMAIN g /\ g[i] = s
    BY <2>2, <1>3, <1>6
  <2>4. s \in accepted(g, s.event_id)
    BY <2>2, <2>3 DEF accepted
  <2> QED
    BY <2>4 DEF reconcile
<1> QED
  <2>1. entry(p).at = p
    BY DEF entry
  <2> QED
    BY <1>1, <1>2, <1>7, <1>8, <2>1, HistoryOfAppend

\* A step that leaves the log alone and answers one pending request, with a
\* code that claims no entry, keeps the invariant.
LEMMA AnswerKeeps ==
  ASSUME NoneIsNoValue, IInv, NEW p \in Proc, NEW code \in Code, pending(p),
         answer' = [answer EXCEPT ![p] = code], UNCHANGED <<log, request>>,
         code = "accepted" => request[p].op = "reconcile",
         code = "DUPLICATE" => reconcile(history(log), signal(p)) = "accepted"
  PROVE IInv'
<1>1. TypeOK'
  BY DEF IInv, TypeOK
<1>2. \A i \in DOMAIN log : log[i].at # p
  BY DEF NoneIsNoValue, IInv, TypeOK, EntriesHaveRequests, pending, Code
<1>3. EntriesHaveRequests'
  BY <1>2 DEF IInv, TypeOK, EntriesHaveRequests, pending
<1>4. OneEntryPerEvent'
  BY DEF IInv, OneEntryPerEvent, replay_ok, history
<1>5. AnswersAreFinal'
  BY <1>2 DEF IInv, TypeOK, AnswersAreFinal, pending, Command
<1>6. DuplicateIsAccepted'
  <2> SUFFICES ASSUME NEW q \in Proc, answer'[q] = "DUPLICATE"
               PROVE reconcile(history(log), signal(q)) = "accepted"
    BY DEF DuplicateIsAccepted, signal, history
  <2>1. CASE q = p
    BY <2>1 DEF IInv, TypeOK
  <2>2. CASE q # p
    BY <2>2 DEF IInv, TypeOK, DuplicateIsAccepted
  <2> QED
    BY <2>1, <2>2
<1> QED
  BY <1>1, <1>3, <1>4, <1>5, <1>6 DEF IInv

\* The log grows by the entry of p, whose answer is or becomes one that an
\* entry is consistent with.
LEMMA EntryKeeps ==
  ASSUME IInv, NEW p \in Proc, request[p] # None, request[p].op = "submit",
         acceptable(p), log' = Append(log, entry(p)), UNCHANGED request,
         answer' \in [Proc -> Code \cup {None}],
         answer'[p] \in {"accepted", "JOURNAL_OUTCOME_UNKNOWN", "lost"},
         \A q \in Proc \ {p} : answer'[q] = answer[q]
  PROVE IInv'
<1>1. request[p] \in Command
  BY DEF IInv, TypeOK
<1>2. /\ log' \in Seq(Entry)
      /\ replay_ok(history(log'))
      /\ DOMAIN log = 1 .. Len(log) /\ DOMAIN log' = 1 .. Len(log) + 1
      /\ \A i \in 1 .. Len(log) : log'[i] = log[i]
      /\ log'[Len(log) + 1].at = p
      /\ \A s : reconcile(history(log), s) = "accepted"
                => reconcile(history(log'), s) = "accepted"
  BY <1>1, AppendKeeps DEF IInv
<1>3. Len(log) \in Nat
  BY DEF IInv, TypeOK
<1>4. TypeOK'
  BY <1>2 DEF IInv, TypeOK
<1>5. \A i \in DOMAIN log' : i \in DOMAIN log \/ i = Len(log) + 1
  BY <1>2, <1>3
<1>6. EntriesHaveRequests'
  <2>1. \A i \in DOMAIN log : log[i].at \in Proc
    BY WriterIsProc DEF IInv
  <2> QED
    BY <1>2, <1>5, <2>1 DEF IInv, TypeOK, EntriesHaveRequests
<1>7. OneEntryPerEvent'
  BY <1>2 DEF OneEntryPerEvent, replay_ok, history
<1>8. AnswersAreFinal'
  <2> SUFFICES ASSUME NEW q \in Proc, request[q] # None, request[q].op = "submit"
               PROVE /\ answer'[q] = "accepted" => \E i \in DOMAIN log' : log'[i].at = q
                     /\ (\E i \in DOMAIN log' : log'[i].at = q)
                          => answer'[q] \in {"accepted", "JOURNAL_OUTCOME_UNKNOWN", "lost"}
    BY DEF AnswersAreFinal
  <2>1. CASE q = p
    BY <2>1, <1>2, <1>3
  <2>2. CASE q # p
    BY <2>2, <1>2, <1>3, <1>5 DEF IInv, AnswersAreFinal
  <2> QED
    BY <2>1, <2>2
<1>9. DuplicateIsAccepted'
  <2> SUFFICES ASSUME NEW q \in Proc, answer'[q] = "DUPLICATE"
               PROVE reconcile(history(log'), signal(q)) = "accepted"
    BY DEF DuplicateIsAccepted, signal, history
  <2>1. answer[q] = "DUPLICATE"
    OBVIOUS
  <2> QED
    BY <2>1, <1>2 DEF IInv, DuplicateIsAccepted
<1> QED
  BY <1>4, <1>6, <1>7, <1>8, <1>9 DEF IInv

-----------------------------------------------------------------------------
\* The initial state.
LEMMA InitIInv == ASSUME NoneIsNoValue PROVE Init => IInv
<1> SUFFICES ASSUME Init PROVE IInv
  OBVIOUS
<1>1. log = <<>> /\ DOMAIN log = {}
  BY DEF Init
<1>2. TypeOK
  BY DEF Init, TypeOK
<1>3. OneEntryPerEvent
  BY <1>1 DEF OneEntryPerEvent, replay_ok, history
<1>4. \A p \in Proc : answer[p] = None /\ request[p] = None
  BY DEF Init
<1>5. None # "DUPLICATE"
  BY DEF NoneIsNoValue, Code
<1> QED
  BY <1>1, <1>2, <1>3, <1>4, <1>5
  DEF IInv, EntriesHaveRequests, AnswersAreFinal, DuplicateIsAccepted

\* One step per action; log, request and answer change as the action says.
LEMMA NextIInv == ASSUME NoneIsNoValue PROVE IInv /\ [Next]_vars => IInv'
<1> SUFFICES ASSUME IInv, [Next]_vars PROVE IInv'
  OBVIOUS
<1>1. ASSUME NEW p \in Proc, NEW c \in Command, Begin(p, c) PROVE IInv'
  <2>1. answer[p] = None
    BY <1>1 DEF Begin, IInv, EntriesHaveRequests
  <2>2. \A i \in DOMAIN log : log[i].at # p
    BY <1>1 DEF Begin, IInv, EntriesHaveRequests
  <2>3. TypeOK'
    BY <1>1 DEF Begin, IInv, TypeOK
  <2>4. c # None
    BY DEF NoneIsNoValue
  <2>5. EntriesHaveRequests'
    BY <1>1, <2>1, <2>2, <2>4 DEF Begin, IInv, TypeOK, EntriesHaveRequests
  <2>6. OneEntryPerEvent'
    BY <1>1 DEF Begin, IInv, OneEntryPerEvent, replay_ok, history
  <2>7. answer[p] # "accepted" /\ answer[p] # "DUPLICATE"
    BY <2>1 DEF NoneIsNoValue, Code
  <2>8. AnswersAreFinal'
    BY <1>1, <2>2, <2>7 DEF Begin, IInv, TypeOK, AnswersAreFinal
  <2>9. DuplicateIsAccepted'
    <3> SUFFICES ASSUME NEW q \in Proc, answer[q] = "DUPLICATE"
                 PROVE reconcile(history(log), SignalParts[request'[q].signal]) = "accepted"
      BY <1>1 DEF Begin, DuplicateIsAccepted, signal, history
    <3>1. request'[q] = request[q]
      BY <1>1, <2>7 DEF Begin, IInv, TypeOK
    <3> QED
      BY <3>1 DEF IInv, DuplicateIsAccepted, signal
  <2> QED
    BY <2>3, <2>5, <2>6, <2>8, <2>9 DEF IInv
<1>2. ASSUME NEW p \in Proc, Accept(p) PROVE IInv'
  <2>1. answer' \in [Proc -> Code \cup {None}]
    BY <1>2 DEF Accept, IInv, TypeOK, Code
  <2> QED
    BY <1>2, <2>1, EntryKeeps DEF Accept, pending, IInv, TypeOK
<1>3. ASSUME NEW p \in Proc, Answer(p) PROVE IInv'
  <2>1. CASE /\ request[p].op = "submit"
             /\ decide(history(log), signal(p), Expected) # "ACCEPTED"
             /\ answer' = [answer EXCEPT ![p] = decide(history(log), signal(p), Expected)]
    <3> DEFINE code == decide(history(log), signal(p), Expected)
    <3>1. code \in Code /\ code # "accepted"
      BY <2>1, DecisionCodes DEF Code
    <3>2. code = "DUPLICATE" => reconcile(history(log), signal(p)) = "accepted"
      BY MismatchCodes DEF decide, reconcile
    <3> QED
      BY <1>3, <2>1, <3>1, <3>2, AnswerKeeps DEF Answer
  <2>2. CASE /\ request[p].op = "reconcile"
             /\ answer' = [answer EXCEPT ![p] = reconcile(history(log), signal(p))]
    <3>1. reconcile(history(log), signal(p)) \in {"absent", "accepted", "conflict"}
      BY DEF reconcile
    <3> QED
      BY <1>3, <2>2, <3>1, AnswerKeeps DEF Answer, Code
  <2> QED
    BY <1>3, <2>1, <2>2 DEF Answer
<1>4. ASSUME NEW p \in Proc, Refuse(p) PROVE IInv'
  BY <1>4, AnswerKeeps DEF Refuse, Refusal, Code
<1>5. ASSUME NEW p \in Proc, GiveUp(p) PROVE IInv'
  BY <1>5, AnswerKeeps DEF GiveUp, Code
<1>6. ASSUME NEW p \in Proc, Reveal(p) PROVE IInv'
  BY <1>6, EntryKeeps DEF Reveal, undetermined, IInv, TypeOK
<1>7. CASE GiveUpAll
  <2>1. \A p \in Proc : answer'[p] = answer[p]
                        \/ (pending(p) /\ answer[p] = None /\ answer'[p] = "lost")
    BY <1>7 DEF GiveUpAll, pending
  <2>2. TypeOK'
    BY <1>7 DEF GiveUpAll, IInv, TypeOK, Code
  <2>3. \A i \in DOMAIN log : log[i].at \in Proc
    BY WriterIsProc DEF IInv
  <2>4. EntriesHaveRequests'
    BY <1>7, <2>1, <2>3 DEF GiveUpAll, IInv, EntriesHaveRequests, pending
  <2>5. OneEntryPerEvent'
    BY <1>7 DEF GiveUpAll, IInv, OneEntryPerEvent, replay_ok, history
  <2>6. AnswersAreFinal'
    BY <1>7, <2>1 DEF GiveUpAll, IInv, AnswersAreFinal
  <2>7. DuplicateIsAccepted'
    <3> SUFFICES ASSUME NEW q \in Proc, answer'[q] = "DUPLICATE"
                 PROVE reconcile(history(log), signal(q)) = "accepted"
      BY <1>7 DEF GiveUpAll, DuplicateIsAccepted, signal, history
    <3> QED
      BY <2>1 DEF IInv, DuplicateIsAccepted
  <2> QED
    BY <2>2, <2>4, <2>5, <2>6, <2>7 DEF IInv
<1>8. CASE UNCHANGED vars
  BY <1>8 DEF vars, IInv, TypeOK, EntriesHaveRequests, OneEntryPerEvent, AnswersAreFinal,
     DuplicateIsAccepted, replay_ok, history, signal
<1> QED
  BY <1>1, <1>2, <1>3, <1>4, <1>5, <1>6, <1>7, <1>8 DEF Next

\* The three promises together with what makes them inductive.
THEOREM InvariantHolds == ASSUME NoneIsNoValue PROVE Spec => []IInv
BY InitIInv, NextIInv, PTL DEF Spec

\* No event id is accepted twice, in any interleaving of submissions, unknown
\* outcomes and late discoveries: replay of the log never fails.
THEOREM EventsAreUnique == ASSUME NoneIsNoValue PROVE Spec => []OneEntryPerEvent
<1>1. IInv => OneEntryPerEvent
  BY DEF IInv
<1> QED
  BY <1>1, InvariantHolds, PTL

\* An accepted answer is backed by an entry for ever, and an entry is never
\* found for a submission that was told a definite refusal.
THEOREM AnswersStayTrue == ASSUME NoneIsNoValue PROVE Spec => []AnswersAreFinal
<1>1. IInv => AnswersAreFinal
  BY DEF IInv
<1> QED
  BY <1>1, InvariantHolds, PTL

\* A signal reported as a duplicate reconciles as accepted ever after.
THEOREM DuplicatesAreAccepted == ASSUME NoneIsNoValue PROVE Spec => []DuplicateIsAccepted
<1>1. IInv => DuplicateIsAccepted
  BY DEF IInv
<1> QED
  BY <1>1, InvariantHolds, PTL
=============================================================================
