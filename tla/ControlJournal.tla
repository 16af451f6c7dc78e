--------------------------- MODULE ControlJournal ---------------------------
(***************************************************************************)
(* What the store and the engine promise to the shells that call them,     *)
(* with no files, locks or crashes: one append-only log of accepted        *)
(* signals and one answer per request.                                     *)
(*                                                                         *)
(* A request whose answer is unknown, or that never got one, may turn out  *)
(* later to have been accepted; every other refusal is final.              *)
(***************************************************************************)
EXTENDS WorkflowCore

CONSTANTS
  Proc,          \* the requests, each handled by its own process
  Signal,        \* the signals that are submitted or reconciled
  SignalParts,   \* their contents: [Signal -> SignalParts record]
  Expected,      \* the assignment submissions are bound to
  MaxEntries     \* MAX_JOURNAL_ENTRIES

VARIABLES
  log,           \* the accepted entries, in acceptance order
  request,       \* request[p]: what p was asked, or None
  answer         \* answer[p]: what p answered, or None

vars == <<log, request, answer>>

Command == [op : {"submit", "reconcile"}, signal : Signal]
Entry == [seq : Nat \ {0}, at : Proc, signal : Signal]

history(entries) == [i \in DOMAIN entries |-> SignalParts[entries[i].signal]]

pending(p) == request[p] # None /\ answer[p] = None

signal(p) == SignalParts[request[p].signal]

entry(p) == [seq |-> Len(log) + 1, at |-> p, signal |-> request[p].signal]

\* Nothing has been told about p's submission that rules its entry out.
undetermined(p) ==
  /\ request[p] # None /\ request[p].op = "submit"
  /\ answer[p] \in {"JOURNAL_OUTCOME_UNKNOWN", "lost"}
  /\ \A i \in DOMAIN log : log[i].at # p

\* The answers that end a request without an effect and without a decision.
Refusal == {"JOURNAL_UNAVAILABLE", "JOURNAL_LOCKED", "JOURNAL_CORRUPT",
            "JOURNAL_BOUND_EXCEEDED", "INTERNAL"}

Begin(p, c) ==
  /\ request[p] = None
  /\ request' = [request EXCEPT ![p] = c]
  /\ UNCHANGED <<log, answer>>

\* The core accepts p's signal against the log as it is.
acceptable(p) ==
  /\ Len(log) < MaxEntries
  /\ decide(history(log), signal(p), Expected) = "ACCEPTED"

Accept(p) ==
  /\ pending(p) /\ request[p].op = "submit"
  /\ acceptable(p)
  /\ log' = Append(log, entry(p))
  /\ answer' = [answer EXCEPT ![p] = "accepted"]
  /\ UNCHANGED request

\* A decision that changes nothing is a function of the whole log.
Answer(p) ==
  /\ pending(p)
  /\ \/ /\ request[p].op = "submit"
        /\ decide(history(log), signal(p), Expected) # "ACCEPTED"
        /\ answer' = [answer EXCEPT ![p] = decide(history(log), signal(p), Expected)]
     \/ /\ request[p].op = "reconcile"
        /\ answer' = [answer EXCEPT ![p] = reconcile(history(log), signal(p))]
  /\ UNCHANGED <<log, request>>

Refuse(p) ==
  /\ pending(p)
  /\ \E code \in Refusal : answer' = [answer EXCEPT ![p] = code]
  /\ UNCHANGED <<log, request>>

\* OUTCOME_UNKNOWN, or no answer at all.
GiveUp(p) ==
  /\ pending(p)
  /\ \E code \in {"JOURNAL_OUTCOME_UNKNOWN", "lost"} :
       answer' = [answer EXCEPT ![p] = code]
  /\ UNCHANGED <<log, request>>

\* A power loss leaves every request in progress without an answer.
GiveUpAll ==
  /\ answer' = [p \in Proc |-> IF pending(p) THEN "lost" ELSE answer[p]]
  /\ UNCHANGED <<log, request>>

\* The entry of an undetermined submission turns out to be in the log.
Reveal(p) ==
  /\ undetermined(p)
  /\ acceptable(p)
  /\ log' = Append(log, entry(p))
  /\ UNCHANGED <<request, answer>>

Init ==
  /\ log = <<>>
  /\ request = [p \in Proc |-> None]
  /\ answer = [p \in Proc |-> None]

Next ==
  \/ \E p \in Proc :
       \/ \E c \in Command : Begin(p, c)
       \/ Accept(p) \/ Answer(p) \/ Refuse(p) \/ GiveUp(p) \/ Reveal(p)
  \/ GiveUpAll

Spec == Init /\ [][Next]_vars

-----------------------------------------------------------------------------
Code == {"accepted", "DUPLICATE", "EVENT_CONFLICT", "absent", "conflict", "lost",
         "WORKFLOW_MISMATCH", "ASSIGNMENT_MISMATCH", "ATTEMPT_MISMATCH",
         "ROLE_MISMATCH", "REVISION_MISMATCH", "CANDIDATE_DIGEST_MISMATCH",
         "JOURNAL_OUTCOME_UNKNOWN"} \cup Refusal

\* None is told apart from what is asked and answered.
NoneIsNoValue == None \notin Code /\ None \notin Command

\* The log is a sequence of entries; requests and answers are of their kinds.
TypeOK ==
  /\ log \in Seq(Entry)
  /\ request \in [Proc -> Command \cup {None}]
  /\ answer \in [Proc -> Code \cup {None}]

\* No event id is accepted twice, whatever the interleaving and however many
\* submissions ended in an unknown outcome: WorkflowState::replay, which fails
\* on the second, always succeeds (aizign-core, workflow/state.rs).
OneEntryPerEvent == replay_ok(history(log))

\* Each request's answer is consistent with the log from then on: an accepted
\* submission has its entry, and one that was answered with a definite
\* rejection or a definite failure has none (JournalError's codes,
\* aizign-engine journal.rs).
AnswersAreFinal ==
  \A p \in Proc : request[p] # None /\ request[p].op = "submit" =>
    /\ answer[p] = "accepted" => \E i \in DOMAIN log : log[i].at = p
    /\ (\E i \in DOMAIN log : log[i].at = p)
         => answer[p] \in {"accepted", "JOURNAL_OUTCOME_UNKNOWN", "lost"}

\* A duplicate is reported only for a signal that is in the log, and stays so:
\* the client may treat it as success.
DuplicateIsAccepted ==
  \A p \in Proc : answer[p] = "DUPLICATE" =>
    reconcile(history(log), signal(p)) = "accepted"
=============================================================================
