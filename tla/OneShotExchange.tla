--------------------------- MODULE OneShotExchange ---------------------------
(***************************************************************************)
(* One request from the adapter to the core and back.  OneShotCoreClient   *)
(* (adapters/dsh) spawns one `aizign handle` process per call and          *)
(* classifies whatever comes back; in the process (crates/aizign-cli) a    *)
(* worker thread reads, decodes and executes the request while the main    *)
(* thread waits for its answer no longer than HANDLER_TIMEOUT.             *)
(*                                                                         *)
(* The store is reduced to what ControlJournal promises: applied is the    *)
(* set of calls whose signal is durable, and an execution decides and      *)
(* appends in one step.  A killed process takes no further step.           *)
(***************************************************************************)
EXTENDS FiniteSets

CONSTANTS
  Call,        \* the calls of a client; one call is one process
  Signal,      \* the signals that are submitted or reconciled
  EventOf,     \* their event ids: [Signal -> event id]
  None         \* null

\* Nothing a call is told, says or is correlated by is null.
ASSUME NoneAssumption ==
  None \notin Call \cup {"ok", "error", "accepted", "duplicate", "rejected", "conflict",
                       "absent", "unknown"}

VARIABLES
  request,     \* request[c]: what the call asks for
  client,      \* client[c]: idle, waiting for the exchange, or settled
  outcome,     \* outcome[c]: the outcome the caller got
  before,      \* history: the calls that had settled when c was made
  worker,      \* worker[c]: where the worker thread is
  gate,        \* gate[c]: DispatchGate::state
  channel,     \* channel[c]: what the worker sent to the main thread
  main,        \* main[c]: where the main thread is
  frame,       \* frame[c]: the response the main thread has to write
  said,        \* said[c]: what the timeout diagnostics say of the effect
  stdout,      \* stdout[c]: the frame the process wrote
  exit,        \* exit[c]: how the process ended
  applied      \* the calls whose signal was appended

vars == <<request, client, outcome, before, worker, gate, channel, main, frame,
          said, stdout, exit, applied>>
process == <<worker, gate, channel, main, frame, said, stdout, exit>>
caller == <<request, client, outcome, before>>

Request == [op : {"hello"}, signal : {None}]
             \cup [op : {"submit", "reconcile"}, signal : Signal]

\* The codes a submission may be refused with, besides a conflict: one for all
\* that the binding refuses and one for all definite errors of the store.
RefusedCode == {"WORKFLOW_MISMATCH", "JOURNAL_LOCKED"}
UnknownCode == {"INTERNAL", "HANDLER_TIMEOUT", "JOURNAL_OUTCOME_UNKNOWN"}
DecodeCode == {"INVALID_ENVELOPE", "REQUEST_TOO_LARGE", "PROTOCOL_VERSION_UNSUPPORTED"}

\* A response: the request it answers (None when its id or its kind could not be
\* recovered) and its body, a disposition or an error code.  Its version axis is
\* not written: both axes have version 1, and the client infers the axis.
response(id, type, value) == [id |-> id, type |-> type, value |-> value]
error(id, code) == response(id, "error", code)
timed_out == error(None, "HANDLER_TIMEOUT")

axis_of(op) == IF op = "hello" THEN "bootstrap" ELSE "accepted-operation"

\* decodeResponse: the axis of a response to a request of kind op.
response_axis(op, r) ==
  IF r.type = "error" /\ r.value \in {"REQUEST_TOO_LARGE", "PROTOCOL_VERSION_UNSUPPORTED",
                                      "HANDLER_TIMEOUT"}
  THEN "bootstrap" ELSE axis_of(op)

event(c) == EventOf[request[c].signal]
same_event(c) == {d \in applied : event(d) = event(c)}
same_signal(c) == {d \in applied : request[d].signal = request[c].signal}

-----------------------------------------------------------------------------
(* The client: classification.                                             *)

\* Faulty variant of classify: the journal's unknown outcome is a rejection.
classify_unknown_as_error(op, r) ==
  IF r.type = "success" THEN r.value
  ELSE IF r.value \in UnknownCode \ {"JOURNAL_OUTCOME_UNKNOWN"} THEN "unknown"
  ELSE CASE op = "hello" -> "error" [] op = "submit" -> "rejected" [] OTHER -> "unknown"

\* classifyCorrelatedOutcome.
classify(op, r) ==
  IF r.type = "success" THEN r.value
  ELSE IF r.value \in UnknownCode THEN "unknown"
  ELSE CASE op = "hello" -> "error" [] op = "submit" -> "rejected" [] OTHER -> "unknown"

\* responseVersionMismatch.
version_accepted(op, r) ==
  \/ response_axis(op, r) = axis_of(op)
  \/ r.type = "error" /\ r.value = "PROTOCOL_VERSION_UNSUPPORTED"

\* hello, submitWorkflowSignal and reconcileWorkflowSignal after the exchange:
\* correlation, then version, then the body.
understand(c, r) ==
  IF r.id # c \/ ~version_accepted(request[c].op, r) THEN "unknown"
  ELSE classify(request[c].op, r)

-----------------------------------------------------------------------------
(* The client: #exchange.  Whatever happens first settles the call.        *)

Settle(c, kind) ==
  /\ client' = [client EXCEPT ![c] = "settled"]
  /\ outcome' = [outcome EXCEPT ![c] = kind]
  /\ UNCHANGED <<request, before>>

\* A call made with an aborted signal, or whose process cannot be spawned,
\* never has a process.
Begin(c, q, spawned) ==
  /\ client[c] = "idle"
  /\ request' = [request EXCEPT ![c] = q]
  /\ before' = [before EXCEPT ![c] = {d \in Call : client[d] = "settled"}]
  /\ client' = [client EXCEPT ![c] = IF spawned THEN "waiting" ELSE "settled"]
  /\ outcome' = [outcome EXCEPT ![c] = IF spawned THEN None ELSE "unknown"]
  /\ worker' = [worker EXCEPT ![c] = IF spawned THEN "reading" ELSE "none"]
  /\ main' = [main EXCEPT ![c] = IF spawned THEN "receiving" ELSE "none"]
  /\ UNCHANGED <<gate, channel, frame, said, stdout, exit, applied>>

Running(c) == main[c] \notin {"none", "exited"}

\* The process is gone: its threads take no further step and its memory is
\* lost; what it wrote stays.
Terminate(c, how) ==
  /\ main' = [main EXCEPT ![c] = "exited"]
  /\ worker' = [worker EXCEPT ![c] = "none"]
  /\ exit' = [exit EXCEPT ![c] = how]
  /\ gate' = [gate EXCEPT ![c] = "READING"]
  /\ channel' = [channel EXCEPT ![c] = None]
  /\ frame' = [frame EXCEPT ![c] = None]

\* Faulty variant of GiveUp: the process is left running.
GiveUpWithoutKill(c) ==
  /\ client[c] = "waiting"
  /\ Settle(c, "unknown")
  /\ UNCHANGED <<process, applied>>

\* The timer or the abort signal: SIGKILL, then the call settles unknown.
GiveUp(c) ==
  /\ client[c] = "waiting"
  /\ Settle(c, "unknown")
  /\ IF Running(c) THEN Terminate(c, "killed")
     ELSE UNCHANGED <<main, worker, exit, gate, channel, frame>>
  /\ UNCHANGED <<said, stdout, applied>>

\* The close event: only an exit with code 0 and exactly one frame counts.
Close(c) ==
  /\ client[c] = "waiting" /\ main[c] = "exited"
  /\ Settle(c, IF stdout[c] = None \/ exit[c] # "ok" THEN "unknown"
               ELSE understand(c, stdout[c]))
  /\ UNCHANGED <<process, applied>>

-----------------------------------------------------------------------------
(* The worker thread.                                                      *)

\* What the worker computed goes into the channel in one step with its end.
Send(c, r) ==
  /\ channel' = [channel EXCEPT ![c] = r]
  /\ worker' = [worker EXCEPT ![c] = "sent"]

\* read_stdin and decode_request; a request that does not decode is answered
\* with as much of its correlation as could be recovered.
ReadRequest(c) ==
  /\ worker[c] = "reading"
  /\ \/ worker' = [worker EXCEPT ![c] = "decoded"] /\ UNCHANGED channel
     \/ \E id \in {c, None}, code \in DecodeCode : Send(c, error(id, code))
  /\ UNCHANGED <<caller, gate, main, frame, said, stdout, exit, applied>>

\* DispatchGate::claim_dispatch.
ClaimDispatch(c) ==
  /\ worker[c] = "decoded"
  /\ \/ /\ gate[c] = "READING"
        /\ gate' = [gate EXCEPT ![c] = "DISPATCHING"]
        /\ worker' = [worker EXCEPT ![c] = "executing"]
        /\ UNCHANGED channel
     \/ gate[c] # "READING" /\ Send(c, timed_out) /\ UNCHANGED gate
  /\ UNCHANGED <<caller, main, frame, said, stdout, exit, applied>>

\* A request that changes nothing: hello, a refusal, a duplicate, an append
\* that left no trace, or a reconciliation.
Answer(c) ==
  /\ worker[c] = "executing"
  /\ \/ request[c].op = "hello" /\ Send(c, response(c, "success", "ok"))
     \/ /\ request[c].op = "submit"
        /\ \/ same_signal(c) # {} /\ Send(c, response(c, "success", "duplicate"))
           \/ /\ same_event(c) # {} /\ same_signal(c) = {}
              /\ Send(c, error(c, "EVENT_CONFLICT"))
           \/ \E code \in RefusedCode \cup {"INTERNAL", "JOURNAL_OUTCOME_UNKNOWN"} :
                Send(c, error(c, code))
     \/ /\ request[c].op = "reconcile"
        /\ \/ Send(c, response(c, "success",
                IF same_event(c) = {} THEN "absent"
                ELSE IF same_signal(c) # {} THEN "accepted" ELSE "conflict"))
           \/ \E code \in {"JOURNAL_LOCKED", "JOURNAL_OUTCOME_UNKNOWN"} : Send(c, error(c, code))
  /\ UNCHANGED <<caller, gate, main, frame, said, stdout, exit, applied>>

\* The append of an accepted signal; the worker has not answered yet.
AppendSignal(c) ==
  /\ worker[c] = "executing"
  /\ request[c].op = "submit" /\ same_event(c) = {}
  /\ applied' = applied \cup {c}
  /\ worker' = [worker EXCEPT ![c] = "appended"]
  /\ UNCHANGED <<caller, gate, channel, main, frame, said, stdout, exit>>

\* The append returned, or failed after its bytes had become durable.
ReportAppend(c) ==
  /\ worker[c] = "appended"
  /\ \/ Send(c, response(c, "success", "accepted"))
     \/ Send(c, error(c, "JOURNAL_OUTCOME_UNKNOWN"))
  /\ UNCHANGED <<caller, gate, main, frame, said, stdout, exit, applied>>

-----------------------------------------------------------------------------
(* The main thread: handle.                                                *)

Receive(c) ==
  /\ main[c] = "receiving" /\ channel[c] # None
  /\ main' = [main EXCEPT ![c] = "writing"]
  /\ frame' = [frame EXCEPT ![c] = channel[c]]
  /\ UNCHANGED <<caller, worker, gate, channel, said, stdout, exit, applied>>

\* Faulty variant of Expire: the bound covers only the reading of the request.
ExpireReading(c) ==
  /\ main[c] = "receiving" /\ channel[c] = None /\ gate[c] = "READING"
  /\ main' = [main EXCEPT ![c] = "expired"]
  /\ UNCHANGED <<caller, worker, gate, channel, frame, said, stdout, exit, applied>>

\* recv_timeout gives up; the worker goes on.
Expire(c) ==
  /\ main[c] = "receiving" /\ channel[c] = None
  /\ main' = [main EXCEPT ![c] = "expired"]
  /\ UNCHANGED <<caller, worker, gate, channel, frame, said, stdout, exit, applied>>

\* Faulty variant of ClaimTimeout: the gate is looked at and not taken.
ClaimTimeoutLooks(c) ==
  /\ main[c] = "expired"
  /\ said' = [said EXCEPT ![c] = IF gate[c] = "DISPATCHING" THEN "unknown" ELSE "rejected"]
  /\ main' = [main EXCEPT ![c] = "writing"]
  /\ frame' = [frame EXCEPT ![c] = timed_out]
  /\ UNCHANGED <<caller, worker, gate, channel, stdout, exit, applied>>

\* DispatchGate::claim_timeout and timeout_response.
ClaimTimeout(c) ==
  /\ main[c] = "expired"
  /\ gate' = [gate EXCEPT ![c] = IF @ = "READING" THEN "TIMED_OUT" ELSE @]
  /\ said' = [said EXCEPT ![c] = IF gate[c] = "DISPATCHING" THEN "unknown" ELSE "rejected"]
  /\ main' = [main EXCEPT ![c] = "writing"]
  /\ frame' = [frame EXCEPT ![c] = timed_out]
  /\ UNCHANGED <<caller, worker, channel, stdout, exit, applied>>

\* write_frame: the frame is out, the process is not.
WriteFrame(c) ==
  /\ main[c] = "writing"
  /\ stdout' = [stdout EXCEPT ![c] = frame[c]]
  /\ main' = [main EXCEPT ![c] = "returning"]
  /\ UNCHANGED <<caller, worker, gate, channel, frame, said, exit, applied>>

Return(c) ==
  /\ main[c] = "returning"
  /\ Terminate(c, "ok")
  /\ UNCHANGED <<caller, said, stdout, applied>>

\* exit::IO: the request cannot be read, the worker stopped without an answer,
\* or the response cannot be encoded or written.
FailIo(c) ==
  /\ \/ main[c] = "receiving" /\ channel[c] = None
     \/ main[c] = "writing"
  /\ Terminate(c, "io")
  /\ UNCHANGED <<caller, said, stdout, applied>>

\* The process dies of something else, at any moment.
Crash(c) ==
  /\ Running(c)
  /\ Terminate(c, "killed")
  /\ UNCHANGED <<caller, said, stdout, applied>>

-----------------------------------------------------------------------------
Init ==
  /\ request = [c \in Call |-> None]
  /\ client = [c \in Call |-> "idle"]
  /\ outcome = [c \in Call |-> None]
  /\ before = [c \in Call |-> {}]
  /\ worker = [c \in Call |-> "none"]
  /\ gate = [c \in Call |-> "READING"]
  /\ channel = [c \in Call |-> None]
  /\ main = [c \in Call |-> "none"]
  /\ frame = [c \in Call |-> None]
  /\ said = [c \in Call |-> None]
  /\ stdout = [c \in Call |-> None]
  /\ exit = [c \in Call |-> None]
  /\ applied = {}

Main(c) == Receive(c) \/ Expire(c) \/ ClaimTimeout(c) \/ WriteFrame(c) \/ Return(c)

Worker(c) ==
  ReadRequest(c) \/ ClaimDispatch(c) \/ Answer(c) \/ AppendSignal(c) \/ ReportAppend(c)

Next ==
  \E c \in Call :
    \/ \E q \in Request, spawned \in BOOLEAN : Begin(c, q, spawned)
    \/ GiveUp(c) \/ Close(c) \/ Worker(c) \/ Main(c) \/ FailIo(c) \/ Crash(c)

Spec == Init /\ [][Next]_vars

\* The main thread and the client's event loop run; the worker may hang in the
\* store for ever, and nothing relies on the client's timer.
FairSpec == Spec /\ \A c \in Call : WF_vars(Main(c)) /\ WF_vars(Close(c))

-----------------------------------------------------------------------------
(* Correctness.                                                            *)

\* HelloOutcome, SubmitOutcome and ReconcileOutcome.
OutcomeOf(op) ==
  CASE op = "hello" -> {"ok", "error", "unknown"}
    [] op = "submit" -> {"accepted", "duplicate", "rejected", "unknown"}
    [] op = "reconcile" -> {"accepted", "conflict", "absent", "unknown"}

\* What a caller is told is one of its operation's outcomes and is true, for
\* good: a rejection means that the signal was not appended by this call and
\* never will be, acceptance that it was, a duplicate that an identical one was;
\* a reconciliation that finds the signal or a conflicting one stays right.
OutcomeIsTrue ==
  \A c \in Call : client[c] = "settled" =>
    /\ outcome[c] \in OutcomeOf(request[c].op)
    /\ outcome[c] = "rejected" => c \notin applied
    /\ outcome[c] = "duplicate" => same_signal(c) \ {c} # {}
    /\ outcome[c] = "accepted" =>
         IF request[c].op = "submit" THEN c \in applied ELSE same_signal(c) # {}
    /\ outcome[c] = "conflict" => same_event(c) # {} /\ same_signal(c) = {}

\* DispatchGate: "The watchdog and worker must win the same atomic state".  A
\* process that announced "request framing exceeded ... before dispatch; no
\* state effect occurred" has had no effect and will have none, although its
\* worker runs on until the process exits.
NoEffectAfterTimeout ==
  \A c \in Call : said[c] = "rejected" =>
    c \notin applied /\ worker[c] \notin {"executing", "appended"}

\* A call that is given up is killed before its caller is told, so whoever then
\* reconciles the signal and reads "absent" can rely on it: none of the
\* submissions that had settled by then appears later.
AbsentIsFinal ==
  \A r, s \in Call :
    (/\ outcome[r] = "absent" /\ s \in before[r]
     /\ request[s].op = "submit" /\ event(s) = event(r)) => s \notin applied

\* Every process ends and every call settles, also when the worker hangs: the
\* watchdog bounds reading and processing, and every exit settles the call.
EveryCallSettles == \A c \in Call : client[c] = "waiting" ~> client[c] = "settled"
=============================================================================
