-------------------------- MODULE DshAdapterProofs --------------------------
(***************************************************************************)
(* What holds of the exchange for every number of calls, every set of      *)
(* signals and every assignment of event ids, and of the plugin on top of  *)
(* it for every number of tool calls and every configuration it accepts.   *)
(***************************************************************************)
EXTENDS DshAdapter, FiniteSetTheorems, TLAPS

-----------------------------------------------------------------------------
(* The exchange.                                                           *)

\* What a response may carry, and what a caller may be told.
Disposition == {"ok", "accepted", "duplicate", "conflict", "absent"}
ErrorCode == RefusedCode \cup UnknownCode \cup DecodeCode \cup {"EVENT_CONFLICT"}
Response == [id : Call \cup {None}, type : {"success"}, value : Disposition]
              \cup [id : Call \cup {None}, type : {"error"}, value : ErrorCode]
Kind == Disposition \cup {"error", "rejected", "unknown"}

Types ==
  /\ request \in [Call -> Request \cup {None}]
  /\ client \in [Call -> {"idle", "waiting", "settled"}]
  /\ outcome \in [Call -> Kind \cup {None}]
  /\ before \in [Call -> SUBSET Call]
  /\ worker \in [Call -> {"none", "reading", "decoded", "executing", "appended", "sent"}]
  /\ gate \in [Call -> {"READING", "DISPATCHING", "TIMED_OUT"}]
  /\ channel \in [Call -> Response \cup {None}]
  /\ main \in [Call -> {"none", "receiving", "expired", "writing", "returning", "exited"}]
  /\ frame \in [Call -> Response \cup {None}]
  /\ said \in [Call -> {None, "unknown", "rejected"}]
  /\ stdout \in [Call -> Response \cup {None}]
  /\ exit \in [Call -> {None, "ok", "io", "killed"}]
  /\ applied \in SUBSET Call

-----------------------------------------------------------------------------
(* The inductive invariant.                                                *)

\* A call before it is made.
Fresh(c) ==
  client[c] = "idle" =>
    /\ main[c] = "none" /\ gate[c] = "READING" /\ c \notin applied
    /\ channel[c] = None /\ frame[c] = None /\ stdout[c] = None
    /\ said[c] = None

\* The threads of a call against its client: a process exists only while its
\* call waits, and no thread outlives it.
Threads(c) ==
  /\ client[c] # "idle" => request[c] \in Request
  /\ client[c] = "settled" => main[c] \in {"none", "exited"}
  /\ main[c] \in {"none", "exited"} <=> worker[c] = "none"
  /\ client[c] # "settled" => outcome[c] = None
  /\ \A d \in before[c] : client[d] = "settled"

\* The gate: whoever won it decides whether the store is reached.
Gate(c) ==
  /\ worker[c] \in {"executing", "appended"} => gate[c] = "DISPATCHING"
  /\ worker[c] = "appended" => c \in applied
  /\ c \in applied =>
       /\ request[c].op = "submit"
       /\ \/ worker[c] = "none"
          \/ worker[c] \in {"appended", "sent"} /\ gate[c] = "DISPATCHING"
  /\ said[c] = "rejected" =>
       /\ c \notin applied
       /\ worker[c] = "none" \/ gate[c] = "TIMED_OUT"

\* No event has two appended signals.
OneAppendPerEvent ==
  \A c, d \in applied : event(c) = event(d) => c = d

\* o is an outcome of c, and what it says of the journal is the case; "absent"
\* speaks of the submissions that had settled before c was made.
Told(c, o) ==
  /\ o \in OutcomeOf(request[c].op)
  /\ o = "rejected" => c \notin applied
  /\ o = "duplicate" => same_signal(c) \ {c} # {}
  /\ o = "accepted" =>
       IF request[c].op = "submit" THEN c \in applied ELSE same_signal(c) # {}
  /\ o = "conflict" => same_event(c) # {} /\ same_signal(c) = {}
  /\ o = "absent" =>
       \A s \in before[c] : request[s].op = "submit" /\ event(s) = event(c) => s \notin applied

\* A response that is on its way comes from a worker that is done and, once it
\* is understood, tells the truth.
Answered(c, r) ==
  \/ r = timed_out
  \/ worker[c] \in {"sent", "none"} /\ Told(c, understand(c, r))

Answers(c) ==
  /\ channel[c] # None => worker[c] = "sent" /\ Answered(c, channel[c])
  /\ main[c] = "writing" => frame[c] \in Response /\ Answered(c, frame[c])
  /\ stdout[c] # None => main[c] \in {"returning", "exited"} /\ Answered(c, stdout[c])
  /\ client[c] = "settled" => Told(c, outcome[c])

Control == \A c \in Call : Fresh(c) /\ Threads(c) /\ Gate(c)
Truth == \A c \in Call : Answers(c)

ExchangeInv == Types /\ Control /\ OneAppendPerEvent /\ Truth

-----------------------------------------------------------------------------
(* Types.                                                                  *)

\* Whatever a response says, what the client makes of it is an outcome or what
\* the response said.
LEMMA Understood ==
  ASSUME NEW c \in Call, NEW r \in Response
  PROVE understand(c, r) \in Kind
BY DEF understand, classify, Response, Disposition, Kind

\* The responses that the process makes.
LEMMA Responses ==
  ASSUME NEW c \in Call
  PROVE /\ timed_out \in Response
        /\ \A id \in {c, None}, code \in ErrorCode : error(id, code) \in Response
        /\ \A value \in Disposition : response(c, "success", value) \in Response
BY DEF timed_out, error, response, Response, ErrorCode, UnknownCode

\* A worker that sends a response.
LEMMA SendTypes ==
  ASSUME Types, NEW c \in Call, NEW r \in Response, Send(c, r)
  PROVE /\ channel' \in [Call -> Response \cup {None}]
        /\ worker' \in [Call -> {"none", "reading", "decoded", "executing", "appended", "sent"}]
BY DEF Types, Send

\* The end of a process.
LEMMA TerminateTypes ==
  ASSUME Types, NEW c \in Call, NEW how \in {"ok", "io", "killed"}, Terminate(c, how),
         UNCHANGED <<caller, said, stdout, applied>>
  PROVE Types'
BY DEF Types, Terminate, caller

\* Every step of the client, the worker thread and the main thread keeps the
\* types.
LEMMA ClientTypes ==
  ASSUME Types, NEW c \in Call
  PROVE /\ \A q \in Request, spawned \in BOOLEAN : Begin(c, q, spawned) => Types'
        /\ GiveUp(c) => Types'
        /\ Close(c) => Types'
<1>1. ASSUME NEW q \in Request, NEW spawned \in BOOLEAN, Begin(c, q, spawned) PROVE Types'
  BY <1>1 DEF Begin, Types, Kind
<1>2. ASSUME GiveUp(c) PROVE Types'
  BY <1>2 DEF GiveUp, Settle, Terminate, Types, Kind
<1>3. ASSUME Close(c) PROVE Types'
  <2>1. outcome' \in [Call -> Kind \cup {None}]
    BY <1>3, Understood DEF Close, Settle, Types, Kind
  <2> QED
    BY <1>3, <2>1 DEF Close, Settle, Types, process
<1> QED
  BY <1>1, <1>2, <1>3

\* The worker's steps keep the types.
LEMMA WorkerTypes ==
  ASSUME Types, NEW c \in Call, Worker(c)
  PROVE Types'
<1>1. CASE ReadRequest(c)
  <2>1. CASE worker' = [worker EXCEPT ![c] = "decoded"] /\ UNCHANGED channel
    BY <1>1, <2>1 DEF ReadRequest, Types, caller
  <2>2. CASE \E id \in {c, None}, code \in DecodeCode : Send(c, error(id, code))
    <3>1. PICK id \in {c, None}, code \in DecodeCode : Send(c, error(id, code))
      BY <2>2
    <3>2. error(id, code) \in Response
      BY Responses DEF ErrorCode
    <3> QED
      BY <1>1, <3>1, <3>2, SendTypes DEF ReadRequest, Types, caller
  <2> QED
    BY <1>1, <2>1, <2>2 DEF ReadRequest
<1>2. CASE ClaimDispatch(c)
  <2>1. CASE gate[c] = "READING"
    BY <1>2, <2>1 DEF ClaimDispatch, Types, caller
  <2>2. CASE gate[c] # "READING"
    BY <1>2, <2>2, Responses, SendTypes DEF ClaimDispatch, Types, caller
  <2> QED
    BY <2>1, <2>2
<1>3. CASE Answer(c)
  <2>1. PICK r \in Response : Send(c, r)
    BY <1>3, Responses DEF Answer, RefusedCode, UnknownCode, ErrorCode, Disposition
  <2> QED
    BY <1>3, <2>1, SendTypes DEF Answer, Types, caller
<1>4. CASE AppendSignal(c)
  BY <1>4 DEF AppendSignal, Types, caller
<1>5. CASE ReportAppend(c)
  <2>1. PICK r \in Response : Send(c, r)
    BY <1>5, Responses DEF ReportAppend, UnknownCode, ErrorCode, Disposition
  <2> QED
    BY <1>5, <2>1, SendTypes DEF ReportAppend, Types, caller
<1> QED
  BY <1>1, <1>2, <1>3, <1>4, <1>5 DEF Worker

\* The main thread's steps keep the types.
LEMMA MainTypes ==
  ASSUME Types, NEW c \in Call, Main(c) \/ FailIo(c) \/ Crash(c)
  PROVE Types'
<1>1. CASE Receive(c)
  BY <1>1 DEF Receive, Types, caller
<1>2. CASE Expire(c)
  BY <1>2 DEF Expire, Types, caller
<1>3. CASE ClaimTimeout(c)
  BY <1>3, Responses DEF ClaimTimeout, Types, caller
<1>4. CASE WriteFrame(c)
  BY <1>4 DEF WriteFrame, Types, caller
<1>5. CASE Return(c)
  BY <1>5, TerminateTypes DEF Return
<1>6. CASE FailIo(c)
  BY <1>6, TerminateTypes DEF FailIo
<1>7. CASE Crash(c)
  BY <1>7, TerminateTypes DEF Crash
<1> QED
  BY <1>1, <1>2, <1>3, <1>4, <1>5, <1>6, <1>7 DEF Main

-----------------------------------------------------------------------------
(* Control.                                                                *)

\* The end of a process that was running.
LEMMA TerminateControl ==
  ASSUME Types, Control, NEW c \in Call, NEW how, Running(c), Terminate(c, how),
         UNCHANGED <<caller, said, stdout, applied>>
  PROVE Control'
BY DEF Types, Control, Fresh, Threads, Gate, Terminate, Running, caller

\* The client's steps keep the control invariant.
LEMMA ClientControl ==
  ASSUME Types, Control, NEW c \in Call
  PROVE /\ \A q \in Request, spawned \in BOOLEAN : Begin(c, q, spawned) => Control'
        /\ GiveUp(c) => Control'
        /\ Close(c) => Control'
<1> USE DEF Types, Control, Fresh, Threads, Gate
<1>1. ASSUME NEW q \in Request, NEW spawned \in BOOLEAN, Begin(c, q, spawned) PROVE Control'
  BY <1>1, NoneAssumption DEF Begin
<1>2. ASSUME GiveUp(c) PROVE Control'
  BY <1>2 DEF GiveUp, Settle, Terminate, Running
<1>3. ASSUME Close(c) PROVE Control'
  BY <1>3 DEF Close, Settle, process
<1> QED
  BY <1>1, <1>2, <1>3

\* The worker's steps keep the control invariant.
LEMMA WorkerControl ==
  ASSUME Types, Control, NEW c \in Call, Worker(c)
  PROVE Control'
<1> USE DEF Types, Control, Fresh, Threads, Gate, Send, caller
<1>1. CASE ReadRequest(c)
  BY <1>1 DEF ReadRequest
<1>2. CASE ClaimDispatch(c)
  BY <1>2 DEF ClaimDispatch
<1>3. CASE Answer(c)
  BY <1>3 DEF Answer
<1>4. CASE AppendSignal(c)
  BY <1>4 DEF AppendSignal
<1>5. CASE ReportAppend(c)
  BY <1>5 DEF ReportAppend
<1> QED
  BY <1>1, <1>2, <1>3, <1>4, <1>5 DEF Worker

\* The main thread's steps keep the control invariant.
LEMMA MainControl ==
  ASSUME Types, Control, NEW c \in Call, Main(c) \/ FailIo(c) \/ Crash(c)
  PROVE Control'
<1> USE DEF Types, Control, Fresh, Threads, Gate, caller
<1>1. CASE Receive(c)
  BY <1>1 DEF Receive
<1>2. CASE Expire(c)
  BY <1>2 DEF Expire
<1>3. CASE ClaimTimeout(c)
  BY <1>3 DEF ClaimTimeout
<1>4. CASE WriteFrame(c)
  BY <1>4 DEF WriteFrame
<1>5. CASE Return(c)
  BY <1>5, TerminateControl DEF Return, Running
<1>6. CASE FailIo(c)
  BY <1>6, TerminateControl DEF FailIo, Running
<1>7. CASE Crash(c)
  BY <1>7, TerminateControl DEF Crash
<1> QED
  BY <1>1, <1>2, <1>3, <1>4, <1>5, <1>6, <1>7 DEF Main

-----------------------------------------------------------------------------
(* Truth.  What a response says of the journal stays true whatever the     *)
(* other calls do.                                                         *)

\* A call that was made keeps what it asked for, and a worker that is done
\* stays done.
CallsKept ==
  \A c \in Call :
    /\ client[c] # "idle" =>
         request'[c] = request[c] /\ before'[c] = before[c] /\ client'[c] # "idle"
    /\ worker[c] \in {"sent", "none"} /\ client[c] # "idle" => worker'[c] \in {"sent", "none"}

\* The journal stays as it is, or an execution appends for an event that has
\* no entry.
JournalGrows ==
  \/ applied' = applied
  \/ \E d \in Call :
       /\ worker[d] = "executing" /\ request[d].op = "submit" /\ same_event(d) = {}
       /\ applied' = applied \cup {d}

\* Every step is of this kind.
LEMMA ClientKeeps ==
  ASSUME Types, Control, NEW c \in Call
  PROVE /\ \A q \in Request, spawned \in BOOLEAN : Begin(c, q, spawned) => CallsKept /\ JournalGrows
        /\ GiveUp(c) => CallsKept /\ JournalGrows
        /\ Close(c) => CallsKept /\ JournalGrows
BY DEF Begin, GiveUp, Close, Settle, Terminate, process, CallsKept, JournalGrows, Types,
   Control, Threads

\* What the worker's steps leave alone.
LEMMA WorkerKeeps ==
  ASSUME Types, Control, NEW c \in Call, Worker(c)
  PROVE CallsKept /\ JournalGrows
BY DEF Worker, ReadRequest, ClaimDispatch, Answer, AppendSignal, ReportAppend, Send, caller,
   CallsKept, JournalGrows, Types, Control, Threads

\* What the main thread's steps leave alone.
LEMMA MainKeeps ==
  ASSUME Types, Control, NEW c \in Call, Main(c) \/ FailIo(c) \/ Crash(c)
  PROVE CallsKept /\ JournalGrows
BY DEF Main, Receive, Expire, ClaimTimeout, WriteFrame, Return, FailIo, Crash, Terminate,
   caller, CallsKept, JournalGrows, Types, Control, Threads

\* An appended signal keeps its event to itself.
LEMMA OneAppendKept ==
  ASSUME Types, Control, OneAppendPerEvent, CallsKept, JournalGrows
  PROVE OneAppendPerEvent'
<1>1. \A d \in applied : client[d] # "idle" /\ request'[d] = request[d]
  BY DEF Types, Control, Fresh, CallsKept
<1>2. CASE applied' = applied
  BY <1>1, <1>2 DEF OneAppendPerEvent, event
<1>3. ASSUME NEW d \in Call, worker[d] = "executing", same_event(d) = {},
             applied' = applied \cup {d}
      PROVE OneAppendPerEvent'
  <2>1. client[d] # "idle" /\ request'[d] = request[d]
    BY <1>3 DEF Control, Fresh, Threads, CallsKept
  <2>2. \A e \in applied : event(e) # event(d)
    BY <1>3 DEF same_event
  <2> QED
    BY <1>1, <1>3, <2>1, <2>2 DEF OneAppendPerEvent, event
<1> QED
  BY <1>2, <1>3 DEF JournalGrows

\* What a call whose worker is done was told stays true.
LEMMA ToldKept ==
  ASSUME Types, Control, CallsKept, JournalGrows, NEW c \in Call, NEW o \in Kind,
         client[c] # "idle", worker[c] \in {"sent", "none"}, Told(c, o)
  PROVE Told(c, o)'
<1>1. \A d \in applied : d \in Call /\ client[d] # "idle" /\ request'[d] = request[d]
  BY DEF Types, Control, Fresh, CallsKept
<1>2. request'[c] = request[c] /\ before'[c] = before[c]
  BY DEF CallsKept
<1>3. \A s \in before[c] : s \in Call /\ client[s] = "settled" /\ request'[s] = request[s]
  BY DEF Types, Control, Threads, CallsKept
<1>4. CASE applied' = applied
  BY <1>1, <1>2, <1>3, <1>4 DEF Told, same_signal, same_event, event, OutcomeOf
<1>5. ASSUME NEW d \in Call, worker[d] = "executing", request[d].op = "submit",
             same_event(d) = {}, applied' = applied \cup {d}
      PROVE Told(c, o)'
  <2>1. client[d] # "idle" /\ client[d] # "settled" /\ request'[d] = request[d] /\ d # c
    BY <1>5 DEF Types, Control, Fresh, Threads, CallsKept
  <2>2. o \in OutcomeOf(request[c].op)'
    BY <1>2 DEF Told, OutcomeOf
  <2>3. o = "rejected" => c \notin applied'
    BY <1>5, <2>1 DEF Told
  <2>4. same_signal(c) \subseteq same_signal(c)' /\ same_event(c) \subseteq same_event(c)'
    BY <1>1, <1>2, <1>5 DEF same_signal, same_event, event
  <2>5. o = "conflict" => same_signal(c)' = {}
    <3> SUFFICES ASSUME o = "conflict", same_signal(c)' # {} PROVE FALSE
      OBVIOUS
    <3>1. request[d].signal = request[c].signal
      BY <1>1, <1>2, <1>5, <2>1 DEF Told, same_signal
    <3>2. same_event(d) = same_event(c)
      BY <3>1 DEF same_event, event
    <3> QED
      BY <1>5, <3>2 DEF Told
  <2>6. o = "absent" =>
          \A s \in before'[c] :
            request'[s].op = "submit" /\ event(s)' = event(c)' => s \notin applied'
    BY <1>2, <1>3, <1>5, <2>1 DEF Told, event
  <2> QED
    BY <1>2, <1>5, <2>2, <2>3, <2>4, <2>5, <2>6 DEF Told
<1> QED
  BY <1>4, <1>5 DEF JournalGrows

\* A response that is on its way stays what it is.
LEMMA AnsweredKept ==
  ASSUME Types, Control, CallsKept, JournalGrows, NEW c \in Call, NEW r \in Response,
         client[c] # "idle", Answered(c, r)
  PROVE Answered(c, r)'
<1>1. CASE r = timed_out
  BY <1>1 DEF Answered, timed_out, error, response
<1>2. CASE worker[c] \in {"sent", "none"} /\ Told(c, understand(c, r))
  <2> DEFINE o == understand(c, r)
  <2>1. o \in Kind
    BY Understood
  <2>2. request'[c] = request[c]
    BY DEF CallsKept
  <2>3. o = understand(c, r)'
    BY <2>2 DEF understand
  <2>4. \A k \in Kind : Told(c, k) => Told(c, k)'
    BY <1>2, ToldKept
  <2>5. Told(c, understand(c, r))'
    BY <1>2, <2>1, <2>3, <2>4 DEF Told
  <2> QED
    BY <1>2, <2>5 DEF Answered, CallsKept
<1> QED
  BY <1>1, <1>2 DEF Answered

\* A call that the step is not about.
LEMMA OthersAnswers ==
  ASSUME Types, Control, CallsKept, JournalGrows, NEW d \in Call, Answers(d),
         worker'[d] = worker[d], channel'[d] = channel[d], main'[d] = main[d],
         frame'[d] = frame[d], stdout'[d] = stdout[d], client'[d] = client[d],
         outcome'[d] = outcome[d]
  PROVE Answers(d)'
<1>1. CASE client[d] = "idle"
  BY <1>1 DEF Answers, Control, Fresh
<1>2. CASE client[d] # "idle"
  <2>1. \A r \in Response : Answered(d, r) => Answered(d, r)'
    BY <1>2, AnsweredKept
  <2>2. channel[d] # None => Answered(d, channel[d])'
    BY <2>1 DEF Types, Answers, Answered
  <2>3. main[d] = "writing" => Answered(d, frame[d])'
    BY <2>1 DEF Types, Answers, Answered
  <2>4. stdout[d] # None => Answered(d, stdout[d])'
    BY <2>1 DEF Types, Answers, Answered
  <2>5. client[d] = "settled" => Told(d, outcome[d])'
    <3> SUFFICES ASSUME client[d] = "settled" PROVE Told(d, outcome[d])'
      OBVIOUS
    <3>1. worker[d] = "none" /\ request[d] \in Request /\ Told(d, outcome[d])
      BY <1>2 DEF Types, Control, Threads, Answers
    <3>2. \A o \in Kind : Told(d, o) => Told(d, o)'
      BY <1>2, <3>1, ToldKept
    <3>3. outcome[d] \in Kind
      BY <3>1 DEF Told, OutcomeOf, Request, Kind, Disposition
    <3> QED
      BY <3>1, <3>2, <3>3
  <2> QED
    BY <2>2, <2>3, <2>4, <2>5 DEF Answers
<1> QED
  BY <1>1, <1>2

\* A call may always be told that its outcome is unknown.
LEMMA UnknownIsTold ==
  ASSUME NEW c \in Call, request[c] \in Request
  PROVE Told(c, "unknown")
BY DEF Told, OutcomeOf, Request

\* The response of the timeout has no correlation and is never understood.
LEMMA TimedOutIsUnknown ==
  ASSUME NEW c \in Call
  PROVE understand(c, timed_out) = "unknown"
BY NoneAssumption DEF understand, timed_out, error, response

\* A worker that sends a true response, before which it had sent none.
LEMMA SendAnswers ==
  ASSUME Types, Control, Truth, CallsKept, JournalGrows, NEW c \in Call, NEW r \in Response,
         client[c] # "idle", worker[c] \notin {"sent", "none"}, Send(c, r),
         Told(c, understand(c, r)), UNCHANGED <<caller, main, frame, stdout, applied>>
  PROVE Truth'
<1>1. ASSUME NEW d \in Call, d # c PROVE Answers(d)'
  BY <1>1, OthersAnswers DEF Truth, Send, caller
<1>2. Answers(c)'
  <2>1. worker'[c] = "sent" /\ channel'[c] = r
    BY DEF Types, Send
  <2>2. Told(c, understand(c, r))'
    BY DEF Told, understand, same_signal, same_event, event, caller
  <2>3. Answered(c, channel[c])'
    BY <2>1, <2>2 DEF Answered
  <2>4. main[c] = "writing" => frame[c] = timed_out
    BY DEF Truth, Answers, Answered
  <2>5. stdout[c] # None => stdout[c] = timed_out /\ main[c] \in {"returning", "exited"}
    BY DEF Truth, Answers, Answered
  <2>6. client[c] # "settled" /\ (frame[c] \in Response \/ main[c] # "writing")
    BY DEF Types, Control, Threads, Truth, Answers
  <2> QED
    BY <2>1, <2>3, <2>4, <2>5, <2>6 DEF Answers, Answered, caller, timed_out, error, response
<1> QED
  BY <1>1, <1>2 DEF Truth

\* A step of the worker that sends nothing and leaves it at work.
LEMMA WorkAnswers ==
  ASSUME Types, Control, Truth, CallsKept, JournalGrows, NEW c \in Call,
         client[c] # "idle", worker[c] \notin {"sent", "none"},
         worker' = [worker EXCEPT ![c] = "decoded"]
           \/ worker' = [worker EXCEPT ![c] = "executing"]
           \/ worker' = [worker EXCEPT ![c] = "appended"],
         UNCHANGED <<caller, channel, main, frame, stdout>>
  PROVE Truth'
<1>1. ASSUME NEW d \in Call, d # c PROVE Answers(d)'
  BY <1>1, OthersAnswers DEF Types, Truth, caller
<1>2. Answers(c)'
  <2>1. channel[c] = None /\ client[c] # "settled"
    BY DEF Types, Control, Threads, Truth, Answers
  <2>2. main[c] = "writing" => frame[c] \in Response /\ frame[c] = timed_out
    BY DEF Truth, Answers, Answered
  <2>3. stdout[c] # None => stdout[c] = timed_out /\ main[c] \in {"returning", "exited"}
    BY DEF Truth, Answers, Answered
  <2> QED
    BY <2>1, <2>2, <2>3 DEF Answers, Answered, caller, timed_out, error, response
<1> QED
  BY <1>1, <1>2 DEF Truth

\* The worker's steps keep every answer true.
LEMMA WorkerTruth ==
  ASSUME Types, Control, Truth, NEW c \in Call, Worker(c)
  PROVE Truth'
<1>1. CallsKept /\ JournalGrows
  BY WorkerKeeps
<1>2. /\ client[c] # "idle" /\ worker[c] \notin {"sent", "none"}
      /\ request[c] \in Request
  BY DEF Types, Control, Fresh, Threads, Worker, ReadRequest, ClaimDispatch, Answer,
     AppendSignal, ReportAppend
<1>3. Told(c, "unknown") /\ Told(c, understand(c, timed_out))
  BY <1>2, UnknownIsTold, TimedOutIsUnknown
<1>4. CASE ReadRequest(c)
  <2>1. ASSUME NEW id \in {c, None}, NEW code \in DecodeCode, Send(c, error(id, code))
        PROVE Truth'
    <3>1. error(id, code) \in Response
      BY Responses DEF ErrorCode
    <3>2. c \notin applied
      BY <1>4 DEF Control, Gate, ReadRequest
    <3>3. Told(c, understand(c, error(id, code)))
      BY <1>2, <1>3, <3>2 DEF Told, understand, classify, error, response, OutcomeOf, Request
    <3> QED
      BY <1>1, <1>2, <1>4, <2>1, <3>1, <3>3, SendAnswers DEF ReadRequest
  <2> QED
    BY <1>1, <1>2, <1>4, <2>1, WorkAnswers DEF ReadRequest
<1>5. CASE ClaimDispatch(c)
  BY <1>1, <1>2, <1>3, <1>5, WorkAnswers, SendAnswers, Responses DEF ClaimDispatch
<1>6. CASE Answer(c)
  <2>1. c \notin applied
    BY <1>6 DEF Control, Gate, Answer
  <2>2. ASSUME NEW r \in Response, Send(c, r), Told(c, understand(c, r)) PROVE Truth'
    BY <1>1, <1>2, <1>6, <2>2, SendAnswers DEF Answer
  <2>3. ASSUME NEW code \in RefusedCode \cup {"INTERNAL", "JOURNAL_OUTCOME_UNKNOWN", "EVENT_CONFLICT"}
        PROVE error(c, code) \in Response /\ Told(c, understand(c, error(c, code)))
    <3>1. error(c, code) \in Response
      BY Responses DEF ErrorCode, UnknownCode
    <3>2. Told(c, understand(c, error(c, code)))
      BY <1>2, <1>3, <2>1 DEF Told, understand, classify, error, response, OutcomeOf, Request
    <3> QED
      BY <3>1, <3>2
  <2>4. CASE request[c].op = "hello" /\ Send(c, response(c, "success", "ok"))
    <3>1. understand(c, response(c, "success", "ok")) = "ok"
      BY <2>4 DEF understand, version_accepted, response_axis, axis_of, classify, response
    <3>2. Told(c, "ok")
      BY <2>4 DEF Told, OutcomeOf
    <3> QED
      BY <2>2, <2>4, <3>1, <3>2, Responses DEF Disposition
  <2>5. CASE request[c].op = "submit" /\ same_signal(c) # {} /\ Send(c, response(c, "success", "duplicate"))
    <3>1. understand(c, response(c, "success", "duplicate")) = "duplicate"
      BY <2>5 DEF understand, version_accepted, response_axis, axis_of, classify, response
    <3>2. Told(c, "duplicate")
      BY <2>1, <2>5 DEF Told, OutcomeOf, same_signal
    <3> QED
      BY <2>2, <2>5, <3>1, <3>2, Responses DEF Disposition
  <2>6. CASE request[c].op = "reconcile" /\
             Send(c, response(c, "success",
                IF same_event(c) = {} THEN "absent"
                ELSE IF same_signal(c) # {} THEN "accepted" ELSE "conflict"))
    <3> DEFINE o == IF same_event(c) = {} THEN "absent"
                    ELSE IF same_signal(c) # {} THEN "accepted" ELSE "conflict"
    <3>1. understand(c, response(c, "success", o)) = o
      BY <2>6 DEF understand, version_accepted, response_axis, axis_of, classify, response
    <3>2. Told(c, o)
      BY <2>6 DEF Told, OutcomeOf, same_event, Types
    <3>3. o \in Disposition
      BY DEF Disposition
    <3> QED
      BY <2>2, <2>6, <3>1, <3>2, <3>3, Responses
  <2> QED
    BY <1>6, <2>2, <2>3, <2>4, <2>5, <2>6 DEF Answer, RefusedCode
<1>7. CASE AppendSignal(c)
  BY <1>1, <1>2, <1>7, WorkAnswers DEF AppendSignal
<1>8. CASE ReportAppend(c)
  <2>1. c \in applied /\ request[c].op = "submit"
    BY <1>8 DEF Control, Gate, ReportAppend
  <2>2. ASSUME NEW r \in Response, Send(c, r), Told(c, understand(c, r)) PROVE Truth'
    BY <1>1, <1>2, <1>8, <2>2, SendAnswers DEF ReportAppend
  <2>3. CASE Send(c, response(c, "success", "accepted"))
    <3>1. understand(c, response(c, "success", "accepted")) = "accepted"
      BY <2>1 DEF understand, version_accepted, response_axis, axis_of, classify, response
    <3>2. Told(c, "accepted")
      BY <2>1 DEF Told, OutcomeOf
    <3> QED
      BY <2>2, <2>3, <3>1, <3>2, Responses DEF Disposition
  <2>4. CASE Send(c, error(c, "JOURNAL_OUTCOME_UNKNOWN"))
    <3>1. understand(c, error(c, "JOURNAL_OUTCOME_UNKNOWN")) = "unknown"
      BY DEF understand, classify, error, response, UnknownCode
    <3> QED
      BY <1>3, <2>2, <2>4, <3>1, Responses DEF ErrorCode, UnknownCode
  <2> QED
    BY <1>8, <2>3, <2>4 DEF ReportAppend
<1> QED
  BY <1>4, <1>5, <1>6, <1>7, <1>8 DEF Worker

\* The end of a process leaves its call only what was written.
LEMMA TerminateTruth ==
  ASSUME Types, Control, Truth, CallsKept, JournalGrows, NEW c \in Call, NEW how,
         Running(c), Terminate(c, how), UNCHANGED <<caller, stdout, applied>>
  PROVE Truth'
<1>1. ASSUME NEW d \in Call, d # c PROVE Answers(d)'
  BY <1>1, OthersAnswers DEF Types, Truth, Terminate, caller
<1>2. Answers(c)'
  <2>1. channel'[c] = None /\ main'[c] = "exited"
    BY DEF Types, Terminate
  <2>2. client[c] # "idle" /\ client[c] # "settled"
    BY DEF Control, Fresh, Threads, Running
  <2>3. stdout[c] # None => stdout[c] \in Response /\ Answered(c, stdout[c])
    BY DEF Types, Truth, Answers
  <2>4. \A r \in Response : Answered(c, r) => Answered(c, r)'
    BY <2>2, AnsweredKept
  <2>5. stdout[c] # None => Answered(c, stdout[c])'
    BY <2>3, <2>4 DEF Answered
  <2> QED
    BY <2>1, <2>2, <2>5 DEF Answers, caller
<1> QED
  BY <1>1, <1>2 DEF Truth

\* The client's steps keep every outcome true.
LEMMA ClientTruth ==
  ASSUME Types, Control, Truth, NEW c \in Call
  PROVE /\ \A q \in Request, spawned \in BOOLEAN : Begin(c, q, spawned) => Truth'
        /\ GiveUp(c) => Truth'
        /\ Close(c) => Truth'
<1>1. ASSUME NEW q \in Request, NEW spawned \in BOOLEAN, Begin(c, q, spawned) PROVE Truth'
  <2>1. CallsKept /\ JournalGrows
    BY <1>1, ClientKeeps
  <2>2. ASSUME NEW d \in Call, d # c PROVE Answers(d)'
    BY <1>1, <2>1, <2>2, OthersAnswers DEF Types, Truth, Begin
  <2>3. Answers(c)'
    <3>1. channel'[c] = None /\ stdout'[c] = None /\ main'[c] # "writing"
      BY <1>1 DEF Types, Control, Fresh, Begin
    <3>2. request'[c] \in Request
      BY <1>1 DEF Types, Begin
    <3>3. client'[c] = "settled" => outcome'[c] = "unknown"
      BY <1>1 DEF Types, Begin
    <3>4. client'[c] = "settled" => Told(c, outcome[c])'
      BY <3>2, <3>3 DEF Told, OutcomeOf, Request
    <3> QED
      BY <3>1, <3>4 DEF Answers
  <2> QED
    BY <2>2, <2>3 DEF Truth
<1>2. ASSUME GiveUp(c) PROVE Truth'
  <2>1. CallsKept /\ JournalGrows
    BY <1>2, ClientKeeps
  <2>2. ASSUME NEW d \in Call, d # c PROVE Answers(d)'
    BY <1>2, <2>1, <2>2, OthersAnswers DEF Types, Truth, GiveUp, Settle, Terminate
  <2>3. Answers(c)'
    <3>1. client[c] # "idle" /\ request'[c] \in Request
      BY <1>2 DEF Types, Control, Threads, GiveUp, Settle
    <3>2. channel'[c] = None /\ main'[c] \in {"none", "exited"}
      BY <1>2 DEF Types, Control, Threads, Truth, Answers, GiveUp, Terminate, Running
    <3>3. outcome'[c] = "unknown" /\ stdout' = stdout
      BY <1>2 DEF Types, GiveUp, Settle
    <3>4. Told(c, outcome[c])'
      BY <3>1, <3>3 DEF Told, OutcomeOf, Request
    <3>5. \A r \in Response : Answered(c, r) => Answered(c, r)'
      BY <2>1, <3>1, AnsweredKept
    <3>6. stdout[c] # None => stdout[c] \in Response /\ Answered(c, stdout[c])
                              /\ main[c] \in {"returning", "exited"}
      BY DEF Types, Truth, Answers
    <3>7. stdout[c] # None => main'[c] = "exited"
      BY <1>2, <3>6 DEF Types, GiveUp, Terminate, Running
    <3>8. stdout'[c] # None => Answered(c, stdout[c])'
      BY <3>3, <3>5, <3>6
    <3> QED
      BY <3>2, <3>3, <3>4, <3>7, <3>8 DEF Answers
  <2> QED
    BY <2>2, <2>3 DEF Truth
<1>3. ASSUME Close(c) PROVE Truth'
  <2>1. CallsKept /\ JournalGrows
    BY <1>3, ClientKeeps
  <2>2. ASSUME NEW d \in Call, d # c PROVE Answers(d)'
    BY <1>3, <2>1, <2>2, OthersAnswers DEF Types, Truth, Close, Settle, process
  <2>3. Answers(c)'
    <3>1. /\ client[c] # "idle" /\ request[c] \in Request
          /\ main[c] = "exited" /\ worker[c] = "none" /\ channel[c] = None
      BY <1>3 DEF Types, Control, Threads, Truth, Answers, Close
    <3>2. Told(c, "unknown")
      BY <3>1, UnknownIsTold
    <3>3. stdout[c] # None => Answered(c, stdout[c])
      BY DEF Truth, Answers
    <3>4. stdout[c] # None => Told(c, understand(c, stdout[c]))
      BY <3>2, <3>3, TimedOutIsUnknown DEF Answered
    <3>5. Told(c, outcome'[c])
      BY <1>3, <3>2, <3>4 DEF Types, Close, Settle
    <3>6. Told(c, outcome[c])'
      BY <1>3, <3>5 DEF Told, same_signal, same_event, event, Close, Settle
    <3>7. UNCHANGED <<request, before, applied, process>>
      BY <1>3 DEF Close, Settle
    <3>8. stdout[c] # None => Answered(c, stdout[c])'
      BY <3>3, <3>7 DEF Answered, Told, understand, same_signal, same_event, event, process,
         timed_out, error, response
    <3> QED
      BY <3>1, <3>6, <3>7, <3>8 DEF Answers, process
  <2> QED
    BY <2>2, <2>3 DEF Truth
<1> QED
  BY <1>1, <1>2, <1>3

\* The main thread's steps keep every answer true.
LEMMA MainTruth ==
  ASSUME Types, Control, Truth, NEW c \in Call, Main(c) \/ FailIo(c) \/ Crash(c)
  PROVE Truth'
<1>1. CallsKept /\ JournalGrows
  BY MainKeeps
<1>2. client[c] # "idle"
  BY DEF Control, Fresh, Main, Receive, Expire, ClaimTimeout, WriteFrame, Return, FailIo,
     Crash, Running
<1>3. \A r \in Response : Answered(c, r) => Answered(c, r)'
  BY <1>1, <1>2, AnsweredKept
<1>4. client[c] # "settled" \/ main[c] \in {"none", "exited"}
  BY DEF Control, Threads
<1>5. CASE Receive(c)
  <2>1. ASSUME NEW d \in Call, d # c PROVE Answers(d)'
    BY <1>1, <1>5, <2>1, OthersAnswers DEF Types, Truth, Receive, caller
  <2>2. channel[c] \in Response /\ worker[c] = "sent" /\ Answered(c, channel[c])
    BY <1>5 DEF Types, Truth, Answers, Receive
  <2>3. frame'[c] = channel[c] /\ channel'[c] = channel[c] /\ main'[c] = "writing"
    BY <1>5 DEF Types, Receive
  <2>4. Answered(c, channel[c])' /\ Answered(c, frame[c])'
    BY <1>3, <2>2, <2>3
  <2>5. stdout'[c] = None /\ client'[c] # "settled" /\ frame'[c] \in Response
    BY <1>4, <1>5, <2>2, <2>3 DEF Truth, Answers, Receive, caller
  <2>6. Answers(c)'
    BY <1>5, <2>2, <2>4, <2>5 DEF Answers, Receive
  <2> QED
    BY <2>1, <2>6 DEF Truth
<1>6. CASE Expire(c)
  <2>1. ASSUME NEW d \in Call, d # c PROVE Answers(d)'
    BY <1>1, <1>6, <2>1, OthersAnswers DEF Types, Truth, Expire, caller
  <2>2. channel'[c] = None /\ main'[c] = "expired" /\ stdout'[c] = None
    BY <1>6 DEF Types, Truth, Answers, Expire
  <2>3. Answers(c)'
    BY <1>4, <1>6, <2>2 DEF Answers, Expire, caller
  <2> QED
    BY <2>1, <2>3 DEF Truth
<1>7. CASE ClaimTimeout(c)
  <2>1. ASSUME NEW d \in Call, d # c PROVE Answers(d)'
    BY <1>1, <1>7, <2>1, OthersAnswers DEF Types, Truth, ClaimTimeout, caller
  <2>2. frame'[c] = timed_out /\ main'[c] = "writing" /\ stdout'[c] = None
    BY <1>7 DEF Types, Truth, Answers, ClaimTimeout
  <2>3. channel[c] # None => channel[c] \in Response /\ worker[c] = "sent"
                             /\ Answered(c, channel[c])
    BY DEF Types, Truth, Answers
  <2>4. channel[c] # None => Answered(c, channel[c])'
    BY <1>3, <1>7, <2>3 DEF ClaimTimeout
  <2>5. frame'[c] \in Response
    BY <2>2, Responses
  <2>6. Answers(c)'
    BY <1>4, <1>7, <2>2, <2>3, <2>4, <2>5 DEF Answers, Answered, ClaimTimeout, caller,
       timed_out, error, response
  <2> QED
    BY <2>1, <2>6 DEF Truth
<1>8. CASE WriteFrame(c)
  <2>1. ASSUME NEW d \in Call, d # c PROVE Answers(d)'
    BY <1>1, <1>8, <2>1, OthersAnswers DEF Types, Truth, WriteFrame, caller
  <2>2. stdout'[c] = frame[c] /\ main'[c] = "returning"
    BY <1>8 DEF Types, WriteFrame
  <2>3. frame[c] \in Response /\ Answered(c, frame[c])
    BY <1>8 DEF Types, Truth, Answers, WriteFrame
  <2>4. Answered(c, stdout[c])'
    BY <1>3, <2>2, <2>3
  <2>5. channel[c] # None => channel[c] \in Response /\ worker[c] = "sent"
                             /\ Answered(c, channel[c])
    BY DEF Types, Truth, Answers
  <2>6. channel[c] # None => Answered(c, channel[c])'
    BY <1>3, <1>8, <2>5 DEF WriteFrame
  <2>7. Answers(c)'
    BY <1>4, <1>8, <2>2, <2>4, <2>5, <2>6 DEF Answers, WriteFrame, caller
  <2> QED
    BY <2>1, <2>7 DEF Truth
<1>9. CASE Return(c) \/ FailIo(c) \/ Crash(c)
  <2>1. Running(c)
    BY <1>9 DEF Return, FailIo, Crash, Running
  <2> QED
    BY <1>1, <1>9, <2>1, TerminateTruth DEF Return, FailIo, Crash
<1> QED
  BY <1>5, <1>6, <1>7, <1>8, <1>9 DEF Main

-----------------------------------------------------------------------------
(* The theorems.                                                           *)

\* The invariant holds at the start and every step keeps it.
LEMMA InitInv == Init => ExchangeInv
BY NoneAssumption DEF Init, ExchangeInv, Types, Control, Fresh, Threads, Gate,
   OneAppendPerEvent, Truth, Answers

\* Every step keeps the invariant.
LEMMA StepInv ==
  ASSUME ExchangeInv, [Next]_vars
  PROVE ExchangeInv'
<1> USE DEF ExchangeInv
<1>1. ASSUME NEW c \in Call, NEW q \in Request, NEW spawned \in BOOLEAN, Begin(c, q, spawned)
      PROVE ExchangeInv'
  BY <1>1, ClientTypes, ClientControl, ClientKeeps, OneAppendKept, ClientTruth
<1>2. ASSUME NEW c \in Call, GiveUp(c) \/ Close(c) PROVE ExchangeInv'
  BY <1>2, ClientTypes, ClientControl, ClientKeeps, OneAppendKept, ClientTruth
<1>3. ASSUME NEW c \in Call, Worker(c) PROVE ExchangeInv'
  BY <1>3, WorkerTypes, WorkerControl, WorkerKeeps, OneAppendKept, WorkerTruth
<1>4. ASSUME NEW c \in Call, Main(c) \/ FailIo(c) \/ Crash(c) PROVE ExchangeInv'
  BY <1>4, MainTypes, MainControl, MainKeeps, OneAppendKept, MainTruth
<1>5. CASE UNCHANGED vars
  BY <1>5 DEF vars, Types, Control, Fresh, Threads, Gate, OneAppendPerEvent, Truth, Answers,
     Answered, Told, understand, same_signal, same_event, event, timed_out, error, response
<1> QED
  BY <1>1, <1>2, <1>3, <1>4, <1>5 DEF Next

\* The invariant of the exchange: its types, who may be where in the dispatch
\* gate, and the truth of every answer in flight.
THEOREM ExchangeInvariant == Spec => []ExchangeInv
BY InitInv, StepInv, PTL DEF Spec

\* Whatever the interleaving of any number of processes, their watchdogs, their
\* crashes and the clients' timers: what a caller is told is true for good.
THEOREM OutcomesAreTrue == Spec => []OutcomeIsTrue
<1>1. ExchangeInv => OutcomeIsTrue
  BY DEF ExchangeInv, Truth, Answers, Told, OutcomeIsTrue
<1> QED
  BY <1>1, ExchangeInvariant, PTL

\* A process that announced on the timeout that no state effect occurred never
\* has one.
THEOREM TimeoutsHaveNoEffect == Spec => []NoEffectAfterTimeout
<1>1. ExchangeInv => NoEffectAfterTimeout
  BY DEF ExchangeInv, Control, Gate, NoEffectAfterTimeout
<1> QED
  BY <1>1, ExchangeInvariant, PTL

\* A reconciliation that found nothing stays right about every submission that
\* had settled before it was made.
THEOREM AbsenceIsFinal == Spec => []AbsentIsFinal
<1>1. ExchangeInv => AbsentIsFinal
  BY NoneAssumption DEF ExchangeInv, Types, Control, Threads, Truth, Answers, Told, AbsentIsFinal
<1> QED
  BY <1>1, ExchangeInvariant, PTL

-----------------------------------------------------------------------------
(* The plugin.                                                             *)

-----------------------------------------------------------------------------
(* What the arguments and the configuration decide.                        *)

\* The code of a submission: the decoding of the arguments, then the checks of
\* the encoder.
LocalCode(args) ==
  IF ~decodeArgs(args) THEN "INVALID_SIGNAL"
  ELSE encodeSubmit(resolveTrustedSignalValues(args))

\* The codes of a local refusal.
LEMMA LocalCodes ==
  ASSUME NEW args
  PROVE LocalCode(args) \in {OK, "INVALID_SIGNAL", "INVALID_PAYLOAD", "INVALID_EXPECTATION"}
BY DEF LocalCode, encodeSubmit, OK, Protocol!buildWorkflowSignalSubmit,
   Protocol!validateWorkflowSignal, Protocol!OK

\* The values of an accepted configuration make a signal.
LEMMA ResolvedIsSignal ==
  ASSUME NEW args, config \in RawConfig, validateConfig(config),
         args.kind \in Core!SignalKind, args.findingCount \in {None, 0, 1}
  PROVE /\ resolveTrustedSignalValues(args) \in Signal
        /\ resolveTrustedSignalValues(args).event_id = EventId
<1> DEFINE s == resolveTrustedSignalValues(args)
<1>1. /\ s.artifact_ref \in {None, "good"} /\ s.short_error_code \in {None, "good"}
      /\ s.ids = TRUE /\ s.role \in Core!Role
  BY DEF resolveTrustedSignalValues, RawConfig, validateConfig, validateTrustedSignalValues
<1>2. /\ s.event_id = EventId /\ s.kind = args.kind /\ s.finding_count = args.findingCount
      /\ s = [event_id |-> s.event_id, role |-> s.role, ids |-> s.ids, kind |-> s.kind,
              finding_count |-> s.finding_count, artifact_ref |-> s.artifact_ref,
              short_error_code |-> s.short_error_code]
  BY DEF resolveTrustedSignalValues
<1>3. s \in [event_id : {EventId}, role : Core!Role, ids : {TRUE}, kind : Core!SignalKind,
             finding_count : {None, 0, 1}, artifact_ref : {None, "good"},
             short_error_code : {None, "good"}]
  BY <1>1, <1>2
<1> QED
  BY <1>2, <1>3, SignalAssumption

\* What is let through is a signal of the binding that satisfies the rules of
\* the core.
LEMMA SentIsValid ==
  ASSUME NEW args \in Args, config \in RawConfig, validateConfig(config), LocalCode(args) = OK
  PROVE /\ resolveTrustedSignalValues(args) \in Signal
        /\ resolveTrustedSignalValues(args).event_id = EventId
        /\ Core!validate(resolveTrustedSignalValues(args))
        /\ Reportable(args)
<1> DEFINE s == resolveTrustedSignalValues(args)
<1>1. decodeArgs(args) /\ encodeSubmit(s) = OK
  BY DEF LocalCode, OK
<1>2. /\ args # Malformed /\ args.kind \in kindsForRole(config.role)
      /\ args.findingCount \in {None, 0, 1, Big}
  BY <1>1, ArgsAssumption DEF decodeArgs
<1>3. /\ Protocol!isSignalShape(s) /\ s.ids
      /\ s.artifact_ref # "bad" /\ s.short_error_code # "bad"
      /\ Protocol!validateSignalRules(s)
  BY <1>1 DEF encodeSubmit, OK, Protocol!OK, Protocol!buildWorkflowSignalSubmit,
     Protocol!validateWorkflowSignal
<1>4. /\ s.event_id = EventId /\ s.role = config.role /\ s.kind = args.kind
      /\ s.finding_count = args.findingCount /\ s.finding_count \in {None, 0, 1}
  BY <1>2, <1>3 DEF resolveTrustedSignalValues, Protocol!isSignalShape
<1>5. args.kind \in Core!SignalKind /\ config.role \in Core!Role
  BY <1>2 DEF kindsForRole, Core!SignalKind, RawConfig
<1>6. s \in Signal
  BY <1>4, <1>5, ResolvedIsSignal
<1>7. Core!validate(s)
  BY <1>2, <1>3, <1>4, <1>5, ValueAssumption DEF Core!validate, Core!required_role, Core!Role,
     Core!SignalKind, Protocol!validateSignalRules
<1>8. Reportable(args)
  BY <1>2, <1>3, <1>4, <1>5, ValueAssumption DEF Reportable, Core!required_role, Core!Role,
     Core!SignalKind, Protocol!validateSignalRules
<1> QED
  BY <1>4, <1>6, <1>7, <1>8

\* What the agent of this role can report is let through: a configuration that
\* was accepted lacks nothing.
LEMMA ReportableIsSent ==
  ASSUME NEW args \in Args, config \in RawConfig, validateConfig(config), Reportable(args)
  PROVE LocalCode(args) = OK
<1> DEFINE s == resolveTrustedSignalValues(args)
<1>1. /\ config.identity /\ config.role \in Core!Role
      /\ config.blockedShortErrorCode = "good" /\ config.artifactRef \in {None, "good"}
      /\ config.role = "implementation" => config.artifactRef = "good"
  BY DEF RawConfig, validateConfig, validateTrustedSignalValues
<1>2. /\ args # Malformed /\ args.kind \in Core!SignalKind
      /\ config.role \in Core!required_role(args.kind)
      /\ args.findingCount \in {None, 0, 1}
  BY DEF Reportable, Core!SignalKind
<1>3. decodeArgs(args)
  BY <1>1, <1>2, ValueAssumption DEF decodeArgs, kindsForRole, Core!required_role,
     Core!SignalKind, Core!Role
<1>4. Protocol!validateSignalRules(s)
  BY <1>1, <1>2, ValueAssumption DEF Reportable, Core!required_role, Core!SignalKind,
     Core!Role, resolveTrustedSignalValues, Protocol!validateSignalRules
<1>5. s.ids /\ s.artifact_ref # "bad" /\ s.short_error_code # "bad"
  BY <1>1, ValueAssumption DEF resolveTrustedSignalValues
<1>6. Protocol!isSignalShape(s)
  <2>1. s \in Signal
    BY <1>2, ResolvedIsSignal
  <2>2. s.finding_count = args.findingCount
    BY DEF resolveTrustedSignalValues
  <2> QED
    BY <1>2, <2>1, <2>2, ValueAssumption DEF Protocol!isSignalShape
<1> QED
  BY <1>1, <1>3, <1>4, <1>5, <1>6, ValueAssumption DEF LocalCode, encodeSubmit, OK,
     Protocol!buildWorkflowSignalSubmit, Protocol!validateWorkflowSignal, Protocol!OK

\* As long as the configuration stays, so does what it decides.
LEMMA ConfigDecides ==
  ASSUME config' = config, NEW args
  PROVE /\ LocalCode(args)' = LocalCode(args)
        /\ resolveTrustedSignalValues(args)' = resolveTrustedSignalValues(args)
        /\ Reportable(args)' = Reportable(args)
BY DEF LocalCode, decodeArgs, encodeSubmit, resolveTrustedSignalValues, Reportable

-----------------------------------------------------------------------------
(* The inductive invariant.                                                *)

\* The tool is offered only under a configuration that was accepted.
Configured ==
  /\ plugin \in {"unapplied", "preflight", "registered", "failed"}
  /\ plugin \in {"preflight", "registered"} => config \in RawConfig /\ validateConfig(config)

\* A call of the process client is the handshake or belongs to one tool call,
\* which has made it and reports nothing but its outcome; a tool call without
\* one was refused.
ToolCall(c) ==
  /\ client[c] = "idle" <=> request[c] = None
  /\ tool[c] = None /\ client[c] # "idle" => request[c].op = "hello"
  /\ tool[c] # None =>
       /\ plugin = "registered"
       /\ request[c] = None =>
            LocalCode(tool[c].args) # OK /\ tool[c].result = LocalCode(tool[c].args)
       /\ request[c] # None =>
            /\ LocalCode(tool[c].args) = OK
            /\ request[c] = [op |-> "submit",
                             signal |-> resolveTrustedSignalValues(tool[c].args)]
            /\ tool[c].result # None =>
                 client[c] = "settled" /\ tool[c].result = toToolResult(outcome[c])

ToolTypes == tool \in [Call -> [args : Args, result : ToolResult \cup {None}] \cup {None}]
ToolCalls == ToolTypes /\ \A c \in Call : ToolCall(c)

AdapterInv == ExchangeInv /\ Configured /\ ToolCalls

-----------------------------------------------------------------------------
(* The plugin only uses the process client: each of its steps is a step of *)
(* the exchange or leaves it alone.                                        *)

\* A new id is that of a call that was not made.
LEMMA NewId ==
  ASSUME unused # {}
  PROVE /\ newRequestId \in Call
        /\ client[newRequestId] = "idle" /\ tool[newRequestId] = None
BY DEF newRequestId, unused

\* Whatever is begun is a request.
LEMMA BegunIsRequest ==
  ASSUME Configured, NEW args \in Args, plugin = "registered", LocalCode(args) = OK
  PROVE [op |-> "submit", signal |-> resolveTrustedSignalValues(args)] \in Request
<1>1. resolveTrustedSignalValues(args) \in Signal
  BY SentIsValid DEF Configured
<1> QED
  BY <1>1 DEF Request

\* The preflight request of the configuration is one of the exchange.
LEMMA HelloIsRequest == [op |-> "hello", signal |-> None] \in Request
BY DEF Request

\* Every step of the plugin is a step of the exchange, or none.
LEMMA AdapterStep ==
  ASSUME Configured, [AdapterNext]_avars
  PROVE [Next]_vars
<1>1. ASSUME NEW spawned \in BOOLEAN, NEW raw \in RawConfig, unused # {},
             Apply(raw, newRequestId, spawned)
      PROVE [Next]_vars
  BY <1>1, NewId, HelloIsRequest DEF Apply, Next
<1>2. ASSUME NEW spawned \in BOOLEAN, NEW args \in Args, unused # {},
             Execute(newRequestId, args, spawned)
      PROVE [Next]_vars
  <2>1. plugin = "registered"
    BY <1>2 DEF Execute
  <2>2. CASE LocalCode(args) = OK
    <3>1. Begin(newRequestId,
                [op |-> "submit", signal |-> resolveTrustedSignalValues(args)], spawned)
      BY <1>2, <2>2 DEF Execute, LocalCode
    <3> QED
      BY <1>2, <2>1, <2>2, <3>1, NewId, BegunIsRequest DEF Next
  <2>3. CASE LocalCode(args) # OK
    BY <1>2, <2>3 DEF Execute, LocalCode
  <2> QED
    BY <2>2, <2>3
<1>3. CASE Preflight
  BY <1>3 DEF Preflight
<1>4. ASSUME NEW c \in Call, Resume(c) PROVE [Next]_vars
  BY <1>4 DEF Resume
<1>5. ASSUME NEW c \in Call, Exchange(c) PROVE [Next]_vars
  BY <1>5 DEF Exchange, Next
<1>6. CASE UNCHANGED avars
  BY <1>6 DEF avars
<1> QED
  BY <1>1, <1>2, <1>3, <1>4, <1>5, <1>6 DEF AdapterNext

-----------------------------------------------------------------------------
(* Every step keeps the plugin's part of the invariant.                    *)

\* The configuration in use stays one that was accepted.
LEMMA ConfiguredKept ==
  ASSUME Configured, [AdapterNext]_avars
  PROVE Configured'
<1> USE DEF Configured, validateConfig, validateTrustedSignalValues
<1>1. ASSUME NEW spawned \in BOOLEAN, NEW raw \in RawConfig, NEW c, Apply(raw, c, spawned)
      PROVE Configured'
  BY <1>1 DEF Apply
<1>2. ASSUME NEW spawned \in BOOLEAN, NEW args \in Args, NEW c, Execute(c, args, spawned)
      PROVE Configured'
  BY <1>2 DEF Execute
<1>3. CASE Preflight
  BY <1>3 DEF Preflight
<1>4. ASSUME NEW c \in Call, Resume(c) PROVE Configured'
  BY <1>4 DEF Resume
<1>5. ASSUME NEW c \in Call, Exchange(c) PROVE Configured'
  BY <1>5 DEF Exchange, adapter
<1>6. CASE UNCHANGED avars
  BY <1>6 DEF avars, adapter
<1> QED
  BY <1>1, <1>2, <1>3, <1>4, <1>5, <1>6 DEF AdapterNext

\* What a step of the process client does to the calls.
LEMMA ExchangeKeepsCalls ==
  ASSUME ExchangeInv, NEW c \in Call, Exchange(c)
  PROVE /\ request' = request
        /\ \A d \in Call : /\ client'[d] = "idle" <=> client[d] = "idle"
                           /\ client[d] = "settled" =>
                                client'[d] = "settled" /\ outcome'[d] = outcome[d]
BY DEF ExchangeInv, Types, Exchange, GiveUp, Close, Settle, Worker, ReadRequest, ClaimDispatch,
   Answer, AppendSignal, ReportAppend, Main, Receive, Expire, ClaimTimeout, WriteFrame, Return,
   FailIo, Crash, caller

\* A tool call whose own call and whose configuration stay as they are.
LEMMA ToolCallKept ==
  ASSUME ToolTypes, NEW d \in Call, ToolCall(d), tool'[d] = tool[d], config' = config,
         plugin' = plugin, request'[d] = request[d], client'[d] = "idle" <=> client[d] = "idle",
         client[d] = "settled" => client'[d] = "settled" /\ outcome'[d] = outcome[d]
  PROVE ToolCall(d)'
<1>1. CASE tool[d] = None
  BY <1>1 DEF ToolCall
<1>2. CASE tool[d] # None
  <2>1. \A args \in Args : /\ LocalCode(args)' = LocalCode(args)
                           /\ resolveTrustedSignalValues(args)' = resolveTrustedSignalValues(args)
    BY ConfigDecides
  <2>2. tool[d].args \in Args
    BY <1>2 DEF ToolTypes
  <2>3. /\ LocalCode(tool[d].args)' = LocalCode(tool[d].args)
        /\ resolveTrustedSignalValues(tool[d].args)' = resolveTrustedSignalValues(tool[d].args)
    BY <2>1, <2>2
  <2> QED
    BY <1>2, <2>3 DEF ToolCall, toToolResult
<1> QED
  BY <1>1, <1>2

\* Nothing has called the tool before it is registered.
LEMMA NoToolYet ==
  ASSUME ToolCalls, plugin # "registered", NEW d \in Call
  PROVE tool[d] = None
BY DEF ToolCalls, ToolCall

\* What a call that settled may have been told.
LEMMA SubmitOutcomes ==
  ASSUME ExchangeInv, NEW c \in Call, client[c] = "settled", request[c].op = "submit"
  PROVE outcome[c] \in {"accepted", "duplicate", "rejected", "unknown"}
BY DEF ExchangeInv, Truth, Answers, Told, OutcomeOf

\* A tool call that is made: it is refused, or has its own call.
LEMMA ExecuteKept ==
  ASSUME AdapterInv, NEW spawned \in BOOLEAN, NEW args \in Args, NEW c \in Call,
         client[c] = "idle", tool[c] = None, Execute(c, args, spawned)
  PROVE ToolCalls'
<1> DEFINE q == [op |-> "submit", signal |-> resolveTrustedSignalValues(args)]
<1> USE DEF AdapterInv
<1>1. plugin = "registered" /\ plugin' = plugin /\ config' = config
  BY DEF Execute
<1>2. /\ LocalCode(args)' = LocalCode(args)
      /\ resolveTrustedSignalValues(args)' = resolveTrustedSignalValues(args)
  BY <1>1, ConfigDecides
<1>3. CASE LocalCode(args) = OK
  <2>1. Begin(c, q, spawned) /\ tool' = [tool EXCEPT ![c] = [args |-> args, result |-> None]]
    BY <1>3 DEF Execute, LocalCode
  <2>2. q # None
    BY <1>1, <1>3, BegunIsRequest, ValueAssumption
  <2>3. /\ ToolTypes' /\ tool'[c] = [args |-> args, result |-> None]
        /\ \A d \in Call : d # c => tool'[d] = tool[d]
    BY <2>1 DEF ToolCalls, ToolTypes
  <2>4. /\ request'[c] = q /\ client'[c] # "idle"
        /\ \A d \in Call : d # c => /\ request'[d] = request[d] /\ client'[d] = client[d]
                                    /\ outcome'[d] = outcome[d]
    BY <2>1 DEF Begin, ExchangeInv, Types
  <2>5. ToolCall(c)'
    <3>1. tool'[c] # None
      BY <2>3, ArgsAssumption
    <3>2. tool'[c].args = args /\ tool'[c].result = None
      BY <2>3
    <3> QED
      BY <1>1, <1>2, <1>3, <2>2, <2>4, <3>1, <3>2 DEF ToolCall, OK
  <2>6. ASSUME NEW d \in Call, d # c PROVE ToolCall(d)'
    <3>1. ToolTypes /\ ToolCall(d)
      BY DEF ToolCalls
    <3> QED
      BY <1>1, <2>3, <2>4, <2>6, <3>1, ToolCallKept
  <2> QED
    BY <2>3, <2>5, <2>6 DEF ToolCalls
<1>4. CASE LocalCode(args) # OK
  <2>1. /\ UNCHANGED vars
        /\ tool' = [tool EXCEPT ![c] = [args |-> args, result |-> LocalCode(args)]]
    BY <1>4 DEF Execute, LocalCode
  <2>2. request' = request /\ client' = client /\ outcome' = outcome
    BY <2>1 DEF vars
  <2>3. LocalCode(args) \in ToolResult
    BY <1>4, LocalCodes DEF ToolResult
  <2>4. /\ ToolTypes' /\ tool'[c] = [args |-> args, result |-> LocalCode(args)]
        /\ \A d \in Call : d # c => tool'[d] = tool[d]
    BY <2>1, <2>3 DEF ToolCalls, ToolTypes
  <2>5. ToolCall(c)'
    <3>1. request'[c] = None /\ client'[c] = "idle"
      BY <2>2 DEF ToolCalls, ToolCall
    <3>2. tool'[c].args = args /\ tool'[c].result = LocalCode(args)
      BY <2>4
    <3> QED
      BY <1>1, <1>2, <1>4, <3>1, <3>2 DEF ToolCall, OK
  <2>6. ASSUME NEW d \in Call, d # c PROVE ToolCall(d)'
    <3>1. ToolTypes /\ ToolCall(d)
      BY DEF ToolCalls
    <3> QED
      BY <1>1, <2>2, <2>4, <2>6, <3>1, ToolCallKept
  <2> QED
    BY <2>4, <2>5, <2>6 DEF ToolCalls
<1> QED
  BY <1>3, <1>4

\* Each tool call stays tied to the exchange it started and its arguments.
LEMMA ToolCallsKept ==
  ASSUME AdapterInv, [AdapterNext]_avars
  PROVE ToolCalls'
<1> USE DEF AdapterInv
<1>1. ASSUME NEW spawned \in BOOLEAN, NEW raw \in RawConfig, unused # {},
             Apply(raw, newRequestId, spawned)
      PROVE ToolCalls'
  <2>1. plugin = "unapplied" /\ tool' = tool
    BY <1>1 DEF Apply
  <2>2. \A d \in Call : tool[d] = None
    BY <2>1, NoToolYet
  <2>3. ToolTypes'
    BY <2>1 DEF ToolCalls, ToolTypes
  <2>4. CASE validateConfig(raw)
    <3> DEFINE c == newRequestId
               hello == [op |-> "hello", signal |-> None]
    <3>1. Begin(c, hello, spawned) /\ c \in Call
      BY <1>1, <2>4, NewId DEF Apply
    <3>2. hello # None
      BY HelloIsRequest, ValueAssumption
    <3>3. /\ request' = [request EXCEPT ![c] = hello] /\ client'[c] # "idle"
          /\ \A d \in Call : d # c => client'[d] = client[d]
      BY <3>1 DEF Begin, ExchangeInv, Types
    <3>4. ASSUME NEW d \in Call PROVE ToolCall(d)'
      BY <2>1, <2>2, <3>1, <3>2, <3>3 DEF ToolCalls, ToolCall, ExchangeInv, Types
    <3> QED
      BY <2>3, <3>4 DEF ToolCalls
  <2>5. CASE ~validateConfig(raw)
    <3>1. UNCHANGED vars
      BY <1>1, <2>5 DEF Apply
    <3>2. ASSUME NEW d \in Call PROVE ToolCall(d)'
      BY <2>1, <2>2, <3>1 DEF ToolCalls, ToolCall, vars
    <3> QED
      BY <2>3, <3>2 DEF ToolCalls
  <2> QED
    BY <2>4, <2>5
<1>2. ASSUME NEW spawned \in BOOLEAN, NEW args \in Args, unused # {},
             Execute(newRequestId, args, spawned)
      PROVE ToolCalls'
  BY <1>2, NewId, ExecuteKept
<1>3. CASE Preflight
  <2>1. plugin # "registered" /\ UNCHANGED <<tool, vars>>
    BY <1>3 DEF Preflight
  <2>2. \A d \in Call : tool[d] = None
    BY <2>1, NoToolYet
  <2> QED
    BY <2>1, <2>2 DEF ToolCalls, ToolTypes, ToolCall, vars
<1>4. ASSUME NEW c \in Call, Resume(c) PROVE ToolCalls'
  <2>1. /\ tool[c] # None /\ tool[c].result = None /\ client[c] = "settled"
        /\ tool' = [tool EXCEPT ![c].result = toToolResult(outcome[c])]
        /\ UNCHANGED <<plugin, config, vars>>
    BY <1>4 DEF Resume
  <2>2. request[c] # None /\ request[c].op = "submit"
    <3>1. ToolCall(c) /\ tool[c] # None /\ client[c] = "settled"
      BY <2>1 DEF ToolCalls
    <3>2. request[c] # None
      BY <3>1 DEF ToolCall
    <3> QED
      BY <3>1, <3>2 DEF ToolCall
  <2>3. toToolResult(outcome[c]) \in ToolResult
    BY <2>1, <2>2, SubmitOutcomes DEF toToolResult, ToolResult
  <2>4. /\ ToolTypes'
        /\ tool'[c] = [args |-> tool[c].args, result |-> toToolResult(outcome[c])]
    BY <2>1, <2>3 DEF ToolCalls, ToolTypes
  <2>5. ToolCall(c)'
    <3>1. tool[c].args \in Args
      BY <2>1 DEF ToolCalls, ToolTypes
    <3>2. /\ LocalCode(tool[c].args)' = LocalCode(tool[c].args)
          /\ resolveTrustedSignalValues(tool[c].args)' = resolveTrustedSignalValues(tool[c].args)
      <4>1. \A args : /\ LocalCode(args)' = LocalCode(args)
                      /\ resolveTrustedSignalValues(args)' = resolveTrustedSignalValues(args)
        BY <2>1, ConfigDecides
      <4>2. tool'[c].args = tool[c].args
        BY <2>4
      <4> QED
        BY <4>1, <4>2
    <3>3. tool'[c].args = tool[c].args /\ tool'[c].result = toToolResult(outcome[c])
      BY <2>4
    <3>4. tool'[c] # None
      BY <2>3, <2>4, <3>1, ArgsAssumption
    <3>5. ToolCall(c)
      BY DEF ToolCalls
    <3> QED
      BY <2>1, <2>2, <3>2, <3>3, <3>4, <3>5 DEF ToolCall, toToolResult, vars
  <2>6. ASSUME NEW d \in Call, d # c PROVE ToolCall(d)'
    BY <2>1, <2>6, ToolCallKept DEF ToolCalls, ToolTypes, vars
  <2> QED
    BY <2>4, <2>5, <2>6 DEF ToolCalls
<1>5. ASSUME NEW c \in Call, Exchange(c) PROVE ToolCalls'
  <2>1. UNCHANGED <<plugin, config, tool>>
    BY <1>5 DEF Exchange, adapter
  <2>2. ASSUME NEW d \in Call PROVE ToolCall(d)'
    BY <1>5, <2>1, ExchangeKeepsCalls, ToolCallKept DEF ToolCalls
  <2> QED
    BY <2>1, <2>2 DEF ToolCalls, ToolTypes
<1>6. CASE UNCHANGED avars
  <2>1. ASSUME NEW d \in Call PROVE ToolCall(d)'
    BY <1>6, ToolCallKept DEF ToolCalls, avars, vars, adapter
  <2> QED
    BY <1>6, <2>1 DEF ToolCalls, ToolTypes, avars, adapter
<1> QED
  BY <1>1, <1>2, <1>3, <1>4, <1>5, <1>6 DEF AdapterNext

-----------------------------------------------------------------------------
(* The theorems.                                                           *)

\* The initial state.
LEMMA AdapterInitInv == AdapterInit => AdapterInv
<1> SUFFICES ASSUME AdapterInit PROVE AdapterInv
  OBVIOUS
<1>1. ExchangeInv
  BY InitInv DEF AdapterInit
<1>2. Configured
  BY DEF AdapterInit, Configured
<1>3. ToolCalls
  BY DEF AdapterInit, Init, ToolCalls, ToolTypes, ToolCall
<1> QED
  BY <1>1, <1>2, <1>3 DEF AdapterInv

\* Every step of the plugin keeps its invariant.
LEMMA AdapterStepInv ==
  ASSUME AdapterInv, [AdapterNext]_avars
  PROVE AdapterInv'
<1>1. ExchangeInv'
  BY AdapterStep, StepInv DEF AdapterInv
<1>2. Configured' /\ ToolCalls'
  BY ConfiguredKept, ToolCallsKept DEF AdapterInv
<1> QED
  BY <1>1, <1>2 DEF AdapterInv

\* The invariant of the plugin: that of the exchange, the configuration and
\* what each tool call knows of its own exchange.
THEOREM AdapterInvariant == AdapterSpec => []AdapterInv
BY AdapterInitInv, AdapterStepInv, PTL DEF AdapterSpec

\* The plugin uses its process client as the exchange prescribes: every
\* behaviour of the plugin is one of the exchange, so what is proved of the
\* exchange holds below the plugin.
THEOREM PluginImplementsExchange == AdapterSpec => Spec
<1>1. AdapterInit => Init
  BY DEF AdapterInit
<1>2. Configured /\ [AdapterNext]_avars => [Next]_vars
  BY AdapterStep
<1>3. AdapterInv => Configured
  BY DEF AdapterInv
<1> QED
  BY <1>1, <1>2, <1>3, AdapterInvariant, PTL DEF AdapterSpec, Spec

\* Whatever a call of the plugin appends names the event of the configuration.
LEMMA AppendedIsBound ==
  ASSUME AdapterInv, NEW c \in applied
  PROVE event(c) = EventId
<1>1. c \in Call /\ client[c] # "idle" /\ request[c].op = "submit"
  BY DEF AdapterInv, ExchangeInv, Types, Control, Fresh, Gate
<1>2. ToolCall(c)
  BY <1>1 DEF AdapterInv, ToolCalls
<1>3. tool[c] # None /\ request[c] # None /\ tool[c].args \in Args
  <2>1. tool[c] # None /\ request[c] # None
    BY <1>1, <1>2 DEF ToolCall
  <2> QED
    BY <1>1, <2>1 DEF AdapterInv, ToolCalls, ToolTypes
<1>4. /\ plugin = "registered" /\ LocalCode(tool[c].args) = OK
      /\ request[c].signal = resolveTrustedSignalValues(tool[c].args)
  BY <1>2, <1>3 DEF ToolCall
<1>5. /\ request[c].signal \in Signal
      /\ request[c].signal.event_id = EventId
  BY <1>3, <1>4, SentIsValid DEF AdapterInv, Configured
<1> QED
  BY <1>5, SignalAssumption DEF event

\* However often, with whatever arguments and however concurrently the agent
\* calls the tool: at most one signal of the binding is recorded, and every
\* success is about that one.
THEOREM OneResult == AdapterSpec => []OneResultPerBinding
<1>1. ASSUME AdapterInv PROVE OneResultPerBinding
  <2>1. \A c, d \in applied : c = d
    BY <1>1, AppendedIsBound DEF AdapterInv, ExchangeInv, OneAppendPerEvent
  <2>2. Cardinality(applied) <= 1
    <3>1. CASE applied = {}
      BY <3>1, FS_EmptySet
    <3>2. CASE applied # {}
      <4>1. PICK c : applied = {c}
        BY <2>1, <3>2
      <4> QED
        BY <4>1, FS_Singleton
    <3> QED
      BY <3>1, <3>2
  <2>3. ASSUME NEW c \in Call, tool[c] # None, tool[c].result \in Success
        PROVE \E d \in applied : request[d].signal = request[c].signal
    <3>1. ToolCall(c)
      BY <1>1 DEF AdapterInv, ToolCalls
    <3>2. request[c] # None
      <4> SUFFICES ASSUME request[c] = None PROVE FALSE
        OBVIOUS
      <4>1. tool[c].result = LocalCode(tool[c].args) /\ LocalCode(tool[c].args) # OK
        BY <2>3, <3>1 DEF ToolCall
      <4> QED
        BY <2>3, <4>1, LocalCodes DEF Success
    <3>3. tool[c].result # None
      BY <2>3, NoneAssumption DEF Success
    <3>4. client[c] = "settled" /\ tool[c].result = toToolResult(outcome[c])
      BY <2>3, <3>1, <3>2, <3>3 DEF ToolCall
    <3>5. request[c].op = "submit"
      BY <2>3, <3>1, <3>2 DEF ToolCall
    <3>6. outcome[c] \in {"accepted", "duplicate"}
      BY <2>3, <3>4 DEF Success, toToolResult
    <3>7. Told(c, outcome[c])
      BY <1>1, <3>4 DEF AdapterInv, ExchangeInv, Truth, Answers
    <3> QED
      BY <3>5, <3>6, <3>7 DEF Told, same_signal
  <2> QED
    BY <2>2, <2>3 DEF OneResultPerBinding
<1> QED
  BY <1>1, AdapterInvariant, PTL

\* A tool call that threw anything but AIZIGN_OUTCOME_UNKNOWN recorded nothing
\* and never will.
THEOREM ToolErrorsAreTrue == AdapterSpec => []ToolErrorIsTrue
<1>1. ASSUME AdapterInv PROVE ToolErrorIsTrue
  <2> SUFFICES ASSUME NEW c \in Call, tool[c] # None,
                      tool[c].result \notin Success \cup {None, "AIZIGN_OUTCOME_UNKNOWN"}
               PROVE c \notin applied
    BY DEF ToolErrorIsTrue
  <2>1. ToolCall(c)
    BY <1>1 DEF AdapterInv, ToolCalls
  <2>2. CASE request[c] = None
    <3>1. client[c] = "idle"
      BY <2>1, <2>2 DEF ToolCall
    <3> QED
      BY <1>1, <3>1 DEF AdapterInv, ExchangeInv, Control, Fresh
  <2>3. CASE request[c] # None
    <3>1. client[c] = "settled" /\ tool[c].result = toToolResult(outcome[c])
      BY <2>1, <2>3 DEF ToolCall
    <3>2. request[c].op = "submit"
      BY <2>1, <2>3 DEF ToolCall
    <3>3. outcome[c] = "rejected"
      BY <1>1, <3>1, <3>2, SubmitOutcomes DEF AdapterInv, toToolResult, Success
    <3> QED
      BY <1>1, <3>1, <3>3 DEF AdapterInv, ExchangeInv, Truth, Answers, Told
  <2> QED
    BY <2>2, <2>3
<1> QED
  BY <1>1, AdapterInvariant, PTL

\* Under a configuration that was accepted at startup a tool call is refused
\* locally exactly for what the agent said, and what is sent satisfies the
\* rules of the core.
THEOREM ArgumentsAlwaysDecide == AdapterSpec => []ArgumentsDecide
<1>1. ASSUME AdapterInv PROVE ArgumentsDecide
  <2> SUFFICES ASSUME NEW c \in Call, tool[c] # None
               PROVE /\ request[c] = None <=> ~Reportable(tool[c].args)
                     /\ request[c] # None => Core!validate(request[c].signal)
    BY DEF ArgumentsDecide
  <2>1. ToolCall(c)
    BY <1>1 DEF AdapterInv, ToolCalls
  <2>2. tool[c].args \in Args
    BY <1>1 DEF AdapterInv, ToolCalls, ToolTypes
  <2>3. config \in RawConfig /\ validateConfig(config)
    BY <1>1, <2>1 DEF AdapterInv, Configured, ToolCall
  <2>4. CASE request[c] = None
    <3>1. LocalCode(tool[c].args) # OK
      BY <2>1, <2>4 DEF ToolCall
    <3>2. ~Reportable(tool[c].args)
      BY <2>2, <2>3, <3>1, ReportableIsSent
    <3> QED
      BY <2>4, <3>2
  <2>5. CASE request[c] # None
    <3>1. /\ LocalCode(tool[c].args) = OK
          /\ request[c].signal = resolveTrustedSignalValues(tool[c].args)
      BY <2>1, <2>5 DEF ToolCall
    <3>2. /\ Reportable(tool[c].args)
          /\ Core!validate(resolveTrustedSignalValues(tool[c].args))
      BY <2>2, <2>3, <3>1, SentIsValid
    <3>3. Core!validate(request[c].signal)
      BY <3>1, <3>2
    <3> QED
      BY <2>5, <3>2, <3>3
  <2> QED
    BY <2>4, <2>5
<1> QED
  BY <1>1, AdapterInvariant, PTL
=============================================================================
