----------------------------- MODULE DshAdapter -----------------------------
(***************************************************************************)
(* The DSH plugin (adapters/dsh) on top of its process client: `apply`     *)
(* validates the configuration, asks the binary for its `hello` and        *)
(* registers one tool; each call of the tool turns the agent's arguments   *)
(* and the trusted values of the configuration into one submission, and    *)
(* its outcome into a result or a harness error.  The agent may call the   *)
(* tool again, also while a call is under way: the adapter repeats nothing *)
(* by itself and keeps nothing between calls.                              *)
(***************************************************************************)
EXTENDS OneShotExchange, Naturals

CONSTANTS
  Malformed,    \* arguments that are no object or have an unknown member
  Negative,     \* a count that is no non-negative integer
  Args,         \* the arguments the agent may pass, Malformed among them
  EventId,      \* the event id of the configuration
  Big,          \* a count that is no unsigned 32-bit integer, -0 among them
  Missing, Null, Scalar, Misshapen   \* see Frames

Core == INSTANCE WorkflowCore
Protocol == INSTANCE TsCodec

\* Null and the classes of defective values are none of the proper values.
ASSUME ValueAssumption ==
  /\ None \notin {0, 1, "good", "bad"} \cup Request
  /\ Big \notin {None, 0, 1} /\ Negative \notin {None, 0, 1}
  /\ {Missing, Misshapen} \cap ({"good", "invalid"} \cup Signal) = {}

\* What a tool call ends with: a success, or the code it throws.
ToolResult ==
  {"accepted", "duplicate", "rejected", "AIZIGN_OUTCOME_UNKNOWN",
   "INVALID_SIGNAL", "INVALID_PAYLOAD", "INVALID_EXPECTATION"}

\* The classes of counts the agent may pass: 1 stands for every positive one.
ASSUME ArgsAssumption ==
  /\ \A args \in Args \ {Malformed} : args.findingCount \in {None, 0, 1, Big, Negative}
  /\ None \notin ToolResult \cup [args : Args, result : ToolResult \cup {None}]

\* The signals that a configuration and arguments make are signals, and a
\* signal carries its event id.
ASSUME SignalAssumption ==
  /\ [event_id : {EventId}, role : Core!Role, ids : {TRUE}, kind : Core!SignalKind,
      finding_count : {None, 0, 1}, artifact_ref : {None, "good"},
      short_error_code : {None, "good"}] \subseteq Signal
  /\ \A s \in Signal : EventOf[s] = s.event_id

VARIABLES
  plugin,       \* unapplied, in preflight, registered, or failed
  config,       \* the raw configuration, kept once it is validated
  startup,      \* the code `apply` threw
  hello_call,   \* the call preflight waits for
  tool          \* tool[c]: the arguments of the tool call that c is for, and
                \* its result: a disposition, the code it threw, or None

adapter == <<plugin, config, startup, hello_call, tool>>
avars == <<vars, adapter>>

OK == "OK"

-----------------------------------------------------------------------------
(* config.ts.                                                              *)

\* A configuration: `own` says that trustedSignalValues is a plain object of
\* nothing but its own, known data members; `identity` that the identifiers,
\* the digest, the paths and the timeout are in order.
RawConfig ==
  [role : Core!Role, own : BOOLEAN, identity : BOOLEAN,
   artifactRef : {None, "good", "bad"}, blockedShortErrorCode : {None, "good", "bad"}]

\* Faulty variant of validateTrustedSignalValues: the role is not considered.
validateTrustedAnyRole(raw) ==
  raw.own /\ raw.blockedShortErrorCode = "good" /\ raw.artifactRef # "bad"

validateTrustedSignalValues(raw) ==
  /\ raw.own
  /\ raw.blockedShortErrorCode = "good" /\ raw.artifactRef # "bad"
  /\ raw.role = "implementation" => raw.artifactRef # None

validateConfig(raw) == validateTrustedSignalValues(raw) /\ raw.identity

-----------------------------------------------------------------------------
(* index.ts and preflight.ts.                                              *)

HelloInfo == [protocolVersion : {1, 2}, capabilities : SUBSET {"submit", "reconcile"}]

checkCompatibility(info) == info.protocolVersion = 1 /\ "submit" \in info.capabilities

\* newRequestId: an id, and with it a process, that no call had before.
unused == {c \in Call : client[c] = "idle" /\ tool[c] = None}
newRequestId == CHOOSE c \in unused : TRUE

\* A configuration that fails is refused before anything is spawned.
Apply(raw, c, spawned) ==
  /\ plugin = "unapplied"
  /\ IF validateConfig(raw)
     THEN /\ plugin' = "preflight" /\ config' = raw /\ startup' = None /\ hello_call' = c
          /\ Begin(c, [op |-> "hello", signal |-> None], spawned)
     ELSE /\ plugin' = "failed" /\ startup' = "INVALID_EXPECTATION"
          /\ UNCHANGED <<config, hello_call, vars>>
  /\ UNCHANGED tool

\* The hello settled: the tool is registered only for a compatible binary.
Preflight ==
  /\ plugin = "preflight" /\ client[hello_call] = "settled"
  /\ \/ /\ outcome[hello_call] # "ok"
        /\ plugin' = "failed" /\ startup' = "AIZIGN_UNAVAILABLE"
     \/ /\ outcome[hello_call] = "ok"
        /\ \E info \in HelloInfo :
             IF checkCompatibility(info)
             THEN plugin' = "registered" /\ UNCHANGED startup
             ELSE plugin' = "failed" /\ startup' = "AIZIGN_INCOMPATIBLE"
  /\ UNCHANGED <<config, hello_call, tool, vars>>

-----------------------------------------------------------------------------
(* tool.ts and trusted-values.ts.                                          *)

kindsForRole(role) ==
  IF role = "implementation" THEN {"implementation_ready", "repair_submitted", "blocked"}
  ELSE {"review_passed", "review_findings", "blocked"}

\* decodeArgs.
decodeArgs(args) ==
  /\ args # Malformed
  /\ args.kind \in kindsForRole(config.role)
  /\ args.findingCount # Negative

\* Faulty variant of resolveTrustedSignalValues: the kind names the event.
resolve_naming_event(args) ==
  [event_id |-> args.kind, role |-> config.role, ids |-> config.identity,
   kind |-> args.kind, finding_count |-> args.findingCount,
   artifact_ref |-> IF args.kind \in {"repair_submitted", "review_findings"}
                    THEN config.artifactRef ELSE None,
   short_error_code |-> IF args.kind = "blocked" THEN config.blockedShortErrorCode ELSE None]

\* The signal; the rest of its identity is that of the binding.
resolveTrustedSignalValues(args) ==
  [event_id |-> EventId, role |-> config.role, ids |-> config.identity,
   kind |-> args.kind, finding_count |-> args.findingCount,
   artifact_ref |-> IF args.kind \in {"repair_submitted", "review_findings"}
                    THEN config.artifactRef ELSE None,
   short_error_code |-> IF args.kind = "blocked" THEN config.blockedShortErrorCode ELSE None]

\* encodeRequest, the local gate before a process exists.
encodeSubmit(signal) ==
  Protocol!buildWorkflowSignalSubmit(
    [expected |-> IF config.identity THEN "good" ELSE "invalid", signal |-> signal,
     other |-> FALSE, serde |-> FALSE])

\* Faulty variant of toToolResult: whatever is no success is a rejection.
toToolResultCollapsed(o) == IF o \in {"accepted", "duplicate"} THEN o ELSE "rejected"

\* toToolResult; "rejected" stands for the code of the rejection.
toToolResult(o) ==
  IF o = "unknown" THEN "AIZIGN_OUTCOME_UNKNOWN" ELSE o

\* execute up to the await; a call with an aborted signal is not spawned.
Execute(c, args, spawned) ==
  /\ plugin = "registered"
  /\ LET signal == resolveTrustedSignalValues(args)
         code == IF ~decodeArgs(args) THEN "INVALID_SIGNAL" ELSE encodeSubmit(signal)
     IN IF code = OK
        THEN /\ Begin(c, [op |-> "submit", signal |-> signal], spawned)
             /\ tool' = [tool EXCEPT ![c] = [args |-> args, result |-> None]]
        ELSE /\ tool' = [tool EXCEPT ![c] = [args |-> args, result |-> code]]
             /\ UNCHANGED vars
  /\ UNCHANGED <<plugin, config, startup, hello_call>>

\* execute after the await.
Resume(c) ==
  /\ tool[c] # None /\ tool[c].result = None /\ client[c] = "settled"
  /\ tool' = [tool EXCEPT ![c].result = toToolResult(outcome[c])]
  /\ UNCHANGED <<plugin, config, startup, hello_call, vars>>

-----------------------------------------------------------------------------
AdapterInit ==
  /\ Init
  /\ plugin = "unapplied" /\ config = None /\ startup = None /\ hello_call = None
  /\ tool = [c \in Call |-> None]

Exchange(c) ==
  /\ GiveUp(c) \/ Close(c) \/ Worker(c) \/ Main(c) \/ FailIo(c) \/ Crash(c)
  /\ UNCHANGED adapter

AdapterNext ==
  \/ /\ unused # {}
     /\ \E spawned \in BOOLEAN :
          \/ \E raw \in RawConfig : Apply(raw, newRequestId, spawned)
          \/ \E args \in Args : Execute(newRequestId, args, spawned)
  \/ Preflight
  \/ \E c \in Call : Resume(c) \/ Exchange(c)

AdapterSpec == AdapterInit /\ [][AdapterNext]_avars

-----------------------------------------------------------------------------
(* Correctness.                                                            *)

Success == {"accepted", "duplicate"}

\* However often, with whatever arguments and however concurrently the agent
\* calls the tool, also after an unknown outcome: at most one signal of the
\* binding is recorded, and every call that succeeds is about that one.
OneResultPerBinding ==
  /\ Cardinality(applied) <= 1
  /\ \A c \in Call : tool[c] # None /\ tool[c].result \in Success =>
       \E d \in applied : request[d].signal = request[c].signal

\* What the agent is told of a call is true for good: unless the code is
\* AIZIGN_OUTCOME_UNKNOWN, a call that threw recorded nothing and never will,
\* one that was refused locally included.
ToolErrorIsTrue ==
  \A c \in Call :
    /\ tool[c] # None
    /\ tool[c].result \notin Success \cup {None, "AIZIGN_OUTCOME_UNKNOWN"}
    => c \notin applied

\* What the agent of this role can report, going by the rules of the core.
Reportable(args) ==
  /\ args # Malformed /\ args.kind \in Core!SignalKind
  /\ config.role \in Core!required_role(args.kind)
  /\ args.findingCount \in
       CASE args.kind \in {"review_findings", "repair_submitted"} -> {1}
         [] args.kind = "review_passed" -> {0}
         [] OTHER -> {None}

\* A configuration that was accepted at startup is good for every report: a
\* call is refused locally exactly for what the agent said, never for a value
\* the configuration lacks, and what is sent satisfies the core's rules.
ArgumentsDecide ==
  \A c \in Call : tool[c] # None =>
    /\ request[c] = None <=> ~Reportable(tool[c].args)
    /\ request[c] # None => Core!validate(request[c].signal)
=============================================================================
