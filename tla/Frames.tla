------------------------------- MODULE Frames -------------------------------
(***************************************************************************)
(* The frames of Protocol v1 as both codecs see them: what the token scan  *)
(* reports (see TokenScan) and, member by member, the classes of values    *)
(* that some check of either codec tells apart.                            *)
(***************************************************************************)
EXTENDS WorkflowCore, FiniteSets, FiniteSetsExt

CONSTANTS
  Big,               \* a canonical integer that does not fit 32 unsigned bits
  Missing, Null,     \* a member that is absent, and one that is null
  Scalar, Misshapen  \* a member that is no object, and one of another shape

OK == "OK"
BOOTSTRAP_ENVELOPE_VERSION == 1

\* The registered kinds, an unregistered one, and an unregistered one too
\* long to be echoed within MAX_FRAME_BYTES.
Registered == {"hello", "submit", "reconcile"}
KindNames == Registered \cup {"future", "long"}

\* The version axis an envelope of this kind is on.
Axis(kind) == IF kind = "hello" THEN "bootstrap" ELSE "operation"

\* A check fails with its code or passes.
Check(fails, code) == IF fails THEN code ELSE OK

\* The outcome of ordered checks: the code of the first that fails.
FirstCode(checks) ==
  LET failed == {i \in DOMAIN checks : checks[i] # OK} IN
    IF failed = {} THEN OK ELSE checks[Min(failed)]

-----------------------------------------------------------------------------
\* How far a frame is JSON.  A token failure is a duplicate member, an
\* ill-formed string or a non-canonical number; only a number below the
\* payload is told apart.  `safe` is false when a root member name is
\* ill-formed, which is such a failure too.
Lexical == {"large", "text", "syntax", "nonobject", "object"}
Tokens ==
  {t \in [failure : {"none", "payload_number", "other"}, safe : BOOLEAN] :
     t.failure = "none" => t.safe}

\* A signal on the wire: not of the DTO's shape, or its typed members.  `ids`
\* says whether the identifiers and the digest are well formed.
WireSignal ==
  {Misshapen} \cup
  [ids : BOOLEAN, kind : SignalKind, role : Role,
   finding_count : {None, 0, 1, Big},
   artifact_ref : {None, "good", "bad"}, short_error_code : {None, "good", "bad"}]

\* A request payload.  `other` is an unknown member, `deep` a container below
\* the typed depth limit, `wide` an integer beyond 32 bits; the last two need
\* a member of the wrong type, or findingCount, to sit in.  `serde` says that
\* somewhere in `expected` or `signal` (the digests included) an object is
\* spelled as the array of its members in the DTO's order, or the name of a
\* variant as the object {name: null}.
WirePayload ==
  {p \in [expected : {Missing, Misshapen, "invalid", "good"},
          signal : {Missing} \cup WireSignal,
          other : BOOLEAN, deep : BOOLEAN, wide : BOOLEAN, serde : BOOLEAN] :
     LET loose == p.other \/ p.expected = Misshapen \/ p.signal = Misshapen
         counted == p.signal \notin {Missing, Misshapen}
                      /\ p.signal.finding_count = Big
         shaped == p.expected \in {"invalid", "good"} \/ p.signal \notin {Missing, Misshapen}
     IN (p.serde => shaped) /\ (p.deep => loose) /\ (counted => p.wide) /\ (p.wide => loose \/ counted)}

EmptyPayload == [expected |-> Missing, signal |-> Missing, other |-> FALSE,
                 deep |-> FALSE, wide |-> FALSE, serde |-> FALSE]

\* An error member: absent, null, neither object nor array, or an object, or an
\* array of the same members, with a code that is no string (None), malformed
\* or well formed, and with or without other defects of shape.
WireError ==
  {Missing, Null, Scalar} \cup
  [code : {None, "malformed", "PROTOCOL_VERSION_UNSUPPORTED", "HANDLER_TIMEOUT",
           "INVALID_ENVELOPE"},
   closed : BOOLEAN, array : BOOLEAN]

\* The payload of a response.  "huge" is an integer beyond a double; "serde" is
\* a good result with an array for an object, or {name: null} for a variant.
WireResult == {Missing, Null, Scalar, Misshapen, "huge", "deep", "wide", "serde", "good"}

\* The codes a handler answers with: those of the decoders and the watchdog, and
\* EVENT_CONFLICT for all that an executed operation may answer.
ErrorCode ==
  {"REQUEST_TOO_LARGE", "INVALID_ENVELOPE", "INVALID_PAYLOAD", "UNKNOWN_KIND",
   "PROTOCOL_VERSION_UNSUPPORTED", "INVALID_EXPECTATION", "INVALID_SIGNAL",
   "EVENT_CONFLICT", "HANDLER_TIMEOUT"}

-----------------------------------------------------------------------------
\* Whatever may be read as a request, and as a response.
RequestFrame ==
  {f \in [lex : Lexical, failure : {"none", "payload_number", "other"}, safe : BOOLEAN,
          protocol : BOOLEAN, version : Nat \cup {None}, id : {"good", "bad", "missing"},
          kind : KindNames \cup {"bad", "missing"}, extra : BOOLEAN,
          payload : {Missing, Scalar} \cup WirePayload] :
     f.failure = "none" => f.safe}

ResponseFrame ==
  {g \in [lex : Lexical, failure : {"none", "payload_number", "other"}, safe : BOOLEAN,
          protocol : BOOLEAN, version : Nat \cup {None},
          id : {"good", "bad", "null", "missing"},
          kind : KindNames \cup {"bad", "null", "missing"}, ok : {"true", "false", "bad"},
          extra : BOOLEAN, payload : WireResult, error : WireError] :
     g.failure = "none" => g.safe}

\* The version a response is expected on: the bootstrap axis has one.
VersionContext ==
  [axis : {"bootstrap"}, version : {BOOTSTRAP_ENVELOPE_VERSION}]
    \cup [axis : {"operation"}, version : Nat \ {0}]
=============================================================================
