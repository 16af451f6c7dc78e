-------------------------- MODULE MCCodecExchange --------------------------
(***************************************************************************)
(* Instance of CodecExchange.  Request frames are every envelope with one  *)
(* payload of each class, a good envelope with every payload of an         *)
(* operation, and texts that are no object; response frames are every      *)
(* combination of body members in a good envelope, and every envelope with *)
(* a few bodies.                                                           *)
(***************************************************************************)
EXTENDS CodecExchange

Good == [ids |-> TRUE, kind |-> "review_passed", role |-> "review",
         finding_count |-> 0, artifact_ref |-> None, short_error_code |-> None]

Submit(expected, s) ==
  [expected |-> expected, signal |-> s, other |-> FALSE, deep |-> FALSE, wide |-> FALSE,
   serde |-> FALSE]

SomePayloads ==
  {Missing, Scalar, EmptyPayload, Submit("good", Good), Submit("invalid", Good),
   Submit("good", [Good EXCEPT !.ids = FALSE]), Submit("good", Misshapen),
   [Submit("good", [Good EXCEPT !.finding_count = Big]) EXCEPT !.wide = TRUE],
   [Submit("good", Misshapen) EXCEPT !.deep = TRUE], Submit(Missing, Good),
   [Submit("good", Good) EXCEPT !.serde = TRUE]}

RequestEnvelope(lex, t, payload) ==
  [lex : lex, failure : {t.failure}, safe : {t.safe}, protocol : BOOLEAN,
   version : {None, 0, 1, 2}, id : {"good", "bad", "missing"},
   kind : KindNames \cup {"bad", "missing"}, extra : BOOLEAN, payload : payload]

MCPayloads == WirePayload

MCRequestFrames ==
  UNION {RequestEnvelope({"object"}, t, SomePayloads) : t \in Tokens}
  \cup UNION {RequestEnvelope(Lexical \ {"object"}, t, {EmptyPayload}) : t \in Tokens}
  \cup {encodeRequest(k, p, 1) : k \in Registered \ {"hello"}, p \in WirePayload}

ResponseEnvelope(t, protocols, versions, extras, payloads, errors) ==
  [lex : {"object"}, failure : {t.failure}, safe : {t.safe}, protocol : protocols,
   version : versions, id : {"good", "bad", "null", "missing"},
   kind : Registered \cup {"future", "bad", "null", "missing"},
   ok : {"true", "false", "bad"}, extra : extras, payload : payloads, error : errors]

NoFailure == [failure |-> "none", safe |-> TRUE]

SomeErrors ==
  {Missing} \cup {e \in WireError \ {Missing, Null, Scalar} :
                    e.closed /\ ~e.array}

MCResponseFrames ==
  ResponseEnvelope(NoFailure, {TRUE}, {1, 2}, {FALSE}, WireResult, WireError)
  \cup UNION {ResponseEnvelope(t, BOOLEAN, {None, 1}, {FALSE}, {Missing, "good"}, SomeErrors)
                : t \in Tokens}
  \cup ResponseEnvelope(NoFailure, {TRUE}, {1}, {TRUE}, {Missing, "good"}, SomeErrors)

MCStages ==
  {None, VersionOf("bootstrap", 1), VersionOf("operation", 1), VersionOf("operation", 2)}
=============================================================================
