--------------------------- MODULE CodecExchange ---------------------------
(***************************************************************************)
(* One request and its response between the TypeScript client and the Rust *)
(* handler, each built with its own PROTOCOL_VERSION, and the two decoders *)
(* of each direction side by side on arbitrary frames.                     *)
(***************************************************************************)
EXTENDS RustCodec, TsCodec

CONSTANTS
  Versions,          \* operation versions the two programs may be built with
  Payloads,          \* request payloads that occur
  RequestFrames,     \* frames that reach the handler from elsewhere
  ResponseFrames,    \* frames that reach the client from elsewhere
  Stages             \* version contexts a response is decoded in, None included

ASSUME ExchangeConstants ==
  /\ Versions \subseteq Nat \ {0}
  /\ Payloads \subseteq WirePayload
  /\ RequestFrames \subseteq RequestFrame
  /\ ResponseFrames \subseteq ResponseFrame
  /\ Stages \subseteq VersionContext \cup {None}

\* No marker is mistaken for an ordinary value or for another marker.
ASSUME MarkerConstants ==
  /\ None \notin KindNames \cup ErrorCode \cup {"malformed"}
  /\ None \notin Nat /\ None \notin RequestFrame /\ None \notin VersionContext
  /\ Missing \notin {Null, Scalar, Misshapen, "good", "invalid", "serde", "huge"}
  /\ Null # "good"
  /\ \A m \in {Missing, Scalar} : m \notin WirePayload
  /\ \A m \in {Missing, Null, Scalar} :
       m \notin [code : ErrorCode, closed : BOOLEAN, array : BOOLEAN]

VARIABLES
  pv,                \* [client, handler]: their PROTOCOL_VERSIONs
  request,           \* the frame on the handler's standard input, or None
  sent,              \* what the client asked: [kind, payload], or None
  answer,            \* the handler's response, or None
  foreign            \* a response frame from elsewhere with its context, or None

vars == <<pv, request, sent, answer, foreign>>

Init ==
  /\ pv \in [client : Versions, handler : Versions]
  /\ request = None
  /\ sent = None
  /\ answer = None
  /\ foreign = None

Idle == request = None /\ foreign = None

\* The client encodes a request; a payload its builder refuses is a local
\* error and never becomes a frame.
Send ==
  /\ Idle
  /\ \E kind \in Registered, p \in Payloads :
       /\ build(kind, p) = OK
       /\ sent' = [kind |-> kind, payload |-> p]
       /\ request' = encodeRequest(kind, p, pv.client)
  /\ UNCHANGED <<pv, answer, foreign>>

\* Something else writes a frame to the handler.
Inject ==
  /\ Idle
  /\ request' \in RequestFrames
  /\ UNCHANGED <<pv, sent, answer, foreign>>

\* Something else than this handler answers.
Impersonate ==
  /\ Idle
  /\ foreign' \in [frame : ResponseFrames, stage : Stages]
  /\ UNCHANGED <<pv, request, sent, answer>>

Pending == request # None /\ answer = None

\* The handler cannot decode the request.
Refuse ==
  /\ Pending
  /\ LET d == decode_request(request, pv.handler) IN
       /\ d.code # OK
       /\ answer' = refuse(d, pv.handler)
  /\ UNCHANGED <<pv, request, sent, foreign>>

\* The handler executes the request, with a result or an operation's error.
Execute(ok) ==
  /\ Pending
  /\ decode_request(request, pv.handler).code = OK
  /\ answer' = respond(request, pv.handler, ok,
                       IF ok = "true" THEN "good" ELSE "EVENT_CONFLICT")
  /\ UNCHANGED <<pv, request, sent, foreign>>

\* The watchdog answers in the worker's place.
TimeOut ==
  /\ Pending
  /\ answer' = timeout_response
  /\ UNCHANGED <<pv, request, sent, foreign>>

Next ==
  \/ Send \/ Inject \/ Impersonate
  \/ Refuse
  \/ \E ok \in {"true", "false"} : Execute(ok)
  \/ TimeOut

Spec == Init /\ [][Next]_vars

-----------------------------------------------------------------------------
\* How the client reads the answer to its own request.
Seen ==
  decodeResponse(encode_response(answer),
                 [axis |-> Axis(sent.kind),
                  version |-> IF sent.kind = "hello" THEN BOOTSTRAP_ENVELOPE_VERSION
                              ELSE pv.client],
                 pv.client)

\* A member is spelled as only serde reads it: an array for an object, {name:
\* null} for a variant, or null for an absent member.
SerdeRequest(f) == f.payload \notin {Missing, Scalar} /\ f.payload.serde

SerdeResponse(g) ==
  \/ g.payload \in {Null, "serde"}
  \/ g.error = Null
  \/ g.error \notin {Missing, Null, Scalar} /\ g.error.array

\* Whatever the mixture of defects, both request decoders address a frame in
\* the same way on the same version axis, and they make the same of it: the same
\* signal or the same code (decode_request against decodeRequest).  They differ
\* only in a payload spelled for serde, which TypeScript refuses by its shape.
RequestsReadAlike ==
  request # None =>
    LET r == decode_request(request, pv.handler)
        t == decodeRequest(request, pv.handler)
    IN /\ r.id = t.id /\ r.kind = t.kind /\ r.axis = t.axis
       /\ r # t => SerdeRequest(request) /\ t.code = "INVALID_PAYLOAD"

\* Both response decoders read a frame in the same version context and with the
\* same correlation, and make the same of it (decode_response_for against
\* decodeResponse).  They differ only in a frame spelled for serde, and in the
\* code for a payload beyond a double, which both refuse.  What TypeScript
\* accepts, Rust accepts to the same effect.
ResponsesReadAlike ==
  foreign # None =>
    LET g == foreign.frame
        r == decode_response_for(g, foreign.stage, pv.client)
        t == decodeResponse(g, foreign.stage, pv.client)
    IN /\ r.id = t.id /\ r.kind = t.kind /\ r.version = t.version
       /\ r # t => /\ t.code # OK
                   /\ SerdeResponse(g) \/ (g.payload = "huge" /\ r.code # OK)

\* The Protocol README: the schemas and the decoders of both languages accept
\* the same set, so what one decoder accepts, the other does.  The derived
\* Deserialize of the DTOs, which also reads arrays, and the Options of
\* ResponseEnvelope, which take null for absent, break this.
SameFramesAccepted ==
  /\ request # None =>
       (decode_request(request, pv.handler).code = OK
          <=> decodeRequest(request, pv.handler).code = OK)
  /\ foreign # None =>
       (decode_response_for(foreign.frame, foreign.stage, pv.client).code = OK
          <=> decodeResponse(foreign.frame, foreign.stage, pv.client).code = OK)

\* What the client's encoder lets through, the handler of the same version
\* decodes to the very signal that was meant: no count is widened, truncated
\* or defaulted on the way and no local check is laxer than the handler's.
EncodedIsUnderstood ==
  sent # None /\ (pv.client = pv.handler \/ sent.kind = "hello") =>
    LET d == decode_request(request, pv.handler) IN
      /\ d.code = OK
      /\ d.signal = IF sent.kind = "hello" THEN None ELSE sent.payload.signal

\* Every answer is one frame that the client can read on the axis the handler
\* chose, between programs of different operation versions too.
AnswerIsReadable ==
  answer # None =>
    /\ encode_response_ok(answer)
    /\ sent # None =>
         /\ Seen.code = OK
         /\ Seen.version = [axis |-> answer.axis, version |-> answer.version]
         /\ Seen.value = answer.value

\* A client that speaks another operation version than the handler never sees
\* an operation succeed or fail: it is told that the version is unsupported,
\* or that the handler timed out.
SkewIsReported ==
  answer # None /\ sent # None /\ sent.kind # "hello" /\ pv.client # pv.handler =>
    Seen.value \in {"PROTOCOL_VERSION_UNSUPPORTED", "HANDLER_TIMEOUT"}
=============================================================================
