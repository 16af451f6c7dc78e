------------------------------ MODULE TsCodec ------------------------------
(***************************************************************************)
(* The codec of packages/protocol, on the same frames.  `pv` is the        *)
(* program's PROTOCOL_VERSION.                                             *)
(***************************************************************************)
EXTENDS Frames

\* correlationFromScan.
correlation_id(f) == IF f.lex = "object" /\ f.safe /\ f.id = "good" THEN "good" ELSE None
correlation_kind(f) ==
  IF f.lex = "object" /\ f.safe /\ f.kind \in KindNames THEN f.kind ELSE None

\* decodeWorkflowSignalShape: what is typed as a workflow signal.  It, the
\* expectation and the digests must be plain objects and the variants strings
\* (isPlainObject, requireRole), which the builders ask of the payload at once.
isSignalShape(s) == s \notin {Missing, Misshapen} /\ s.finding_count # Big

\* Faulty variant of validateSignalRules: any count passes a review.
validateSignalRulesAnyPass(s) ==
  /\ s.kind \in {"implementation_ready", "repair_submitted"} => s.role = "implementation"
  /\ s.kind \in {"review_findings", "review_passed"} => s.role = "review"
  /\ s.finding_count # None
       <=> s.kind \in {"review_findings", "review_passed", "repair_submitted"}
  /\ s.kind \in {"review_findings", "repair_submitted"} => s.finding_count # 0
  /\ s.kind = "repair_submitted" => s.artifact_ref # None
  /\ s.artifact_ref # None => s.kind \in {"repair_submitted", "review_findings"}
  /\ s.short_error_code # None <=> s.kind = "blocked"

\* validateSignalRules, the kind-specific rules as this package states them.
validateSignalRules(s) ==
  /\ s.kind \in {"implementation_ready", "repair_submitted"} => s.role = "implementation"
  /\ s.kind \in {"review_findings", "review_passed"} => s.role = "review"
  /\ s.finding_count # None
       <=> s.kind \in {"review_findings", "review_passed", "repair_submitted"}
  /\ s.kind \in {"review_findings", "repair_submitted"} => s.finding_count # 0
  /\ s.kind = "review_passed" => s.finding_count = 0
  /\ s.kind = "repair_submitted" => s.artifact_ref # None
  /\ s.artifact_ref # None => s.kind \in {"repair_submitted", "review_findings"}
  /\ s.short_error_code # None <=> s.kind = "blocked"

validateWorkflowSignal(s) ==
  IF /\ s.ids /\ s.artifact_ref # "bad" /\ s.short_error_code # "bad"
     /\ validateSignalRules(s)
  THEN OK ELSE "INVALID_SIGNAL"

buildWorkflowSignalSubmit(p) ==
  IF p.other \/ p.serde \/ p.expected \in {Missing, Misshapen} \/ ~isSignalShape(p.signal)
  THEN "INVALID_PAYLOAD"
  ELSE IF p.expected = "invalid" THEN "INVALID_EXPECTATION"
  ELSE validateWorkflowSignal(p.signal)

buildWorkflowSignalReconcile(p) ==
  IF p.other \/ p.serde \/ p.expected # Missing \/ ~isSignalShape(p.signal) THEN "INVALID_PAYLOAD"
  ELSE validateWorkflowSignal(p.signal)

\* The payload builder of a registered kind.
build(kind, p) ==
  CASE kind = "hello" -> IF p # EmptyPayload THEN "INVALID_PAYLOAD" ELSE OK
    [] kind = "submit" -> buildWorkflowSignalSubmit(p)
    [] kind = "reconcile" -> buildWorkflowSignalReconcile(p)

\* decodeRequest up to the version decision, and from there to the payload.
selectRequest(f, pv) ==
  FirstCode(<<
    Check(f.lex = "large", "REQUEST_TOO_LARGE"),
    Check(f.lex # "object", "INVALID_ENVELOPE"),
    Check(f.failure # "none",
          IF f.failure = "payload_number" THEN "INVALID_PAYLOAD" ELSE "INVALID_ENVELOPE"),
    Check(~f.protocol \/ f.version = None, "INVALID_ENVELOPE"),
    Check(f.kind \in KindNames
            /\ f.version # IF f.kind = "hello" THEN BOOTSTRAP_ENVELOPE_VERSION ELSE pv,
          "PROTOCOL_VERSION_UNSUPPORTED") >>)

requestCode(f, pv) ==
  IF selectRequest(f, pv) # OK THEN selectRequest(f, pv)
  ELSE IF f.extra \/ f.id # "good" \/ f.kind \notin KindNames
            \/ f.payload \in {Missing, Scalar} THEN "INVALID_ENVELOPE"
  ELSE IF f.kind \notin Registered THEN "UNKNOWN_KIND"
  ELSE build(f.kind, f.payload)

decodeRequest(f, pv) ==
  [code |-> requestCode(f, pv),
   id |-> correlation_id(f), kind |-> correlation_kind(f),
   axis |-> IF selectRequest(f, pv) = OK /\ f.kind \in KindNames \ {"hello"}
            THEN "operation" ELSE "bootstrap",
   signal |-> IF requestCode(f, pv) = OK /\ f.kind # "hello" THEN f.payload.signal ELSE None]

\* encodeRequest: the frame of a request that its payload builder let through.
encodeRequest(kind, p, pv) ==
  [lex |-> "object", failure |-> "none", safe |-> TRUE, protocol |-> TRUE,
   version |-> IF kind = "hello" THEN BOOTSTRAP_ENVELOPE_VERSION ELSE pv,
   id |-> "good", kind |-> kind, extra |-> FALSE, payload |-> p]

-----------------------------------------------------------------------------
\* The code in an error that is an object.
errorCode(g) ==
  IF g.error \in {Missing, Null, Scalar} \/ g.error.array THEN None ELSE g.error.code

BootstrapCodes == {"REQUEST_TOO_LARGE", "PROTOCOL_VERSION_UNSUPPORTED", "HANDLER_TIMEOUT"}

\* Faulty variant of responseAxis: an error keeps the axis of its request.
responseAxisOfRequest(g, context) ==
  CASE g.ok = "true" /\ correlation_kind(g) # None -> Axis(correlation_kind(g))
    [] OTHER ->
         IF context # None THEN context.axis
         ELSE IF correlation_kind(g) \notin {None, "hello"} THEN "operation"
         ELSE "bootstrap"

\* decodeResponse, the axis a response is read on.
responseAxis(g, context) ==
  CASE g.ok = "true" /\ correlation_kind(g) # None -> Axis(correlation_kind(g))
    [] g.ok = "false" /\ errorCode(g) \in BootstrapCodes -> "bootstrap"
    [] OTHER ->
         IF context # None THEN context.axis
         ELSE IF correlation_kind(g) \notin {None, "hello"} THEN "operation"
         ELSE "bootstrap"

expectedVersion(axis, context, pv) ==
  [axis |-> axis,
   version |-> IF context # None /\ context.axis = axis THEN context.version
               ELSE IF axis = "bootstrap" THEN BOOTSTRAP_ENVELOPE_VERSION ELSE pv]

responseCode(g, expected) ==
  FirstCode(<<
    Check(g.lex # "object", "INVALID_ENVELOPE"),
    Check(g.failure # "none",
          IF g.failure = "payload_number" THEN "INVALID_PAYLOAD" ELSE "INVALID_ENVELOPE"),
    Check(~g.protocol \/ g.version = None, "INVALID_ENVELOPE"),
    Check(g.version # expected.version, "PROTOCOL_VERSION_UNSUPPORTED"),
    Check(g.extra \/ g.id \in {"missing", "bad"} \/ g.kind \in {"missing", "bad"}
            \/ g.ok = "bad", "INVALID_ENVELOPE"),
    Check(~\/ g.ok = "true" /\ g.payload # Missing /\ g.error = Missing
           \/ g.ok = "false" /\ g.error # Missing /\ g.payload = Missing,
          "INVALID_ENVELOPE"),
    Check(g.ok = "true" /\ g.kind = "null", "INVALID_ENVELOPE"),
    Check(g.ok = "true" /\ g.kind \notin Registered, "UNKNOWN_KIND"),
    Check(g.ok = "true" /\ g.payload # "good", "INVALID_PAYLOAD"),
    Check(g.ok = "false" /\ (errorCode(g) \in {None, "malformed"} \/ ~g.error.closed),
          "INVALID_ENVELOPE") >>)

decodeResponse(g, context, pv) ==
  LET axis == IF g.lex = "object" THEN responseAxis(g, context)
              ELSE IF context = None THEN "bootstrap" ELSE context.axis
      expected == expectedVersion(axis, context, pv)
  IN [code |-> responseCode(g, expected), version |-> expected,
      id |-> correlation_id(g), kind |-> correlation_kind(g),
      value |-> IF responseCode(g, expected) # OK THEN None
                ELSE IF g.ok = "true" THEN g.payload ELSE errorCode(g)]
=============================================================================
