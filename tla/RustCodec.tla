----------------------------- MODULE RustCodec -----------------------------
(***************************************************************************)
(* The codec of crates/aizign-protocol, and the response the command-line  *)
(* handler makes of it.  `pv` is the program's PROTOCOL_VERSION.           *)
(***************************************************************************)
EXTENDS Frames

\* probe: what can be recovered of the correlation.
recovered_id(f) == IF f.lex = "object" /\ f.safe /\ f.id = "good" THEN "good" ELSE None
recovered_kind(f) ==
  IF f.lex = "object" /\ f.safe /\ f.kind \in KindNames THEN f.kind ELSE None

accepted_version(kind, pv) ==
  IF kind = "hello" THEN BOOTSTRAP_ENVELOPE_VERSION ELSE pv

probe(f, pv) ==
  FirstCode(<<
    Check(f.lex = "large", "REQUEST_TOO_LARGE"),
    Check(f.lex # "object", "INVALID_ENVELOPE"),
    Check(f.failure = "payload_number", "INVALID_PAYLOAD"),
    Check(f.failure # "none", "INVALID_ENVELOPE"),
    Check(~f.protocol, "INVALID_ENVELOPE"),
    Check(f.version = None, "INVALID_ENVELOPE"),
    Check(recovered_kind(f) # None
            /\ f.version # accepted_version(recovered_kind(f), pv),
          "PROTOCOL_VERSION_UNSUPPORTED") >>)

\* The closed envelope, its payload replaced by an empty container.
structural(f) ==
  FirstCode(<<
    Check(\/ f.extra
          \/ f.id = "missing" \/ f.kind \in {"bad", "missing"}
          \/ f.payload \in {Missing, Scalar}, "INVALID_ENVELOPE"),
    Check(f.id = "bad", "INVALID_ENVELOPE"),
    Check(f.kind \notin Registered, "UNKNOWN_KIND") >>)

\* A signal as typed_text spells it: integers beyond 32 bits read 0.
typed(s) == IF s.finding_count = Big THEN [s EXCEPT !.finding_count = 0] ELSE s

decode_signal(s) ==
  FirstCode(<<
    Check(~s.ids \/ s.artifact_ref = "bad" \/ s.short_error_code = "bad", "INVALID_SIGNAL"),
    Check(~validate(typed(s)), "INVALID_SIGNAL") >>)

\* The derived visitors of the DTOs read a struct from an object or from an
\* array, and a unit variant from its name or from {name: null}: either
\* spelling has the shape.
signal_shape(p) == p.signal \notin {Missing, Misshapen} /\ ~p.other

decode_submit(p) ==
  IF ~signal_shape(p) \/ p.expected \in {Missing, Misshapen} THEN "INVALID_PAYLOAD"
  ELSE IF p.expected = "invalid" THEN "INVALID_EXPECTATION"
  ELSE decode_signal(p.signal)

decode_reconcile(p) ==
  IF ~signal_shape(p) \/ p.expected # Missing THEN "INVALID_PAYLOAD"
  ELSE decode_signal(p.signal)

\* Faulty variant of decode_kind: no check that every integer fitted 32 bits.
decode_kind_any_width(f) ==
  IF f.payload.deep THEN "INVALID_PAYLOAD"
  ELSE CASE f.kind = "hello" -> IF f.payload # EmptyPayload THEN "INVALID_PAYLOAD" ELSE OK
         [] f.kind = "submit" -> decode_submit(f.payload)
         [] f.kind = "reconcile" -> decode_reconcile(f.payload)

\* The kind-specific part of decode_request, on a payload that is an object.
decode_kind(f) ==
  IF f.payload.deep \/ (f.kind # "hello" /\ f.payload.wide) THEN "INVALID_PAYLOAD"
  ELSE CASE f.kind = "hello" -> IF f.payload # EmptyPayload THEN "INVALID_PAYLOAD" ELSE OK
         [] f.kind = "submit" -> decode_submit(f.payload)
         [] f.kind = "reconcile" -> decode_reconcile(f.payload)

request_code(f, pv) ==
  IF probe(f, pv) # OK THEN probe(f, pv)
  ELSE IF structural(f) # OK THEN structural(f)
  ELSE decode_kind(f)

\* What a decoder makes of a request: its signal, or a code; and in both
\* cases the correlation and the axis a response to it is addressed with.
decode_request(f, pv) ==
  [code |-> request_code(f, pv),
   id |-> recovered_id(f), kind |-> recovered_kind(f),
   axis |-> IF probe(f, pv) = OK /\ recovered_kind(f) \notin {None, "hello"}
            THEN "operation" ELSE "bootstrap",
   signal |-> IF request_code(f, pv) = OK /\ f.kind # "hello"
              THEN typed(f.payload.signal) ELSE None]

-----------------------------------------------------------------------------
\* A response and the frame that carries it.  `value` is a success payload or
\* an error code.
Response(axis, version, id, kind, ok, value) ==
  [axis |-> axis, version |-> version, id |-> id, kind |-> kind, ok |-> ok,
   value |-> value]

\* encode_response refuses what is inconsistent or does not fit a frame.
encode_response_ok(r) ==
  /\ IF r.axis = "bootstrap" THEN r.version = BOOTSTRAP_ENVELOPE_VERSION
     ELSE r.version >= 1
  /\ r.ok = "true" => r.kind \in Registered /\ r.axis = Axis(r.kind)
  /\ r.kind # "long"

encode_response(r) ==
  [lex |-> "object", failure |-> "none", safe |-> TRUE, protocol |-> TRUE,
   version |-> r.version,
   id |-> IF r.id = None THEN "null" ELSE r.id,
   kind |-> IF r.kind = None THEN "null" ELSE r.kind,
   ok |-> r.ok, extra |-> FALSE,
   payload |-> IF r.ok = "true" THEN r.value ELSE Missing,
   error |-> IF r.ok = "true" THEN Missing
             ELSE [code |-> r.value, closed |-> TRUE, array |-> FALSE]]

wire_version(axis, pv) == IF axis = "bootstrap" THEN BOOTSTRAP_ENVELOPE_VERSION ELSE pv

\* Faulty variant of refuse: a kind that cannot be echoed is not dropped.
refuse_echoing(d, pv) ==
  Response(d.axis, wire_version(d.axis, pv), d.id, d.kind, "false", d.code)

\* respond, when decoding failed: the kind is dropped if it cannot be echoed.
refuse(d, pv) ==
  LET r == Response(d.axis, wire_version(d.axis, pv), d.id, d.kind, "false", d.code)
  IN IF encode_response_ok(r) THEN r ELSE [r EXCEPT !.kind = None]

\* respond, after a request was executed with this outcome.
respond(f, pv, ok, value) ==
  Response(Axis(f.kind), wire_version(Axis(f.kind), pv), "good", f.kind, ok, value)

\* timeout_response.
timeout_response ==
  Response("bootstrap", BOOTSTRAP_ENVELOPE_VERSION, None, None, "false", "HANDLER_TIMEOUT")

-----------------------------------------------------------------------------
\* The ErrorDto's code, and the one the scan finds: only in an object.
error_code(g) ==
  IF g.error \in {Missing, Null, Scalar} THEN None ELSE g.error.code

probed_code(g) ==
  IF g.error \in {Missing, Null, Scalar} \/ g.error.array THEN None ELSE g.error.code

\* Faulty variant of is_unconditionally_bootstrap_error_code: the watchdog's
\* code is forgotten.
is_bootstrap_error_code_but_timeout(code) ==
  code \in {"REQUEST_TOO_LARGE", "PROTOCOL_VERSION_UNSUPPORTED"}

is_unconditionally_bootstrap_error_code(code) ==
  code \in {"REQUEST_TOO_LARGE", "PROTOCOL_VERSION_UNSUPPORTED", "HANDLER_TIMEOUT"}

VersionOf(axis, version) == [axis |-> axis, version |-> version]

\* `stage` is None or the version context of the request.
expected_response_version(kind, ok, code, stage, pv) ==
  LET bootstrap == VersionOf("bootstrap", BOOTSTRAP_ENVELOPE_VERSION)
      operation == IF stage # None /\ stage.axis = "operation" THEN stage
                   ELSE VersionOf("operation", pv)
      inferred == IF stage # None THEN stage
                  ELSE IF kind \notin {None, "hello"} THEN VersionOf("operation", pv)
                  ELSE bootstrap
  IN CASE ok = "true" /\ kind = "hello" -> bootstrap
       [] ok = "true" /\ kind \notin {None, "hello"} -> operation
       [] ok = "false" /\ is_unconditionally_bootstrap_error_code(code) -> bootstrap
       [] OTHER -> inferred

\* The ResponseEnvelope DTO: null and absent are one value to serde's Option,
\* and an error or a result may be an array as well as an object.
present(member) == member \notin {Missing, Null}

response_code(g, expected) ==
  FirstCode(<<
    Check(g.lex # "object", "INVALID_ENVELOPE"),
    Check(g.failure = "payload_number", "INVALID_PAYLOAD"),
    Check(g.failure # "none", "INVALID_ENVELOPE"),
    Check(~g.protocol \/ g.version = None, "INVALID_ENVELOPE"),
    Check(g.version # expected.version, "PROTOCOL_VERSION_UNSUPPORTED"),
    Check(\/ g.extra \/ g.id \in {"missing", "bad"} \/ g.kind \in {"missing", "bad"}
          \/ g.ok = "bad" \/ g.payload = "huge" \/ g.error = Scalar
          \/ /\ present(g.error) /\ g.error # Scalar
             /\ ~(g.error.closed /\ g.error.code # None), "INVALID_ENVELOPE"),
    Check(~\/ g.ok = "true" /\ present(g.payload) /\ ~present(g.error)
           \/ g.ok = "false" /\ ~present(g.payload) /\ present(g.error),
          "INVALID_ENVELOPE"),
    Check(g.ok = "true" /\ g.kind = "null", "INVALID_ENVELOPE"),
    Check(g.ok = "true" /\ g.kind \notin Registered, "UNKNOWN_KIND"),
    Check(g.ok = "true" /\ g.payload \notin {"good", "serde"}, "INVALID_PAYLOAD"),
    Check(g.ok = "false" /\ error_code(g) = "malformed", "INVALID_ENVELOPE") >>)

decode_response_for(g, stage, pv) ==
  LET initial == IF stage = None THEN VersionOf("bootstrap", BOOTSTRAP_ENVELOPE_VERSION)
                 ELSE stage
      expected == IF g.lex # "object" THEN initial
                  ELSE expected_response_version(recovered_kind(g), g.ok,
                                                 probed_code(g), stage, pv)
  IN [code |-> response_code(g, expected), version |-> expected,
      id |-> recovered_id(g), kind |-> recovered_kind(g),
      value |-> IF response_code(g, expected) # OK THEN None
                ELSE IF g.ok = "true" THEN "good" ELSE error_code(g)]
=============================================================================
