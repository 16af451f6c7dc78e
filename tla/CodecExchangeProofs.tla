------------------------- MODULE CodecExchangeProofs -------------------------
(***************************************************************************)
(* The two codecs against each other, for every frame of the vocabulary,   *)
(* every payload and every pair of operation versions.                     *)
(*                                                                         *)
(* A decoder is a list of checks, so the first part says what the code of  *)
(* a list is.  The rest walks the two lists of each direction side by      *)
(* side.                                                                   *)
(***************************************************************************)
EXTENDS CodecExchange, TLAPS

-----------------------------------------------------------------------------
(* The code of a list of checks.                                           *)

\* Min is the least element.
LEMMA MinIs ==
  ASSUME NEW S \in SUBSET Nat, NEW i \in S, \A j \in S : i <= j
  PROVE  Min(S) = i
<1>1. \E x \in S : \A y \in S : x <= y
  OBVIOUS
<1>2. Min(S) \in S /\ \A y \in S : Min(S) <= y
  BY <1>1 DEF Min
<1>3. Min(S) \in Nat /\ i \in Nat /\ Min(S) <= i /\ i <= Min(S)
  BY <1>2
<1> QED
  BY <1>3

\* The first check that fails gives the code.
LEMMA FirstFails ==
  ASSUME NEW n \in Nat, NEW checks, DOMAIN checks = 1 .. n, NEW i \in 1 .. n,
         checks[i] # OK, \A j \in 1 .. n : j < i => checks[j] = OK
  PROVE  FirstCode(checks) = checks[i]
<1>1. Min({k \in DOMAIN checks : checks[k] # OK}) = i
  BY MinIs
<1> QED
  BY <1>1 DEF FirstCode

\* A list of checks that all pass is OK.
LEMMA NoneFails ==
  ASSUME NEW n \in Nat, NEW checks, DOMAIN checks = 1 .. n,
         \A j \in 1 .. n : checks[j] = OK
  PROVE  FirstCode(checks) = OK
BY DEF FirstCode

\* The lists of the codecs, one lemma per length: the checks are made in
\* order, and one after a failing one does not matter.
LEMMA First2 ==
  ASSUME NEW a, NEW b
  PROVE  FirstCode(<<a, b>>) =
    IF a # OK THEN a ELSE b
<1> DEFINE checks == <<a, b>>
<1>1. checks \in Seq({a, b}) /\ Len(checks) = 2
  OBVIOUS
<1>2. /\ checks[1] = a /\ checks[2] = b
  OBVIOUS
<1>3. DOMAIN checks = 1 .. 2
  BY <1>1
<1> HIDE DEF checks
<1>4. \A i \in 1 .. 2 :
        checks[i] # OK /\ (\A j \in 1 .. 2 : j < i => checks[j] = OK)
          => FirstCode(checks) = checks[i]
  BY <1>3, FirstFails
<1>5. (\A j \in 1 .. 2 : checks[j] = OK) => FirstCode(checks) = OK
  BY <1>3, NoneFails
<1>6. FirstCode(checks) =
    IF a # OK THEN a ELSE b
  BY <1>2, <1>4, <1>5
<1> QED
  BY <1>6 DEF checks

\* The code of the first of 3 checks that fails.
LEMMA First3 ==
  ASSUME NEW a, NEW b, NEW c
  PROVE  FirstCode(<<a, b, c>>) =
    IF a # OK THEN a ELSE IF b # OK THEN b ELSE c
<1> DEFINE checks == <<a, b, c>>
<1>1. checks \in Seq({a, b, c}) /\ Len(checks) = 3
  OBVIOUS
<1>2. /\ checks[1] = a /\ checks[2] = b /\ checks[3] = c
  OBVIOUS
<1>3. DOMAIN checks = 1 .. 3
  BY <1>1
<1> HIDE DEF checks
<1>4. \A i \in 1 .. 3 :
        checks[i] # OK /\ (\A j \in 1 .. 3 : j < i => checks[j] = OK)
          => FirstCode(checks) = checks[i]
  BY <1>3, FirstFails
<1>5. (\A j \in 1 .. 3 : checks[j] = OK) => FirstCode(checks) = OK
  BY <1>3, NoneFails
<1>6. FirstCode(checks) =
    IF a # OK THEN a ELSE IF b # OK THEN b ELSE c
  BY <1>2, <1>4, <1>5
<1> QED
  BY <1>6 DEF checks

\* The code of the first of 5 checks that fails.
LEMMA First5 ==
  ASSUME NEW a, NEW b, NEW c, NEW d, NEW e
  PROVE  FirstCode(<<a, b, c, d, e>>) =
    IF a # OK THEN a ELSE IF b # OK THEN b ELSE IF c # OK THEN c ELSE
    IF d # OK THEN d ELSE e
<1> DEFINE checks == <<a, b, c, d, e>>
<1>1. checks \in Seq({a, b, c, d, e}) /\ Len(checks) = 5
  OBVIOUS
<1>2. /\ checks[1] = a /\ checks[2] = b /\ checks[3] = c /\ checks[4] = d
      /\ checks[5] = e
  OBVIOUS
<1>3. DOMAIN checks = 1 .. 5
  BY <1>1
<1> HIDE DEF checks
<1>4. \A i \in 1 .. 5 :
        checks[i] # OK /\ (\A j \in 1 .. 5 : j < i => checks[j] = OK)
          => FirstCode(checks) = checks[i]
  BY <1>3, FirstFails
<1>5. (\A j \in 1 .. 5 : checks[j] = OK) => FirstCode(checks) = OK
  BY <1>3, NoneFails
<1>6. FirstCode(checks) =
    IF a # OK THEN a ELSE IF b # OK THEN b ELSE IF c # OK THEN c ELSE
    IF d # OK THEN d ELSE e
  BY <1>2, <1>4, <1>5
<1> QED
  BY <1>6 DEF checks

\* The code of the first of 7 checks that fails.
LEMMA First7 ==
  ASSUME NEW a, NEW b, NEW c, NEW d, NEW e, NEW f, NEW g
  PROVE  FirstCode(<<a, b, c, d, e, f, g>>) =
    IF a # OK THEN a ELSE IF b # OK THEN b ELSE IF c # OK THEN c ELSE
    IF d # OK THEN d ELSE IF e # OK THEN e ELSE IF f # OK THEN f ELSE g
<1> DEFINE checks == <<a, b, c, d, e, f, g>>
<1>1. checks \in Seq({a, b, c, d, e, f, g}) /\ Len(checks) = 7
  OBVIOUS
<1>2. /\ checks[1] = a /\ checks[2] = b /\ checks[3] = c /\ checks[4] = d
      /\ checks[5] = e /\ checks[6] = f /\ checks[7] = g
  OBVIOUS
<1>3. DOMAIN checks = 1 .. 7
  BY <1>1
<1> HIDE DEF checks
<1>4. \A i \in 1 .. 7 :
        checks[i] # OK /\ (\A j \in 1 .. 7 : j < i => checks[j] = OK)
          => FirstCode(checks) = checks[i]
  BY <1>3, FirstFails
<1>5. (\A j \in 1 .. 7 : checks[j] = OK) => FirstCode(checks) = OK
  BY <1>3, NoneFails
<1>6. FirstCode(checks) =
    IF a # OK THEN a ELSE IF b # OK THEN b ELSE IF c # OK THEN c ELSE
    IF d # OK THEN d ELSE IF e # OK THEN e ELSE IF f # OK THEN f ELSE g
  BY <1>2, <1>4, <1>5
<1> QED
  BY <1>6 DEF checks

\* The code of the first of 10 checks that fails.
LEMMA First10 ==
  ASSUME NEW a, NEW b, NEW c, NEW d, NEW e, NEW f, NEW g, NEW h, NEW i, NEW j
  PROVE  FirstCode(<<a, b, c, d, e, f, g, h, i, j>>) =
    IF a # OK THEN a ELSE IF b # OK THEN b ELSE IF c # OK THEN c ELSE
    IF d # OK THEN d ELSE IF e # OK THEN e ELSE IF f # OK THEN f ELSE
    IF g # OK THEN g ELSE IF h # OK THEN h ELSE IF i # OK THEN i ELSE j
<1> DEFINE checks == <<a, b, c, d, e, f, g, h, i, j>>
<1>1. checks \in Seq({a, b, c, d, e, f, g, h, i, j}) /\ Len(checks) = 10
  OBVIOUS
<1>2. /\ checks[1] = a /\ checks[2] = b /\ checks[3] = c /\ checks[4] = d
      /\ checks[5] = e /\ checks[6] = f /\ checks[7] = g /\ checks[8] = h
      /\ checks[9] = i /\ checks[10] = j
  OBVIOUS
<1>3. DOMAIN checks = 1 .. 10
  BY <1>1
<1> HIDE DEF checks
<1>4. \A m \in 1 .. 10 :
        checks[m] # OK /\ (\A n \in 1 .. 10 : n < m => checks[n] = OK)
          => FirstCode(checks) = checks[m]
  BY <1>3, FirstFails
<1>5. (\A n \in 1 .. 10 : checks[n] = OK) => FirstCode(checks) = OK
  BY <1>3, NoneFails
<1>6. FirstCode(checks) =
    IF a # OK THEN a ELSE IF b # OK THEN b ELSE IF c # OK THEN c ELSE
    IF d # OK THEN d ELSE IF e # OK THEN e ELSE IF f # OK THEN f ELSE
    IF g # OK THEN g ELSE IF h # OK THEN h ELSE IF i # OK THEN i ELSE j
  BY <1>2, <1>4, <1>5
<1> QED
  BY <1>6 DEF checks

\* The code of the first of 11 checks that fails.
LEMMA First11 ==
  ASSUME NEW a, NEW b, NEW c, NEW d, NEW e, NEW f, NEW g, NEW h, NEW i, NEW j, NEW k
  PROVE  FirstCode(<<a, b, c, d, e, f, g, h, i, j, k>>) =
    IF a # OK THEN a ELSE IF b # OK THEN b ELSE IF c # OK THEN c ELSE
    IF d # OK THEN d ELSE IF e # OK THEN e ELSE IF f # OK THEN f ELSE
    IF g # OK THEN g ELSE IF h # OK THEN h ELSE IF i # OK THEN i ELSE
    IF j # OK THEN j ELSE k
<1> DEFINE checks == <<a, b, c, d, e, f, g, h, i, j, k>>
<1>1. checks \in Seq({a, b, c, d, e, f, g, h, i, j, k}) /\ Len(checks) = 11
  OBVIOUS
<1>2. /\ checks[1] = a /\ checks[2] = b /\ checks[3] = c /\ checks[4] = d
      /\ checks[5] = e /\ checks[6] = f /\ checks[7] = g /\ checks[8] = h
      /\ checks[9] = i /\ checks[10] = j /\ checks[11] = k
  OBVIOUS
<1>3. DOMAIN checks = 1 .. 11
  BY <1>1
<1> HIDE DEF checks
<1>4. \A m \in 1 .. 11 :
        checks[m] # OK /\ (\A n \in 1 .. 11 : n < m => checks[n] = OK)
          => FirstCode(checks) = checks[m]
  BY <1>3, FirstFails
<1>5. (\A n \in 1 .. 11 : checks[n] = OK) => FirstCode(checks) = OK
  BY <1>3, NoneFails
<1>6. FirstCode(checks) =
    IF a # OK THEN a ELSE IF b # OK THEN b ELSE IF c # OK THEN c ELSE
    IF d # OK THEN d ELSE IF e # OK THEN e ELSE IF f # OK THEN f ELSE
    IF g # OK THEN g ELSE IF h # OK THEN h ELSE IF i # OK THEN i ELSE
    IF j # OK THEN j ELSE k
  BY <1>2, <1>4, <1>5
<1> QED
  BY <1>6 DEF checks

-----------------------------------------------------------------------------
(* Requests.                                                               *)

\* Both decoders select the same frames, and refuse the others alike.
LEMMA SelectionAgrees ==
  ASSUME NEW f \in RequestFrame, NEW v
  PROVE  /\ probe(f, v) = selectRequest(f, v)
         /\ probe(f, v) = OK => f.lex = "object" /\ f.failure = "none" /\ f.safe
                                /\ recovered_kind(f) = IF f.kind \in KindNames THEN f.kind ELSE None
         /\ probe(f, v) \in ErrorCode \cup {OK}
<1> USE MarkerConstants DEF RequestFrame, KindNames, Registered, Lexical
<1>1. probe(f, v) =
        IF f.lex = "large" THEN "REQUEST_TOO_LARGE"
        ELSE IF f.lex # "object" THEN "INVALID_ENVELOPE"
        ELSE IF f.failure = "payload_number" THEN "INVALID_PAYLOAD"
        ELSE IF f.failure # "none" \/ ~f.protocol \/ f.version = None THEN "INVALID_ENVELOPE"
        ELSE IF f.kind \in KindNames
                  /\ f.version # IF f.kind = "hello" THEN BOOTSTRAP_ENVELOPE_VERSION ELSE v
        THEN "PROTOCOL_VERSION_UNSUPPORTED" ELSE OK
  BY First7 DEF probe, Check, recovered_kind, accepted_version, OK
<1>2. selectRequest(f, v) =
        IF f.lex = "large" THEN "REQUEST_TOO_LARGE"
        ELSE IF f.lex # "object" THEN "INVALID_ENVELOPE"
        ELSE IF f.failure = "payload_number" THEN "INVALID_PAYLOAD"
        ELSE IF f.failure # "none" \/ ~f.protocol \/ f.version = None THEN "INVALID_ENVELOPE"
        ELSE IF f.kind \in KindNames
                  /\ f.version # IF f.kind = "hello" THEN BOOTSTRAP_ENVELOPE_VERSION ELSE v
        THEN "PROTOCOL_VERSION_UNSUPPORTED" ELSE OK
  BY First5 DEF selectRequest, Check, OK
<1> QED
  BY <1>1, <1>2 DEF recovered_kind, OK, ErrorCode

\* The typed members of a signal.
Typed == WireSignal \ {Misshapen}

\* The rules of a signal, as the core and as the package state them.
LEMMA RulesAgree ==
  ASSUME NEW s \in Typed, s.finding_count # Big
  PROVE  /\ typed(s) = s
         /\ decode_signal(s) = validateWorkflowSignal(s)
         /\ decode_signal(s) \in {OK, "INVALID_SIGNAL"}
<1>1. s.kind \in SignalKind /\ s.role \in Role
  BY DEF Typed, WireSignal
<1>2. validate(s) <=> validateSignalRules(s)
  BY <1>1, MarkerConstants DEF validate, validateSignalRules, required_role, SignalKind, Role
<1>3. typed(s) = s
  BY DEF typed
<1>4. decode_signal(s) =
        IF ~s.ids \/ s.artifact_ref = "bad" \/ s.short_error_code = "bad" \/ ~validate(s)
        THEN "INVALID_SIGNAL" ELSE OK
  BY <1>3, First2 DEF decode_signal, Check, OK
<1> QED
  BY <1>2, <1>3, <1>4 DEF validateWorkflowSignal, OK

\* The payload of an object, kind by kind.
LEMMA PayloadsAgree ==
  ASSUME NEW f, f.kind \in Registered, f.payload \in WirePayload
  PROVE  /\ \/ decode_kind(f) = build(f.kind, f.payload)
            \/ f.payload.serde /\ build(f.kind, f.payload) = "INVALID_PAYLOAD"
         /\ decode_kind(f) \in ErrorCode \cup {OK}
         /\ decode_kind(f) = OK /\ f.kind # "hello" =>
              f.payload.signal \in Typed /\ f.payload.signal.finding_count # Big
<1> DEFINE p == f.payload
<1>1. /\ p.other \in BOOLEAN /\ p.deep \in BOOLEAN /\ p.wide \in BOOLEAN /\ p.serde \in BOOLEAN
      /\ p.expected \in {Missing, Misshapen, "invalid", "good"}
      /\ p.signal \in {Missing, Misshapen} \cup Typed
      /\ p.deep \/ p.wide =>
           \/ p.other \/ p.expected = Misshapen \/ p.signal = Misshapen
           \/ p.wide /\ p.signal \notin {Missing, Misshapen} /\ p.signal.finding_count = Big
      /\ p.signal \notin {Missing, Misshapen} /\ p.signal.finding_count = Big => p.wide
      /\ p.deep => p.other \/ p.expected = Misshapen \/ p.signal = Misshapen
  BY DEF WirePayload, Typed
<1>2. p = EmptyPayload => ~p.deep /\ ~p.other /\ p.expected = Missing /\ p.signal = Missing
  BY DEF EmptyPayload
<1> HIDE DEF p
<1>3. CASE f.kind = "hello"
  BY <1>1, <1>2, <1>3, MarkerConstants DEF decode_kind, build, p, OK, ErrorCode
<1>4. CASE f.kind \in {"submit", "reconcile"} /\ (p.deep \/ p.wide)
  BY <1>1, <1>4, MarkerConstants DEF decode_kind, build, p, OK, ErrorCode,
     buildWorkflowSignalSubmit, buildWorkflowSignalReconcile, isSignalShape
<1>5. CASE f.kind \in {"submit", "reconcile"} /\ ~p.deep /\ ~p.wide
  <2>0. p.serde => build(f.kind, f.payload) = "INVALID_PAYLOAD"
    BY <1>5 DEF build, p, buildWorkflowSignalSubmit, buildWorkflowSignalReconcile
  <2>1. CASE p.signal \in {Missing, Misshapen} \/ p.other
    BY <1>1, <1>5, <2>1 DEF decode_kind, build, p, OK, ErrorCode, signal_shape,
       buildWorkflowSignalSubmit, buildWorkflowSignalReconcile, isSignalShape,
       decode_submit, decode_reconcile
  <2>2. CASE p.signal \notin {Missing, Misshapen} /\ ~p.other
    <3>1. p.signal \in Typed /\ p.signal.finding_count # Big
      BY <1>1, <1>5, <2>2
    <3>2. /\ decode_signal(p.signal) = validateWorkflowSignal(p.signal)
          /\ decode_signal(p.signal) \in {OK, "INVALID_SIGNAL"}
      BY <3>1, RulesAgree
    <3>3. decode_kind(f) \in ErrorCode \cup {OK}
      BY <1>1, <1>5, <2>2, <3>1, <3>2 DEF decode_kind, p, OK, ErrorCode, signal_shape,
         decode_submit, decode_reconcile
    <3>4. ~p.serde => decode_kind(f) = build(f.kind, f.payload)
      BY <1>1, <1>5, <2>2, <3>1, <3>2 DEF decode_kind, build, p, OK, signal_shape,
         buildWorkflowSignalSubmit, buildWorkflowSignalReconcile, isSignalShape,
         decode_submit, decode_reconcile
    <3> QED
      BY <2>0, <3>1, <3>3, <3>4 DEF p
  <2> QED
    BY <2>1, <2>2
<1> QED
  BY <1>3, <1>4, <1>5 DEF Registered

\* What the two decoders make of a request.
LEMMA RequestsAgree ==
  ASSUME NEW f \in RequestFrame, NEW v
  PROVE  LET r == decode_request(f, v)
             t == decodeRequest(f, v)
         IN /\ r.id = t.id /\ r.kind = t.kind /\ r.axis = t.axis
            /\ r # t => SerdeRequest(f) /\ t.code = "INVALID_PAYLOAD"
            /\ r.code \in ErrorCode \cup {OK}
            /\ r.code = OK => f.kind \in Registered
<1>0. /\ f.payload \in {Missing, Scalar} \cup WirePayload /\ f.extra \in BOOLEAN
      /\ f.id \in {"good", "bad", "missing"} /\ f.kind \in KindNames \cup {"bad", "missing"}
  BY DEF RequestFrame
<1>1. structural(f) =
        IF \/ f.extra \/ f.id # "good" \/ f.kind \notin KindNames
           \/ f.payload \in {Missing, Scalar} THEN "INVALID_ENVELOPE"
        ELSE IF f.kind \notin Registered THEN "UNKNOWN_KIND" ELSE OK
  BY <1>0, First3 DEF structural, Check, KindNames, Registered, OK
<1>2. structural(f) = OK => f.kind \in Registered /\ f.payload \in WirePayload
  BY <1>0, <1>1 DEF OK
<1>3. /\ \/ request_code(f, v) = requestCode(f, v)
         \/ SerdeRequest(f) /\ requestCode(f, v) = "INVALID_PAYLOAD"
      /\ request_code(f, v) \in ErrorCode \cup {OK}
      /\ request_code(f, v) = OK =>
           /\ f.kind \in Registered
           /\ f.kind # "hello" => typed(f.payload.signal) = f.payload.signal
  <2>1. CASE probe(f, v) # OK
    BY <2>1, SelectionAgrees DEF request_code, requestCode
  <2>2. CASE probe(f, v) = OK /\ structural(f) # OK
    BY <2>2, <1>1, SelectionAgrees DEF request_code, requestCode, ErrorCode, OK
  <2>3. CASE probe(f, v) = OK /\ structural(f) = OK
    <3>1. f.kind \in Registered /\ f.payload \in WirePayload
      BY <2>3, <1>2
    <3>2. /\ \/ decode_kind(f) = build(f.kind, f.payload)
             \/ f.payload.serde /\ build(f.kind, f.payload) = "INVALID_PAYLOAD"
          /\ decode_kind(f) \in ErrorCode \cup {OK}
          /\ decode_kind(f) = OK /\ f.kind # "hello" => typed(f.payload.signal) = f.payload.signal
      BY <3>1, PayloadsAgree, RulesAgree
    <3>3. request_code(f, v) = decode_kind(f) /\ requestCode(f, v) = build(f.kind, f.payload)
      BY <2>3, <1>1, SelectionAgrees DEF request_code, requestCode, OK
    <3>4. f.payload \notin {Missing, Scalar}
      BY <3>1, MarkerConstants
    <3> QED
      BY <3>1, <3>2, <3>3, <3>4 DEF SerdeRequest
  <2> QED
    BY <2>1, <2>2, <2>3
<1>4. recovered_id(f) = correlation_id(f) /\ recovered_kind(f) = correlation_kind(f)
  BY DEF recovered_id, recovered_kind, correlation_id, correlation_kind
<1>5. probe(f, v) = OK /\ recovered_kind(f) \notin {None, "hello"}
        <=> selectRequest(f, v) = OK /\ f.kind \in KindNames \ {"hello"}
  BY SelectionAgrees, MarkerConstants DEF KindNames, Registered
<1> DEFINE r == decode_request(f, v)
           t == decodeRequest(f, v)
<1>6. r.id = t.id /\ r.kind = t.kind /\ r.axis = t.axis
  BY <1>4, <1>5 DEF decode_request, decodeRequest
<1>7. r.code = request_code(f, v) /\ t.code = requestCode(f, v)
  BY DEF decode_request, decodeRequest
<1>8. request_code(f, v) = requestCode(f, v) => r = t
  BY <1>3, <1>4, <1>5 DEF decode_request, decodeRequest
<1> HIDE DEF r, t
<1>9. r # t => SerdeRequest(f) /\ t.code = "INVALID_PAYLOAD"
  BY <1>3, <1>7, <1>8
<1> QED
  BY <1>3, <1>6, <1>7, <1>9 DEF r, t

-----------------------------------------------------------------------------
(* Responses.                                                              *)

\* The version context in which both decoders read a response.
LEMMA VersionsAgree ==
  ASSUME NEW g \in ResponseFrame, NEW stage \in VersionContext \cup {None}, NEW v
  PROVE  decode_response_for(g, stage, v).version = decodeResponse(g, stage, v).version
<1>1. stage # None => \/ stage.axis = "bootstrap" /\ stage.version = BOOTSTRAP_ENVELOPE_VERSION
                      \/ stage.axis = "operation"
  BY DEF VersionContext
<1>2. stage # None => stage = [axis |-> stage.axis, version |-> stage.version]
  BY DEF VersionContext
<1>3. recovered_kind(g) = correlation_kind(g)
  BY DEF recovered_kind, correlation_kind
<1>4. probed_code(g) = errorCode(g)
  BY DEF probed_code, errorCode
<1>5. g.ok \in {"true", "false", "bad"}
  BY DEF ResponseFrame
<1>6. CASE g.lex # "object"
  BY <1>1, <1>2, <1>6 DEF decode_response_for, decodeResponse, expectedVersion, VersionOf
<1>7. CASE g.lex = "object"
  <2>1. decode_response_for(g, stage, v).version
          = expected_response_version(correlation_kind(g), g.ok, errorCode(g), stage, v)
    BY <1>3, <1>4, <1>7 DEF decode_response_for
  <2>2. decodeResponse(g, stage, v).version
          = expectedVersion(responseAxis(g, stage), stage, v)
    BY <1>7 DEF decodeResponse
  <2>3. CASE g.ok = "true"
    BY <1>1, <1>2, <2>1, <2>2, <2>3, MarkerConstants DEF expected_response_version,
       expectedVersion, responseAxis, VersionOf, Axis, KindNames, Registered
  <2>4. CASE g.ok = "false"
    BY <1>1, <1>2, <2>1, <2>2, <2>4 DEF expected_response_version, expectedVersion,
       responseAxis, VersionOf, is_unconditionally_bootstrap_error_code, BootstrapCodes
  <2>5. CASE g.ok = "bad"
    BY <1>1, <1>2, <2>1, <2>2, <2>5 DEF expected_response_version, expectedVersion,
       responseAxis, VersionOf
  <2> QED
    BY <1>5, <2>3, <2>4, <2>5
<1> QED
  BY <1>6, <1>7

\* What the TypeScript decoder accepts: a result, or an error that is an object.
LEMMA AcceptedResponse ==
  ASSUME NEW g \in ResponseFrame, NEW expected, responseCode(g, expected) = OK
  PROVE  \/ g.ok = "true" /\ g.payload = "good" /\ g.error = Missing
         \/ /\ g.ok = "false" /\ g.payload = Missing
            /\ g.error \notin {Missing, Null, Scalar} /\ ~g.error.array
<1>1. g.ok \in {"true", "false", "bad"}
  BY DEF ResponseFrame
<1>2. /\ g.ok # "bad"
      /\ \/ g.ok = "true" /\ g.payload # Missing /\ g.error = Missing
         \/ g.ok = "false" /\ g.error # Missing /\ g.payload = Missing
      /\ g.ok = "true" => g.payload = "good"
      /\ g.ok = "false" => errorCode(g) # None
  BY First10 DEF responseCode, Check, OK
<1> QED
  BY <1>1, <1>2 DEF errorCode

\* The checks of the two decoders on a response, in the version context both
\* arrived at.
LEMMA ResponseChecksAgree ==
  ASSUME NEW g \in ResponseFrame, NEW expected, ~SerdeResponse(g), g.payload # "huge"
  PROVE  response_code(g, expected) = responseCode(g, expected)
<1> DEFINE body == IF /\ g.ok = "true" /\ g.payload # Missing /\ g.error = Missing
                   THEN IF g.kind = "null" THEN "INVALID_ENVELOPE"
                        ELSE IF g.kind \notin Registered THEN "UNKNOWN_KIND"
                        ELSE IF g.payload # "good" THEN "INVALID_PAYLOAD" ELSE OK
                   ELSE IF g.ok = "false" /\ g.error # Missing /\ g.payload = Missing
                   THEN IF g.error = Scalar \/ errorCode(g) \in {None, "malformed"}
                             \/ ~g.error.closed
                        THEN "INVALID_ENVELOPE" ELSE OK
                   ELSE "INVALID_ENVELOPE"
           code == IF g.lex # "object" THEN "INVALID_ENVELOPE"
                   ELSE IF g.failure = "payload_number" THEN "INVALID_PAYLOAD"
                   ELSE IF g.failure # "none" THEN "INVALID_ENVELOPE"
                   ELSE IF ~g.protocol \/ g.version = None THEN "INVALID_ENVELOPE"
                   ELSE IF g.version # expected.version THEN "PROTOCOL_VERSION_UNSUPPORTED"
                   ELSE IF g.extra \/ g.id \in {"missing", "bad"}
                             \/ g.kind \in {"missing", "bad"} \/ g.ok = "bad"
                   THEN "INVALID_ENVELOPE" ELSE body
<1>0. /\ g.payload \notin {Null, "serde"} /\ g.error # Null
      /\ g.error \notin {Missing, Null, Scalar} => ~g.error.array
  BY DEF SerdeResponse
<1>1. /\ g.ok \in {"true", "false", "bad"} /\ g.payload \in WireResult /\ g.error \in WireError
      /\ g.extra \in BOOLEAN /\ g.protocol \in BOOLEAN
  BY DEF ResponseFrame
<1>2. g.error \in {Missing, Scalar} => errorCode(g) = None
  BY DEF errorCode
<1>3. error_code(g) = errorCode(g)
  BY <1>0 DEF error_code, errorCode
<1>4. g.error \notin {Missing, Scalar} => errorCode(g) = g.error.code /\ g.error.closed \in BOOLEAN
  BY <1>0, <1>1 DEF errorCode, WireError
<1>5. responseCode(g, expected) = code
  BY <1>1, <1>2, <1>4, First10, MarkerConstants DEF responseCode, Check, OK
<1>6. response_code(g, expected) = code
  BY <1>0, <1>1, <1>2, <1>3, <1>4, First11, MarkerConstants DEF response_code, Check, OK, present
<1> QED
  BY <1>5, <1>6

\* A payload beyond a double is refused by the first pass over the envelope, if
\* not before.
LEMMA HugeIsRefused ==
  ASSUME NEW g, NEW expected, g.payload = "huge"
  PROVE  response_code(g, expected) # OK
BY First11 DEF response_code, Check, OK

\* What the two decoders make of a response.
LEMMA ResponsesAgree ==
  ASSUME NEW g \in ResponseFrame, NEW stage \in VersionContext \cup {None}, NEW v
  PROVE  LET r == decode_response_for(g, stage, v)
             t == decodeResponse(g, stage, v)
         IN /\ r.id = t.id /\ r.kind = t.kind /\ r.version = t.version
            /\ r # t => /\ t.code # OK
                        /\ SerdeResponse(g) \/ (g.payload = "huge" /\ r.code # OK)
<1> DEFINE r == decode_response_for(g, stage, v)
           t == decodeResponse(g, stage, v)
           expected == t.version
<1>1. r.version = expected
  BY VersionsAgree
<1>2. recovered_kind(g) = correlation_kind(g) /\ recovered_id(g) = correlation_id(g)
  BY DEF recovered_kind, correlation_kind, recovered_id, correlation_id
<1>3. t = [code |-> responseCode(g, expected), version |-> expected,
           id |-> correlation_id(g), kind |-> correlation_kind(g),
           value |-> IF responseCode(g, expected) # OK THEN None
                     ELSE IF g.ok = "true" THEN g.payload ELSE errorCode(g)]
  BY DEF decodeResponse
<1>4. r = [code |-> response_code(g, expected), version |-> expected,
           id |-> recovered_id(g), kind |-> recovered_kind(g),
           value |-> IF response_code(g, expected) # OK THEN None
                     ELSE IF g.ok = "true" THEN "good" ELSE error_code(g)]
  BY <1>1 DEF decode_response_for
<1> HIDE DEF r, t
<1>5. r.id = t.id /\ r.kind = t.kind /\ r.version = t.version
      /\ r.code = response_code(g, expected) /\ t.code = responseCode(g, expected)
  BY <1>2, <1>3, <1>4
<1>6. r.code = t.code => r = t
  <2>1. CASE t.code # OK
    BY <1>2, <1>3, <1>4, <1>5, <2>1
  <2>2. CASE t.code = OK
    <3>1. IF g.ok = "true" THEN g.payload = "good" ELSE error_code(g) = errorCode(g)
      BY <1>5, <2>2, AcceptedResponse DEF error_code, errorCode
    <3> QED
      BY <1>2, <1>3, <1>4, <1>5, <2>2, <3>1
  <2> QED
    BY <2>1, <2>2
<1>7. CASE ~SerdeResponse(g) /\ g.payload # "huge"
  BY <1>5, <1>6, <1>7, ResponseChecksAgree DEF r, t
<1>8. CASE SerdeResponse(g) \/ g.payload = "huge"
  <2>1. t.code # OK
    BY <1>5, <1>8, AcceptedResponse, MarkerConstants DEF SerdeResponse
  <2>2. g.payload = "huge" => r.code # OK
    BY <1>5, HugeIsRefused
  <2> QED
    BY <1>5, <1>8, <2>1, <2>2 DEF r, t
<1> QED
  BY <1>7, <1>8

-----------------------------------------------------------------------------
(* The exchange.                                                           *)

\* A request is a frame, and the client's own one is what its encoder made of
\* a payload that its builder let through.
Requests ==
  /\ request \in RequestFrame \cup {None}
  /\ sent # None =>
       /\ sent.kind \in Registered /\ sent.payload \in WirePayload
       /\ build(sent.kind, sent.payload) = OK
       /\ request = encodeRequest(sent.kind, sent.payload, pv.client)

\* The handler's answer is that of its decoder, of an operation or of the
\* watchdog.
Answers ==
  LET d == decode_request(request, pv.handler) IN
    answer # None =>
      /\ request # None
      /\ \/ answer = timeout_response
         \/ d.code # OK /\ answer = refuse(d, pv.handler)
         \/ d.code = OK /\ answer = respond(request, pv.handler, "true", "good")
         \/ d.code = OK /\ answer = respond(request, pv.handler, "false", "EVENT_CONFLICT")

ExchangeInv ==
  /\ pv \in [client : Versions, handler : Versions]
  /\ foreign \in [frame : ResponseFrame, stage : VersionContext \cup {None}] \cup {None}
  /\ Requests /\ Answers

\* What the encoder makes of a payload is a frame.
LEMMA EncodedIsFrame ==
  ASSUME NEW kind \in Registered, NEW p \in WirePayload, NEW v \in Versions
  PROVE  encodeRequest(kind, p, v) \in RequestFrame
<1>1. v \in Nat
  BY ExchangeConstants
<1> QED
  BY <1>1 DEF encodeRequest, RequestFrame, BOOTSTRAP_ENVELOPE_VERSION, KindNames, Registered,
     Lexical

\* No frame and no answer yet.
LEMMA InitExchange == Init => ExchangeInv
BY DEF Init, ExchangeInv, Requests, Answers

\* Each step keeps the exchange in order; only an Inject could have parted a
\* request from what was sent, and it finds no request there.
LEMMA NextExchange == ExchangeInv /\ [Next]_vars => ExchangeInv'
<1> SUFFICES ASSUME ExchangeInv, [Next]_vars PROVE ExchangeInv'
  OBVIOUS
<1> USE DEF ExchangeInv
<1>1. pv' = pv
  BY DEF Next, vars, Send, Inject, Impersonate, Refuse, Execute, TimeOut
<1>2. CASE Send
  <2>1. PICK kind \in Registered, p \in Payloads :
          /\ build(kind, p) = OK
          /\ sent' = [kind |-> kind, payload |-> p]
          /\ request' = encodeRequest(kind, p, pv.client)
    BY <1>2 DEF Send
  <2>2. p \in WirePayload /\ pv.client \in Versions
    BY ExchangeConstants
  <2>3. request' \in RequestFrame
    BY <2>1, <2>2, EncodedIsFrame
  <2>4. Requests'
    BY <1>1, <2>1, <2>2, <2>3 DEF Requests
  <2>5. answer = None /\ answer' = None /\ foreign' = foreign
    BY <1>2 DEF Send, Idle, Answers
  <2> QED
    BY <1>1, <2>4, <2>5 DEF Answers
<1>3. CASE Inject
  <2>1. /\ request' \in RequestFrame /\ request = None /\ sent' = sent
        /\ answer = None /\ answer' = None /\ foreign' = foreign
    BY <1>3, ExchangeConstants DEF Inject, Idle, Answers
  <2>2. sent = None
    <3>1. ASSUME sent # None PROVE FALSE
      <4>1. encodeRequest(sent.kind, sent.payload, pv.client) \in RequestFrame
        BY <3>1, EncodedIsFrame DEF Requests
      <4> QED
        BY <2>1, <3>1, <4>1, MarkerConstants DEF Requests
    <3> QED
      BY <3>1
  <2> QED
    BY <1>1, <2>1, <2>2 DEF Requests, Answers
<1>4. CASE Impersonate
  BY <1>1, <1>4, ExchangeConstants DEF Impersonate, Requests, Answers
<1>5. CASE Refuse
  BY <1>1, <1>5 DEF Refuse, Pending, Requests, Answers
<1>6. ASSUME NEW ok \in {"true", "false"}, Execute(ok) PROVE ExchangeInv'
  BY <1>1, <1>6 DEF Execute, Pending, Requests, Answers
<1>7. CASE TimeOut
  BY <1>1, <1>7 DEF TimeOut, Pending, Requests, Answers
<1>8. CASE UNCHANGED vars
  BY <1>8 DEF vars, Requests, Answers
<1> QED
  BY <1>2, <1>3, <1>4, <1>5, <1>6, <1>7, <1>8 DEF Next

\* In every exchange a request the client sent is what its encoder made of a
\* payload it accepts, and an answer is what respond or the watchdog makes of
\* the request.
THEOREM ExchangeInvariant == Spec => []ExchangeInv
BY InitExchange, NextExchange, PTL DEF Spec

\* On every frame that may reach the handler the decoders of requests address
\* and read alike (decode_request of the crate, decodeRequest of the package),
\* payloads aside that are spelled for serde and that TypeScript refuses.
THEOREM RequestsAlwaysReadAlike == Spec => []RequestsReadAlike
<1>1. ExchangeInv => RequestsReadAlike
  BY RequestsAgree DEF ExchangeInv, Requests, RequestsReadAlike
<1> QED
  BY <1>1, ExchangeInvariant, PTL

\* On every frame in every version context the decoders of responses expect the
\* same version and recover the same correlation; where they differ the frame
\* is spelled for serde, or both refuse it, and TypeScript refuses it.
THEOREM ResponsesAlwaysReadAlike == Spec => []ResponsesReadAlike
<1>1. ExchangeInv => ResponsesReadAlike
  <2> SUFFICES ASSUME ExchangeInv, foreign # None
               PROVE  ResponsesReadAlike
    BY DEF ResponsesReadAlike
  <2>1. foreign.frame \in ResponseFrame /\ foreign.stage \in VersionContext \cup {None}
    BY DEF ExchangeInv
  <2> QED
    BY <2>1, ResponsesAgree DEF ResponsesReadAlike
<1> QED
  BY <1>1, ExchangeInvariant, PTL

\* What the handler makes of a request of the client's encoder.
LEMMA EncodedIsDecoded ==
  ASSUME NEW kind \in Registered, NEW p \in WirePayload, build(kind, p) = OK,
         NEW v \in Versions, NEW w \in Versions
  PROVE  LET d == decode_request(encodeRequest(kind, p, v), w)
             same == v = w \/ kind = "hello"
         IN /\ d.code = IF same THEN OK ELSE "PROTOCOL_VERSION_UNSUPPORTED"
            /\ d.axis = IF same THEN Axis(kind) ELSE "bootstrap"
            /\ d.id = "good" /\ d.kind = kind
            /\ same => d.signal = IF kind = "hello" THEN None ELSE p.signal
<1> DEFINE f == encodeRequest(kind, p, v)
           same == v = w \/ kind = "hello"
<1>1. /\ f.lex = "object" /\ f.failure = "none" /\ f.safe /\ f.protocol
      /\ f.version = (IF kind = "hello" THEN BOOTSTRAP_ENVELOPE_VERSION ELSE v)
      /\ f.id = "good" /\ f.kind = kind /\ ~f.extra /\ f.payload = p
  BY DEF encodeRequest
<1>2. f \in RequestFrame
  BY EncodedIsFrame
<1>3. f.version # None
  <2>1. f.version \in Nat
    BY <1>1, ExchangeConstants DEF BOOTSTRAP_ENVELOPE_VERSION
  <2> QED
    BY <2>1, MarkerConstants
<1>4. kind \in KindNames /\ p \notin {Missing, Scalar}
  BY MarkerConstants DEF KindNames
<1> HIDE DEF f
<1>5. selectRequest(f, w) = IF same THEN OK ELSE "PROTOCOL_VERSION_UNSUPPORTED"
  BY <1>1, <1>3, <1>4, First5 DEF selectRequest, Check, OK
<1>6. requestCode(f, w) = selectRequest(f, w)
  BY <1>1, <1>4, <1>5 DEF requestCode, OK
<1>7. correlation_id(f) = "good" /\ correlation_kind(f) = kind
  BY <1>1, <1>4 DEF correlation_id, correlation_kind
<1>8. decode_request(f, w) = decodeRequest(f, w)
  <2>1. decodeRequest(f, w).code # "INVALID_PAYLOAD"
    BY <1>5, <1>6 DEF decodeRequest, OK
  <2> QED
    BY <1>2, <2>1, RequestsAgree
<1>9. kind = "hello" <=> Axis(kind) = "bootstrap"
  BY DEF Axis
<1> QED
  BY <1>1, <1>4, <1>5, <1>6, <1>7, <1>8, <1>9 DEF decodeRequest, f, Axis, OK

\* A handler of the client's version decodes what the client sent to the very
\* signal that was meant.
THEOREM EncodedIsAlwaysUnderstood == Spec => []EncodedIsUnderstood
<1>1. ExchangeInv => EncodedIsUnderstood
  <2> SUFFICES ASSUME ExchangeInv, sent # None, pv.client = pv.handler \/ sent.kind = "hello"
               PROVE  LET d == decode_request(request, pv.handler) IN
                        /\ d.code = OK
                        /\ d.signal = IF sent.kind = "hello" THEN None ELSE sent.payload.signal
    BY DEF EncodedIsUnderstood
  <2>1. /\ sent.kind \in Registered /\ sent.payload \in WirePayload
        /\ build(sent.kind, sent.payload) = OK /\ pv.client \in Versions /\ pv.handler \in Versions
        /\ request = encodeRequest(sent.kind, sent.payload, pv.client)
    BY DEF ExchangeInv, Requests
  <2> QED
    BY <2>1, EncodedIsDecoded
<1> QED
  BY <1>1, ExchangeInvariant, PTL

\* The context in which the client reads the response to a request.
Context(kind, v) ==
  [axis |-> Axis(kind),
   version |-> IF kind = "hello" THEN BOOTSTRAP_ENVELOPE_VERSION ELSE v]

\* What the client makes of a response that carries its own kind, or none.
LEMMA ResponseIsRead ==
  ASSUME NEW kind \in Registered, NEW v \in Versions, NEW a,
         a.version \in Nat, a.id \in {"good", None}, a.kind \in {kind, None},
         \/ a.ok = "true" /\ a.kind = kind /\ a.value = "good"
         \/ a.ok = "false" /\ a.value \in ErrorCode,
         a.axis = (IF a.ok = "false" /\ a.value \in BootstrapCodes THEN "bootstrap"
                   ELSE Axis(kind)),
         a.version = (IF a.axis = "bootstrap" THEN BOOTSTRAP_ENVELOPE_VERSION ELSE v)
  PROVE  LET seen == decodeResponse(encode_response(a), Context(kind, v), v) IN
           /\ seen.code = OK
           /\ seen.version = [axis |-> a.axis, version |-> a.version]
           /\ seen.value = a.value
<1> DEFINE g == encode_response(a)
           context == Context(kind, v)
           axis == a.axis
           version == a.version
           id == a.id
           echoed == a.kind
           ok == a.ok
           value == a.value
<1>0. None \notin Registered /\ None # kind
  BY MarkerConstants DEF KindNames, Registered
<1>2. /\ g.lex = "object" /\ g.failure = "none" /\ g.safe /\ g.protocol
      /\ g.version = version /\ g.ok = ok /\ ~g.extra
      /\ g.id = (IF id = None THEN "null" ELSE id)
      /\ g.kind = (IF echoed = None THEN "null" ELSE echoed)
      /\ g.payload = (IF ok = "true" THEN value ELSE Missing)
      /\ g.error = (IF ok = "true" THEN Missing ELSE [code |-> value, closed |-> TRUE, array |-> FALSE])
  BY DEF encode_response
<1> HIDE DEF g
<1>3. correlation_kind(g) = echoed
  BY <1>0, <1>2 DEF correlation_kind, KindNames, Registered
<1>4. ok = "false" => /\ g.error \notin {Missing, Null, Scalar}
                      /\ g.error.code = value /\ g.error.closed /\ errorCode(g) = value
  <2> SUFFICES ASSUME ok = "false"
               PROVE  /\ g.error \notin {Missing, Null, Scalar}
                      /\ g.error.code = value /\ g.error.closed /\ errorCode(g) = value
    OBVIOUS
  <2>1. g.error = [code |-> value, closed |-> TRUE, array |-> FALSE] /\ value \in ErrorCode
    BY <1>2
  <2>2. g.error \in [code : ErrorCode, closed : BOOLEAN, array : BOOLEAN]
    BY <2>1
  <2>3. g.error.code = value /\ g.error.closed /\ ~g.error.array
    BY <2>1
  <2>4. g.error \notin {Missing, Null, Scalar}
    BY <2>2, MarkerConstants
  <2> QED
    BY <2>3, <2>4 DEF errorCode
<1>5. /\ context # None /\ context.axis = Axis(kind)
      /\ context.version = IF kind = "hello" THEN BOOTSTRAP_ENVELOPE_VERSION ELSE v
  <2>1. v \in Nat \ {0}
    BY ExchangeConstants
  <2>2. Context(kind, v) \in VersionContext
    BY <2>1 DEF Context, VersionContext, Axis
  <2> QED
    BY <2>2, MarkerConstants DEF Context
<1> HIDE DEF context
<1>6. responseAxis(g, context) = axis
  BY <1>0, <1>2, <1>3, <1>4, <1>5 DEF responseAxis
<1>7. expectedVersion(axis, context, v) = [axis |-> axis, version |-> version]
  BY <1>5 DEF expectedVersion, Axis
<1>8. responseCode(g, [axis |-> axis, version |-> version]) = OK
  <2>1. version # None
    BY MarkerConstants
  <2>2. value \notin {None, "malformed"} \/ ok = "true"
    BY MarkerConstants DEF ErrorCode
  <2>3. g.kind \notin {"missing", "bad"} /\ g.id \notin {"missing", "bad"}
    BY <1>2 DEF Registered
  <2>4. ok = "true" => g.kind \in Registered /\ g.kind # "null" /\ g.payload = "good"
                       /\ g.payload # Missing /\ g.error = Missing
    BY <1>0, <1>2, MarkerConstants DEF Registered
  <2>5. ok = "false" => g.error # Missing /\ g.payload = Missing
    BY <1>2, <1>4
  <2> QED
    BY <1>2, <1>4, <2>1, <2>2, <2>3, <2>4, <2>5, First10 DEF responseCode, Check, OK
<1> QED
  BY <1>2, <1>4, <1>6, <1>7, <1>8 DEF decodeResponse, g, context, OK

\* Every answer fits one frame on the axis it names: a kind that could not be
\* echoed was dropped by refuse.
LEMMA AnswerIsEncoded ==
  ASSUME ExchangeInv, answer # None
  PROVE  encode_response_ok(answer)
<1> DEFINE d == decode_request(request, pv.handler)
<1>0. pv.handler \in Versions /\ request # None
  BY DEF ExchangeInv, Answers
<1>1. request \in RequestFrame /\ pv.handler \in Nat /\ pv.handler >= 1
  <2>1. pv.handler \in Nat \ {0}
    BY <1>0, ExchangeConstants
  <2> QED
    BY <1>0, <2>1 DEF ExchangeInv, Requests
<1>2. None # "long"
  BY MarkerConstants DEF KindNames
<1>3. CASE answer = timeout_response
  BY <1>2, <1>3 DEF timeout_response, Response, encode_response_ok
<1>4. CASE answer = refuse(d, pv.handler)
  <2> DEFINE r == Response(d.axis, wire_version(d.axis, pv.handler), d.id, d.kind, "false", d.code)
  <2>1. r.ok = "false" /\ r.axis = d.axis /\ r.version = wire_version(d.axis, pv.handler)
    BY DEF Response
  <2>2. encode_response_ok([r EXCEPT !.kind = None])
    BY <1>1, <1>2 DEF encode_response_ok, wire_version, Response
  <2> QED
    BY <1>4, <2>2 DEF refuse
<1>5. ASSUME NEW ok, NEW value, d.code = OK, answer = respond(request, pv.handler, ok, value)
      PROVE  encode_response_ok(answer)
  <2>1. request.kind \in Registered
    BY <1>1, <1>5, RequestsAgree
  <2> QED
    BY <1>1, <1>5, <2>1 DEF respond, Response, encode_response_ok, wire_version, Axis, Registered
<1> QED
  BY <1>3, <1>4, <1>5 DEF ExchangeInv, Answers

\* The answer to the client's own request: that of an operation if the
\* versions are the same or do not matter, else a refusal; or the watchdog's.
LEMMA AnswerToOwn ==
  ASSUME ExchangeInv, answer # None, sent # None
  PROVE  LET same == pv.client = pv.handler \/ sent.kind = "hello"
             version == IF sent.kind = "hello" THEN BOOTSTRAP_ENVELOPE_VERSION ELSE pv.client
         IN \/ answer = timeout_response
            \/ ~same /\ answer = Response("bootstrap", BOOTSTRAP_ENVELOPE_VERSION, "good",
                                          sent.kind, "false", "PROTOCOL_VERSION_UNSUPPORTED")
            \/ same /\ answer = Response(Axis(sent.kind), version, "good", sent.kind,
                                         "true", "good")
            \/ same /\ answer = Response(Axis(sent.kind), version, "good", sent.kind,
                                         "false", "EVENT_CONFLICT")
<1> DEFINE d == decode_request(request, pv.handler)
           same == pv.client = pv.handler \/ sent.kind = "hello"
<1>1. /\ sent.kind \in Registered /\ sent.payload \in WirePayload
      /\ build(sent.kind, sent.payload) = OK /\ pv.client \in Versions /\ pv.handler \in Versions
      /\ request = encodeRequest(sent.kind, sent.payload, pv.client)
  BY DEF ExchangeInv, Requests
<1>2. /\ d.code = IF same THEN OK ELSE "PROTOCOL_VERSION_UNSUPPORTED"
      /\ d.axis = IF same THEN Axis(sent.kind) ELSE "bootstrap"
      /\ d.id = "good" /\ d.kind = sent.kind
  BY <1>1, EncodedIsDecoded
<1>3. request.kind = sent.kind
  BY <1>1 DEF encodeRequest
<1> HIDE DEF d
<1>4. ASSUME same, NEW ok, NEW value, answer = respond(request, pv.handler, ok, value)
      PROVE  answer = Response(Axis(sent.kind),
                               IF sent.kind = "hello" THEN BOOTSTRAP_ENVELOPE_VERSION
                               ELSE pv.client, "good", sent.kind, ok, value)
  BY <1>3, <1>4 DEF respond, wire_version, Axis
<1>5. CASE d.code # OK /\ answer = refuse(d, pv.handler)
  <2>1. ~same
    BY <1>2, <1>5
  <2> DEFINE r == Response("bootstrap", BOOTSTRAP_ENVELOPE_VERSION, "good", sent.kind, "false",
                           "PROTOCOL_VERSION_UNSUPPORTED")
  <2>2. encode_response_ok(r)
    BY <1>1 DEF encode_response_ok, Response, Registered
  <2>3. Response(d.axis, wire_version(d.axis, pv.handler), d.id, d.kind, "false", d.code) = r
    BY <1>2, <2>1 DEF wire_version
  <2>4. refuse(d, pv.handler) = r
    BY <2>2, <2>3 DEF refuse
  <2> QED
    BY <1>5, <2>1, <2>4
<1>6. \/ answer = timeout_response
      \/ d.code # OK /\ answer = refuse(d, pv.handler)
      \/ d.code = OK /\ answer = respond(request, pv.handler, "true", "good")
      \/ d.code = OK /\ answer = respond(request, pv.handler, "false", "EVENT_CONFLICT")
  BY DEF ExchangeInv, Answers, d
<1>7. d.code = OK => same
  BY <1>2 DEF OK
<1> QED
  BY <1>4, <1>5, <1>6, <1>7

\* How the client reads it.
LEMMA AnswerIsRead ==
  ASSUME ExchangeInv, answer # None, sent # None
  PROVE  /\ Seen.code = OK
         /\ Seen.version = [axis |-> answer.axis, version |-> answer.version]
         /\ Seen.value = answer.value
<1> DEFINE v == pv.client
           version == IF sent.kind = "hello" THEN BOOTSTRAP_ENVELOPE_VERSION ELSE v
<1>1. sent.kind \in Registered /\ v \in Versions /\ v \in Nat /\ version \in Nat
      /\ BOOTSTRAP_ENVELOPE_VERSION \in Nat
  BY ExchangeConstants DEF ExchangeInv, Requests, BOOTSTRAP_ENVELOPE_VERSION
<1>2. Seen = decodeResponse(encode_response(answer), Context(sent.kind, v), v)
  BY DEF Seen, Context
<1>3. "HANDLER_TIMEOUT" \in ErrorCode /\ "PROTOCOL_VERSION_UNSUPPORTED" \in ErrorCode
      /\ "EVENT_CONFLICT" \in ErrorCode /\ "EVENT_CONFLICT" \notin BootstrapCodes
      /\ {"HANDLER_TIMEOUT", "PROTOCOL_VERSION_UNSUPPORTED"} \subseteq BootstrapCodes
  BY DEF ErrorCode, BootstrapCodes
<1>4. CASE answer = timeout_response
  BY <1>1, <1>2, <1>3, <1>4, ResponseIsRead DEF timeout_response, Response
<1>5. CASE answer = Response("bootstrap", BOOTSTRAP_ENVELOPE_VERSION, "good", sent.kind, "false",
                             "PROTOCOL_VERSION_UNSUPPORTED")
  BY <1>1, <1>2, <1>3, <1>5, ResponseIsRead DEF Response
<1>6. version = IF Axis(sent.kind) = "bootstrap" THEN BOOTSTRAP_ENVELOPE_VERSION ELSE v
  BY DEF Axis
<1> HIDE DEF version
<1>7. CASE answer = Response(Axis(sent.kind), version, "good", sent.kind, "true", "good")
  BY <1>1, <1>2, <1>3, <1>6, <1>7, ResponseIsRead DEF Response
<1>8. CASE answer = Response(Axis(sent.kind), version, "good", sent.kind, "false",
                             "EVENT_CONFLICT")
  BY <1>1, <1>2, <1>3, <1>6, <1>8, ResponseIsRead DEF Response
<1> QED
  BY <1>4, <1>5, <1>7, <1>8, AnswerToOwn DEF version

\* Every answer is one frame, and the client reads in the answer to its
\* request what the handler put there, on the axis the handler chose.
THEOREM AnswerIsAlwaysReadable == Spec => []AnswerIsReadable
<1>1. ExchangeInv => AnswerIsReadable
  BY AnswerIsEncoded, AnswerIsRead DEF AnswerIsReadable
<1> QED
  BY <1>1, ExchangeInvariant, PTL

\* Between programs of different operation versions the client is told of the
\* skew or of a timeout, and never of an operation's outcome.
THEOREM SkewIsAlwaysReported == Spec => []SkewIsReported
<1>1. ExchangeInv => SkewIsReported
  <2> SUFFICES ASSUME ExchangeInv, answer # None, sent # None, sent.kind # "hello",
                      pv.client # pv.handler
               PROVE  Seen.value \in {"PROTOCOL_VERSION_UNSUPPORTED", "HANDLER_TIMEOUT"}
    BY DEF SkewIsReported
  <2>1. answer.value \in {"PROTOCOL_VERSION_UNSUPPORTED", "HANDLER_TIMEOUT"}
    BY AnswerToOwn DEF timeout_response, Response
  <2> QED
    BY <2>1, AnswerIsRead
<1> QED
  BY <1>1, ExchangeInvariant, PTL
=============================================================================
