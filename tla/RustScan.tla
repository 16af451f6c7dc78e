------------------------------ MODULE RustScan ------------------------------
(***************************************************************************)
(* scan_json_tokens of crates/aizign-protocol, one operator per kind of    *)
(* token, on text that passed validate_json_grammar.  A scan is a record;  *)
(* the index of a token stands for its byte offset.                        *)
(***************************************************************************)
EXTENDS Tokens

CONSTANT DepthLimit       \* TYPED_JSON_DEPTH_LIMIT

rs_start ==
  [levels |-> <<>>, values |-> <<>>, error_code |-> None, failure |-> None,
   safe |-> TRUE, wide |-> FALSE, deep |-> FALSE]

\* Faulty variant of value_is_payload: only the payload's own members count.
value_is_payload_direct(levels) ==
  levels # <<>> /\ Len(levels) = 1 /\ Last(levels).pending_key = "payload"

value_is_payload(levels) ==
  /\ levels # <<>>
  /\ \/ Last(levels).in_payload
     \/ Len(levels) = 1 /\ Last(levels).pending_key = "payload"

\* Faulty variant of consume_pending_key: the name stays pending.
consume_nothing(levels) == levels

consume_pending_key(levels) ==
  IF levels = <<>> THEN levels ELSE [levels EXCEPT ![Len(levels)].pending_key = None]

\* Faulty variant of record_failure: the last defect found is kept.
record_last_failure(z, kind, index, in_payload) ==
  [z EXCEPT !.failure = [kind |-> kind, index |-> index, in_payload |-> in_payload]]

record_failure(z, kind, index, in_payload) ==
  IF z.failure = None \/ index < z.failure.index
  THEN [z EXCEPT !.failure = [kind |-> kind, index |-> index, in_payload |-> in_payload]]
  ELSE z

\* Faulty variant of record_probe_value: a new error keeps the old code.
record_probe_value_keeping_code(z, value) ==
  IF z.levels = <<>> \/ Last(z.levels).pending_key = None THEN z
  ELSE LET top == Last(z.levels)
           key == top.pending_key
       IN [z EXCEPT
            !.values = IF Len(z.levels) = 1 THEN insert(@, key, value) ELSE @,
            !.error_code =
              IF top.direct_error /\ key = "code"
              THEN (IF value.type = "string" THEN value.value ELSE None)
              ELSE @]

\* The final value of a root member is kept, and the code of a root error.
record_probe_value(z, value) ==
  IF z.levels = <<>> \/ Last(z.levels).pending_key = None THEN z
  ELSE LET top == Last(z.levels)
           key == top.pending_key
       IN [z EXCEPT
            !.values = IF Len(z.levels) = 1 THEN insert(@, key, value) ELSE @,
            !.error_code =
              IF top.direct_error /\ key = "code"
              THEN (IF value.type = "string" THEN value.value ELSE None)
              ELSE IF Len(z.levels) = 1 /\ key = "error" THEN None
              ELSE @]

\* A value was read: it is recorded and its member name consumed.
rs_value(z, value) ==
  [record_probe_value(z, value) EXCEPT !.levels = consume_pending_key(@)]

\* An ill-formed name is not decoded: it neither joins the keys nor pends.
rs_name(z, name, index) ==
  LET depth == Len(z.levels)
      top == Last(z.levels)
      failed ==
        CASE name = Ill -> record_failure(z, "unicode", index, value_is_payload(z.levels))
          [] name # Ill /\ name \in top.keys ->
               record_failure(z, "duplicate", index,
                              top.in_payload \/ (depth = 1 /\ name = "payload"))
          [] OTHER -> z
  IN IF name = Ill THEN [failed EXCEPT !.safe = @ /\ depth # 1]
     ELSE [failed EXCEPT !.levels[depth].keys = @ \cup {name},
                         !.levels[depth].pending_key = name]

rs_string(z, string, index) ==
  IF string = Ill
  THEN rs_value(record_failure(z, "unicode", index, value_is_payload(z.levels)),
                [type |-> "invalid"])
  ELSE rs_value(z, [type |-> "string", value |-> string])

\* `canonical` is is_canonical_integer, `fits` whether 32 unsigned bits hold it.
rs_number(z, canonical, fits, index) ==
  LET in_payload == value_is_payload(z.levels)
      read == rs_value(z, [type |-> "number"])
  IN IF ~canonical THEN record_failure(read, "number", index, in_payload)
     ELSE [read EXCEPT !.wide = @ \/ (in_payload /\ ~fits)]

rs_literal(z) == rs_value(z, [type |-> "null"])

rs_open(z, kind) ==
  LET in_payload == value_is_payload(z.levels)
      direct_error == /\ kind = "object" /\ Len(z.levels) = 1
                      /\ Last(z.levels).pending_key = "error"
      read == rs_value(z, [type |-> kind])
  IN [read EXCEPT
       !.deep = @ \/ (in_payload /\ Len(z.levels) >= DepthLimit),
       !.levels = Append(@, [kind |-> kind, keys |-> {}, in_payload |-> in_payload,
                             direct_error |-> direct_error, pending_key |-> None])]

rs_close(z) == [z EXCEPT !.levels = Front(@)]
=============================================================================
