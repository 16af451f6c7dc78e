------------------------------- MODULE TsScan -------------------------------
(***************************************************************************)
(* scanJsonTokens of packages/protocol, one operator per kind of token, on *)
(* text that JSON.parse accepts.                                           *)
(***************************************************************************)
EXTENDS Tokens

ts_start ==
  [levels |-> <<>>, topLevelValues |-> <<>>, errorCode |-> None, failure |-> None,
   topLevelMemberNameUnicodeDefect |-> FALSE]

parentIs(levels, kind) == levels # <<>> /\ Last(levels).kind = kind

valueIsPayload(levels) ==
  /\ levels # <<>>
  /\ \/ Last(levels).inPayload
     \/ Len(levels) = 1 /\ parentIs(levels, "object") /\ Last(levels).pendingKey = "payload"

consumePendingKey(levels) ==
  IF parentIs(levels, "object") THEN [levels EXCEPT ![Len(levels)].pendingKey = None]
  ELSE levels

fail(z, kind, index, inPayload) ==
  IF z.failure # None /\ z.failure.index <= index THEN z
  ELSE [z EXCEPT !.failure = [kind |-> kind, index |-> index, in_payload |-> inPayload]]

recordValue(z, value) ==
  IF ~parentIs(z.levels, "object") \/ Last(z.levels).pendingKey = None THEN z
  ELSE LET parent == Last(z.levels)
           root == Len(z.levels) = 1
           reset == IF root /\ parent.pendingKey = "error" THEN None ELSE z.errorCode
       IN [z EXCEPT
            !.topLevelValues = IF root THEN insert(@, parent.pendingKey, value) ELSE @,
            !.errorCode = IF ~(parent.directError /\ parent.pendingKey = "code") THEN reset
                          ELSE IF value.type = "string" THEN value.value ELSE None]

ts_value(z, value) == [recordValue(z, value) EXCEPT !.levels = consumePendingKey(@)]

\* An ill-formed name joins the keys and pends like any other.
ts_name(z, name, index) ==
  LET depth == Len(z.levels)
      parent == Last(z.levels)
      unicode == IF name # Ill THEN z
                 ELSE fail([z EXCEPT !.topLevelMemberNameUnicodeDefect = @ \/ depth = 1],
                           "unicode", index, valueIsPayload(z.levels) \/ parent.inPayload)
      checked == IF name \notin parent.keys THEN unicode
                 ELSE fail(unicode, "duplicate", index,
                           parent.inPayload \/ (depth = 1 /\ name = "payload"))
  IN [checked EXCEPT !.levels[depth].keys = @ \cup {name},
                     !.levels[depth].pendingKey = name]

ts_string(z, string, index) ==
  IF string = Ill
  THEN ts_value(fail(z, "unicode", index, valueIsPayload(z.levels)), [type |-> "invalid"])
  ELSE ts_value(z, [type |-> "string", value |-> string])

ts_number(z, canonical, index) ==
  LET read == ts_value(z, [type |-> "number"])
  IN IF canonical THEN read ELSE fail(read, "number", index, valueIsPayload(z.levels))

ts_literal(z) == ts_value(z, [type |-> "null"])

ts_open(z, kind) ==
  LET read == ts_value(z, [type |-> kind])
  IN [read EXCEPT !.levels =
        Append(@, [kind |-> kind, keys |-> {}, inPayload |-> valueIsPayload(z.levels),
                   directError |-> /\ kind = "object" /\ Len(z.levels) = 1
                                   /\ parentIs(z.levels, "object")
                                   /\ Last(z.levels).pendingKey = "error",
                   pendingKey |-> None])]

ts_close(z) == [z EXCEPT !.levels = Front(@)]
=============================================================================
