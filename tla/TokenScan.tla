----------------------------- MODULE TokenScan -----------------------------
(***************************************************************************)
(* Both token scanners reading the same grammatical JSON text, token by    *)
(* token, against definitions over the text itself: which tokens offend,   *)
(* what lies below the payload, and which spelling of a member is final.   *)
(* The root is an object: the decoders refuse any other frame before they  *)
(* look at what the scan recorded.                                         *)
(***************************************************************************)
EXTENDS RustScan, TsScan, FiniteSets

CONSTANTS
  Names,           \* member names that occur, Ill possibly among them
  Strings,         \* string values that occur, Ill possibly among them
  MaxTokens        \* bound: length of the texts that occur

ASSUME ScanConstants ==
  /\ None \notin Names \cup {"payload", "error", "code"}
  /\ None \notin [kind : {"unicode", "duplicate", "number"}, index : Nat,
                  in_payload : BOOLEAN]
  /\ Ill \notin {"payload", "error", "code"}
  /\ Ill \notin {"fits", "wide", "noncanonical", "null", "object", "array", ""}

VARIABLES
  text,            \* the tokens read so far, each with the containers around it
  open,            \* indices of the containers not yet closed
  want,            \* what the grammar asks for next
  rs, ts           \* the two scans

vars == <<text, open, want, rs, ts>>

\* Integers: in range, beyond 32 unsigned bits, and spelled another way.
Numbers == {"fits", "wide", "noncanonical"}

Init ==
  /\ text = <<>>
  /\ open = <<>>
  /\ want = "root"
  /\ rs = rs_start
  /\ ts = ts_start

\* What may follow once a value is complete within these containers.
After(containers) ==
  IF containers = <<>> THEN "nothing"
  ELSE IF text[Last(containers)].value = "object" THEN "name" ELSE "value"

Index == Len(text) + 1

Read(kind, value) ==
  /\ Len(text) < MaxTokens
  /\ text' = Append(text, [token |-> kind, value |-> value, path |-> open])

Name(n) ==
  /\ want = "name"
  /\ Read("name", n)
  /\ rs' = rs_name(rs, n, Index)
  /\ ts' = ts_name(ts, n, Index)
  /\ want' = "member"
  /\ UNCHANGED open

WantsValue == want \in {"value", "member"}

String(s) ==
  /\ WantsValue
  /\ Read("string", s)
  /\ rs' = rs_string(rs, s, Index)
  /\ ts' = ts_string(ts, s, Index)
  /\ want' = After(open)
  /\ UNCHANGED open

Number(n) ==
  /\ WantsValue
  /\ Read("number", n)
  /\ rs' = rs_number(rs, n # "noncanonical", n = "fits", Index)
  /\ ts' = ts_number(ts, n # "noncanonical", Index)
  /\ want' = After(open)
  /\ UNCHANGED open

Literal ==
  /\ WantsValue
  /\ Read("literal", "null")
  /\ rs' = rs_literal(rs)
  /\ ts' = ts_literal(ts)
  /\ want' = After(open)
  /\ UNCHANGED open

Open(kind) ==
  /\ WantsValue \/ (want = "root" /\ kind = "object")
  /\ Read("open", kind)
  /\ rs' = rs_open(rs, kind)
  /\ ts' = ts_open(ts, kind)
  /\ open' = Append(open, Index)
  /\ want' = IF kind = "object" THEN "name" ELSE "value"

\* A container may close after a complete member or element, or empty; a
\* separator is no token of the scan.
Close ==
  /\ open # <<>> /\ want # "member"
  /\ Read("close", "")
  /\ rs' = rs_close(rs)
  /\ ts' = ts_close(ts)
  /\ open' = Front(open)
  /\ want' = After(Front(open))

Next ==
  \/ \E n \in Names : Name(n)
  \/ \E s \in Strings : String(s)
  \/ \E n \in Numbers : Number(n)
  \/ Literal
  \/ \E kind \in {"object", "array"} : Open(kind)
  \/ Close

Spec == Init /\ [][Next]_vars

-----------------------------------------------------------------------------
\* Token i is the value of the root member of this name.
IsRootMember(i, name) ==
  /\ i > 1 /\ text[i].token \notin {"name", "close"}
  /\ text[i].path = <<1>> /\ text[i - 1].token = "name" /\ text[i - 1].value = name

InPayload(i) ==
  \E v \in {i} \cup {text[i].path[k] : k \in DOMAIN text[i].path} :
    IsRootMember(v, "payload")

IsOffending(i) ==
  \/ text[i].value = Ill
  \/ text[i].token = "number" /\ text[i].value = "noncanonical"
  \/ text[i].token = "name" /\
       \E j \in 1..(i - 1) :
         /\ text[j].token = "name" /\ text[j].path = text[i].path
         /\ text[j].value = text[i].value

Offending == {i \in DOMAIN text : IsOffending(i)}

\* spec/protocol/v1: "the first offending duplicate, member/string Unicode
\* defect, or non-canonical number in source order fixes the code", and only
\* a number below the top-level payload is an error of the payload.  Both
\* scanners report that token and that code.
FirstDefectFixesTheCode ==
  \A z \in {rs.failure, ts.failure} :
    IF Offending = {} THEN z = None
    ELSE LET first == CHOOSE i \in Offending : \A j \in Offending : i <= j IN
      /\ z # None /\ z.index = first
      /\ z.kind = "number" /\ z.in_payload
           <=> text[first].token = "number" /\ InPayload(first)

\* A token as a probed value.
Probed(i) ==
  IF text[i].value = Ill THEN [type |-> "invalid"]
  ELSE CASE text[i].token = "string" -> [type |-> "string", value |-> text[i].value]
         [] text[i].token = "number" -> [type |-> "number"]
         [] text[i].token = "literal" -> [type |-> "null"]
         [] text[i].token = "open" -> [type |-> text[i].value]

LastOf(S) == CHOOSE i \in S : \A j \in S : j <= i

\* The last spelling of a root member wins, whatever lies between or below:
\* the correlation a response is addressed with is the one a folding parser
\* would see, in both scanners.  Both withhold it exactly when a root member
\* name is ill-formed; a defect below the root does not suppress it.
CorrelationIsFinalSpelling ==
  LET defect == \E i \in DOMAIN text :
                  text[i].token = "name" /\ text[i].value = Ill /\ Len(text[i].path) = 1
  IN /\ rs.safe <=> ~defect
     /\ ts.topLevelMemberNameUnicodeDefect <=> defect
     /\ \A n \in Names \ {Ill} :
          LET spelled == {i \in DOMAIN text : IsRootMember(i, n)} IN
            /\ n \in DOMAIN rs.values <=> spelled # {}
            /\ n \in DOMAIN ts.topLevelValues <=> spelled # {}
            /\ spelled # {} => /\ rs.values[n] = Probed(LastOf(spelled))
                               /\ ts.topLevelValues[n] = Probed(LastOf(spelled))

\* The code that may select the bootstrap axis is the string code directly in
\* the last root error object: neither a code nested deeper nor one of an
\* error that a later spelling replaced.
ErrorCodeIsDirect ==
  LET errors == {i \in DOMAIN text : IsRootMember(i, "error")}
      last == LastOf(errors)
      codes == {i \in DOMAIN text :
                  /\ text[i].token \notin {"name", "close"}
                  /\ text[i].path = <<1, last>> /\ text[last].value = "object"
                  /\ text[i - 1].token = "name" /\ text[i - 1].value = "code"}
      reference == IF errors = {} \/ codes = {} THEN None
                   ELSE IF Probed(LastOf(codes)).type = "string"
                   THEN text[LastOf(codes)].value ELSE None
  IN rs.error_code = reference /\ ts.errorCode = reference

\* The payload is marked as beyond the typed decoder exactly when an integer
\* below it does not fit or a container below it is too deep; the typed text
\* spells such an integer 0, so a missed mark would change the signal.
PayloadBoundsAreMarked ==
  /\ rs.wide <=> \E i \in DOMAIN text :
                   text[i].token = "number" /\ text[i].value = "wide" /\ InPayload(i)
  /\ rs.deep <=> \E i \in DOMAIN text :
                   text[i].token = "open" /\ InPayload(i) /\ Len(text[i].path) >= DepthLimit
=============================================================================
