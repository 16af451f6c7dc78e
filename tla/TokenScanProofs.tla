--------------------------- MODULE TokenScanProofs ---------------------------
(***************************************************************************)
(* What the two token scanners report, for texts of any length, any depth  *)
(* limit and any member names and strings.                                 *)
(*                                                                         *)
(* The facts about a text are stated of a text x, its open containers o    *)
(* and what the grammar wants next, w, so that they can be used of the     *)
(* state before and after a step.  The scanners keep one level per open    *)
(* container; the heart of the invariant is what each level says about x.  *)
(***************************************************************************)
EXTENDS TokenScan, SequenceTheorems, TLAPS

-----------------------------------------------------------------------------
(* Sequences.                                                              *)

\* A prefix of a sequence.
LEMMA PrefixIs ==
  ASSUME NEW S, NEW s \in Seq(S), NEW n \in Nat, n <= Len(s)
  PROVE  /\ SubSeq(s, 1, n) \in Seq(S) /\ Len(SubSeq(s, 1, n)) = n
         /\ \A i \in 1 .. n : SubSeq(s, 1, n)[i] = s[i]
OBVIOUS

\* Front drops the last element.
LEMMA FrontIs ==
  ASSUME NEW S, NEW s \in Seq(S), s # <<>>
  PROVE  /\ Front(s) \in Seq(S) /\ Len(Front(s)) = Len(s) - 1
         /\ \A i \in 1 .. (Len(s) - 1) : Front(s)[i] = s[i]
<1>1. Len(s) - 1 \in Nat /\ Len(s) - 1 <= Len(s)
  OBVIOUS
<1>2. Front(s) = SubSeq(s, 1, Len(s) - 1)
  BY DEF Front
<1> QED
  BY ZenonT(30), <1>1, <1>2, PrefixIs

\* Replacing the last element.
LEMMA ExceptLast ==
  ASSUME NEW S, NEW s \in Seq(S), s # <<>>, NEW e \in S
  PROVE  LET r == [s EXCEPT ![Len(s)] = e] IN
           /\ r \in Seq(S) /\ Len(r) = Len(s) /\ r[Len(s)] = e
           /\ \A i \in 1 .. Len(s) : i # Len(s) => r[i] = s[i]
OBVIOUS

-----------------------------------------------------------------------------
(* Texts.                                                                  *)

Word == Names \cup Strings \cup Numbers \cup {"null", "object", "array", ""}

Token ==
  [token : {"name", "string", "number", "literal", "open", "close"}, value : Word,
   path : Seq(Nat)]

\* Token i lies directly in the k-th open container.
Within(x, o, i, k) ==
  /\ Len(x[i].path) = k
  /\ \A m \in 1 .. k : x[i].path[m] = o[m]

\* The definitions of TokenScan, of a text x.
Root(x, i, name) ==
  /\ i > 1 /\ x[i].token \notin {"name", "close"}
  /\ x[i].path = <<1>> /\ x[i - 1].token = "name" /\ x[i - 1].value = name

Below(x, i) ==
  \E v \in {i} \cup {x[i].path[k] : k \in DOMAIN x[i].path} : Root(x, v, "payload")

Offends(x, i) ==
  \/ x[i].value = Ill
  \/ x[i].token = "number" /\ x[i].value = "noncanonical"
  \/ x[i].token = "name" /\
       \E j \in 1 .. (i - 1) :
         /\ x[j].token = "name" /\ x[j].path = x[i].path /\ x[j].value = x[i].value

CodeOf(x, e, i) ==
  /\ x[i].token \notin {"name", "close"}
  /\ x[i].path = <<1, e>> /\ x[e].value = "object"
  /\ x[i - 1].token = "name" /\ x[i - 1].value = "code"

\* Probed, of a token.
ProbedAs(t) ==
  IF t.value = Ill THEN [type |-> "invalid"]
  ELSE CASE t.token = "string" -> [type |-> "string", value |-> t.value]
         [] t.token = "number" -> [type |-> "number"]
         [] t.token = "literal" -> [type |-> "null"]
         [] t.token = "open" -> [type |-> t.value]

\* The containers around a token come before it.
Paths(x) ==
  /\ x \in Seq(Token)
  /\ \A i \in 1 .. Len(x) : \A k \in 1 .. Len(x[i].path) : x[i].path[k] \in 1 .. (i - 1)

\* The open containers are nested, and nothing outside an open one follows it.
Containers(x, o) ==
  /\ o \in Seq(Nat)
  /\ o # <<>> => o[1] = 1
  /\ \A k \in 1 .. Len(o) :
       /\ o[k] \in 1 .. Len(x)
       /\ x[o[k]].token = "open" /\ x[o[k]].value \in {"object", "array"}
       /\ Within(x, o, o[k], k - 1)
       /\ \A j \in 1 .. Len(x) : j > o[k] => Len(x[j].path) >= k

\* What the grammar wants fits the innermost container; the root is an object.
Wanted(x, o, w) ==
  /\ w \in {"root", "name", "member", "value", "nothing"}
  /\ w = "root" <=> x = <<>>
  /\ w \in {"root", "nothing"} <=> o = <<>>
  /\ x # <<>> => x[1].value = "object"
  /\ w \in {"name", "member"} => x[o[Len(o)]].value = "object"
  /\ w = "value" => x[o[Len(o)]].value = "array"
  /\ w = "member" => x[Len(x)].token = "name" /\ x[Len(x)].value \in Names

Grammar(x, o, w) == Paths(x) /\ Containers(x, o) /\ Wanted(x, o, w)

\* What a longer text says of an earlier token.
LEMMA Grown ==
  ASSUME NEW x, Paths(x), NEW t \in Token,
         \A k \in 1 .. Len(t.path) : t.path[k] \in 1 .. Len(x)
  PROVE  LET y == Append(x, t) IN
           /\ y \in Seq(Token) /\ Len(y) = Len(x) + 1 /\ y[Len(x) + 1] = t
           /\ \A i \in 1 .. Len(x) : y[i] = x[i]
           /\ Paths(y)
           /\ \A i \in 1 .. Len(x) : \A n : Root(y, i, n) <=> Root(x, i, n)
           /\ \A i \in 1 .. Len(x) : Below(y, i) <=> Below(x, i)
           /\ \A i \in 1 .. Len(x) : Offends(y, i) <=> Offends(x, i)
           /\ \A e, i \in 1 .. Len(x) : CodeOf(y, e, i) <=> CodeOf(x, e, i)
<1> DEFINE y == Append(x, t)
<1>1. x \in Seq(Token) /\ Len(x) \in Nat
  BY DEF Paths
<1>2. y \in Seq(Token) /\ Len(y) = Len(x) + 1 /\ y[Len(x) + 1] = t
  BY <1>1
<1>3. \A i \in 1 .. Len(x) : y[i] = x[i]
  BY <1>1
<1> HIDE DEF y
<1>4. Paths(y)
  <2> SUFFICES ASSUME NEW i \in 1 .. Len(y), NEW k \in 1 .. Len(y[i].path)
               PROVE  y[i].path[k] \in 1 .. (i - 1)
    BY <1>2 DEF Paths
  <2>1. CASE i \in 1 .. Len(x)
    BY <1>3, <2>1 DEF Paths
  <2>2. CASE i = Len(x) + 1
    BY <1>1, <1>2, <2>2
  <2> QED
    BY <1>1, <1>2, <2>1, <2>2
<1>5. \A i \in 1 .. Len(x) : \A n : Root(y, i, n) <=> Root(x, i, n)
  <2> SUFFICES ASSUME NEW i \in 1 .. Len(x), NEW n PROVE Root(y, i, n) <=> Root(x, i, n)
    OBVIOUS
  <2>1. i > 1 => i - 1 \in 1 .. Len(x)
    BY <1>1
  <2> QED
    BY <1>3, <2>1 DEF Root
<1>6. \A i \in 1 .. Len(x) : Below(y, i) <=> Below(x, i)
  <2> SUFFICES ASSUME NEW i \in 1 .. Len(x) PROVE Below(y, i) <=> Below(x, i)
    OBVIOUS
  <2>1. x[i].path \in Seq(Nat) /\ \A k \in DOMAIN x[i].path : x[i].path[k] \in 1 .. Len(x)
    <3>1. x[i] \in Token
      BY <1>1
    <3>2. x[i].path \in Seq(Nat) /\ DOMAIN x[i].path = 1 .. Len(x[i].path)
      BY <3>1 DEF Token
    <3>3. \A k \in DOMAIN x[i].path : x[i].path[k] \in 1 .. (i - 1)
      BY <3>2 DEF Paths
    <3> QED
      BY <1>1, <3>2, <3>3
  <2>2. \A v \in {i} \cup {x[i].path[k] : k \in DOMAIN x[i].path} :
          Root(y, v, "payload") <=> Root(x, v, "payload")
    BY <1>5, <2>1
  <2> QED
    BY <1>3, <2>2 DEF Below
<1>7. \A i \in 1 .. Len(x) : Offends(y, i) <=> Offends(x, i)
  <2> SUFFICES ASSUME NEW i \in 1 .. Len(x) PROVE Offends(y, i) <=> Offends(x, i)
    OBVIOUS
  <2>1. \A j \in 1 .. (i - 1) : y[j] = x[j]
    BY <1>1, <1>3
  <2> QED
    BY <1>3, <2>1 DEF Offends
<1>8. \A e, i \in 1 .. Len(x) : CodeOf(y, e, i) <=> CodeOf(x, e, i)
  <2> SUFFICES ASSUME NEW e \in 1 .. Len(x), NEW i \in 1 .. Len(x)
               PROVE  CodeOf(y, e, i) <=> CodeOf(x, e, i)
    OBVIOUS
  <2>1. x[i].path = <<1, e>> => i > 1
    <3> SUFFICES ASSUME x[i].path = <<1, e>> PROVE i > 1
      OBVIOUS
    <3>1. Len(x[i].path) = 2
      OBVIOUS
    <3>2. x[i].path[1] \in 1 .. (i - 1)
      BY <3>1 DEF Paths
    <3> QED
      BY <3>2
  <2>2. i > 1 => y[i - 1] = x[i - 1]
    BY <1>1, <1>3
  <2> QED
    BY <1>3, <2>1, <2>2 DEF CodeOf
<1> QED
  BY <1>2, <1>3, <1>4, <1>5, <1>6, <1>7, <1>8 DEF y

-----------------------------------------------------------------------------
(* The grammar, token by token.                                            *)

\* The containers around a new token are in the text.
LEMMA PathIsOpen ==
  ASSUME NEW x, NEW o, Paths(x), Containers(x, o)
  PROVE  /\ x \in Seq(Token) /\ Len(x) \in Nat /\ o \in Seq(Nat) /\ Len(o) \in Nat
         /\ \A k \in 1 .. Len(o) : o[k] \in 1 .. Len(x)
BY DEF Paths, Containers

\* A new token leaves the open containers as they were.
LEMMA StillOpen ==
  ASSUME NEW x, NEW o, Paths(x), Containers(x, o), NEW t \in Token, t.path = o
  PROVE  Containers(Append(x, t), o)
<1> DEFINE y == Append(x, t)
<1>1. /\ x \in Seq(Token) /\ Len(x) \in Nat /\ o \in Seq(Nat) /\ Len(o) \in Nat
      /\ \A k \in 1 .. Len(o) : o[k] \in 1 .. Len(x)
  BY PathIsOpen
<1>2. /\ Len(y) = Len(x) + 1 /\ y[Len(x) + 1] = t /\ \A i \in 1 .. Len(x) : y[i] = x[i]
  BY <1>1, Grown
<1> HIDE DEF y
<1>3. ASSUME NEW k \in 1 .. Len(o)
      PROVE  /\ o[k] \in 1 .. Len(y)
             /\ y[o[k]].token = "open" /\ y[o[k]].value \in {"object", "array"}
             /\ Within(y, o, o[k], k - 1)
  <2>1. y[o[k]] = x[o[k]] /\ o[k] \in 1 .. Len(x)
    BY <1>1, <1>2
  <2>2. /\ x[o[k]].token = "open" /\ x[o[k]].value \in {"object", "array"}
        /\ Within(x, o, o[k], k - 1)
    BY DEF Containers
  <2>3. o[k] \in 1 .. Len(y)
    BY <1>1, <1>2, <2>1
  <2>4. Within(y, o, o[k], k - 1)
    BY <2>1, <2>2 DEF Within
  <2> QED
    BY <2>1, <2>2, <2>3, <2>4
<1>4. ASSUME NEW k \in 1 .. Len(o), NEW j \in 1 .. Len(y), j > o[k]
      PROVE  Len(y[j].path) >= k
  <2>1. CASE j \in 1 .. Len(x)
    BY <1>2, <1>4, <2>1 DEF Containers
  <2>2. CASE j = Len(x) + 1
    BY <1>1, <1>2, <2>2
  <2> QED
    BY <1>1, <1>2, <2>1, <2>2
<1> QED
  BY <1>1, <1>3, <1>4 DEF Containers, y

\* Opening a container.
LEMMA Opened ==
  ASSUME NEW x, NEW o, Paths(x), Containers(x, o), NEW t \in Token, t.path = o,
         t.token = "open", t.value \in {"object", "array"}, o = <<>> => x = <<>>
  PROVE  Containers(Append(x, t), Append(o, Len(x) + 1))
<1> DEFINE y == Append(x, t)
           p == Append(o, Len(x) + 1)
<1>1. /\ x \in Seq(Token) /\ Len(x) \in Nat /\ o \in Seq(Nat) /\ Len(o) \in Nat
      /\ \A k \in 1 .. Len(o) : o[k] \in 1 .. Len(x)
  BY PathIsOpen
<1>2. /\ Len(y) = Len(x) + 1 /\ y[Len(x) + 1] = t
  BY <1>1, Grown
<1>3. /\ p \in Seq(Nat) /\ Len(p) = Len(o) + 1 /\ p[Len(o) + 1] = Len(x) + 1
      /\ \A k \in 1 .. Len(o) : p[k] = o[k]
  BY <1>1
<1>4. Containers(y, o)
  BY StillOpen
<1> HIDE DEF y, p
<1>5. p[1] = 1
  <2>1. CASE o = <<>>
    <3>1. Len(o) = 0 /\ Len(x) = 0
      BY <2>1
    <3> QED
      BY <1>3, <3>1
  <2>2. CASE o # <<>>
    <3>1. o[1] = 1 /\ 1 \in 1 .. Len(o)
      BY <1>1, <2>2 DEF Containers
    <3> QED
      BY <1>3, <3>1
  <2> QED
    BY <2>1, <2>2
<1>6. ASSUME NEW k \in 1 .. Len(p)
      PROVE  /\ p[k] \in 1 .. Len(y)
             /\ y[p[k]].token = "open" /\ y[p[k]].value \in {"object", "array"}
             /\ Within(y, p, p[k], k - 1)
             /\ \A j \in 1 .. Len(y) : j > p[k] => Len(y[j].path) >= k
  <2>1. CASE k \in 1 .. Len(o)
    <3>1. p[k] = o[k] /\ k - 1 \in 0 .. Len(o) /\ \A m \in 1 .. (k - 1) : p[m] = o[m]
      BY SMTT(30), <1>1, <1>3, <2>1
    <3>2. Within(y, o, o[k], k - 1)
      BY <1>4, <2>1 DEF Containers
    <3>3. Within(y, p, p[k], k - 1)
      BY <3>1, <3>2 DEF Within
    <3> QED
      BY <1>4, <2>1, <3>1, <3>3 DEF Containers
  <2>2. CASE k = Len(o) + 1
    BY <1>1, <1>2, <1>3, <2>2 DEF Within
  <2> QED
    BY <1>1, <1>3, <2>1, <2>2
<1> QED
  BY <1>3, <1>5, <1>6 DEF Containers, y, p

\* Closing the innermost container.
LEMMA Closed ==
  ASSUME NEW x, NEW o, Paths(x), Containers(x, o), NEW t \in Token, t.path = o, o # <<>>
  PROVE  Containers(Append(x, t), Front(o))
<1> DEFINE y == Append(x, t)
<1>1. o \in Seq(Nat) /\ Len(o) \in Nat /\ Len(o) > 0
  BY PathIsOpen
<1>2. Containers(y, o)
  BY StillOpen
<1>3. /\ Front(o) \in Seq(Nat) /\ Len(Front(o)) = Len(o) - 1
      /\ \A k \in 1 .. (Len(o) - 1) : Front(o)[k] = o[k]
  BY <1>1, FrontIs
<1> HIDE DEF y
<1>4. Front(o) # <<>> => Front(o)[1] = 1
  <2>1. Front(o) # <<>> => 1 \in 1 .. (Len(o) - 1)
    BY <1>1, <1>3
  <2> QED
    BY <1>1, <1>2, <1>3, <2>1 DEF Containers
<1>5. ASSUME NEW k \in 1 .. Len(Front(o))
      PROVE  /\ Front(o)[k] \in 1 .. Len(y)
             /\ y[Front(o)[k]].token = "open" /\ y[Front(o)[k]].value \in {"object", "array"}
             /\ Within(y, Front(o), Front(o)[k], k - 1)
             /\ \A j \in 1 .. Len(y) : j > Front(o)[k] => Len(y[j].path) >= k
  <2>1. k \in 1 .. Len(o) /\ k \in 1 .. (Len(o) - 1)
    BY <1>1, <1>3
  <2>2. Front(o)[k] = o[k] /\ \A m \in 1 .. (k - 1) : Front(o)[m] = o[m]
    BY <1>1, <1>3, <2>1
  <2>3. Within(y, o, o[k], k - 1)
    BY <1>2, <2>1 DEF Containers
  <2>4. Within(y, Front(o), Front(o)[k], k - 1)
    BY <2>2, <2>3 DEF Within
  <2> QED
    BY <1>2, <2>1, <2>2, <2>4 DEF Containers
<1> QED
  BY <1>3, <1>4, <1>5 DEF Containers, y

\* What is wanted after a token, as the actions compute it.
AfterIn(x, o) ==
  IF o = <<>> THEN "nothing"
  ELSE IF x[o[Len(o)]].value = "object" THEN "name" ELSE "value"

\* Every token keeps to the grammar.
LEMMA NameKeeps ==
  ASSUME NEW x, NEW o, Grammar(x, o, "name"), NEW n \in Names
  PROVE  Grammar(Append(x, [token |-> "name", value |-> n, path |-> o]), o, "member")
<1> DEFINE t == [token |-> "name", value |-> n, path |-> o]
           y == Append(x, t)
<1>1. /\ x \in Seq(Token) /\ Len(x) \in Nat /\ o \in Seq(Nat) /\ Len(o) \in Nat
      /\ \A k \in 1 .. Len(o) : o[k] \in 1 .. Len(x)
  BY PathIsOpen DEF Grammar
<1>2. t \in Token /\ t.path = o /\ t.value = n /\ t.token = "name"
  BY <1>1 DEF Token, Word
<1> HIDE DEF t
<1>3. /\ Len(y) = Len(x) + 1 /\ y[Len(x) + 1] = t /\ \A i \in 1 .. Len(x) : y[i] = x[i]
      /\ Paths(y) /\ Containers(y, o)
  BY <1>1, <1>2, Grown, StillOpen DEF Grammar
<1>4. o # <<>> /\ x # <<>> /\ x[1].value = "object" /\ x[o[Len(o)]].value = "object"
  BY DEF Grammar, Wanted
<1>5. o[Len(o)] \in 1 .. Len(x) /\ 1 \in 1 .. Len(x)
  BY <1>1, <1>4
<1> HIDE DEF y
<1>6. y # <<>>
  BY <1>1, <1>3
<1>7. Wanted(y, o, "member")
  BY <1>2, <1>3, <1>4, <1>5, <1>6 DEF Wanted
<1> QED
  BY <1>3, <1>7 DEF Grammar, t, y

\* A scalar.
LEMMA ScalarKeeps ==
  ASSUME NEW x, NEW o, NEW w \in {"value", "member"}, Grammar(x, o, w),
         NEW t \in Token, t.path = o
  PROVE  Grammar(Append(x, t), o, AfterIn(x, o))
<1> DEFINE y == Append(x, t)
<1>1. /\ x \in Seq(Token) /\ Len(x) \in Nat /\ o \in Seq(Nat) /\ Len(o) \in Nat
      /\ \A k \in 1 .. Len(o) : o[k] \in 1 .. Len(x)
  BY PathIsOpen DEF Grammar
<1>2. /\ Len(y) = Len(x) + 1 /\ y[Len(x) + 1] = t /\ \A i \in 1 .. Len(x) : y[i] = x[i]
      /\ Paths(y) /\ Containers(y, o)
  BY <1>1, Grown, StillOpen DEF Grammar
<1>3. o # <<>> /\ x # <<>> /\ x[1].value = "object"
  BY DEF Grammar, Wanted
<1>4. o[Len(o)] \in 1 .. Len(x) /\ 1 \in 1 .. Len(x)
      /\ x[o[Len(o)]].value \in {"object", "array"}
  BY <1>1, <1>3 DEF Grammar, Containers
<1> HIDE DEF y
<1>5. y # <<>>
  BY <1>1, <1>2
<1>6. Wanted(y, o, AfterIn(x, o))
  BY <1>2, <1>3, <1>4, <1>5 DEF Wanted, AfterIn
<1> QED
  BY <1>2, <1>6 DEF Grammar, y

\* A container.
LEMMA OpenKeeps ==
  ASSUME NEW x, NEW o, NEW w \in {"root", "value", "member"}, Grammar(x, o, w),
         NEW t \in Token, t.path = o, t.token = "open", t.value \in {"object", "array"},
         w = "root" => t.value = "object"
  PROVE  Grammar(Append(x, t), Append(o, Len(x) + 1),
                 IF t.value = "object" THEN "name" ELSE "value")
<1> DEFINE y == Append(x, t)
           p == Append(o, Len(x) + 1)
<1>1. /\ x \in Seq(Token) /\ Len(x) \in Nat /\ o \in Seq(Nat) /\ Len(o) \in Nat
      /\ \A k \in 1 .. Len(o) : o[k] \in 1 .. Len(x)
  BY PathIsOpen DEF Grammar
<1>2. o = <<>> => x = <<>>
  BY DEF Grammar, Wanted
<1>3. /\ Len(y) = Len(x) + 1 /\ y[Len(x) + 1] = t /\ \A i \in 1 .. Len(x) : y[i] = x[i]
      /\ Paths(y) /\ Containers(y, p)
  BY <1>1, <1>2, Grown, Opened DEF Grammar
<1>4. Len(p) = Len(o) + 1 /\ p[Len(o) + 1] = Len(x) + 1
  BY <1>1
<1> HIDE DEF y, p
<1>5. y # <<>> /\ p # <<>>
  BY <1>1, <1>3, <1>4
<1>6. y[1].value = "object"
  BY <1>1, <1>3 DEF Grammar, Wanted
<1>7. Wanted(y, p, IF t.value = "object" THEN "name" ELSE "value")
  BY <1>3, <1>4, <1>5, <1>6 DEF Wanted
<1> QED
  BY <1>3, <1>7 DEF Grammar, y, p

\* The end of a container.
LEMMA CloseKeeps ==
  ASSUME NEW x, NEW o, NEW w, Grammar(x, o, w), o # <<>>,
         NEW t \in Token, t.path = o, t.token = "close"
  PROVE  Grammar(Append(x, t), Front(o), AfterIn(x, Front(o)))
<1> DEFINE y == Append(x, t)
           p == Front(o)
<1>1. /\ x \in Seq(Token) /\ Len(x) \in Nat /\ o \in Seq(Nat) /\ Len(o) \in Nat /\ Len(o) > 0
      /\ \A k \in 1 .. Len(o) : o[k] \in 1 .. Len(x)
  BY PathIsOpen DEF Grammar
<1>2. /\ Len(y) = Len(x) + 1 /\ y[Len(x) + 1] = t /\ \A i \in 1 .. Len(x) : y[i] = x[i]
      /\ Paths(y) /\ Containers(y, p)
  BY <1>1, Grown, Closed DEF Grammar
<1>3. /\ p \in Seq(Nat) /\ Len(p) = Len(o) - 1
      /\ \A k \in 1 .. (Len(o) - 1) : p[k] = o[k]
  BY FrontIs, <1>1
<1> HIDE DEF y, p
<1>4. y # <<>> /\ x # <<>> /\ y[1].value = "object"
  BY <1>1, <1>2 DEF Grammar, Wanted
<1>5. p # <<>> => /\ Len(p) \in 1 .. (Len(o) - 1) /\ p[Len(p)] \in 1 .. Len(x)
                  /\ x[p[Len(p)]].value \in {"object", "array"}
                  /\ y[p[Len(p)]] = x[p[Len(p)]]
  BY SMTT(30), <1>1, <1>2, <1>3 DEF Grammar, Containers
<1>6. Wanted(y, p, AfterIn(x, p))
  BY <1>2, <1>4, <1>5 DEF Wanted, AfterIn
<1> QED
  BY <1>2, <1>6 DEF Grammar, y, p

-----------------------------------------------------------------------------
(* What a new token is.                                                    *)

\* The next token is below the payload, if it is no name.
Payload(x, o, w) ==
  \/ o # <<>> /\ Below(x, o[Len(o)])
  \/ Len(o) = 1 /\ w = "member" /\ x[Len(x)].value = "payload"

\* The outermost container is the first token.
LEMMA Outermost ==
  ASSUME NEW x, NEW o, Paths(x), Containers(x, o)
  PROVE  /\ Len(o) >= 1 <=> o # <<>>
         /\ Len(o) >= 1 => o[1] = 1 /\ x # <<>> /\ Len(x) \in 1 .. Len(x)
         /\ o = <<1>> <=> Len(o) = 1
         /\ \A e : o = <<1, e>> <=> Len(o) = 2 /\ o[2] = e
<1>1. /\ x \in Seq(Token) /\ Len(x) \in Nat /\ o \in Seq(Nat) /\ Len(o) \in Nat
      /\ \A k \in 1 .. Len(o) : o[k] \in 1 .. Len(x)
  BY PathIsOpen
<1>2. Len(o) >= 1 <=> o # <<>>
  BY <1>1
<1>3. Len(o) >= 1 => o[1] = 1
  BY <1>2 DEF Containers
<1>4. Len(o) >= 1 => Len(x) \in 1 .. Len(x) /\ x # <<>>
  <2>1. Len(o) >= 1 => o[1] \in 1 .. Len(x)
    BY <1>1
  <2> QED
    BY <1>1, <2>1
<1>5. o = <<1>> <=> Len(o) = 1
  BY <1>1, <1>3
<1>6. ASSUME NEW e PROVE o = <<1, e>> <=> Len(o) = 2 /\ o[2] = e
  <2>1. o = <<1, e>> => Len(o) = 2 /\ o[2] = e
    OBVIOUS
  <2>2. ASSUME Len(o) = 2, o[2] = e PROVE o = <<1, e>>
    <3>1. o[1] = 1 /\ e \in Nat
      BY <1>1, <1>3, <2>2
    <3> QED
      BY <1>1, <2>2, <3>1
  <2> QED
    BY <2>1, <2>2
<1> QED
  BY <1>2, <1>3, <1>4, <1>5, <1>6

\* The value of a root member follows its name.
LEMMA NewRoot ==
  ASSUME NEW x, NEW o, NEW w \in {"root", "value", "member"}, Grammar(x, o, w),
         NEW t \in Token, t.path = o, t.token \notin {"name", "close"}, NEW n
  PROVE  Root(Append(x, t), Len(x) + 1, n)
           <=> Len(o) = 1 /\ w = "member" /\ x[Len(x)].value = n
<1> DEFINE y == Append(x, t)
<1>1. /\ x \in Seq(Token) /\ Len(x) \in Nat /\ o \in Seq(Nat) /\ Len(o) \in Nat
      /\ \A k \in 1 .. Len(o) : o[k] \in 1 .. Len(x)
  BY PathIsOpen DEF Grammar
<1>2. /\ Len(y) = Len(x) + 1 /\ y[Len(x) + 1] = t /\ \A i \in 1 .. Len(x) : y[i] = x[i]
  BY <1>1, Grown DEF Grammar
<1>3. o = <<1>> <=> Len(o) = 1
  BY Outermost DEF Grammar
<1> HIDE DEF y
<1>4. Root(y, Len(x) + 1, n)
        <=> Len(x) + 1 > 1 /\ Len(o) = 1 /\ y[Len(x)].token = "name" /\ y[Len(x)].value = n
  <2>1. y[(Len(x) + 1) - 1] = y[Len(x)]
    BY <1>1
  <2> QED
    BY <1>2, <1>3, <2>1 DEF Root
<1>5. Len(o) = 1 => /\ Len(x) + 1 > 1 /\ y[Len(x)] = x[Len(x)] /\ w = "member"
                    /\ x[Len(x)].token = "name"
  <2> SUFFICES ASSUME Len(o) = 1
               PROVE  /\ Len(x) + 1 > 1 /\ y[Len(x)] = x[Len(x)] /\ w = "member"
                      /\ x[Len(x)].token = "name"
    OBVIOUS
  <2>1. Len(o) >= 1
    BY <1>1
  <2>2. o # <<>> /\ o[1] = 1 /\ x # <<>> /\ Len(x) \in 1 .. Len(x)
    BY <2>1, Outermost DEF Grammar
  <2>3. x[1].value = "object" /\ x[o[Len(o)]].value = "object"
    BY <2>2 DEF Grammar, Wanted
  <2>4. w = "member"
    BY <2>2, <2>3 DEF Grammar, Wanted
  <2>5. x[Len(x)].token = "name"
    BY <2>4 DEF Grammar, Wanted
  <2> QED
    BY <1>1, <1>2, <2>2, <2>4, <2>5
<1> QED
  BY <1>4, <1>5 DEF y

\* The containers around the next token are the innermost one and those
\* around it: one of them is the payload if the innermost lies below it.
LEMMA Around ==
  ASSUME NEW x, NEW o, Paths(x), Containers(x, o), o # <<>>
  PROVE  Below(x, o[Len(o)]) <=> \E k \in DOMAIN o : Root(x, o[k], "payload")
<1> DEFINE l == Len(o)
           q == x[o[l]].path
<1>1. /\ x \in Seq(Token) /\ Len(x) \in Nat /\ o \in Seq(Nat) /\ l \in Nat /\ l > 0
      /\ \A k \in 1 .. Len(o) : o[k] \in 1 .. Len(x)
  BY PathIsOpen
<1>2. l \in 1 .. Len(o) /\ DOMAIN o = 1 .. l
  BY <1>1
<1>3. Len(q) = l - 1 /\ \A m \in 1 .. (l - 1) : q[m] = o[m]
  BY <1>2 DEF Containers, Within
<1>4. q \in Seq(Nat)
  <2>1. x[o[l]] \in Token
    BY <1>1, <1>2
  <2> QED
    BY <2>1 DEF Token
<1>5. DOMAIN q = 1 .. (l - 1)
  BY <1>3, <1>4
<1> HIDE DEF q, l
<1>6. \A k \in 1 .. l : k = l \/ k \in 1 .. (l - 1)
  BY <1>1
<1>7. \A k \in 1 .. (l - 1) : k \in 1 .. l
  BY <1>1
<1>8. l \in 1 .. l
  BY <1>1
<1>9. {o[l]} \cup {q[k] : k \in 1 .. (l - 1)} = {o[k] : k \in 1 .. l}
  BY <1>3, <1>6, <1>7, <1>8
<1>10. Below(x, o[l]) <=> \E v \in {o[l]} \cup {q[k] : k \in 1 .. (l - 1)} : Root(x, v, "payload")
  BY <1>5 DEF Below, q
<1>11. Below(x, o[l]) <=> \E v \in {o[k] : k \in 1 .. l} : Root(x, v, "payload")
  BY <1>9, <1>10, Zenon
<1> QED
  BY <1>2, <1>11 DEF l

\* A value is below the payload if it is the payload or lies in a container
\* that is.
LEMMA NewBelow ==
  ASSUME NEW x, NEW o, NEW w \in {"root", "value", "member"}, Grammar(x, o, w),
         NEW t \in Token, t.path = o, t.token \notin {"name", "close"}
  PROVE  Below(Append(x, t), Len(x) + 1) <=> Payload(x, o, w)
<1> DEFINE y == Append(x, t)
<1>1. /\ x \in Seq(Token) /\ Len(x) \in Nat /\ o \in Seq(Nat) /\ Len(o) \in Nat
      /\ \A k \in 1 .. Len(o) : o[k] \in 1 .. Len(x)
  BY PathIsOpen DEF Grammar
<1>2. /\ y[Len(x) + 1] = t
      /\ \A i \in 1 .. Len(x) : \A n : Root(y, i, n) <=> Root(x, i, n)
  BY <1>1, Grown DEF Grammar
<1>3. Root(y, Len(x) + 1, "payload")
        <=> Len(o) = 1 /\ w = "member" /\ x[Len(x)].value = "payload"
  BY NewRoot
<1> HIDE DEF y
<1>4. Below(y, Len(x) + 1)
        <=> \/ Root(y, Len(x) + 1, "payload")
            \/ \E k \in DOMAIN o : Root(y, o[k], "payload")
  BY <1>2 DEF Below
<1>5. (\E k \in DOMAIN o : Root(y, o[k], "payload"))
        <=> \E k \in DOMAIN o : Root(x, o[k], "payload")
  BY SMTT(30), <1>1, <1>2
<1>6. o # <<>> => (Below(x, o[Len(o)]) <=> \E k \in DOMAIN o : Root(x, o[k], "payload"))
  BY Around DEF Grammar
<1>7. o = <<>> => DOMAIN o = {}
  BY <1>1
<1> QED
  BY <1>3, <1>4, <1>5, <1>6, <1>7 DEF Payload, y

\* The code of the root error that is open.
LEMMA NewCode ==
  ASSUME NEW x, NEW o, NEW w \in {"root", "value", "member"}, Grammar(x, o, w),
         NEW t \in Token, t.path = o, t.token \notin {"name", "close"}, NEW e \in 1 .. Len(x)
  PROVE  CodeOf(Append(x, t), e, Len(x) + 1)
           <=> /\ Len(o) = 2 /\ o[2] = e /\ x[e].value = "object"
               /\ w = "member" /\ x[Len(x)].value = "code"
<1> DEFINE y == Append(x, t)
<1>1. /\ x \in Seq(Token) /\ Len(x) \in Nat /\ o \in Seq(Nat) /\ Len(o) \in Nat
      /\ \A k \in 1 .. Len(o) : o[k] \in 1 .. Len(x)
  BY PathIsOpen DEF Grammar
<1>2. /\ Len(y) = Len(x) + 1 /\ y[Len(x) + 1] = t /\ \A i \in 1 .. Len(x) : y[i] = x[i]
  BY <1>1, Grown DEF Grammar
<1>3. o = <<1, e>> <=> Len(o) = 2 /\ o[2] = e
  BY Outermost DEF Grammar
<1>4. y[(Len(x) + 1) - 1] = x[Len(x)]
  <2>1. Len(x) \in 1 .. Len(x) /\ (Len(x) + 1) - 1 = Len(x)
    BY <1>1
  <2> QED
    BY <1>2, <2>1
<1> HIDE DEF y
<1>5. CodeOf(y, e, Len(x) + 1)
        <=> /\ Len(o) = 2 /\ o[2] = e /\ x[e].value = "object"
            /\ x[Len(x)].token = "name" /\ x[Len(x)].value = "code"
  BY <1>2, <1>3, <1>4 DEF CodeOf
<1>6. ASSUME Len(o) = 2, o[2] = e, x[e].value = "object"
      PROVE  w = "member"
  <2>1. o # <<>> /\ x[o[Len(o)]].value = "object"
    BY <1>6
  <2> QED
    BY <2>1 DEF Grammar, Wanted
<1>7. w = "member" => x[Len(x)].token = "name"
  BY DEF Grammar, Wanted
<1> QED
  BY <1>5, <1>6, <1>7 DEF y

\* A container that was not yet open holds nothing.
LEMMA NoCode ==
  ASSUME NEW x, Paths(x), NEW e, NEW i \in 1 .. Len(x), e >= i
  PROVE  ~CodeOf(x, e, i)
<1> SUFFICES ASSUME x[i].path = <<1, e>> PROVE FALSE
  BY DEF CodeOf
<1>1. Len(x[i].path) = 2 /\ x[i].path[2] = e
  OBVIOUS
<1>2. 2 \in 1 .. Len(x[i].path)
  BY <1>1
<1>3. x[i].path[2] \in 1 .. (i - 1)
  BY <1>2 DEF Paths
<1> QED
  BY <1>1, <1>3

-----------------------------------------------------------------------------
(* The levels of the scanners.                                             *)

\* The member name that waits for its value; names in `dropped` do not.
Pending(x, w, dropped) ==
  IF w = "member" /\ x[Len(x)].value \notin dropped THEN x[Len(x)].value ELSE None

\* What the k-th level says about the text.
LevelIs(x, o, w, k, dropped, kind, keys, payload, error, pending) ==
  /\ kind = x[o[k]].value
  /\ payload <=> Below(x, o[k])
  /\ error <=> k = 2 /\ x[o[k]].value = "object" /\ Root(x, o[k], "error")
  /\ \A n : n \in keys <=> /\ n \notin dropped
                           /\ \E i \in 1 .. Len(x) :
                                x[i].token = "name" /\ x[i].value = n /\ Within(x, o, i, k)
  /\ pending = IF k = Len(o) THEN Pending(x, w, dropped) ELSE None

\* A token other than a name of its own leaves a level that remains as it was,
\* its pending name aside.
LEMMA LevelKept ==
  ASSUME NEW x, NEW o, NEW w, Grammar(x, o, w), NEW t \in Token, t.path = o,
         NEW k \in 1 .. Len(o), t.token # "name" \/ k # Len(o),
         NEW p, \A m \in 1 .. k : p[m] = o[m], NEW v, NEW dropped,
         NEW kind, NEW keys, NEW payload, NEW error, NEW pending,
         LevelIs(x, o, w, k, dropped, kind, keys, payload, error, pending)
  PROVE  LET y == Append(x, t) IN
           LevelIs(y, p, v, k, dropped, kind, keys, payload, error,
                   IF k = Len(p) THEN Pending(y, v, dropped) ELSE None)
<1> DEFINE y == Append(x, t)
<1>1. /\ x \in Seq(Token) /\ Len(x) \in Nat /\ o \in Seq(Nat) /\ Len(o) \in Nat
      /\ \A j \in 1 .. Len(o) : o[j] \in 1 .. Len(x)
  BY PathIsOpen DEF Grammar
<1>2. /\ Len(y) = Len(x) + 1 /\ y[Len(x) + 1] = t
      /\ \A i \in 1 .. Len(x) : y[i] = x[i]
      /\ \A i \in 1 .. Len(x) : \A n : Root(y, i, n) <=> Root(x, i, n)
      /\ \A i \in 1 .. Len(x) : Below(y, i) <=> Below(x, i)
  BY <1>1, Grown DEF Grammar
<1> HIDE DEF y
<1>3. p[k] = o[k] /\ o[k] \in 1 .. Len(x) /\ y[o[k]] = x[o[k]]
  BY <1>1, <1>2
<1>4. \A i \in 1 .. Len(x) : Within(y, p, i, k) <=> Within(x, o, i, k)
  BY <1>2 DEF Within
<1>5. ASSUME NEW n
      PROVE  (\E i \in 1 .. Len(x) : x[i].token = "name" /\ x[i].value = n /\ Within(x, o, i, k))
             <=> \E i \in 1 .. Len(y) : y[i].token = "name" /\ y[i].value = n /\ Within(y, p, i, k)
  <2>1. ~(t.token = "name" /\ Within(y, p, Len(x) + 1, k))
    BY <1>2 DEF Within
  <2>2. \A i \in 1 .. Len(y) : i \in 1 .. Len(x) \/ i = Len(x) + 1
    BY <1>1, <1>2
  <2>3. \A i \in 1 .. Len(x) : i \in 1 .. Len(y)
    BY <1>1, <1>2
  <2> QED
    BY <1>2, <1>4, <2>1, <2>2, <2>3
<1> QED
  BY <1>2, <1>3, <1>5 DEF LevelIs, y

\* A name joins the innermost level and waits for its value, unless dropped.
LEMMA LevelNamed ==
  ASSUME NEW x, NEW o, Grammar(x, o, "name"), NEW n \in Names, NEW dropped,
         NEW kind, NEW keys, NEW payload, NEW error, NEW pending,
         LevelIs(x, o, "name", Len(o), dropped, kind, keys, payload, error, pending)
  PROVE  LET y == Append(x, [token |-> "name", value |-> n, path |-> o]) IN
           /\ n \notin dropped =>
                LevelIs(y, o, "member", Len(o), dropped, kind, keys \cup {n}, payload, error, n)
           /\ n \in dropped =>
                LevelIs(y, o, "member", Len(o), dropped, kind, keys, payload, error, pending)
<1> DEFINE t == [token |-> "name", value |-> n, path |-> o]
           y == Append(x, t)
           k == Len(o)
<1>1. /\ x \in Seq(Token) /\ Len(x) \in Nat /\ o \in Seq(Nat) /\ Len(o) \in Nat
      /\ \A j \in 1 .. Len(o) : o[j] \in 1 .. Len(x)
  BY PathIsOpen DEF Grammar
<1>2. t \in Token /\ t.path = o /\ t.value = n /\ t.token = "name"
  BY <1>1 DEF Token, Word
<1> HIDE DEF t
<1>3. /\ Len(y) = Len(x) + 1 /\ y[Len(x) + 1] = t
      /\ \A i \in 1 .. Len(x) : y[i] = x[i]
      /\ \A i \in 1 .. Len(x) : \A m : Root(y, i, m) <=> Root(x, i, m)
      /\ \A i \in 1 .. Len(x) : Below(y, i) <=> Below(x, i)
  BY <1>1, <1>2, Grown DEF Grammar
<1>4. o # <<>> /\ k \in 1 .. Len(o)
  BY <1>1 DEF Grammar, Wanted
<1> HIDE DEF y
<1>5. o[k] \in 1 .. Len(x) /\ y[o[k]] = x[o[k]]
  BY <1>1, <1>3, <1>4
<1>6. \A i \in 1 .. Len(x) : Within(y, o, i, k) <=> Within(x, o, i, k)
  BY <1>3 DEF Within
<1>7. Within(y, o, Len(x) + 1, k)
  BY <1>1, <1>2, <1>3 DEF Within
<1>8. ASSUME NEW m
      PROVE  (\E i \in 1 .. Len(y) : y[i].token = "name" /\ y[i].value = m /\ Within(y, o, i, k))
             <=> \/ m = n
                 \/ \E i \in 1 .. Len(x) :
                      x[i].token = "name" /\ x[i].value = m /\ Within(x, o, i, k)
  <2>1. \A i \in 1 .. Len(y) : i \in 1 .. Len(x) \/ i = Len(x) + 1
    BY <1>1, <1>3
  <2>2. Len(x) + 1 \in 1 .. Len(y) /\ \A i \in 1 .. Len(x) : i \in 1 .. Len(y)
    BY <1>1, <1>3
  <2> QED
    BY <1>2, <1>3, <1>6, <1>7, <2>1, <2>2
<1>9. y[Len(y)].value = n
  BY <1>2, <1>3
<1> QED
  BY ZenonT(30), <1>3, <1>5, <1>8, <1>9 DEF LevelIs, Pending, t, y, k

\* The level of a container that is opened.
LEMMA LevelNew ==
  ASSUME NEW x, NEW o, NEW w \in {"root", "value", "member"}, Grammar(x, o, w),
         NEW t \in Token, t.path = o, t.token = "open", NEW v, v # "member", NEW dropped,
         NEW payload, payload <=> Payload(x, o, w),
         NEW error, error <=> /\ t.value = "object" /\ Len(o) = 1
                              /\ w = "member" /\ x[Len(x)].value = "error"
  PROVE  LevelIs(Append(x, t), Append(o, Len(x) + 1), v, Len(o) + 1, dropped,
                 t.value, {}, payload, error, None)
<1> DEFINE y == Append(x, t)
           p == Append(o, Len(x) + 1)
           k == Len(o) + 1
<1>1. /\ x \in Seq(Token) /\ Len(x) \in Nat /\ o \in Seq(Nat) /\ Len(o) \in Nat
      /\ \A j \in 1 .. Len(o) : o[j] \in 1 .. Len(x)
  BY PathIsOpen DEF Grammar
<1>2. /\ Len(y) = Len(x) + 1 /\ y[Len(x) + 1] = t /\ Paths(y) /\ y \in Seq(Token)
  BY <1>1, Grown DEF Grammar
<1>3. p[k] = Len(x) + 1
  BY <1>1
<1>4. Below(y, Len(x) + 1) <=> Payload(x, o, w)
  BY NewBelow
<1>5. Root(y, Len(x) + 1, "error")
        <=> Len(o) = 1 /\ w = "member" /\ x[Len(x)].value = "error"
  BY NewRoot
<1>6. k = 2 <=> Len(o) = 1
  <2>1. \A l \in Nat : l + 1 = 2 <=> l = 1
    OBVIOUS
  <2> QED
    BY <1>1, <2>1
<1> HIDE DEF y, p
<1>7. ASSUME NEW i \in 1 .. Len(y), Within(y, p, i, k) PROVE FALSE
  <2>1. Len(y[i].path) = k /\ k \in 1 .. k
    BY <1>1, <1>7 DEF Within
  <2>2. y[i].path[k] = p[k]
    BY <1>7, <2>1 DEF Within
  <2>3. y[i].path[k] \in 1 .. (i - 1)
    BY <1>2, <2>1 DEF Paths
  <2> QED
    BY <1>1, <1>2, <1>3, <2>2, <2>3
<1> QED
  BY <1>2, <1>3, <1>4, <1>5, <1>6, <1>7 DEF LevelIs, Pending, y, p, k

-----------------------------------------------------------------------------
(* What the scanners report about a text.                                  *)

FailureRecord ==
  [kind : {"unicode", "duplicate", "number"}, index : Nat, in_payload : BOOLEAN]

\* The failure is that of the first token that offends.
FailureIs(x, f) ==
  \/ f = None /\ \A i \in 1 .. Len(x) : ~Offends(x, i)
  \/ \E i \in 1 .. Len(x) :
       /\ Offends(x, i) /\ \A j \in 1 .. Len(x) : Offends(x, j) => i <= j
       /\ f \in FailureRecord /\ f.index = i
       /\ f.kind = "number" /\ f.in_payload <=> x[i].token = "number" /\ Below(x, i)

\* The recorded value of a root member is its last one.
ValuesAre(x, values) ==
  /\ \A n \in Names \ {Ill} :
       \/ n \notin DOMAIN values /\ \A i \in 1 .. Len(x) : ~Root(x, i, n)
       \/ \E i \in 1 .. Len(x) :
            /\ Root(x, i, n) /\ \A j \in 1 .. Len(x) : Root(x, j, n) => j <= i
            /\ n \in DOMAIN values /\ values[n] = ProbedAs(x[i])

\* The recorded code is the last one of the last root error.
CodeIs(x, code) ==
  \/ code = None /\ \A e \in 1 .. Len(x) : ~Root(x, e, "error")
  \/ \E e \in 1 .. Len(x) :
       /\ Root(x, e, "error") /\ \A j \in 1 .. Len(x) : Root(x, j, "error") => j <= e
       /\ \/ code = None /\ \A i \in 1 .. Len(x) : ~CodeOf(x, e, i)
          \/ \E i \in 1 .. Len(x) :
               /\ CodeOf(x, e, i) /\ \A j \in 1 .. Len(x) : CodeOf(x, e, j) => j <= i
               /\ code = IF ProbedAs(x[i]).type = "string" THEN x[i].value ELSE None

\* A root member name is ill-formed.
RootDefect(x) ==
  \E i \in 1 .. Len(x) :
    x[i].token = "name" /\ x[i].value = Ill /\ Len(x[i].path) = 1

\* An integer below the payload does not fit; a container there is too deep.
Wide(x) == \E i \in 1 .. Len(x) :
             x[i].token = "number" /\ x[i].value = "wide" /\ Below(x, i)
Deep(x) == \E i \in 1 .. Len(x) :
             x[i].token = "open" /\ Below(x, i) /\ Len(x[i].path) >= DepthLimit

\* A failure stays, and none is found in a token that does not offend.
LEMMA FailureKept ==
  ASSUME NEW x, NEW o, Paths(x), Containers(x, o), NEW t \in Token, t.path = o, NEW f,
         FailureIs(x, f), f # None \/ ~Offends(Append(x, t), Len(x) + 1)
  PROVE  FailureIs(Append(x, t), f)
<1> DEFINE y == Append(x, t)
<1>1. Len(x) \in Nat /\ \A k \in 1 .. Len(o) : o[k] \in 1 .. Len(x)
  BY PathIsOpen
<1>2. /\ Len(y) = Len(x) + 1 /\ \A i \in 1 .. Len(x) : y[i] = x[i]
      /\ \A i \in 1 .. Len(x) : Offends(y, i) <=> Offends(x, i)
      /\ \A i \in 1 .. Len(x) : Below(y, i) <=> Below(x, i)
  BY <1>1, Grown
<1>3. f # None \/ ~Offends(y, Len(x) + 1)
  OBVIOUS
<1> HIDE DEF y
<1>4. \A i \in 1 .. Len(y) : i \in 1 .. Len(x) \/ i = Len(x) + 1
  BY <1>1, <1>2
<1>5. \A i \in 1 .. Len(x) : i \in 1 .. Len(y) /\ i <= Len(x) + 1
  BY <1>1, <1>2
<1>6. CASE f = None
  <2>1. \A i \in 1 .. Len(x) : ~Offends(x, i)
    BY <1>6, ScanConstants DEF FailureIs, FailureRecord
  <2> QED
    BY <1>2, <1>3, <1>4, <1>6, <2>1 DEF FailureIs, y
<1>7. CASE f # None
  <2>1. PICK i \in 1 .. Len(x) :
          /\ Offends(x, i) /\ \A j \in 1 .. Len(x) : Offends(x, j) => i <= j
          /\ f \in FailureRecord /\ f.index = i
          /\ f.kind = "number" /\ f.in_payload <=> x[i].token = "number" /\ Below(x, i)
    BY <1>7 DEF FailureIs
  <2>2. \A j \in 1 .. Len(y) : Offends(y, j) => i <= j
    BY <1>2, <1>4, <1>5, <2>1
  <2>3. /\ i \in 1 .. Len(y) /\ Offends(y, i)
        /\ f.kind = "number" /\ f.in_payload <=> y[i].token = "number" /\ Below(y, i)
    BY <1>2, <1>5, <2>1
  <2> QED
    BY <2>1, <2>2, <2>3 DEF FailureIs, y
<1> QED
  BY <1>6, <1>7

\* The first offending token is noted.
LEMMA FailureNoted ==
  ASSUME NEW x, NEW o, Paths(x), Containers(x, o), NEW t \in Token, t.path = o,
         FailureIs(x, None), Offends(Append(x, t), Len(x) + 1), NEW f \in FailureRecord,
         f.index = Len(x) + 1,
         f.kind = "number" /\ f.in_payload
           <=> t.token = "number" /\ Below(Append(x, t), Len(x) + 1)
  PROVE  FailureIs(Append(x, t), f)
<1> DEFINE y == Append(x, t)
<1>1. Len(x) \in Nat /\ \A k \in 1 .. Len(o) : o[k] \in 1 .. Len(x)
  BY PathIsOpen
<1>2. /\ Len(y) = Len(x) + 1 /\ y[Len(x) + 1] = t
      /\ \A i \in 1 .. Len(x) : Offends(y, i) <=> Offends(x, i)
  BY <1>1, Grown
<1>3. /\ Offends(y, Len(x) + 1)
      /\ f.kind = "number" /\ f.in_payload <=> t.token = "number" /\ Below(y, Len(x) + 1)
  OBVIOUS
<1> HIDE DEF y
<1>4. \A i \in 1 .. Len(x) : ~Offends(x, i)
  BY ScanConstants DEF FailureIs, FailureRecord
<1>5. \A j \in 1 .. Len(y) : Offends(y, j) => Len(x) + 1 <= j
  <2>1. \A i \in 1 .. Len(y) : i \in 1 .. Len(x) \/ i = Len(x) + 1
    BY <1>1, <1>2
  <2>2. Len(x) + 1 <= Len(x) + 1
    BY <1>1
  <2> QED
    BY <1>2, <1>4, <2>1, <2>2
<1>6. Len(x) + 1 \in 1 .. Len(y)
  BY <1>1, <1>2
<1> QED
  BY <1>2, <1>3, <1>5, <1>6 DEF FailureIs, y

\* A token that is no value leaves the root's members as they were.
LEMMA ValuesKept ==
  ASSUME NEW x, NEW o, Paths(x), Containers(x, o), NEW t \in Token, t.path = o, NEW values,
         ValuesAre(x, values),
         \A n \in Names \ {Ill} : ~Root(Append(x, t), Len(x) + 1, n)
  PROVE  ValuesAre(Append(x, t), values)
<1> DEFINE y == Append(x, t)
<1>1. Len(x) \in Nat /\ \A k \in 1 .. Len(o) : o[k] \in 1 .. Len(x)
  BY PathIsOpen
<1>2. /\ Len(y) = Len(x) + 1 /\ \A i \in 1 .. Len(x) : y[i] = x[i]
      /\ \A i \in 1 .. Len(x) : \A n : Root(y, i, n) <=> Root(x, i, n)
  BY <1>1, Grown
<1>3. \A n \in Names \ {Ill} : ~Root(y, Len(x) + 1, n)
  OBVIOUS
<1> HIDE DEF y
<1>4. \A i \in 1 .. Len(y) : i \in 1 .. Len(x) \/ i = Len(x) + 1
  BY <1>1, <1>2
<1>5. \A i \in 1 .. Len(x) : i \in 1 .. Len(y)
  BY <1>1, <1>2
<1>6. ASSUME NEW n \in Names \ {Ill}, n \notin DOMAIN values,
             \A i \in 1 .. Len(x) : ~Root(x, i, n)
      PROVE  \A i \in 1 .. Len(y) : ~Root(y, i, n)
  BY <1>2, <1>3, <1>4, <1>6
<1>7. ASSUME NEW n \in Names \ {Ill}, NEW i \in 1 .. Len(x), Root(x, i, n),
             \A j \in 1 .. Len(x) : Root(x, j, n) => j <= i, values[n] = ProbedAs(x[i])
      PROVE  /\ i \in 1 .. Len(y) /\ Root(y, i, n) /\ values[n] = ProbedAs(y[i])
             /\ \A j \in 1 .. Len(y) : Root(y, j, n) => j <= i
  BY <1>2, <1>3, <1>4, <1>5, <1>7
<1> QED
  BY <1>6, <1>7 DEF ValuesAre, y

\* A value replaces what was recorded for its member.
LEMMA ValuesNoted ==
  ASSUME NEW x, NEW o, Paths(x), Containers(x, o), NEW t \in Token, t.path = o, NEW values,
         ValuesAre(x, values), NEW key,
         \A n \in Names \ {Ill} : Root(Append(x, t), Len(x) + 1, n) <=> n = key
  PROVE  ValuesAre(Append(x, t), insert(values, key, ProbedAs(t)))
<1> DEFINE y == Append(x, t)
           new == insert(values, key, ProbedAs(t))
<1>1. Len(x) \in Nat /\ \A k \in 1 .. Len(o) : o[k] \in 1 .. Len(x)
  BY PathIsOpen
<1>2. /\ Len(y) = Len(x) + 1 /\ y[Len(x) + 1] = t /\ \A i \in 1 .. Len(x) : y[i] = x[i]
      /\ \A i \in 1 .. Len(x) : \A n : Root(y, i, n) <=> Root(x, i, n)
  BY <1>1, Grown
<1>3. \A n \in Names \ {Ill} : Root(y, Len(x) + 1, n) <=> n = key
  OBVIOUS
<1>4. /\ DOMAIN new = DOMAIN values \cup {key} /\ new[key] = ProbedAs(t)
      /\ \A n \in DOMAIN values : n # key => new[n] = values[n]
  BY DEF insert
<1> HIDE DEF y, new
<1>5. \A i \in 1 .. Len(y) : (i \in 1 .. Len(x) \/ i = Len(x) + 1) /\ i <= Len(x) + 1
  BY <1>1, <1>2
<1>6. Len(x) + 1 \in 1 .. Len(y) /\ \A i \in 1 .. Len(x) : i \in 1 .. Len(y)
  BY <1>1, <1>2
<1>7. ASSUME NEW n \in Names \ {Ill}, n # key, n \notin DOMAIN values,
             \A i \in 1 .. Len(x) : ~Root(x, i, n)
      PROVE  n \notin DOMAIN new /\ \A i \in 1 .. Len(y) : ~Root(y, i, n)
  BY <1>2, <1>3, <1>4, <1>5, <1>7
<1>8. ASSUME NEW n \in Names \ {Ill}, n # key, NEW i \in 1 .. Len(x), Root(x, i, n),
             \A j \in 1 .. Len(x) : Root(x, j, n) => j <= i,
             n \in DOMAIN values, values[n] = ProbedAs(x[i])
      PROVE  /\ i \in 1 .. Len(y) /\ Root(y, i, n) /\ n \in DOMAIN new /\ new[n] = ProbedAs(y[i])
             /\ \A j \in 1 .. Len(y) : Root(y, j, n) => j <= i
  BY <1>2, <1>3, <1>4, <1>5, <1>6, <1>8
<1>9. ASSUME NEW n \in Names \ {Ill}, n = key
      PROVE  /\ Root(y, Len(x) + 1, n) /\ n \in DOMAIN new /\ new[n] = ProbedAs(y[Len(x) + 1])
             /\ \A j \in 1 .. Len(y) : Root(y, j, n) => j <= Len(x) + 1
  BY <1>2, <1>3, <1>4, <1>5, <1>9
<1> QED
  BY <1>6, <1>7, <1>8, <1>9 DEF ValuesAre, y, new

\* A token that is neither a root error nor a code of one leaves the code.
LEMMA CodeKept ==
  ASSUME NEW x, NEW o, Paths(x), Containers(x, o), NEW t \in Token, t.path = o, NEW code,
         CodeIs(x, code), ~Root(Append(x, t), Len(x) + 1, "error"),
         \A e \in 1 .. Len(x) :
           Root(x, e, "error") /\ (\A j \in 1 .. Len(x) : Root(x, j, "error") => j <= e)
             => ~CodeOf(Append(x, t), e, Len(x) + 1)
  PROVE  CodeIs(Append(x, t), code)
<1> DEFINE y == Append(x, t)
<1>1. Len(x) \in Nat /\ \A k \in 1 .. Len(o) : o[k] \in 1 .. Len(x)
  BY PathIsOpen
<1>2. /\ Len(y) = Len(x) + 1 /\ \A i \in 1 .. Len(x) : y[i] = x[i]
      /\ \A i \in 1 .. Len(x) : \A n : Root(y, i, n) <=> Root(x, i, n)
      /\ \A e, i \in 1 .. Len(x) : CodeOf(y, e, i) <=> CodeOf(x, e, i)
  BY <1>1, Grown
<1>3. /\ ~Root(y, Len(x) + 1, "error")
      /\ \A e \in 1 .. Len(x) :
           Root(x, e, "error") /\ (\A j \in 1 .. Len(x) : Root(x, j, "error") => j <= e)
             => ~CodeOf(y, e, Len(x) + 1)
  OBVIOUS
<1> HIDE DEF y
<1>4. \A i \in 1 .. Len(y) : i \in 1 .. Len(x) \/ i = Len(x) + 1
  BY <1>1, <1>2
<1>5. \A i \in 1 .. Len(x) : i \in 1 .. Len(y)
  BY <1>1, <1>2
<1>6. CASE code = None /\ \A e \in 1 .. Len(x) : ~Root(x, e, "error")
  BY <1>2, <1>3, <1>4, <1>6 DEF CodeIs, y
<1>7. ASSUME NEW e \in 1 .. Len(x), Root(x, e, "error"),
             \A j \in 1 .. Len(x) : Root(x, j, "error") => j <= e,
             \/ code = None /\ \A i \in 1 .. Len(x) : ~CodeOf(x, e, i)
             \/ \E i \in 1 .. Len(x) :
                  /\ CodeOf(x, e, i) /\ \A j \in 1 .. Len(x) : CodeOf(x, e, j) => j <= i
                  /\ code = IF ProbedAs(x[i]).type = "string" THEN x[i].value ELSE None
      PROVE  CodeIs(y, code)
  <2>1. /\ e \in 1 .. Len(y) /\ Root(y, e, "error")
        /\ \A j \in 1 .. Len(y) : Root(y, j, "error") => j <= e
    BY <1>2, <1>3, <1>4, <1>5, <1>7
  <2>2. ~CodeOf(y, e, Len(x) + 1)
    BY <1>3, <1>7
  <2>3. CASE code = None /\ \A i \in 1 .. Len(x) : ~CodeOf(x, e, i)
    <3>1. \A i \in 1 .. Len(y) : ~CodeOf(y, e, i)
      BY <1>2, <1>4, <2>2, <2>3
    <3> QED
      BY <2>1, <2>3, <3>1 DEF CodeIs
  <2>4. ASSUME NEW i \in 1 .. Len(x), CodeOf(x, e, i),
               \A j \in 1 .. Len(x) : CodeOf(x, e, j) => j <= i,
               code = IF ProbedAs(x[i]).type = "string" THEN x[i].value ELSE None
        PROVE  CodeIs(y, code)
    <3>1. /\ i \in 1 .. Len(y) /\ CodeOf(y, e, i)
          /\ \A j \in 1 .. Len(y) : CodeOf(y, e, j) => j <= i
          /\ code = IF ProbedAs(y[i]).type = "string" THEN y[i].value ELSE None
      BY <1>2, <1>4, <1>5, <2>2, <2>4
    <3> QED
      BY <2>1, <3>1 DEF CodeIs
  <2> QED
    BY <1>7, <2>3, <2>4
<1> QED
  BY <1>6, <1>7 DEF CodeIs, y

\* A new root error has no code yet.
LEMMA CodeReset ==
  ASSUME NEW x, NEW o, Paths(x), Containers(x, o), NEW t \in Token, t.path = o,
         Root(Append(x, t), Len(x) + 1, "error")
  PROVE  CodeIs(Append(x, t), None)
<1> DEFINE y == Append(x, t)
           i == Len(x) + 1
<1>1. Len(x) \in Nat /\ \A k \in 1 .. Len(o) : o[k] \in 1 .. Len(x)
  BY PathIsOpen
<1>2. Len(y) = i /\ Paths(y)
  BY <1>1, Grown
<1>3. Root(y, i, "error")
  OBVIOUS
<1> HIDE DEF y
<1>4. i \in 1 .. Len(y) /\ \A j \in 1 .. Len(y) : j <= i /\ i >= j
  BY <1>1, <1>2
<1>5. \A j \in 1 .. Len(y) : ~CodeOf(y, i, j)
  BY <1>2, <1>4, NoCode
<1> HIDE DEF i
<1> QED
  BY <1>3, <1>4, <1>5 DEF CodeIs, y

\* A code of the last root error is noted.
LEMMA CodeNoted ==
  ASSUME NEW x, NEW o, Paths(x), Containers(x, o), NEW t \in Token, t.path = o,
         ~Root(Append(x, t), Len(x) + 1, "error"),
         NEW e \in 1 .. Len(x), Root(x, e, "error"),
         \A j \in 1 .. Len(x) : Root(x, j, "error") => j <= e,
         CodeOf(Append(x, t), e, Len(x) + 1)
  PROVE  CodeIs(Append(x, t), IF ProbedAs(t).type = "string" THEN t.value ELSE None)
<1> DEFINE y == Append(x, t)
           i == Len(x) + 1
<1>1. Len(x) \in Nat /\ \A k \in 1 .. Len(o) : o[k] \in 1 .. Len(x)
  BY PathIsOpen
<1>2. /\ Len(y) = i /\ y[i] = t
      /\ \A j \in 1 .. Len(x) : \A n : Root(y, j, n) <=> Root(x, j, n)
  BY <1>1, Grown
<1>3. ~Root(y, i, "error") /\ CodeOf(y, e, i)
  OBVIOUS
<1>4. i \in 1 .. i /\ (\A j \in 1 .. i : j <= i /\ (j \in 1 .. Len(x) \/ j = i))
      /\ e \in 1 .. i
  BY <1>1
<1> HIDE DEF y, i
<1>5. /\ e \in 1 .. Len(y) /\ Root(y, e, "error")
      /\ \A j \in 1 .. Len(y) : Root(y, j, "error") => j <= e
  BY <1>2, <1>3, <1>4
<1>6. /\ i \in 1 .. Len(y) /\ CodeOf(y, e, i)
      /\ \A j \in 1 .. Len(y) : CodeOf(y, e, j) => j <= i
  BY <1>2, <1>3, <1>4
<1> QED
  BY <1>2, <1>5, <1>6 DEF CodeIs, y

\* A root error that is still open is the last one.
LEMMA OpenErrorIsLast ==
  ASSUME NEW x, NEW o, Paths(x), Containers(x, o), Len(o) = 2,
         NEW j \in 1 .. Len(x), Root(x, j, "error")
  PROVE  j <= o[2]
<1>1. Len(x) \in Nat /\ \A k \in 1 .. Len(o) : o[k] \in 1 .. Len(x)
  BY PathIsOpen
<1>2. 2 \in 1 .. Len(o) /\ o[2] \in 1 .. Len(x)
  BY <1>1
<1>3. Len(x[j].path) = 1
  BY DEF Root
<1>4. j > o[2] => Len(x[j].path) >= 2
  BY <1>2 DEF Containers
<1> QED
  BY <1>1, <1>2, <1>3, <1>4

\* The pending name, of a name that is not dropped.
LEMMA PendingIs ==
  ASSUME NEW x, NEW w, NEW dropped, dropped \subseteq {Ill}, NEW n, n # Ill, n # None
  PROVE  Pending(x, w, dropped) = n <=> w = "member" /\ x[Len(x)].value = n
BY DEF Pending

\* What record_probe_value and recordValue make of a value, given the pending
\* name of the innermost level and whether that level is a root error.
LEMMA Recorded ==
  ASSUME NEW x, NEW o, NEW w \in {"root", "value", "member"}, Grammar(x, o, w),
         NEW t \in Token, t.path = o, t.token \notin {"name", "close"},
         NEW dropped, dropped \subseteq {Ill}, NEW key, key = Pending(x, w, dropped),
         NEW direct, direct <=> /\ Len(o) = 2 /\ x[o[2]].value = "object"
                                /\ Root(x, o[2], "error"),
         NEW values, ValuesAre(x, values), NEW code, CodeIs(x, code)
  PROVE  /\ ValuesAre(Append(x, t),
                      IF Len(o) = 1 /\ key # None THEN insert(values, key, ProbedAs(t))
                      ELSE values)
         /\ CodeIs(Append(x, t),
                   IF direct /\ key = "code"
                   THEN (IF ProbedAs(t).type = "string" THEN t.value ELSE None)
                   ELSE IF Len(o) = 1 /\ key = "error" THEN None
                   ELSE code)
<1> DEFINE y == Append(x, t)
<1>1. Paths(x) /\ Containers(x, o)
  BY DEF Grammar
<1>2. /\ Len(x) \in Nat /\ Len(o) \in Nat
      /\ \A k \in 1 .. Len(o) : o[k] \in 1 .. Len(x)
  BY <1>1, PathIsOpen
<1>3. \A n : Root(y, Len(x) + 1, n) <=> Len(o) = 1 /\ w = "member" /\ x[Len(x)].value = n
  BY NewRoot
<1>4. \A e \in 1 .. Len(x) :
        CodeOf(y, e, Len(x) + 1) <=> /\ Len(o) = 2 /\ o[2] = e /\ x[e].value = "object"
                                     /\ w = "member" /\ x[Len(x)].value = "code"
  BY NewCode
<1>5. \A n : n # Ill /\ n # None => (key = n <=> w = "member" /\ x[Len(x)].value = n)
  BY PendingIs
<1>6. "error" \notin {Ill, None} /\ "code" \notin {Ill, None}
      /\ \A n \in Names \ {Ill} : n # None
  BY ScanConstants
<1> HIDE DEF y
<1>7. ValuesAre(y, IF Len(o) = 1 /\ key # None THEN insert(values, key, ProbedAs(t))
                   ELSE values)
  <2>1. CASE Len(o) = 1 /\ key # None
    <3>1. \A n \in Names \ {Ill} : Root(y, Len(x) + 1, n) <=> n = key
      BY <1>3, <1>5, <1>6, <2>1
    <3>2. ValuesAre(y, insert(values, key, ProbedAs(t)))
      BY <1>1, <3>1, ValuesNoted DEF y
    <3> QED
      BY <2>1, <3>2
  <2>2. CASE ~(Len(o) = 1 /\ key # None)
    <3>1. \A n \in Names \ {Ill} : ~Root(y, Len(x) + 1, n)
      BY <1>3, <1>5, <1>6, <2>2
    <3>2. ValuesAre(y, values)
      BY <1>1, <3>1, ValuesKept DEF y
    <3> QED
      BY <2>2, <3>2
  <2> QED
    BY <2>1, <2>2
<1>8. CASE direct /\ key = "code"
  <2>0. Len(o) = 2
    BY <1>8
  <2>1. Len(o) = 2 /\ o[2] \in 1 .. Len(x)
    BY <1>2, <2>0
  <2>2. /\ Root(x, o[2], "error") /\ CodeOf(y, o[2], Len(x) + 1)
        /\ ~Root(y, Len(x) + 1, "error")
    BY <1>3, <1>4, <1>5, <1>6, <1>8, <2>1
  <2>3. \A j \in 1 .. Len(x) : Root(x, j, "error") => j <= o[2]
    BY <1>1, <2>1, OpenErrorIsLast
  <2>4. CodeIs(y, IF ProbedAs(t).type = "string" THEN t.value ELSE None)
    BY <1>1, <2>1, <2>2, <2>3, CodeNoted DEF y
  <2> QED
    BY <1>7, <1>8, <2>4 DEF y
<1>9. CASE ~(direct /\ key = "code") /\ Len(o) = 1 /\ key = "error"
  <2>1. Root(y, Len(x) + 1, "error")
    BY <1>3, <1>5, <1>6, <1>9
  <2>2. CodeIs(y, None)
    BY <1>1, <2>1, CodeReset DEF y
  <2> QED
    BY <1>7, <1>9, <2>2 DEF y
<1>10. CASE ~(direct /\ key = "code") /\ ~(Len(o) = 1 /\ key = "error")
  <2>1. ~Root(y, Len(x) + 1, "error")
    BY <1>3, <1>5, <1>6, <1>10
  <2>2. \A e \in 1 .. Len(x) : Root(x, e, "error") => ~CodeOf(y, e, Len(x) + 1)
    BY <1>4, <1>5, <1>6, <1>10
  <2>3. CodeIs(y, code)
    BY <1>1, <2>1, <2>2, CodeKept DEF y
  <2> QED
    BY <1>7, <1>10, <2>3 DEF y
<1> QED
  BY <1>8, <1>9, <1>10

\* Names and ends of containers are not recorded.
LEMMA NotRecorded ==
  ASSUME NEW x, NEW o, Paths(x), Containers(x, o), NEW t \in Token, t.path = o,
         t.token \in {"name", "close"},
         NEW values, ValuesAre(x, values), NEW code, CodeIs(x, code)
  PROVE  ValuesAre(Append(x, t), values) /\ CodeIs(Append(x, t), code)
<1> DEFINE y == Append(x, t)
<1>1. Len(x) \in Nat /\ \A k \in 1 .. Len(o) : o[k] \in 1 .. Len(x)
  BY PathIsOpen
<1>2. y[Len(x) + 1] = t
  BY <1>1, Grown
<1> HIDE DEF y
<1>3. /\ \A n : ~Root(y, Len(x) + 1, n)
      /\ \A e : ~CodeOf(y, e, Len(x) + 1)
  BY <1>2 DEF Root, CodeOf
<1>4. ValuesAre(Append(x, t), values)
  BY <1>3, ValuesKept DEF y
<1>5. CodeIs(Append(x, t), code)
  BY <1>3, CodeKept DEF y
<1> QED
  BY <1>4, <1>5

\* The marks of a longer text.
LEMMA Marked ==
  ASSUME NEW x, NEW o, Paths(x), Containers(x, o), NEW t \in Token, t.path = o
  PROVE  LET y == Append(x, t) IN
           /\ RootDefect(y) <=> RootDefect(x) \/ (t.token = "name" /\ t.value = Ill /\ Len(o) = 1)
           /\ Wide(y) <=> \/ Wide(x)
                          \/ t.token = "number" /\ t.value = "wide" /\ Below(y, Len(x) + 1)
           /\ Deep(y) <=> \/ Deep(x)
                          \/ t.token = "open" /\ Below(y, Len(x) + 1) /\ Len(o) >= DepthLimit
<1> DEFINE y == Append(x, t)
<1>1. Len(x) \in Nat /\ \A k \in 1 .. Len(o) : o[k] \in 1 .. Len(x)
  BY PathIsOpen
<1>2. /\ Len(y) = Len(x) + 1 /\ y[Len(x) + 1] = t /\ \A i \in 1 .. Len(x) : y[i] = x[i]
      /\ \A i \in 1 .. Len(x) : Below(y, i) <=> Below(x, i)
  BY <1>1, Grown
<1> HIDE DEF y
<1>3. /\ \A i \in 1 .. Len(y) : i \in 1 .. Len(x) \/ i = Len(x) + 1
      /\ Len(x) + 1 \in 1 .. Len(y) /\ \A i \in 1 .. Len(x) : i \in 1 .. Len(y)
  BY <1>1, <1>2
<1>4. RootDefect(y) <=> RootDefect(x) \/ (t.token = "name" /\ t.value = Ill /\ Len(o) = 1)
  BY <1>2, <1>3 DEF RootDefect
<1>5. Wide(y) <=> Wide(x) \/ (t.token = "number" /\ t.value = "wide" /\ Below(y, Len(x) + 1))
  BY <1>2, <1>3 DEF Wide
<1>6. Deep(y) <=> Deep(x) \/ (t.token = "open" /\ Below(y, Len(x) + 1) /\ Len(o) >= DepthLimit)
  BY <1>2, <1>3 DEF Deep
<1> QED
  BY <1>4, <1>5, <1>6 DEF y

\* When a new token offends.
LEMMA NewOffends ==
  ASSUME NEW x, NEW o, Paths(x), Containers(x, o), NEW t \in Token, t.path = o
  PROVE  Offends(Append(x, t), Len(x) + 1)
           <=> \/ t.value = Ill
               \/ t.token = "number" /\ t.value = "noncanonical"
               \/ t.token = "name" /\
                    \E j \in 1 .. Len(x) : /\ x[j].token = "name" /\ x[j].value = t.value
                                           /\ Within(x, o, j, Len(o))
<1> DEFINE y == Append(x, t)
<1>1. /\ x \in Seq(Token) /\ Len(x) \in Nat /\ o \in Seq(Nat) /\ Len(o) \in Nat
      /\ \A k \in 1 .. Len(o) : o[k] \in 1 .. Len(x)
  BY PathIsOpen
<1>2. /\ y[Len(x) + 1] = t /\ \A i \in 1 .. Len(x) : y[i] = x[i]
  BY <1>1, Grown
<1> HIDE DEF y
<1>3. (Len(x) + 1) - 1 = Len(x)
  BY <1>1
<1>4. ASSUME NEW j \in 1 .. Len(x)
      PROVE  x[j].path = o <=> Within(x, o, j, Len(o))
  <2>1. x[j].path \in Seq(Nat)
    <3>1. x[j] \in Token
      BY <1>1
    <3> QED
      BY <3>1 DEF Token
  <2>2. Len(x[j].path) = Len(o) /\ (\A m \in 1 .. Len(o) : x[j].path[m] = o[m]) => x[j].path = o
    BY <1>1, <2>1, SeqEqual
  <2> QED
    BY <2>2 DEF Within
<1>5. Offends(y, Len(x) + 1)
        <=> \/ t.value = Ill
            \/ t.token = "number" /\ t.value = "noncanonical"
            \/ t.token = "name" /\
                 \E j \in 1 .. Len(x) :
                   x[j].token = "name" /\ x[j].path = o /\ x[j].value = t.value
  BY <1>2, <1>3 DEF Offends
<1> QED
  BY <1>4, <1>5 DEF y

-----------------------------------------------------------------------------
(* The scanner of the crate.                                               *)

RsShape(z) ==
  z = [levels |-> z.levels, values |-> z.values, error_code |-> z.error_code,
       failure |-> z.failure, safe |-> z.safe, wide |-> z.wide, deep |-> z.deep]

RsLevel ==
  [kind : {"object", "array"}, keys : SUBSET Names, in_payload : BOOLEAN,
   direct_error : BOOLEAN, pending_key : Names \cup {None}]

\* Its levels, one per open container; an ill-formed name is dropped.
RsOuter(x, o, w, n, levels) ==
  /\ levels \in Seq(RsLevel) /\ Len(levels) = n
  /\ \A k \in 1 .. n :
       LevelIs(x, o, w, k, {Ill}, levels[k].kind, levels[k].keys, levels[k].in_payload,
               levels[k].direct_error, levels[k].pending_key)

RsLevels(x, o, w, levels) == RsOuter(x, o, w, Len(o), levels)

RsMarks(x, z) ==
  /\ z.safe \in BOOLEAN /\ z.wide \in BOOLEAN /\ z.deep \in BOOLEAN
  /\ z.safe <=> ~RootDefect(x)
  /\ z.wide <=> Wide(x)
  /\ z.deep <=> Deep(x)

RsInv(x, o, w, z) ==
  /\ RsShape(z)
  /\ RsLevels(x, o, w, z.levels)
  /\ FailureIs(x, z.failure)
  /\ ValuesAre(x, z.values) /\ CodeIs(x, z.error_code)
  /\ RsMarks(x, z)

\* The first failure is kept.
LEMMA RsFailure ==
  ASSUME NEW z, RsShape(z), NEW kind, NEW index, NEW in_payload
  PROVE  LET r == record_failure(z, kind, index, in_payload) IN
           /\ RsShape(r) /\ r.levels = z.levels /\ r.values = z.values
           /\ r.error_code = z.error_code
           /\ r.safe = z.safe /\ r.wide = z.wide /\ r.deep = z.deep
           /\ r.failure = IF z.failure = None \/ index < z.failure.index
                          THEN [kind |-> kind, index |-> index, in_payload |-> in_payload]
                          ELSE z.failure
BY DEF record_failure, RsShape

\* What rs_value changes.
LEMMA RsValue ==
  ASSUME NEW z, RsShape(z), NEW value
  PROVE  LET r == rs_value(z, value)
             top == z.levels[Len(z.levels)]
             key == top.pending_key
             pending == z.levels # <<>> /\ key # None
         IN /\ RsShape(r) /\ r.failure = z.failure
            /\ r.safe = z.safe /\ r.wide = z.wide /\ r.deep = z.deep
            /\ r.levels = consume_pending_key(z.levels)
            /\ r.values = IF pending /\ Len(z.levels) = 1 THEN insert(z.values, key, value)
                          ELSE z.values
            /\ r.error_code = IF pending /\ top.direct_error /\ key = "code"
                              THEN (IF value.type = "string" THEN value.value ELSE None)
                              ELSE IF pending /\ Len(z.levels) = 1 /\ key = "error" THEN None
                              ELSE z.error_code
<1> DEFINE r == record_probe_value(z, value)
           top == z.levels[Len(z.levels)]
           key == top.pending_key
           pending == z.levels # <<>> /\ key # None
<1>1. /\ RsShape(r) /\ r.failure = z.failure /\ r.levels = z.levels
      /\ r.safe = z.safe /\ r.wide = z.wide /\ r.deep = z.deep
      /\ r.values = (IF pending /\ Len(z.levels) = 1 THEN insert(z.values, key, value)
                     ELSE z.values)
      /\ r.error_code = (IF pending /\ top.direct_error /\ key = "code"
                         THEN (IF value.type = "string" THEN value.value ELSE None)
                         ELSE IF pending /\ Len(z.levels) = 1 /\ key = "error" THEN None
                         ELSE z.error_code)
  BY DEF record_probe_value, RsShape, Last
<1> HIDE DEF r
<1>2. rs_value(z, value) = [r EXCEPT !.levels = consume_pending_key(r.levels)]
  BY DEF rs_value, r
<1> QED
  BY <1>1, <1>2 DEF RsShape

\* The name of the innermost level is consumed.
LEMMA RsConsume ==
  ASSUME NEW levels \in Seq(RsLevel)
  PROVE  LET after == consume_pending_key(levels) IN
           /\ after \in Seq(RsLevel) /\ Len(after) = Len(levels)
           /\ \A k \in 1 .. Len(levels) :
                /\ after[k].kind = levels[k].kind /\ after[k].keys = levels[k].keys
                /\ after[k].in_payload = levels[k].in_payload
                /\ after[k].direct_error = levels[k].direct_error
                /\ after[k].pending_key = IF k = Len(levels) THEN None
                                          ELSE levels[k].pending_key
<1>1. CASE levels = <<>>
  BY <1>1 DEF consume_pending_key
<1>2. CASE levels # <<>>
  <2> DEFINE top == levels[Len(levels)]
             new == [top EXCEPT !.pending_key = None]
  <2>1. top \in RsLevel /\ Len(levels) \in 1 .. Len(levels)
    BY <1>2
  <2> HIDE DEF top
  <2>2. /\ new \in RsLevel /\ new.kind = top.kind /\ new.keys = top.keys
        /\ new.in_payload = top.in_payload /\ new.direct_error = top.direct_error
        /\ new.pending_key = None
    BY <2>1 DEF RsLevel
  <2> HIDE DEF new
  <2>3. consume_pending_key(levels) = [levels EXCEPT ![Len(levels)] = new]
    BY <1>2 DEF consume_pending_key, new, top
  <2>4. /\ [levels EXCEPT ![Len(levels)] = new] \in Seq(RsLevel)
        /\ Len([levels EXCEPT ![Len(levels)] = new]) = Len(levels)
        /\ [levels EXCEPT ![Len(levels)] = new][Len(levels)] = new
        /\ \A k \in 1 .. Len(levels) :
             k # Len(levels) => [levels EXCEPT ![Len(levels)] = new][k] = levels[k]
    BY <1>2, <2>2, ExceptLast
  <2> QED
    BY <2>2, <2>3, <2>4 DEF top
<1> QED
  BY <1>1, <1>2

\* A value as the actions read it.
ValueToken ==
  {t \in Token : /\ t.token \in {"string", "number", "literal", "open"}
                 /\ t.token = "open" => t.value \in {"object", "array"}}

\* A string is probed as its value.
LEMMA ProbedString ==
  ASSUME NEW t \in ValueToken, ProbedAs(t).type = "string"
  PROVE  ProbedAs(t).value = t.value
<1>1. CASE t.value = Ill
  BY <1>1 DEF ProbedAs
<1>2. CASE t.value # Ill /\ t.token = "string"
  BY <1>2 DEF ProbedAs
<1>3. CASE t.value # Ill /\ t.token = "number"
  BY <1>3 DEF ProbedAs
<1>4. CASE t.value # Ill /\ t.token = "literal"
  BY <1>4 DEF ProbedAs
<1>5. CASE t.value # Ill /\ t.token = "open"
  BY <1>5 DEF ProbedAs, ValueToken
<1> QED
  BY <1>1, <1>2, <1>3, <1>4, <1>5 DEF ValueToken

\* rs_value records a value and consumes its name; p are the containers that
\* are open afterwards and v is what is wanted then.
LEMMA RsRecords ==
  ASSUME NEW x, NEW o, NEW w \in {"root", "value", "member"}, Grammar(x, o, w),
         NEW t \in ValueToken, t.path = o,
         NEW z, RsShape(z), RsLevels(x, o, w, z.levels), ValuesAre(x, z.values),
         CodeIs(x, z.error_code),
         NEW p, \A m \in 1 .. Len(o) : p[m] = o[m], NEW v, v # "member"
  PROVE  LET y == Append(x, t)
             r == rs_value(z, ProbedAs(t))
         IN /\ ValuesAre(y, r.values) /\ CodeIs(y, r.error_code)
            /\ RsOuter(y, p, v, Len(o), r.levels)
<1> DEFINE y == Append(x, t)
           r == rs_value(z, ProbedAs(t))
           top == z.levels[Len(z.levels)]
           direct == Len(o) = 2 /\ x[o[2]].value = "object" /\ Root(x, o[2], "error")
           name == Pending(x, w, {Ill})
<1>0. t \in Token /\ t.token \notin {"name", "close"}
  BY DEF ValueToken
<1>1. Len(o) \in Nat /\ o \in Seq(Nat) /\ Len(z.levels) = Len(o) /\ z.levels \in Seq(RsLevel)
  BY PathIsOpen DEF Grammar, RsLevels, RsOuter
<1>2. o = <<>> => z.levels = <<>> /\ name = None /\ ~direct /\ Len(o) # 1
  <2>1. o = <<>> => Len(o) = 0 /\ w = "root"
    BY DEF Grammar, Wanted
  <2> QED
    BY <1>1, <2>1 DEF Pending
<1>3. o # <<>> => z.levels # <<>> /\ Len(o) \in 1 .. Len(o)
  BY <1>1
<1>4. o # <<>> => top.pending_key = name /\ (top.direct_error <=> direct)
  <2> SUFFICES ASSUME o # <<>> PROVE top.pending_key = name /\ (top.direct_error <=> direct)
    OBVIOUS
  <2>1. LevelIs(x, o, w, Len(o), {Ill}, top.kind, top.keys, top.in_payload,
                top.direct_error, top.pending_key)
    BY <1>1, <1>3 DEF RsLevels, RsOuter
  <2> QED
    BY <2>1 DEF LevelIs
<1>5. /\ r.levels = consume_pending_key(z.levels)
      /\ r.values = (IF z.levels # <<>> /\ top.pending_key # None /\ Len(z.levels) = 1
                     THEN insert(z.values, top.pending_key, ProbedAs(t)) ELSE z.values)
      /\ r.error_code =
           (IF z.levels # <<>> /\ top.pending_key # None /\ top.direct_error
                 /\ top.pending_key = "code"
            THEN (IF ProbedAs(t).type = "string" THEN ProbedAs(t).value ELSE None)
            ELSE IF z.levels # <<>> /\ top.pending_key # None /\ Len(z.levels) = 1
                      /\ top.pending_key = "error" THEN None
            ELSE z.error_code)
  BY RsValue
<1>6. "code" # None /\ "error" # None
  BY ScanConstants
<1> HIDE DEF top, direct, name, r
<1>7. r.values = IF Len(o) = 1 /\ name # None THEN insert(z.values, name, ProbedAs(t))
                 ELSE z.values
  BY <1>1, <1>2, <1>3, <1>4, <1>5
<1>8. r.error_code = IF direct /\ name = "code"
                     THEN (IF ProbedAs(t).type = "string" THEN t.value ELSE None)
                     ELSE IF Len(o) = 1 /\ name = "error" THEN None
                     ELSE z.error_code
  BY <1>1, <1>2, <1>3, <1>4, <1>5, <1>6, ProbedString
<1>9. ValuesAre(y, r.values) /\ CodeIs(y, r.error_code)
  <2>1. {Ill} \subseteq {Ill}
    OBVIOUS
  <2>2. direct <=> Len(o) = 2 /\ x[o[2]].value = "object" /\ Root(x, o[2], "error")
    BY DEF direct
  <2>3. name = Pending(x, w, {Ill})
    BY DEF name
  <2>4. /\ ValuesAre(y, IF Len(o) = 1 /\ name # None
                        THEN insert(z.values, name, ProbedAs(t)) ELSE z.values)
        /\ CodeIs(y, IF direct /\ name = "code"
                     THEN (IF ProbedAs(t).type = "string" THEN t.value ELSE None)
                     ELSE IF Len(o) = 1 /\ name = "error" THEN None
                     ELSE z.error_code)
    BY <1>0, <2>1, <2>2, <2>3, Recorded
  <2> QED
    BY <1>7, <1>8, <2>4
<1>10. /\ r.levels \in Seq(RsLevel) /\ Len(r.levels) = Len(o)
       /\ \A k \in 1 .. Len(o) :
            /\ r.levels[k].kind = z.levels[k].kind /\ r.levels[k].keys = z.levels[k].keys
            /\ r.levels[k].in_payload = z.levels[k].in_payload
            /\ r.levels[k].direct_error = z.levels[k].direct_error
            /\ r.levels[k].pending_key = IF k = Len(o) THEN None ELSE z.levels[k].pending_key
  BY <1>1, <1>5, RsConsume
<1>11. ASSUME NEW k \in 1 .. Len(o)
       PROVE  LevelIs(y, p, v, k, {Ill}, r.levels[k].kind, r.levels[k].keys,
                      r.levels[k].in_payload, r.levels[k].direct_error,
                      r.levels[k].pending_key)
  <2>1. LevelIs(x, o, w, k, {Ill}, z.levels[k].kind, z.levels[k].keys,
                z.levels[k].in_payload, z.levels[k].direct_error, z.levels[k].pending_key)
    BY DEF RsLevels, RsOuter
  <2>2. \A m \in 1 .. k : p[m] = o[m]
    BY <1>1
  <2>3. LevelIs(y, p, v, k, {Ill}, z.levels[k].kind, z.levels[k].keys,
                z.levels[k].in_payload, z.levels[k].direct_error,
                IF k = Len(p) THEN Pending(y, v, {Ill}) ELSE None)
    BY <1>0, <2>1, <2>2, LevelKept
  <2>4. r.levels[k].pending_key = None /\ Pending(y, v, {Ill}) = None
    BY <1>10, <2>1 DEF LevelIs, Pending
  <2> QED
    BY <1>10, <2>3, <2>4
<1> QED
  BY <1>9, <1>10, <1>11 DEF RsOuter, r, y

\* The innermost level knows whether the next value is below the payload.
LEMMA RsPayload ==
  ASSUME NEW x, NEW o, NEW w, Grammar(x, o, w), NEW levels, RsLevels(x, o, w, levels)
  PROVE  /\ value_is_payload(levels) \in BOOLEAN
         /\ value_is_payload(levels) <=> Payload(x, o, w)
<1> DEFINE top == levels[Len(levels)]
<1>1. Len(o) \in Nat /\ o \in Seq(Nat) /\ Len(levels) = Len(o) /\ levels \in Seq(RsLevel)
  BY PathIsOpen DEF Grammar, RsLevels, RsOuter
<1>2. value_is_payload(levels)
        <=> levels # <<>> /\ (top.in_payload \/ (Len(o) = 1 /\ top.pending_key = "payload"))
  BY <1>1 DEF value_is_payload, Last
<1>3. o = <<>> <=> levels = <<>>
  BY <1>1
<1>4. ASSUME o # <<>>
      PROVE  /\ top.in_payload <=> Below(x, o[Len(o)])
             /\ top.pending_key = "payload" <=> w = "member" /\ x[Len(x)].value = "payload"
  <2>1. Len(o) \in 1 .. Len(o)
    BY <1>1, <1>4
  <2>2. LevelIs(x, o, w, Len(o), {Ill}, top.kind, top.keys, top.in_payload,
                top.direct_error, top.pending_key)
    BY <1>1, <2>1 DEF RsLevels, RsOuter
  <2>3. top.pending_key = Pending(x, w, {Ill}) /\ (top.in_payload <=> Below(x, o[Len(o)]))
    BY <2>2 DEF LevelIs
  <2>4. "payload" # Ill /\ "payload" # None /\ {Ill} \subseteq {Ill}
    BY ScanConstants
  <2>5. Pending(x, w, {Ill}) = "payload" <=> w = "member" /\ x[Len(x)].value = "payload"
    BY <2>4, PendingIs
  <2> QED
    BY <2>3, <2>5
<1>5. Len(o) = 1 => o # <<>>
  OBVIOUS
<1>6. value_is_payload(levels) \in BOOLEAN
  BY DEF value_is_payload
<1> HIDE DEF top
<1> QED
  BY <1>2, <1>3, <1>4, <1>5, <1>6 DEF Payload

\* record_failure and fail, on a new token that offends.
LEMMA FailureStep ==
  ASSUME NEW x, NEW o, Paths(x), Containers(x, o), NEW t \in Token, t.path = o,
         NEW f, FailureIs(x, f), Offends(Append(x, t), Len(x) + 1),
         NEW kind \in {"unicode", "duplicate", "number"}, NEW in_payload \in BOOLEAN,
         kind = "number" /\ in_payload
           <=> t.token = "number" /\ Below(Append(x, t), Len(x) + 1)
  PROVE  LET new == [kind |-> kind, index |-> Len(x) + 1, in_payload |-> in_payload] IN
           /\ FailureIs(Append(x, t), IF f = None \/ Len(x) + 1 < f.index THEN new ELSE f)
           /\ FailureIs(Append(x, t), IF f # None /\ f.index <= Len(x) + 1 THEN f ELSE new)
<1> DEFINE new == [kind |-> kind, index |-> Len(x) + 1, in_payload |-> in_payload]
<1>1. Len(x) \in Nat
  BY PathIsOpen
<1>2. CASE f = None
  <2>1. new \in FailureRecord
    BY <1>1 DEF FailureRecord
  <2>2. new.index = Len(x) + 1 /\ new.kind = kind /\ new.in_payload = in_payload
    OBVIOUS
  <2> HIDE DEF new
  <2>3. FailureIs(Append(x, t), new)
    BY <1>2, <2>1, <2>2, FailureNoted
  <2> QED
    BY <1>2, <2>3 DEF new
<1>3. CASE f # None
  <2>1. f.index \in 1 .. Len(x)
    BY <1>3 DEF FailureIs
  <2>2. f.index <= Len(x) + 1 /\ ~(Len(x) + 1 < f.index)
    BY <1>1, <2>1
  <2>3. FailureIs(Append(x, t), f)
    BY <1>3, FailureKept
  <2> QED
    BY <1>3, <2>2, <2>3
<1> QED
  BY <1>2, <1>3

\* What the tokens do to the crate's scan.  A string.
LEMMA RsString ==
  ASSUME NEW x, NEW o, NEW w \in {"value", "member"}, Grammar(x, o, w), NEW z,
         RsInv(x, o, w, z), NEW s \in Strings, NEW v, v # "member"
  PROVE  RsInv(Append(x, [token |-> "string", value |-> s, path |-> o]), o, v,
               rs_string(z, s, Len(x) + 1))
<1> DEFINE t == [token |-> "string", value |-> s, path |-> o]
           y == Append(x, t)
           in_payload == value_is_payload(z.levels)
           f == IF s = Ill THEN record_failure(z, "unicode", Len(x) + 1, in_payload) ELSE z
           r == rs_value(f, ProbedAs(t))
<1>1. o \in Seq(Nat) /\ Paths(x) /\ Containers(x, o) /\ Len(x) \in Nat
  BY PathIsOpen DEF Grammar
<1>2. t \in ValueToken /\ t \in Token /\ t.path = o /\ t.token = "string" /\ t.value = s
  BY <1>1 DEF ValueToken, Token, Word
<1>3. ProbedAs(t) = IF s = Ill THEN [type |-> "invalid"] ELSE [type |-> "string", value |-> s]
  BY <1>2 DEF ProbedAs
<1> HIDE DEF t
<1>4. rs_string(z, s, Len(x) + 1) = r
  BY <1>3 DEF rs_string
<1>5. /\ RsShape(z) /\ RsLevels(x, o, w, z.levels) /\ FailureIs(x, z.failure)
      /\ ValuesAre(x, z.values) /\ CodeIs(x, z.error_code) /\ RsMarks(x, z)
  BY DEF RsInv
<1>6. Offends(y, Len(x) + 1) <=> s = Ill
  BY <1>1, <1>2, NewOffends
<1>7. in_payload \in BOOLEAN
  BY <1>5, RsPayload
<1> HIDE DEF in_payload
<1>8. /\ RsShape(f) /\ f.levels = z.levels /\ f.values = z.values
      /\ f.error_code = z.error_code
      /\ f.safe = z.safe /\ f.wide = z.wide /\ f.deep = z.deep
      /\ f.failure = IF s = Ill /\ (z.failure = None \/ Len(x) + 1 < z.failure.index)
                     THEN [kind |-> "unicode", index |-> Len(x) + 1, in_payload |-> in_payload]
                     ELSE z.failure
  BY <1>5, RsFailure
<1> HIDE DEF f
<1>9. FailureIs(y, f.failure)
  <2>1. CASE s = Ill
    <3>1. FailureIs(y, IF z.failure = None \/ Len(x) + 1 < z.failure.index
                       THEN [kind |-> "unicode", index |-> Len(x) + 1,
                             in_payload |-> in_payload]
                       ELSE z.failure)
      BY <1>1, <1>2, <1>5, <1>6, <1>7, <2>1, FailureStep
    <3> QED
      BY <1>8, <2>1, <3>1
  <2>2. CASE s # Ill
    BY <1>1, <1>2, <1>5, <1>6, <1>8, <2>2, FailureKept
  <2> QED
    BY <2>1, <2>2
<1>10. /\ RsShape(r) /\ r.failure = f.failure
       /\ r.safe = z.safe /\ r.wide = z.wide /\ r.deep = z.deep
  BY <1>8, RsValue
<1>11. /\ ValuesAre(y, r.values) /\ CodeIs(y, r.error_code) /\ RsLevels(y, o, v, r.levels)
  <2>1. /\ RsLevels(x, o, w, f.levels) /\ ValuesAre(x, f.values) /\ CodeIs(x, f.error_code)
        /\ \A m \in 1 .. Len(o) : o[m] = o[m]
    BY <1>5, <1>8
  <2> QED
    BY <1>2, <1>8, <2>1, RsRecords DEF RsLevels
<1>12. RsMarks(y, r)
  BY <1>1, <1>2, <1>5, <1>10, Marked DEF RsMarks
<1> HIDE DEF r
<1> QED
  BY <1>4, <1>9, <1>10, <1>11, <1>12 DEF RsInv, t

\* A number.
LEMMA RsNumber ==
  ASSUME NEW x, NEW o, NEW w \in {"value", "member"}, Grammar(x, o, w), NEW z,
         RsInv(x, o, w, z), NEW n \in Numbers, NEW v, v # "member"
  PROVE  RsInv(Append(x, [token |-> "number", value |-> n, path |-> o]), o, v,
               rs_number(z, n # "noncanonical", n = "fits", Len(x) + 1))
<1> DEFINE t == [token |-> "number", value |-> n, path |-> o]
           y == Append(x, t)
           in_payload == value_is_payload(z.levels)
           read == rs_value(z, ProbedAs(t))
           r == IF n = "noncanonical"
                THEN record_failure(read, "number", Len(x) + 1, in_payload)
                ELSE [read EXCEPT !.wide = read.wide \/ (in_payload /\ n # "fits")]
<1>1. o \in Seq(Nat) /\ Paths(x) /\ Containers(x, o) /\ Len(x) \in Nat
  BY PathIsOpen DEF Grammar
<1>2. /\ t \in ValueToken /\ t \in Token /\ t.path = o /\ t.token = "number" /\ t.value = n
      /\ n # Ill /\ n \in {"fits", "wide", "noncanonical"}
  BY <1>1, ScanConstants DEF ValueToken, Token, Word, Numbers
<1>3. ProbedAs(t) = [type |-> "number"]
  BY <1>2 DEF ProbedAs
<1> HIDE DEF t
<1>4. rs_number(z, n # "noncanonical", n = "fits", Len(x) + 1) = r
  BY <1>3 DEF rs_number
<1>5. /\ RsShape(z) /\ RsLevels(x, o, w, z.levels) /\ FailureIs(x, z.failure)
      /\ ValuesAre(x, z.values) /\ CodeIs(x, z.error_code) /\ RsMarks(x, z)
  BY DEF RsInv
<1>6. Offends(y, Len(x) + 1) <=> n = "noncanonical"
  BY <1>1, <1>2, NewOffends
<1>7. in_payload \in BOOLEAN /\ (in_payload <=> Below(y, Len(x) + 1))
  BY <1>2, <1>5, RsPayload, NewBelow DEF ValueToken
<1>8. /\ RsShape(read) /\ read.failure = z.failure
      /\ read.safe = z.safe /\ read.wide = z.wide /\ read.deep = z.deep
  BY <1>5, RsValue
<1>9. /\ ValuesAre(y, read.values) /\ CodeIs(y, read.error_code) /\ RsLevels(y, o, v, read.levels)
  <2>1. \A m \in 1 .. Len(o) : o[m] = o[m]
    OBVIOUS
  <2> QED
    BY <1>2, <1>5, <2>1, RsRecords DEF RsLevels
<1> HIDE DEF in_payload, read
<1>10. CASE n = "noncanonical"
  <2>1. r = record_failure(read, "number", Len(x) + 1, in_payload)
    BY <1>10
  <2> HIDE DEF r
  <2>2. /\ RsShape(r) /\ r.levels = read.levels /\ r.values = read.values
        /\ r.error_code = read.error_code
        /\ r.safe = z.safe /\ r.wide = z.wide /\ r.deep = z.deep
        /\ r.failure = IF z.failure = None \/ Len(x) + 1 < z.failure.index
                       THEN [kind |-> "number", index |-> Len(x) + 1, in_payload |-> in_payload]
                       ELSE z.failure
    BY <1>8, <2>1, RsFailure
  <2>3. FailureIs(y, r.failure)
    BY <1>1, <1>2, <1>5, <1>6, <1>7, <1>10, <2>2, FailureStep
  <2>4. RsMarks(y, r)
    BY <1>1, <1>2, <1>5, <1>10, <2>2, Marked DEF RsMarks
  <2> HIDE DEF y
  <2> QED
    BY <1>4, <1>9, <2>2, <2>3, <2>4 DEF RsInv, t, y
<1>11. CASE n # "noncanonical"
  <2>1. r = [read EXCEPT !.wide = read.wide \/ (in_payload /\ n # "fits")]
    BY <1>11
  <2> HIDE DEF r
  <2>2. /\ RsShape(r) /\ r.levels = read.levels /\ r.values = read.values
        /\ r.error_code = read.error_code /\ r.failure = z.failure
        /\ r.safe = z.safe /\ r.deep = z.deep
        /\ r.wide = (z.wide \/ (in_payload /\ n # "fits"))
    BY <1>8, <2>1 DEF RsShape
  <2>3. FailureIs(y, r.failure)
    BY <1>1, <1>2, <1>5, <1>6, <1>11, <2>2, FailureKept
  <2>4. RsMarks(y, r)
    BY <1>1, <1>2, <1>5, <1>7, <1>11, <2>2, Marked DEF RsMarks
  <2> HIDE DEF y
  <2> QED
    BY <1>4, <1>9, <2>2, <2>3, <2>4 DEF RsInv, t, y
<1> QED
  BY <1>10, <1>11

\* A literal.
LEMMA RsLiteral ==
  ASSUME NEW x, NEW o, NEW w \in {"value", "member"}, Grammar(x, o, w), NEW z,
         RsInv(x, o, w, z), NEW v, v # "member"
  PROVE  RsInv(Append(x, [token |-> "literal", value |-> "null", path |-> o]), o, v,
               rs_literal(z))
<1> DEFINE t == [token |-> "literal", value |-> "null", path |-> o]
           y == Append(x, t)
           r == rs_value(z, ProbedAs(t))
<1>1. o \in Seq(Nat) /\ Paths(x) /\ Containers(x, o) /\ Len(x) \in Nat
  BY PathIsOpen DEF Grammar
<1>2. /\ t \in ValueToken /\ t \in Token /\ t.path = o /\ t.token = "literal"
      /\ t.value = "null" /\ t.value # Ill
  BY <1>1, ScanConstants DEF ValueToken, Token, Word
<1>3. ProbedAs(t) = [type |-> "null"]
  BY <1>2 DEF ProbedAs
<1> HIDE DEF t
<1>4. rs_literal(z) = r
  BY <1>3 DEF rs_literal
<1>5. /\ RsShape(z) /\ RsLevels(x, o, w, z.levels) /\ FailureIs(x, z.failure)
      /\ ValuesAre(x, z.values) /\ CodeIs(x, z.error_code) /\ RsMarks(x, z)
  BY DEF RsInv
<1>6. ~Offends(y, Len(x) + 1)
  BY <1>1, <1>2, NewOffends
<1>7. /\ RsShape(r) /\ r.failure = z.failure
      /\ r.safe = z.safe /\ r.wide = z.wide /\ r.deep = z.deep
  BY <1>5, RsValue
<1>8. /\ ValuesAre(y, r.values) /\ CodeIs(y, r.error_code) /\ RsLevels(y, o, v, r.levels)
  <2>1. \A m \in 1 .. Len(o) : o[m] = o[m]
    OBVIOUS
  <2> QED
    BY <1>2, <1>5, <2>1, RsRecords DEF RsLevels
<1> HIDE DEF r
<1>9. FailureIs(y, r.failure)
  BY <1>1, <1>2, <1>5, <1>6, <1>7, FailureKept
<1>10. RsMarks(y, r)
  BY <1>1, <1>2, <1>5, <1>7, Marked DEF RsMarks
<1> HIDE DEF y
<1> QED
  BY <1>4, <1>7, <1>8, <1>9, <1>10 DEF RsInv, t, y

\* The start of a container.
LEMMA RsOpen ==
  ASSUME NEW x, NEW o, NEW w \in {"root", "value", "member"}, Grammar(x, o, w), NEW z,
         RsInv(x, o, w, z), NEW kind \in {"object", "array"}, NEW v, v # "member"
  PROVE  RsInv(Append(x, [token |-> "open", value |-> kind, path |-> o]),
               Append(o, Len(x) + 1), v, rs_open(z, kind))
<1> DEFINE t == [token |-> "open", value |-> kind, path |-> o]
           y == Append(x, t)
           p == Append(o, Len(x) + 1)
           in_payload == value_is_payload(z.levels)
           direct == /\ kind = "object" /\ Len(z.levels) = 1
                     /\ Last(z.levels).pending_key = "error"
           level == [kind |-> kind, keys |-> {}, in_payload |-> in_payload,
                     direct_error |-> direct, pending_key |-> None]
           read == rs_value(z, ProbedAs(t))
           r == [read EXCEPT !.deep = read.deep \/ (in_payload /\ Len(z.levels) >= DepthLimit),
                             !.levels = Append(read.levels, level)]
<1>1. /\ o \in Seq(Nat) /\ Paths(x) /\ Containers(x, o) /\ Len(x) \in Nat /\ Len(o) \in Nat
  BY PathIsOpen DEF Grammar
<1>2. /\ t \in ValueToken /\ t \in Token /\ t.path = o /\ t.token = "open" /\ t.value = kind
      /\ kind # Ill
  BY <1>1, ScanConstants DEF ValueToken, Token, Word
<1>3. ProbedAs(t) = [type |-> kind]
  BY <1>2 DEF ProbedAs
<1> HIDE DEF t
<1>4. rs_open(z, kind) = r
  BY <1>3 DEF rs_open
<1>5. /\ RsShape(z) /\ RsLevels(x, o, w, z.levels) /\ FailureIs(x, z.failure)
      /\ ValuesAre(x, z.values) /\ CodeIs(x, z.error_code) /\ RsMarks(x, z)
  BY DEF RsInv
<1>6. ~Offends(y, Len(x) + 1)
  BY <1>1, <1>2, NewOffends
<1>7. /\ in_payload \in BOOLEAN /\ (in_payload <=> Payload(x, o, w))
      /\ in_payload <=> Below(y, Len(x) + 1)
  BY <1>2, <1>5, RsPayload, NewBelow DEF ValueToken
<1>8. /\ RsShape(read) /\ read.failure = z.failure
      /\ read.safe = z.safe /\ read.wide = z.wide /\ read.deep = z.deep
  BY <1>5, RsValue
<1>9. /\ p \in Seq(Nat) /\ Len(p) = Len(o) + 1 /\ p[Len(o) + 1] = Len(x) + 1
      /\ \A m \in 1 .. Len(o) : p[m] = o[m]
  BY <1>1
<1>10. /\ ValuesAre(y, read.values) /\ CodeIs(y, read.error_code)
       /\ RsOuter(y, p, v, Len(o), read.levels)
  <2> HIDE DEF p
  <2> QED
    BY <1>2, <1>5, <1>9, RsRecords
<1>11. Len(z.levels) = Len(o) /\ z.levels \in Seq(RsLevel)
  BY <1>5 DEF RsLevels, RsOuter
<1>12. direct \in BOOLEAN
  OBVIOUS
<1>13. direct <=> t.value = "object" /\ Len(o) = 1 /\ w = "member" /\ x[Len(x)].value = "error"
  <2>1. ASSUME Len(o) = 1
        PROVE  Last(z.levels).pending_key = "error" <=> w = "member" /\ x[Len(x)].value = "error"
    <3>1. z.levels[1].pending_key = Pending(x, w, {Ill})
      BY <1>5, <2>1 DEF RsLevels, RsOuter, LevelIs
    <3>2. "error" # Ill /\ "error" # None /\ {Ill} \subseteq {Ill}
      BY ScanConstants
    <3>3. Pending(x, w, {Ill}) = "error" <=> w = "member" /\ x[Len(x)].value = "error"
      BY <3>2, PendingIs
    <3> QED
      BY <1>11, <2>1, <3>1, <3>3 DEF Last
  <2> QED
    BY <1>2, <1>11, <2>1
<1> HIDE DEF in_payload, read, direct
<1>14. level \in RsLevel /\ level.kind = kind /\ level.keys = {} /\ level.pending_key = None
       /\ level.in_payload = in_payload /\ level.direct_error = direct
  BY <1>7, <1>12 DEF RsLevel
<1> HIDE DEF level
<1>15. /\ RsShape(r) /\ r.levels = Append(read.levels, level) /\ r.values = read.values
       /\ r.error_code = read.error_code /\ r.failure = z.failure
       /\ r.safe = z.safe /\ r.wide = z.wide
       /\ r.deep = (z.deep \/ (in_payload /\ Len(o) >= DepthLimit))
  <2> DEFINE deep == read.deep \/ (in_payload /\ Len(z.levels) >= DepthLimit)
             levels == Append(read.levels, level)
  <2>1. deep = (z.deep \/ (in_payload /\ Len(o) >= DepthLimit))
    BY <1>8, <1>11
  <2>2. r = [read EXCEPT !.deep = deep, !.levels = levels]
    OBVIOUS
  <2> HIDE DEF r, deep, levels
  <2>3. /\ RsShape(r) /\ r.levels = levels /\ r.values = read.values
        /\ r.error_code = read.error_code /\ r.failure = read.failure
        /\ r.safe = read.safe /\ r.wide = read.wide /\ r.deep = deep
    BY <1>8, <2>2 DEF RsShape
  <2> QED
    BY <1>8, <2>1, <2>3 DEF levels
<1> HIDE DEF r
<1>16. RsLevels(y, p, v, r.levels)
  <2>1. read.levels \in Seq(RsLevel) /\ Len(read.levels) = Len(o)
    BY <1>10 DEF RsOuter
  <2>2. /\ r.levels \in Seq(RsLevel) /\ Len(r.levels) = Len(o) + 1
        /\ r.levels[Len(o) + 1] = level
        /\ \A k \in 1 .. Len(o) : r.levels[k] = read.levels[k]
    BY <1>1, <1>14, <1>15, <2>1
  <2>3. LevelIs(y, p, v, Len(o) + 1, {Ill}, t.value, {}, in_payload, direct, None)
    BY <1>2, <1>7, <1>13, LevelNew
  <2>4. ASSUME NEW k \in 1 .. (Len(o) + 1)
        PROVE  LevelIs(y, p, v, k, {Ill}, r.levels[k].kind, r.levels[k].keys,
                       r.levels[k].in_payload, r.levels[k].direct_error,
                       r.levels[k].pending_key)
    <3> HIDE DEF y, p
    <3>1. CASE k \in 1 .. Len(o)
      BY <1>10, <2>2, <3>1 DEF RsOuter
    <3>2. CASE k = Len(o) + 1
      BY <1>2, <1>14, <2>2, <2>3, <3>2
    <3> QED
      BY <1>1, <3>1, <3>2
  <2> HIDE DEF y, p
  <2> QED
    BY <1>9, <2>2, <2>4 DEF RsLevels, RsOuter
<1>17. FailureIs(y, r.failure)
  BY <1>1, <1>2, <1>5, <1>6, <1>15, FailureKept
<1>18. RsMarks(y, r)
  BY <1>1, <1>2, <1>5, <1>7, <1>15, Marked DEF RsMarks
<1> HIDE DEF y, p
<1> QED
  BY <1>4, <1>10, <1>15, <1>16, <1>17, <1>18 DEF RsInv, t, y, p

\* The end of a container.
LEMMA RsClose ==
  ASSUME NEW x, NEW o, NEW w, Grammar(x, o, w), o # <<>>, w # "member", NEW z,
         RsInv(x, o, w, z), NEW v, v # "member"
  PROVE  RsInv(Append(x, [token |-> "close", value |-> "", path |-> o]), Front(o), v,
               rs_close(z))
<1> DEFINE t == [token |-> "close", value |-> "", path |-> o]
           y == Append(x, t)
           p == Front(o)
           r == rs_close(z)
<1>1. /\ o \in Seq(Nat) /\ Paths(x) /\ Containers(x, o) /\ Len(x) \in Nat /\ Len(o) \in Nat
      /\ Len(o) > 0
  BY PathIsOpen DEF Grammar
<1>2. /\ t \in Token /\ t.path = o /\ t.token = "close" /\ t.value = "" /\ t.value # Ill
  BY <1>1, ScanConstants DEF Token, Word
<1> HIDE DEF t
<1>3. /\ RsShape(z) /\ RsLevels(x, o, w, z.levels) /\ FailureIs(x, z.failure)
      /\ ValuesAre(x, z.values) /\ CodeIs(x, z.error_code) /\ RsMarks(x, z)
  BY DEF RsInv
<1>4. /\ RsShape(r) /\ r.levels = Front(z.levels) /\ r.values = z.values
      /\ r.error_code = z.error_code /\ r.failure = z.failure
      /\ r.safe = z.safe /\ r.wide = z.wide /\ r.deep = z.deep
  BY <1>3 DEF rs_close, RsShape
<1>5. Len(z.levels) = Len(o) /\ z.levels \in Seq(RsLevel) /\ z.levels # <<>>
  BY <1>1, <1>3 DEF RsLevels, RsOuter
<1>6. /\ p \in Seq(Nat) /\ Len(p) = Len(o) - 1
      /\ \A m \in 1 .. (Len(o) - 1) : p[m] = o[m]
  BY <1>1, FrontIs
<1>7. /\ r.levels \in Seq(RsLevel) /\ Len(r.levels) = Len(o) - 1
      /\ \A k \in 1 .. (Len(o) - 1) : r.levels[k] = z.levels[k]
  BY <1>4, <1>5, FrontIs
<1> HIDE DEF r, p
<1>8. ASSUME NEW k \in 1 .. (Len(o) - 1)
      PROVE  LevelIs(y, p, v, k, {Ill}, r.levels[k].kind, r.levels[k].keys,
                     r.levels[k].in_payload, r.levels[k].direct_error,
                     r.levels[k].pending_key)
  <2>1. k \in 1 .. Len(o) /\ k # Len(o) /\ r.levels[k] = z.levels[k]
    BY <1>1, <1>7
  <2>2. LevelIs(x, o, w, k, {Ill}, z.levels[k].kind, z.levels[k].keys,
                z.levels[k].in_payload, z.levels[k].direct_error, z.levels[k].pending_key)
    BY <1>3, <2>1 DEF RsLevels, RsOuter
  <2>3. \A m \in 1 .. k : p[m] = o[m]
    BY <1>1, <1>6
  <2>4. LevelIs(y, p, v, k, {Ill}, z.levels[k].kind, z.levels[k].keys,
                z.levels[k].in_payload, z.levels[k].direct_error,
                IF k = Len(p) THEN Pending(y, v, {Ill}) ELSE None)
    BY <1>2, <2>1, <2>2, <2>3, LevelKept
  <2>5. z.levels[k].pending_key = None /\ Pending(y, v, {Ill}) = None
    BY <2>1, <2>2 DEF LevelIs, Pending
  <2> QED
    BY <2>1, <2>4, <2>5
<1>9. RsLevels(y, p, v, r.levels)
  <2> HIDE DEF y
  <2> QED
    BY <1>6, <1>7, <1>8 DEF RsLevels, RsOuter
<1>10. ~Offends(y, Len(x) + 1)
  BY <1>1, <1>2, NewOffends
<1>11. FailureIs(y, r.failure)
  BY <1>1, <1>2, <1>3, <1>4, <1>10, FailureKept
<1>12. ValuesAre(y, r.values) /\ CodeIs(y, r.error_code)
  BY <1>1, <1>2, <1>3, <1>4, NotRecorded
<1>13. RsMarks(y, r)
  BY <1>1, <1>2, <1>3, <1>4, Marked DEF RsMarks
<1> HIDE DEF y
<1> QED
  BY <1>4, <1>9, <1>11, <1>12, <1>13 DEF RsInv, t, y, p, r

\* A name joins the innermost level.
RsJoined(levels, n) ==
  LET d == Len(levels) IN
    [[levels EXCEPT ![d].keys = levels[d].keys \cup {n}] EXCEPT ![d].pending_key = n]

\* What that changes.
LEMMA RsJoin ==
  ASSUME NEW levels \in Seq(RsLevel), levels # <<>>, NEW n \in Names
  PROVE  LET d == Len(levels)
             named == RsJoined(levels, n)
         IN /\ named \in Seq(RsLevel) /\ Len(named) = d
            /\ named[d].kind = levels[d].kind /\ named[d].keys = levels[d].keys \cup {n}
            /\ named[d].in_payload = levels[d].in_payload
            /\ named[d].direct_error = levels[d].direct_error /\ named[d].pending_key = n
            /\ \A k \in 1 .. d : k # d => named[k] = levels[k]
<1> DEFINE d == Len(levels)
           top == levels[d]
           new == [top EXCEPT !.keys = top.keys \cup {n}, !.pending_key = n]
           named == RsJoined(levels, n)
<1>1. top \in RsLevel /\ d \in 1 .. d /\ d \in DOMAIN levels
  OBVIOUS
<1>2. named = [levels EXCEPT ![d] = new]
  BY <1>1 DEF RsJoined
<1> HIDE DEF top, named
<1>3. /\ new \in RsLevel /\ new.kind = top.kind /\ new.keys = top.keys \cup {n}
      /\ new.in_payload = top.in_payload /\ new.direct_error = top.direct_error
      /\ new.pending_key = n
  BY <1>1 DEF RsLevel
<1> HIDE DEF new
<1>4. /\ named \in Seq(RsLevel) /\ Len(named) = d /\ named[d] = new
      /\ \A k \in 1 .. d : k # d => named[k] = levels[k]
  BY <1>2, <1>3, ExceptLast
<1> QED
  BY <1>3, <1>4 DEF top, named

\* A name.
LEMMA RsName ==
  ASSUME NEW x, NEW o, Grammar(x, o, "name"), NEW z, RsInv(x, o, "name", z), NEW n \in Names
  PROVE  RsInv(Append(x, [token |-> "name", value |-> n, path |-> o]), o, "member",
               rs_name(z, n, Len(x) + 1))
<1> DEFINE t == [token |-> "name", value |-> n, path |-> o]
           y == Append(x, t)
           d == Len(z.levels)
           top == z.levels[d]
           in_payload == IF n = Ill THEN value_is_payload(z.levels)
                         ELSE top.in_payload \/ (d = 1 /\ n = "payload")
           kind == IF n = Ill THEN "unicode" ELSE "duplicate"
           failed == IF n = Ill \/ n \in top.keys
                     THEN record_failure(z, kind, Len(x) + 1, in_payload) ELSE z
           r == rs_name(z, n, Len(x) + 1)
<1>1. /\ o \in Seq(Nat) /\ Paths(x) /\ Containers(x, o) /\ Len(x) \in Nat /\ Len(o) \in Nat
  BY PathIsOpen DEF Grammar
<1>2. /\ t \in Token /\ t.path = o /\ t.token = "name" /\ t.value = n
  BY <1>1 DEF Token, Word
<1> HIDE DEF t
<1>3. /\ RsShape(z) /\ RsLevels(x, o, "name", z.levels) /\ FailureIs(x, z.failure)
      /\ ValuesAre(x, z.values) /\ CodeIs(x, z.error_code) /\ RsMarks(x, z)
  BY DEF RsInv
<1>4. o # <<>> /\ Len(o) > 0 /\ Len(o) \in 1 .. Len(o)
  BY <1>1 DEF Grammar, Wanted
<1>5. d = Len(o) /\ z.levels \in Seq(RsLevel) /\ z.levels # <<>> /\ top \in RsLevel
  BY <1>1, <1>3, <1>4 DEF RsLevels, RsOuter
<1>6. LevelIs(x, o, "name", Len(o), {Ill}, top.kind, top.keys, top.in_payload,
              top.direct_error, top.pending_key)
  BY <1>3, <1>4, <1>5 DEF RsLevels, RsOuter
<1>7. Offends(y, Len(x) + 1) <=> n = Ill \/ n \in top.keys
  <2>1. n \in top.keys <=> /\ n \notin {Ill}
                           /\ \E i \in 1 .. Len(x) :
                                x[i].token = "name" /\ x[i].value = n
                                  /\ Within(x, o, i, Len(o))
    BY <1>6 DEF LevelIs
  <2> QED
    BY <1>1, <1>2, <2>1, NewOffends
<1>8. in_payload \in BOOLEAN /\ kind \in {"unicode", "duplicate", "number"} /\ kind # "number"
  BY <1>3, <1>5, RsPayload DEF RsLevel
<1>9. r = IF n = Ill THEN [failed EXCEPT !.safe = failed.safe /\ d # 1]
          ELSE [failed EXCEPT !.levels[d].keys = failed.levels[d].keys \cup {n},
                              !.levels[d].pending_key = n]
  <2>1. CASE n = Ill
    BY <2>1 DEF rs_name, Last
  <2>2. CASE n # Ill /\ n \in top.keys
    BY <2>2 DEF rs_name, Last
  <2>3. CASE n # Ill /\ n \notin top.keys
    BY ZenonT(30), <2>3 DEF rs_name, Last
  <2> QED
    BY <2>1, <2>2, <2>3
<1> HIDE DEF in_payload, kind, r
<1>10. /\ RsShape(failed) /\ failed.levels = z.levels /\ failed.values = z.values
       /\ failed.error_code = z.error_code
       /\ failed.safe = z.safe /\ failed.wide = z.wide /\ failed.deep = z.deep
       /\ failed.failure =
            IF n = Ill \/ n \in top.keys
            THEN (IF z.failure = None \/ Len(x) + 1 < z.failure.index
                  THEN [kind |-> kind, index |-> Len(x) + 1, in_payload |-> in_payload]
                  ELSE z.failure)
            ELSE z.failure
  BY <1>3, RsFailure
<1> HIDE DEF failed
<1>11. FailureIs(y, failed.failure)
  <2>1. CASE n = Ill \/ n \in top.keys
    <3>1. FailureIs(y, IF z.failure = None \/ Len(x) + 1 < z.failure.index
                       THEN [kind |-> kind, index |-> Len(x) + 1,
                             in_payload |-> in_payload]
                       ELSE z.failure)
      BY <1>1, <1>2, <1>3, <1>7, <1>8, <2>1, FailureStep
    <3> QED
      BY <1>10, <2>1, <3>1
  <2>2. CASE ~(n = Ill \/ n \in top.keys)
    BY <1>1, <1>2, <1>3, <1>7, <1>10, <2>2, FailureKept
  <2> QED
    BY <2>1, <2>2
<1>12. ValuesAre(y, z.values) /\ CodeIs(y, z.error_code)
  BY <1>1, <1>2, <1>3, NotRecorded
<1>13. /\ RootDefect(y) <=> RootDefect(x) \/ (n = Ill /\ Len(o) = 1)
       /\ Wide(y) <=> Wide(x)
       /\ Deep(y) <=> Deep(x)
  BY <1>1, <1>2, Marked
<1>14. /\ n \notin {Ill} =>
            LevelIs(y, o, "member", Len(o), {Ill}, top.kind, top.keys \cup {n},
                    top.in_payload, top.direct_error, n)
       /\ n \in {Ill} =>
            LevelIs(y, o, "member", Len(o), {Ill}, top.kind, top.keys, top.in_payload,
                    top.direct_error, top.pending_key)
  BY <1>6, LevelNamed DEF t
<1>15. ASSUME NEW k \in 1 .. Len(o), k # Len(o)
       PROVE  LevelIs(y, o, "member", k, {Ill}, z.levels[k].kind, z.levels[k].keys,
                      z.levels[k].in_payload, z.levels[k].direct_error,
                      z.levels[k].pending_key)
  <2>1. LevelIs(x, o, "name", k, {Ill}, z.levels[k].kind, z.levels[k].keys,
                z.levels[k].in_payload, z.levels[k].direct_error, z.levels[k].pending_key)
    BY <1>3 DEF RsLevels, RsOuter
  <2>2. \A m \in 1 .. k : o[m] = o[m]
    OBVIOUS
  <2>3. LevelIs(y, o, "member", k, {Ill}, z.levels[k].kind, z.levels[k].keys,
                z.levels[k].in_payload, z.levels[k].direct_error,
                IF k = Len(o) THEN Pending(y, "member", {Ill}) ELSE None)
    BY <1>2, <1>15, <2>1, <2>2, LevelKept
  <2>4. z.levels[k].pending_key = None
    BY <1>15, <2>1 DEF LevelIs
  <2> QED
    BY <1>15, <2>3, <2>4
<1>16. CASE n = Ill
  <2>1. r = [failed EXCEPT !.safe = failed.safe /\ d # 1]
    BY <1>9, <1>16
  <2>2. /\ RsShape(r) /\ r.levels = z.levels /\ r.values = z.values
        /\ r.error_code = z.error_code /\ r.failure = failed.failure
        /\ r.wide = z.wide /\ r.deep = z.deep
        /\ r.safe = (z.safe /\ d # 1)
    BY <1>10, <2>1 DEF RsShape
  <2>3. RsLevels(y, o, "member", r.levels)
    <3> HIDE DEF y
    <3>1. ASSUME NEW k \in 1 .. Len(o)
          PROVE  LevelIs(y, o, "member", k, {Ill}, z.levels[k].kind, z.levels[k].keys,
                         z.levels[k].in_payload, z.levels[k].direct_error,
                         z.levels[k].pending_key)
      BY <1>5, <1>14, <1>15, <1>16
    <3> QED
      BY <1>5, <2>2, <3>1 DEF RsLevels, RsOuter
  <2>4. RsMarks(y, r)
    BY <1>3, <1>5, <1>13, <1>16, <2>2 DEF RsMarks
  <2> HIDE DEF y
  <2> QED
    BY <1>11, <1>12, <2>2, <2>3, <2>4 DEF RsInv, t, y, r
<1>17. CASE n # Ill
  <2> DEFINE named == RsJoined(z.levels, n)
  <2>1. r = [failed EXCEPT !.levels = named]
    BY <1>5, <1>9, <1>10, <1>17 DEF RsShape, RsJoined
  <2>2. /\ named \in Seq(RsLevel) /\ Len(named) = d
        /\ named[d].kind = top.kind /\ named[d].keys = top.keys \cup {n}
        /\ named[d].in_payload = top.in_payload
        /\ named[d].direct_error = top.direct_error /\ named[d].pending_key = n
        /\ \A k \in 1 .. d : k # d => named[k] = z.levels[k]
    BY <1>5, RsJoin
  <2> HIDE DEF named
  <2>3. /\ RsShape(r) /\ r.levels = named /\ r.values = z.values
        /\ r.error_code = z.error_code /\ r.failure = failed.failure
        /\ r.wide = z.wide /\ r.deep = z.deep /\ r.safe = z.safe
    BY <1>10, <2>1 DEF RsShape
  <2>4. RsLevels(y, o, "member", r.levels)
    <3> HIDE DEF y
    <3>1. ASSUME NEW k \in 1 .. Len(o)
          PROVE  LevelIs(y, o, "member", k, {Ill}, named[k].kind, named[k].keys,
                         named[k].in_payload, named[k].direct_error,
                         named[k].pending_key)
      <4>1. CASE k = Len(o)
        <5>1. LevelIs(y, o, "member", Len(o), {Ill}, top.kind, top.keys \cup {n},
                      top.in_payload, top.direct_error, n)
          BY <1>14, <1>17
        <5> QED
          BY <1>5, <2>2, <4>1, <5>1
      <4>2. CASE k # Len(o)
        BY <1>5, <1>15, <2>2, <4>2
      <4> QED
        BY <4>1, <4>2
    <3> QED
      BY <1>5, <2>2, <2>3, <3>1 DEF RsLevels, RsOuter
  <2>5. RsMarks(y, r)
    BY <1>3, <1>13, <1>17, <2>3 DEF RsMarks
  <2> HIDE DEF y
  <2> QED
    BY <1>11, <1>12, <2>3, <2>4, <2>5 DEF RsInv, t, y, r
<1> QED
  BY <1>16, <1>17

-----------------------------------------------------------------------------
(* The TypeScript scanner.                                                 *)

TsShape(z) ==
  z = [levels |-> z.levels, topLevelValues |-> z.topLevelValues,
       errorCode |-> z.errorCode, failure |-> z.failure,
       topLevelMemberNameUnicodeDefect |-> z.topLevelMemberNameUnicodeDefect]

TsLevel ==
  [kind : {"object", "array"}, keys : SUBSET Names, inPayload : BOOLEAN,
   directError : BOOLEAN, pendingKey : Names \cup {None}]

\* Its levels, one per open container; no name is dropped.
TsOuter(x, o, w, n, levels) ==
  /\ levels \in Seq(TsLevel) /\ Len(levels) = n
  /\ \A k \in 1 .. n :
       LevelIs(x, o, w, k, {}, levels[k].kind, levels[k].keys, levels[k].inPayload,
               levels[k].directError, levels[k].pendingKey)

TsLevels(x, o, w, levels) == TsOuter(x, o, w, Len(o), levels)

TsMarks(x, z) ==
  /\ z.topLevelMemberNameUnicodeDefect \in BOOLEAN
  /\ z.topLevelMemberNameUnicodeDefect <=> RootDefect(x)

TsInv(x, o, w, z) ==
  /\ TsShape(z)
  /\ TsLevels(x, o, w, z.levels)
  /\ FailureIs(x, z.failure)
  /\ ValuesAre(x, z.topLevelValues) /\ CodeIs(x, z.errorCode)
  /\ TsMarks(x, z)

\* The first failure is kept.
LEMMA TsFailure ==
  ASSUME NEW z, TsShape(z), NEW kind, NEW index, NEW inPayload
  PROVE  LET r == fail(z, kind, index, inPayload) IN
           /\ TsShape(r) /\ r.levels = z.levels /\ r.topLevelValues = z.topLevelValues
           /\ r.errorCode = z.errorCode
           /\ r.topLevelMemberNameUnicodeDefect = z.topLevelMemberNameUnicodeDefect
           /\ r.failure = IF z.failure # None /\ z.failure.index <= index THEN z.failure
                          ELSE [kind |-> kind, index |-> index, in_payload |-> inPayload]
BY DEF fail, TsShape

\* What ts_value changes.
LEMMA TsValue ==
  ASSUME NEW z, TsShape(z), NEW value
  PROVE  LET r == ts_value(z, value)
             top == z.levels[Len(z.levels)]
             key == top.pendingKey
             pending == z.levels # <<>> /\ top.kind = "object" /\ key # None
         IN /\ TsShape(r) /\ r.failure = z.failure
            /\ r.topLevelMemberNameUnicodeDefect = z.topLevelMemberNameUnicodeDefect
            /\ r.levels = consumePendingKey(z.levels)
            /\ r.topLevelValues = IF pending /\ Len(z.levels) = 1
                                  THEN insert(z.topLevelValues, key, value)
                                  ELSE z.topLevelValues
            /\ r.errorCode = IF pending /\ top.directError /\ key = "code"
                             THEN (IF value.type = "string" THEN value.value ELSE None)
                             ELSE IF pending /\ Len(z.levels) = 1 /\ key = "error" THEN None
                             ELSE z.errorCode
<1> DEFINE r == recordValue(z, value)
           top == z.levels[Len(z.levels)]
           key == top.pendingKey
           pending == z.levels # <<>> /\ top.kind = "object" /\ key # None
<1>1. /\ TsShape(r) /\ r.failure = z.failure /\ r.levels = z.levels
      /\ r.topLevelMemberNameUnicodeDefect = z.topLevelMemberNameUnicodeDefect
      /\ r.topLevelValues = (IF pending /\ Len(z.levels) = 1
                             THEN insert(z.topLevelValues, key, value)
                             ELSE z.topLevelValues)
      /\ r.errorCode = (IF pending /\ top.directError /\ key = "code"
                        THEN (IF value.type = "string" THEN value.value ELSE None)
                        ELSE IF pending /\ Len(z.levels) = 1 /\ key = "error" THEN None
                        ELSE z.errorCode)
  BY DEF recordValue, parentIs, TsShape, Last
<1> HIDE DEF r
<1>2. ts_value(z, value) = [r EXCEPT !.levels = consumePendingKey(r.levels)]
  BY DEF ts_value, r
<1> QED
  BY <1>1, <1>2 DEF TsShape

\* The name of the innermost level is consumed, if that is an object.
LEMMA TsConsume ==
  ASSUME NEW levels \in Seq(TsLevel)
  PROVE  LET after == consumePendingKey(levels) IN
           /\ after \in Seq(TsLevel) /\ Len(after) = Len(levels)
           /\ \A k \in 1 .. Len(levels) :
                /\ after[k].kind = levels[k].kind /\ after[k].keys = levels[k].keys
                /\ after[k].inPayload = levels[k].inPayload
                /\ after[k].directError = levels[k].directError
                /\ after[k].pendingKey =
                     IF k = Len(levels) /\ levels[k].kind = "object" THEN None
                     ELSE levels[k].pendingKey
<1>1. CASE levels = <<>>
  BY <1>1 DEF consumePendingKey, parentIs
<1>2. CASE levels # <<>> /\ levels[Len(levels)].kind # "object"
  BY <1>2 DEF consumePendingKey, parentIs, Last
<1>3. CASE levels # <<>> /\ levels[Len(levels)].kind = "object"
  <2> DEFINE top == levels[Len(levels)]
             new == [top EXCEPT !.pendingKey = None]
  <2>1. top \in TsLevel /\ Len(levels) \in 1 .. Len(levels) /\ top.kind = "object"
    BY <1>3
  <2>2. consumePendingKey(levels) = [levels EXCEPT ![Len(levels)] = new]
    BY <1>3 DEF consumePendingKey, parentIs, Last
  <2> HIDE DEF top
  <2>3. /\ new \in TsLevel /\ new.kind = top.kind /\ new.keys = top.keys
        /\ new.inPayload = top.inPayload /\ new.directError = top.directError
        /\ new.pendingKey = None
    BY <2>1 DEF TsLevel
  <2> HIDE DEF new
  <2>4. /\ [levels EXCEPT ![Len(levels)] = new] \in Seq(TsLevel)
        /\ Len([levels EXCEPT ![Len(levels)] = new]) = Len(levels)
        /\ [levels EXCEPT ![Len(levels)] = new][Len(levels)] = new
        /\ \A k \in 1 .. Len(levels) :
             k # Len(levels) => [levels EXCEPT ![Len(levels)] = new][k] = levels[k]
    BY <1>3, <2>3, ExceptLast
  <2> QED
    BY <2>1, <2>2, <2>3, <2>4 DEF top
<1> QED
  BY <1>1, <1>2, <1>3

\* The innermost level; a name waits only in an object.
LEMMA TsTop ==
  ASSUME NEW x, NEW o, NEW w, Grammar(x, o, w), NEW levels, TsLevels(x, o, w, levels),
         o # <<>>
  PROVE  LET top == levels[Len(levels)] IN
           /\ LevelIs(x, o, w, Len(o), {}, top.kind, top.keys, top.inPayload,
                      top.directError, top.pendingKey)
           /\ top \in TsLevel
           /\ top.pendingKey # None => top.kind = "object"
<1> DEFINE top == levels[Len(levels)]
<1>1. Len(o) \in 1 .. Len(o) /\ Len(levels) = Len(o) /\ levels \in Seq(TsLevel)
  BY PathIsOpen DEF Grammar, TsLevels, TsOuter
<1>2. LevelIs(x, o, w, Len(o), {}, top.kind, top.keys, top.inPayload,
              top.directError, top.pendingKey)
  BY <1>1 DEF TsLevels, TsOuter
<1>3. top.pendingKey = Pending(x, w, {}) /\ top.kind = x[o[Len(o)]].value
  BY <1>2 DEF LevelIs
<1>4. top.pendingKey # None => w = "member"
  BY <1>3 DEF Pending
<1>5. top \in TsLevel
  BY <1>1
<1> QED
  BY <1>2, <1>3, <1>4, <1>5 DEF Grammar, Wanted

\* ts_value records a value and consumes its name; p are the containers that
\* are open afterwards and v is what is wanted then.
LEMMA TsRecords ==
  ASSUME NEW x, NEW o, NEW w \in {"root", "value", "member"}, Grammar(x, o, w),
         NEW t \in ValueToken, t.path = o,
         NEW z, TsShape(z), TsLevels(x, o, w, z.levels), ValuesAre(x, z.topLevelValues),
         CodeIs(x, z.errorCode),
         NEW p, \A m \in 1 .. Len(o) : p[m] = o[m], NEW v, v # "member"
  PROVE  LET y == Append(x, t)
             r == ts_value(z, ProbedAs(t))
         IN /\ ValuesAre(y, r.topLevelValues) /\ CodeIs(y, r.errorCode)
            /\ TsOuter(y, p, v, Len(o), r.levels)
<1> DEFINE y == Append(x, t)
           r == ts_value(z, ProbedAs(t))
           top == z.levels[Len(z.levels)]
           direct == Len(o) = 2 /\ x[o[2]].value = "object" /\ Root(x, o[2], "error")
           name == Pending(x, w, {})
<1>0. t \in Token /\ t.token \notin {"name", "close"}
  BY DEF ValueToken
<1>1. Len(o) \in Nat /\ o \in Seq(Nat) /\ Len(z.levels) = Len(o) /\ z.levels \in Seq(TsLevel)
  BY PathIsOpen DEF Grammar, TsLevels, TsOuter
<1>2. o = <<>> => z.levels = <<>> /\ name = None /\ ~direct /\ Len(o) # 1
  <2>1. o = <<>> => Len(o) = 0 /\ w = "root"
    BY DEF Grammar, Wanted
  <2> QED
    BY <1>1, <2>1 DEF Pending
<1>3. o # <<>> => z.levels # <<>> /\ Len(o) \in 1 .. Len(o)
  BY <1>1
<1>4. o # <<>> => /\ top.pendingKey = name /\ (top.directError <=> direct)
                  /\ top.pendingKey # None => top.kind = "object"
  <2> SUFFICES ASSUME o # <<>>
               PROVE  /\ top.pendingKey = name /\ (top.directError <=> direct)
                      /\ top.pendingKey # None => top.kind = "object"
    OBVIOUS
  <2>1. LevelIs(x, o, w, Len(o), {}, top.kind, top.keys, top.inPayload,
                top.directError, top.pendingKey)
    BY TsTop
  <2>2. top.pendingKey # None => top.kind = "object"
    BY TsTop
  <2> QED
    BY <2>1, <2>2 DEF LevelIs
<1>5. /\ r.levels = consumePendingKey(z.levels)
      /\ r.topLevelValues = (IF z.levels # <<>> /\ top.kind = "object"
                                  /\ top.pendingKey # None /\ Len(z.levels) = 1
                             THEN insert(z.topLevelValues, top.pendingKey, ProbedAs(t))
                             ELSE z.topLevelValues)
      /\ r.errorCode =
           (IF z.levels # <<>> /\ top.kind = "object" /\ top.pendingKey # None
                 /\ top.directError /\ top.pendingKey = "code"
            THEN (IF ProbedAs(t).type = "string" THEN ProbedAs(t).value ELSE None)
            ELSE IF z.levels # <<>> /\ top.kind = "object" /\ top.pendingKey # None
                      /\ Len(z.levels) = 1 /\ top.pendingKey = "error" THEN None
            ELSE z.errorCode)
  BY TsValue
<1>6. "code" # None /\ "error" # None
  BY ScanConstants
<1> HIDE DEF top, direct, name, r
<1>7. r.topLevelValues = IF Len(o) = 1 /\ name # None
                         THEN insert(z.topLevelValues, name, ProbedAs(t))
                         ELSE z.topLevelValues
  BY <1>1, <1>2, <1>3, <1>4, <1>5
<1>8. r.errorCode = IF direct /\ name = "code"
                    THEN (IF ProbedAs(t).type = "string" THEN t.value ELSE None)
                    ELSE IF Len(o) = 1 /\ name = "error" THEN None
                    ELSE z.errorCode
  BY <1>1, <1>2, <1>3, <1>4, <1>5, <1>6, ProbedString
<1>9. ValuesAre(y, r.topLevelValues) /\ CodeIs(y, r.errorCode)
  <2>1. {} \subseteq {Ill}
    OBVIOUS
  <2>2. direct <=> Len(o) = 2 /\ x[o[2]].value = "object" /\ Root(x, o[2], "error")
    BY DEF direct
  <2>3. name = Pending(x, w, {})
    BY DEF name
  <2>4. /\ ValuesAre(y, IF Len(o) = 1 /\ name # None
                        THEN insert(z.topLevelValues, name, ProbedAs(t))
                        ELSE z.topLevelValues)
        /\ CodeIs(y, IF direct /\ name = "code"
                     THEN (IF ProbedAs(t).type = "string" THEN t.value ELSE None)
                     ELSE IF Len(o) = 1 /\ name = "error" THEN None
                     ELSE z.errorCode)
    BY <1>0, <2>1, <2>2, <2>3, Recorded
  <2> QED
    BY <1>7, <1>8, <2>4
<1>10. /\ r.levels \in Seq(TsLevel) /\ Len(r.levels) = Len(o)
       /\ \A k \in 1 .. Len(o) :
            /\ r.levels[k].kind = z.levels[k].kind /\ r.levels[k].keys = z.levels[k].keys
            /\ r.levels[k].inPayload = z.levels[k].inPayload
            /\ r.levels[k].directError = z.levels[k].directError
            /\ r.levels[k].pendingKey =
                 IF k = Len(o) /\ z.levels[k].kind = "object" THEN None
                 ELSE z.levels[k].pendingKey
  BY <1>1, <1>5, TsConsume
<1>11. ASSUME NEW k \in 1 .. Len(o)
       PROVE  LevelIs(y, p, v, k, {}, r.levels[k].kind, r.levels[k].keys,
                      r.levels[k].inPayload, r.levels[k].directError,
                      r.levels[k].pendingKey)
  <2>1. LevelIs(x, o, w, k, {}, z.levels[k].kind, z.levels[k].keys,
                z.levels[k].inPayload, z.levels[k].directError, z.levels[k].pendingKey)
    BY DEF TsLevels, TsOuter
  <2>2. \A m \in 1 .. k : p[m] = o[m]
    BY <1>1
  <2>3. LevelIs(y, p, v, k, {}, z.levels[k].kind, z.levels[k].keys,
                z.levels[k].inPayload, z.levels[k].directError,
                IF k = Len(p) THEN Pending(y, v, {}) ELSE None)
    BY <1>0, <2>1, <2>2, LevelKept
  <2>4. r.levels[k].pendingKey = None
    <3>1. CASE k = Len(o)
      BY <1>1, <1>4, <1>10, <3>1 DEF top
    <3>2. CASE k # Len(o)
      BY <1>10, <2>1, <3>2 DEF LevelIs
    <3> QED
      BY <3>1, <3>2
  <2>5. Pending(y, v, {}) = None
    BY DEF Pending
  <2> QED
    BY <1>10, <2>3, <2>4, <2>5
<1> QED
  BY <1>9, <1>10, <1>11 DEF TsOuter, r, y

\* The innermost level knows whether the next value is below the payload.
LEMMA TsPayload ==
  ASSUME NEW x, NEW o, NEW w, Grammar(x, o, w), NEW levels, TsLevels(x, o, w, levels)
  PROVE  /\ valueIsPayload(levels) \in BOOLEAN
         /\ valueIsPayload(levels) <=> Payload(x, o, w)
<1> DEFINE top == levels[Len(levels)]
<1>1. Len(o) \in Nat /\ o \in Seq(Nat) /\ Len(levels) = Len(o) /\ levels \in Seq(TsLevel)
  BY PathIsOpen DEF Grammar, TsLevels, TsOuter
<1>2. valueIsPayload(levels)
        <=> levels # <<>> /\ (top.inPayload \/ (Len(o) = 1 /\ top.kind = "object"
                                                  /\ top.pendingKey = "payload"))
  BY <1>1 DEF valueIsPayload, parentIs, Last
<1>3. o = <<>> <=> levels = <<>>
  BY <1>1
<1>4. ASSUME o # <<>>
      PROVE  /\ top.inPayload <=> Below(x, o[Len(o)])
             /\ top.kind = "object" /\ top.pendingKey = "payload"
                  <=> w = "member" /\ x[Len(x)].value = "payload"
  <2>1. /\ LevelIs(x, o, w, Len(o), {}, top.kind, top.keys, top.inPayload,
                   top.directError, top.pendingKey)
        /\ top.pendingKey # None => top.kind = "object"
    BY <1>4, TsTop
  <2>2. top.pendingKey = Pending(x, w, {}) /\ (top.inPayload <=> Below(x, o[Len(o)]))
    BY <2>1 DEF LevelIs
  <2>3. "payload" # Ill /\ "payload" # None /\ {} \subseteq {Ill}
    BY ScanConstants
  <2>4. Pending(x, w, {}) = "payload" <=> w = "member" /\ x[Len(x)].value = "payload"
    BY <2>3, PendingIs
  <2> QED
    BY <2>1, <2>2, <2>3, <2>4
<1>5. Len(o) = 1 => o # <<>>
  OBVIOUS
<1>6. valueIsPayload(levels) \in BOOLEAN
  BY DEF valueIsPayload
<1> HIDE DEF top
<1> QED
  BY <1>2, <1>3, <1>4, <1>5, <1>6 DEF Payload

\* What the tokens do to the TypeScript scan.  A string.
LEMMA TsString ==
  ASSUME NEW x, NEW o, NEW w \in {"value", "member"}, Grammar(x, o, w), NEW z,
         TsInv(x, o, w, z), NEW s \in Strings, NEW v, v # "member"
  PROVE  TsInv(Append(x, [token |-> "string", value |-> s, path |-> o]), o, v,
               ts_string(z, s, Len(x) + 1))
<1> DEFINE t == [token |-> "string", value |-> s, path |-> o]
           y == Append(x, t)
           inPayload == valueIsPayload(z.levels)
           f == IF s = Ill THEN fail(z, "unicode", Len(x) + 1, inPayload) ELSE z
           r == ts_value(f, ProbedAs(t))
<1>1. o \in Seq(Nat) /\ Paths(x) /\ Containers(x, o) /\ Len(x) \in Nat
  BY PathIsOpen DEF Grammar
<1>2. t \in ValueToken /\ t \in Token /\ t.path = o /\ t.token = "string" /\ t.value = s
  BY <1>1 DEF ValueToken, Token, Word
<1>3. ProbedAs(t) = IF s = Ill THEN [type |-> "invalid"] ELSE [type |-> "string", value |-> s]
  BY <1>2 DEF ProbedAs
<1> HIDE DEF t
<1>4. ts_string(z, s, Len(x) + 1) = r
  BY <1>3 DEF ts_string
<1>5. /\ TsShape(z) /\ TsLevels(x, o, w, z.levels) /\ FailureIs(x, z.failure)
      /\ ValuesAre(x, z.topLevelValues) /\ CodeIs(x, z.errorCode) /\ TsMarks(x, z)
  BY DEF TsInv
<1>6. Offends(y, Len(x) + 1) <=> s = Ill
  BY <1>1, <1>2, NewOffends
<1>7. inPayload \in BOOLEAN
  BY <1>5, TsPayload
<1> HIDE DEF inPayload
<1>8. /\ TsShape(f) /\ f.levels = z.levels /\ f.topLevelValues = z.topLevelValues
      /\ f.errorCode = z.errorCode
      /\ f.topLevelMemberNameUnicodeDefect = z.topLevelMemberNameUnicodeDefect
      /\ f.failure = IF s # Ill \/ (z.failure # None /\ z.failure.index <= Len(x) + 1)
                     THEN z.failure
                     ELSE [kind |-> "unicode", index |-> Len(x) + 1, in_payload |-> inPayload]
  BY <1>5, TsFailure
<1> HIDE DEF f
<1>9. FailureIs(y, f.failure)
  <2>1. CASE s = Ill
    <3>1. FailureIs(y, IF z.failure # None /\ z.failure.index <= Len(x) + 1 THEN z.failure
                       ELSE [kind |-> "unicode", index |-> Len(x) + 1,
                             in_payload |-> inPayload])
      BY <1>1, <1>2, <1>5, <1>6, <1>7, <2>1, FailureStep
    <3> QED
      BY <1>8, <2>1, <3>1
  <2>2. CASE s # Ill
    BY <1>1, <1>2, <1>5, <1>6, <1>8, <2>2, FailureKept
  <2> QED
    BY <2>1, <2>2
<1>10. /\ TsShape(r) /\ r.failure = f.failure
       /\ r.topLevelMemberNameUnicodeDefect = z.topLevelMemberNameUnicodeDefect
  BY <1>8, TsValue
<1>11. /\ ValuesAre(y, r.topLevelValues) /\ CodeIs(y, r.errorCode)
       /\ TsLevels(y, o, v, r.levels)
  <2>1. /\ TsLevels(x, o, w, f.levels) /\ ValuesAre(x, f.topLevelValues)
        /\ CodeIs(x, f.errorCode) /\ \A m \in 1 .. Len(o) : o[m] = o[m]
    BY <1>5, <1>8
  <2> QED
    BY <1>2, <1>8, <2>1, TsRecords DEF TsLevels
<1>12. TsMarks(y, r)
  BY <1>1, <1>2, <1>5, <1>10, Marked DEF TsMarks
<1> HIDE DEF r
<1> QED
  BY <1>4, <1>9, <1>10, <1>11, <1>12 DEF TsInv, t

\* A number.
LEMMA TsNumber ==
  ASSUME NEW x, NEW o, NEW w \in {"value", "member"}, Grammar(x, o, w), NEW z,
         TsInv(x, o, w, z), NEW n \in Numbers, NEW v, v # "member"
  PROVE  TsInv(Append(x, [token |-> "number", value |-> n, path |-> o]), o, v,
               ts_number(z, n # "noncanonical", Len(x) + 1))
<1> DEFINE t == [token |-> "number", value |-> n, path |-> o]
           y == Append(x, t)
           inPayload == valueIsPayload(z.levels)
           read == ts_value(z, ProbedAs(t))
           r == IF n # "noncanonical" THEN read
                ELSE fail(read, "number", Len(x) + 1, inPayload)
<1>1. o \in Seq(Nat) /\ Paths(x) /\ Containers(x, o) /\ Len(x) \in Nat
  BY PathIsOpen DEF Grammar
<1>2. /\ t \in ValueToken /\ t \in Token /\ t.path = o /\ t.token = "number" /\ t.value = n
      /\ n # Ill /\ n \in {"fits", "wide", "noncanonical"}
  BY <1>1, ScanConstants DEF ValueToken, Token, Word, Numbers
<1>3. ProbedAs(t) = [type |-> "number"]
  BY <1>2 DEF ProbedAs
<1> HIDE DEF t
<1>4. ts_number(z, n # "noncanonical", Len(x) + 1) = r
  BY <1>3 DEF ts_number
<1>5. /\ TsShape(z) /\ TsLevels(x, o, w, z.levels) /\ FailureIs(x, z.failure)
      /\ ValuesAre(x, z.topLevelValues) /\ CodeIs(x, z.errorCode) /\ TsMarks(x, z)
  BY DEF TsInv
<1>6. Offends(y, Len(x) + 1) <=> n = "noncanonical"
  BY <1>1, <1>2, NewOffends
<1>7. inPayload \in BOOLEAN /\ (inPayload <=> Below(y, Len(x) + 1))
  BY <1>2, <1>5, TsPayload, NewBelow DEF ValueToken
<1>8. /\ TsShape(read) /\ read.failure = z.failure
      /\ read.topLevelMemberNameUnicodeDefect = z.topLevelMemberNameUnicodeDefect
  BY <1>5, TsValue
<1>9. /\ ValuesAre(y, read.topLevelValues) /\ CodeIs(y, read.errorCode)
      /\ TsLevels(y, o, v, read.levels)
  <2>1. \A m \in 1 .. Len(o) : o[m] = o[m]
    OBVIOUS
  <2> QED
    BY <1>2, <1>5, <2>1, TsRecords DEF TsLevels
<1> HIDE DEF inPayload, read
<1>10. /\ TsShape(r) /\ r.levels = read.levels /\ r.topLevelValues = read.topLevelValues
       /\ r.errorCode = read.errorCode
       /\ r.topLevelMemberNameUnicodeDefect = z.topLevelMemberNameUnicodeDefect
       /\ r.failure =
            IF n # "noncanonical" \/ (z.failure # None /\ z.failure.index <= Len(x) + 1)
            THEN z.failure
            ELSE [kind |-> "number", index |-> Len(x) + 1, in_payload |-> inPayload]
  BY <1>8, TsFailure
<1> HIDE DEF r
<1>11. FailureIs(y, r.failure)
  <2>1. CASE n = "noncanonical"
    <3>1. FailureIs(y, IF z.failure # None /\ z.failure.index <= Len(x) + 1 THEN z.failure
                       ELSE [kind |-> "number", index |-> Len(x) + 1,
                             in_payload |-> inPayload])
      BY <1>1, <1>2, <1>5, <1>6, <1>7, <2>1, FailureStep
    <3> QED
      BY <1>10, <2>1, <3>1
  <2>2. CASE n # "noncanonical"
    BY <1>1, <1>2, <1>5, <1>6, <1>10, <2>2, FailureKept
  <2> QED
    BY <2>1, <2>2
<1>12. TsMarks(y, r)
  BY <1>1, <1>2, <1>5, <1>10, Marked DEF TsMarks
<1> HIDE DEF y
<1> QED
  BY <1>4, <1>9, <1>10, <1>11, <1>12 DEF TsInv, t, y

\* A literal.
LEMMA TsLiteral ==
  ASSUME NEW x, NEW o, NEW w \in {"value", "member"}, Grammar(x, o, w), NEW z,
         TsInv(x, o, w, z), NEW v, v # "member"
  PROVE  TsInv(Append(x, [token |-> "literal", value |-> "null", path |-> o]), o, v,
               ts_literal(z))
<1> DEFINE t == [token |-> "literal", value |-> "null", path |-> o]
           y == Append(x, t)
           r == ts_value(z, ProbedAs(t))
<1>1. o \in Seq(Nat) /\ Paths(x) /\ Containers(x, o) /\ Len(x) \in Nat
  BY PathIsOpen DEF Grammar
<1>2. /\ t \in ValueToken /\ t \in Token /\ t.path = o /\ t.token = "literal"
      /\ t.value = "null" /\ t.value # Ill
  BY <1>1, ScanConstants DEF ValueToken, Token, Word
<1>3. ProbedAs(t) = [type |-> "null"]
  BY <1>2 DEF ProbedAs
<1> HIDE DEF t
<1>4. ts_literal(z) = r
  BY <1>3 DEF ts_literal
<1>5. /\ TsShape(z) /\ TsLevels(x, o, w, z.levels) /\ FailureIs(x, z.failure)
      /\ ValuesAre(x, z.topLevelValues) /\ CodeIs(x, z.errorCode) /\ TsMarks(x, z)
  BY DEF TsInv
<1>6. ~Offends(y, Len(x) + 1)
  BY <1>1, <1>2, NewOffends
<1>7. /\ TsShape(r) /\ r.failure = z.failure
      /\ r.topLevelMemberNameUnicodeDefect = z.topLevelMemberNameUnicodeDefect
  BY <1>5, TsValue
<1>8. /\ ValuesAre(y, r.topLevelValues) /\ CodeIs(y, r.errorCode)
      /\ TsLevels(y, o, v, r.levels)
  <2>1. \A m \in 1 .. Len(o) : o[m] = o[m]
    OBVIOUS
  <2> QED
    BY <1>2, <1>5, <2>1, TsRecords DEF TsLevels
<1> HIDE DEF r
<1>9. FailureIs(y, r.failure)
  BY <1>1, <1>2, <1>5, <1>6, <1>7, FailureKept
<1>10. TsMarks(y, r)
  BY <1>1, <1>2, <1>5, <1>7, Marked DEF TsMarks
<1> HIDE DEF y
<1> QED
  BY <1>4, <1>7, <1>8, <1>9, <1>10 DEF TsInv, t, y

\* The start of a container.
LEMMA TsOpen ==
  ASSUME NEW x, NEW o, NEW w \in {"root", "value", "member"}, Grammar(x, o, w), NEW z,
         TsInv(x, o, w, z), NEW kind \in {"object", "array"}, NEW v, v # "member"
  PROVE  TsInv(Append(x, [token |-> "open", value |-> kind, path |-> o]),
               Append(o, Len(x) + 1), v, ts_open(z, kind))
<1> DEFINE t == [token |-> "open", value |-> kind, path |-> o]
           y == Append(x, t)
           p == Append(o, Len(x) + 1)
           inPayload == valueIsPayload(z.levels)
           direct == /\ kind = "object" /\ Len(z.levels) = 1
                     /\ parentIs(z.levels, "object")
                     /\ Last(z.levels).pendingKey = "error"
           level == [kind |-> kind, keys |-> {}, inPayload |-> inPayload,
                     directError |-> direct, pendingKey |-> None]
           read == ts_value(z, ProbedAs(t))
           r == [read EXCEPT !.levels = Append(read.levels, level)]
<1>1. /\ o \in Seq(Nat) /\ Paths(x) /\ Containers(x, o) /\ Len(x) \in Nat /\ Len(o) \in Nat
  BY PathIsOpen DEF Grammar
<1>2. /\ t \in ValueToken /\ t \in Token /\ t.path = o /\ t.token = "open" /\ t.value = kind
      /\ kind # Ill
  BY <1>1, ScanConstants DEF ValueToken, Token, Word
<1>3. ProbedAs(t) = [type |-> kind]
  BY <1>2 DEF ProbedAs
<1> HIDE DEF t
<1>4. ts_open(z, kind) = r
  BY <1>3 DEF ts_open
<1>5. /\ TsShape(z) /\ TsLevels(x, o, w, z.levels) /\ FailureIs(x, z.failure)
      /\ ValuesAre(x, z.topLevelValues) /\ CodeIs(x, z.errorCode) /\ TsMarks(x, z)
  BY DEF TsInv
<1>6. ~Offends(y, Len(x) + 1)
  BY <1>1, <1>2, NewOffends
<1>7. inPayload \in BOOLEAN /\ (inPayload <=> Payload(x, o, w))
  BY <1>5, TsPayload
<1>8. /\ TsShape(read) /\ read.failure = z.failure
      /\ read.topLevelMemberNameUnicodeDefect = z.topLevelMemberNameUnicodeDefect
  BY <1>5, TsValue
<1>9. /\ p \in Seq(Nat) /\ Len(p) = Len(o) + 1 /\ p[Len(o) + 1] = Len(x) + 1
      /\ \A m \in 1 .. Len(o) : p[m] = o[m]
  BY <1>1
<1>10. /\ ValuesAre(y, read.topLevelValues) /\ CodeIs(y, read.errorCode)
       /\ TsOuter(y, p, v, Len(o), read.levels)
  <2> HIDE DEF p
  <2> QED
    BY <1>2, <1>5, <1>9, TsRecords
<1>11. Len(z.levels) = Len(o) /\ z.levels \in Seq(TsLevel)
  BY <1>5 DEF TsLevels, TsOuter
<1>12. direct \in BOOLEAN
  OBVIOUS
<1>13. direct <=> t.value = "object" /\ Len(o) = 1 /\ w = "member" /\ x[Len(x)].value = "error"
  <2>1. ASSUME Len(o) = 1
        PROVE  parentIs(z.levels, "object") /\ Last(z.levels).pendingKey = "error"
                 <=> w = "member" /\ x[Len(x)].value = "error"
    <3> DEFINE top == z.levels[Len(z.levels)]
    <3>1. o # <<>> /\ z.levels # <<>>
      <4>1. Len(o) # 0 /\ Len(z.levels) # 0
        BY <1>11, <2>1
      <4> QED
        BY <4>1
    <3>2. /\ LevelIs(x, o, w, Len(o), {}, top.kind, top.keys, top.inPayload,
                     top.directError, top.pendingKey)
          /\ top.pendingKey # None => top.kind = "object"
      BY <1>5, <3>1, TsTop
    <3>3. top.pendingKey = Pending(x, w, {})
      BY <3>2 DEF LevelIs
    <3>4. "error" # Ill /\ "error" # None /\ {} \subseteq {Ill}
      BY ScanConstants
    <3>5. Pending(x, w, {}) = "error" <=> w = "member" /\ x[Len(x)].value = "error"
      BY <3>4, PendingIs
    <3> QED
      BY <3>1, <3>2, <3>3, <3>4, <3>5 DEF parentIs, Last
  <2> QED
    BY <1>2, <1>11, <2>1
<1> HIDE DEF inPayload, read, direct
<1>14. level \in TsLevel /\ level.kind = kind /\ level.keys = {} /\ level.pendingKey = None
       /\ level.inPayload = inPayload /\ level.directError = direct
  BY <1>7, <1>12 DEF TsLevel
<1> HIDE DEF level
<1>15. /\ TsShape(r) /\ r.levels = Append(read.levels, level)
       /\ r.topLevelValues = read.topLevelValues
       /\ r.errorCode = read.errorCode /\ r.failure = z.failure
       /\ r.topLevelMemberNameUnicodeDefect = z.topLevelMemberNameUnicodeDefect
  BY SMTT(30), <1>8 DEF TsShape
<1> HIDE DEF r
<1>16. TsLevels(y, p, v, r.levels)
  <2>1. read.levels \in Seq(TsLevel) /\ Len(read.levels) = Len(o)
    BY <1>10 DEF TsOuter
  <2>2. /\ r.levels \in Seq(TsLevel) /\ Len(r.levels) = Len(o) + 1
        /\ r.levels[Len(o) + 1] = level
        /\ \A k \in 1 .. Len(o) : r.levels[k] = read.levels[k]
    BY <1>1, <1>14, <1>15, <2>1
  <2>3. LevelIs(y, p, v, Len(o) + 1, {}, t.value, {}, inPayload, direct, None)
    BY <1>2, <1>7, <1>13, LevelNew
  <2>4. ASSUME NEW k \in 1 .. (Len(o) + 1)
        PROVE  LevelIs(y, p, v, k, {}, r.levels[k].kind, r.levels[k].keys,
                       r.levels[k].inPayload, r.levels[k].directError,
                       r.levels[k].pendingKey)
    <3> HIDE DEF y, p
    <3>1. CASE k \in 1 .. Len(o)
      BY <1>10, <2>2, <3>1 DEF TsOuter
    <3>2. CASE k = Len(o) + 1
      BY <1>2, <1>14, <2>2, <2>3, <3>2
    <3> QED
      BY <1>1, <3>1, <3>2
  <2> HIDE DEF y, p
  <2> QED
    BY <1>9, <2>2, <2>4 DEF TsLevels, TsOuter
<1>17. FailureIs(y, r.failure)
  BY <1>1, <1>2, <1>5, <1>6, <1>15, FailureKept
<1>18. TsMarks(y, r)
  BY <1>1, <1>2, <1>5, <1>15, Marked DEF TsMarks
<1> HIDE DEF y, p
<1> QED
  BY <1>4, <1>10, <1>15, <1>16, <1>17, <1>18 DEF TsInv, t, y, p

\* The end of a container.
LEMMA TsClose ==
  ASSUME NEW x, NEW o, NEW w, Grammar(x, o, w), o # <<>>, w # "member", NEW z,
         TsInv(x, o, w, z), NEW v, v # "member"
  PROVE  TsInv(Append(x, [token |-> "close", value |-> "", path |-> o]), Front(o), v,
               ts_close(z))
<1> DEFINE t == [token |-> "close", value |-> "", path |-> o]
           y == Append(x, t)
           p == Front(o)
           r == ts_close(z)
<1>1. /\ o \in Seq(Nat) /\ Paths(x) /\ Containers(x, o) /\ Len(x) \in Nat /\ Len(o) \in Nat
      /\ Len(o) > 0
  BY PathIsOpen DEF Grammar
<1>2. /\ t \in Token /\ t.path = o /\ t.token = "close" /\ t.value = "" /\ t.value # Ill
  BY <1>1, ScanConstants DEF Token, Word
<1> HIDE DEF t
<1>3. /\ TsShape(z) /\ TsLevels(x, o, w, z.levels) /\ FailureIs(x, z.failure)
      /\ ValuesAre(x, z.topLevelValues) /\ CodeIs(x, z.errorCode) /\ TsMarks(x, z)
  BY DEF TsInv
<1>4. /\ TsShape(r) /\ r.levels = Front(z.levels) /\ r.topLevelValues = z.topLevelValues
      /\ r.errorCode = z.errorCode /\ r.failure = z.failure
      /\ r.topLevelMemberNameUnicodeDefect = z.topLevelMemberNameUnicodeDefect
  BY <1>3 DEF ts_close, TsShape
<1>5. Len(z.levels) = Len(o) /\ z.levels \in Seq(TsLevel) /\ z.levels # <<>>
  BY <1>1, <1>3 DEF TsLevels, TsOuter
<1>6. /\ p \in Seq(Nat) /\ Len(p) = Len(o) - 1
      /\ \A m \in 1 .. (Len(o) - 1) : p[m] = o[m]
  BY <1>1, FrontIs
<1>7. /\ r.levels \in Seq(TsLevel) /\ Len(r.levels) = Len(o) - 1
      /\ \A k \in 1 .. (Len(o) - 1) : r.levels[k] = z.levels[k]
  BY <1>4, <1>5, FrontIs
<1> HIDE DEF r, p
<1>8. ASSUME NEW k \in 1 .. (Len(o) - 1)
      PROVE  LevelIs(y, p, v, k, {}, r.levels[k].kind, r.levels[k].keys,
                     r.levels[k].inPayload, r.levels[k].directError,
                     r.levels[k].pendingKey)
  <2>1. k \in 1 .. Len(o) /\ k # Len(o) /\ r.levels[k] = z.levels[k]
    BY <1>1, <1>7
  <2>2. LevelIs(x, o, w, k, {}, z.levels[k].kind, z.levels[k].keys,
                z.levels[k].inPayload, z.levels[k].directError, z.levels[k].pendingKey)
    BY <1>3, <2>1 DEF TsLevels, TsOuter
  <2>3. \A m \in 1 .. k : p[m] = o[m]
    BY <1>1, <1>6
  <2>4. LevelIs(y, p, v, k, {}, z.levels[k].kind, z.levels[k].keys,
                z.levels[k].inPayload, z.levels[k].directError,
                IF k = Len(p) THEN Pending(y, v, {}) ELSE None)
    BY <1>2, <2>1, <2>2, <2>3, LevelKept
  <2>5. z.levels[k].pendingKey = None /\ Pending(y, v, {}) = None
    BY <2>1, <2>2 DEF LevelIs, Pending
  <2> QED
    BY <2>1, <2>4, <2>5
<1>9. TsLevels(y, p, v, r.levels)
  <2> HIDE DEF y
  <2> QED
    BY <1>6, <1>7, <1>8 DEF TsLevels, TsOuter
<1>10. ~Offends(y, Len(x) + 1)
  BY <1>1, <1>2, NewOffends
<1>11. FailureIs(y, r.failure)
  BY <1>1, <1>2, <1>3, <1>4, <1>10, FailureKept
<1>12. ValuesAre(y, r.topLevelValues) /\ CodeIs(y, r.errorCode)
  BY <1>1, <1>2, <1>3, <1>4, NotRecorded
<1>13. TsMarks(y, r)
  BY <1>1, <1>2, <1>3, <1>4, Marked DEF TsMarks
<1> HIDE DEF y
<1> QED
  BY <1>4, <1>9, <1>11, <1>12, <1>13 DEF TsInv, t, y, p, r

\* A name joins the innermost level.
TsJoined(levels, n) ==
  LET d == Len(levels) IN
    [[levels EXCEPT ![d].keys = levels[d].keys \cup {n}] EXCEPT ![d].pendingKey = n]

\* What that changes.
LEMMA TsJoin ==
  ASSUME NEW levels \in Seq(TsLevel), levels # <<>>, NEW n \in Names
  PROVE  LET d == Len(levels)
             named == TsJoined(levels, n)
         IN /\ named \in Seq(TsLevel) /\ Len(named) = d
            /\ named[d].kind = levels[d].kind /\ named[d].keys = levels[d].keys \cup {n}
            /\ named[d].inPayload = levels[d].inPayload
            /\ named[d].directError = levels[d].directError /\ named[d].pendingKey = n
            /\ \A k \in 1 .. d : k # d => named[k] = levels[k]
<1> DEFINE d == Len(levels)
           top == levels[d]
           new == [top EXCEPT !.keys = top.keys \cup {n}, !.pendingKey = n]
           named == TsJoined(levels, n)
<1>1. top \in TsLevel /\ d \in 1 .. d /\ d \in DOMAIN levels
  OBVIOUS
<1>2. named = [levels EXCEPT ![d] = new]
  BY <1>1 DEF TsJoined
<1> HIDE DEF top, named
<1>3. /\ new \in TsLevel /\ new.kind = top.kind /\ new.keys = top.keys \cup {n}
      /\ new.inPayload = top.inPayload /\ new.directError = top.directError
      /\ new.pendingKey = n
  BY <1>1 DEF TsLevel
<1> HIDE DEF new
<1>4. /\ named \in Seq(TsLevel) /\ Len(named) = d /\ named[d] = new
      /\ \A k \in 1 .. d : k # d => named[k] = levels[k]
  BY <1>2, <1>3, ExceptLast
<1> QED
  BY <1>3, <1>4 DEF top, named

\* A name; a second failure of the same token does not replace the first.
LEMMA TsName ==
  ASSUME NEW x, NEW o, Grammar(x, o, "name"), NEW z, TsInv(x, o, "name", z), NEW n \in Names
  PROVE  TsInv(Append(x, [token |-> "name", value |-> n, path |-> o]), o, "member",
               ts_name(z, n, Len(x) + 1))
<1> DEFINE t == [token |-> "name", value |-> n, path |-> o]
           y == Append(x, t)
           d == Len(z.levels)
           top == z.levels[d]
           marked == [z EXCEPT !.topLevelMemberNameUnicodeDefect =
                                 z.topLevelMemberNameUnicodeDefect \/ d = 1]
           ill == valueIsPayload(z.levels) \/ top.inPayload
           twice == top.inPayload \/ (d = 1 /\ n = "payload")
           unicode == IF n # Ill THEN z ELSE fail(marked, "unicode", Len(x) + 1, ill)
           checked == IF n \notin top.keys THEN unicode
                      ELSE fail(unicode, "duplicate", Len(x) + 1, twice)
           named == TsJoined(z.levels, n)
           r == ts_name(z, n, Len(x) + 1)
<1>1. /\ o \in Seq(Nat) /\ Paths(x) /\ Containers(x, o) /\ Len(x) \in Nat /\ Len(o) \in Nat
  BY PathIsOpen DEF Grammar
<1>2. /\ t \in Token /\ t.path = o /\ t.token = "name" /\ t.value = n
  BY <1>1 DEF Token, Word
<1> HIDE DEF t
<1>3. /\ TsShape(z) /\ TsLevels(x, o, "name", z.levels) /\ FailureIs(x, z.failure)
      /\ ValuesAre(x, z.topLevelValues) /\ CodeIs(x, z.errorCode) /\ TsMarks(x, z)
  BY DEF TsInv
<1>4. o # <<>> /\ Len(o) > 0 /\ Len(o) \in 1 .. Len(o)
  BY <1>1 DEF Grammar, Wanted
<1>5. d = Len(o) /\ z.levels \in Seq(TsLevel) /\ z.levels # <<>> /\ top \in TsLevel
  BY <1>1, <1>3, <1>4 DEF TsLevels, TsOuter
<1>6. LevelIs(x, o, "name", Len(o), {}, top.kind, top.keys, top.inPayload,
              top.directError, top.pendingKey)
  BY <1>3, <1>4, <1>5 DEF TsLevels, TsOuter
<1>7. Offends(y, Len(x) + 1) <=> n = Ill \/ n \in top.keys
  <2>1. n \in top.keys <=> \E i \in 1 .. Len(x) :
                             x[i].token = "name" /\ x[i].value = n /\ Within(x, o, i, Len(o))
    BY <1>6 DEF LevelIs
  <2> QED
    BY <1>1, <1>2, <2>1, NewOffends
<1>8. ill \in BOOLEAN /\ twice \in BOOLEAN
  OBVIOUS
<1>9. r = [checked EXCEPT !.levels[d].keys = checked.levels[d].keys \cup {n},
                          !.levels[d].pendingKey = n]
  BY DEF ts_name, Last
<1>10. /\ TsShape(marked) /\ marked.levels = z.levels
       /\ marked.topLevelValues = z.topLevelValues
       /\ marked.errorCode = z.errorCode /\ marked.failure = z.failure
       /\ marked.topLevelMemberNameUnicodeDefect
            = (z.topLevelMemberNameUnicodeDefect \/ d = 1)
  BY <1>3 DEF TsShape
<1> HIDE DEF ill, twice, r, marked
<1>11. /\ TsShape(unicode) /\ unicode.levels = z.levels
       /\ unicode.topLevelValues = z.topLevelValues /\ unicode.errorCode = z.errorCode
       /\ unicode.topLevelMemberNameUnicodeDefect
            = IF n # Ill THEN z.topLevelMemberNameUnicodeDefect
              ELSE z.topLevelMemberNameUnicodeDefect \/ d = 1
       /\ unicode.failure =
            IF n # Ill \/ (z.failure # None /\ z.failure.index <= Len(x) + 1) THEN z.failure
            ELSE [kind |-> "unicode", index |-> Len(x) + 1, in_payload |-> ill]
  <2>1. CASE n = Ill
    <3>1. unicode = fail(marked, "unicode", Len(x) + 1, ill)
      BY <2>1
    <3> HIDE DEF unicode
    <3> QED
      BY <1>10, <2>1, <3>1, TsFailure
  <2>2. CASE n # Ill
    BY <1>3, <2>2
  <2> QED
    BY <2>1, <2>2
<1> HIDE DEF unicode
<1>12. /\ TsShape(checked) /\ checked.levels = z.levels
       /\ checked.topLevelValues = z.topLevelValues /\ checked.errorCode = z.errorCode
       /\ checked.topLevelMemberNameUnicodeDefect = unicode.topLevelMemberNameUnicodeDefect
       /\ checked.failure =
            IF n \notin top.keys \/ (unicode.failure # None
                                       /\ unicode.failure.index <= Len(x) + 1)
            THEN unicode.failure
            ELSE [kind |-> "duplicate", index |-> Len(x) + 1, in_payload |-> twice]
  BY <1>11, TsFailure
<1> HIDE DEF checked
<1>13. FailureIs(y, checked.failure)
  <2>1. CASE n = Ill
    <3>1. FailureIs(y, IF z.failure # None /\ z.failure.index <= Len(x) + 1 THEN z.failure
                       ELSE [kind |-> "unicode", index |-> Len(x) + 1, in_payload |-> ill])
      BY <1>1, <1>2, <1>3, <1>7, <1>8, <2>1, FailureStep
    <3>2. FailureIs(y, unicode.failure)
      BY <1>11, <2>1, <3>1
    <3>3. Len(y) = Len(x) + 1
      BY <1>1 DEF Paths
    <3>4. Len(x) + 1 \in 1 .. Len(y)
      BY <1>1, <3>3
    <3>5. unicode.failure # None
      BY <1>7, <2>1, <3>2, <3>4, ScanConstants DEF FailureIs, FailureRecord
    <3>6. unicode.failure.index \in 1 .. Len(y)
      BY <3>2, <3>5 DEF FailureIs
    <3>7. unicode.failure.index <= Len(x) + 1
      BY <1>1, <3>3, <3>6
    <3> QED
      BY <1>12, <3>2, <3>5, <3>7
  <2>2. CASE n # Ill /\ n \in top.keys
    <3>1. FailureIs(y, IF z.failure # None /\ z.failure.index <= Len(x) + 1 THEN z.failure
                       ELSE [kind |-> "duplicate", index |-> Len(x) + 1,
                             in_payload |-> twice])
      BY <1>1, <1>2, <1>3, <1>7, <1>8, <2>2, FailureStep
    <3> QED
      BY <1>11, <1>12, <2>2, <3>1
  <2>3. CASE n # Ill /\ n \notin top.keys
    BY <1>1, <1>2, <1>3, <1>7, <1>11, <1>12, <2>3, FailureKept
  <2> QED
    BY <2>1, <2>2, <2>3
<1>14. ValuesAre(y, z.topLevelValues) /\ CodeIs(y, z.errorCode)
  BY <1>1, <1>2, <1>3, NotRecorded
<1>15. RootDefect(y) <=> RootDefect(x) \/ (n = Ill /\ Len(o) = 1)
  BY <1>1, <1>2, Marked
<1>16. LevelIs(y, o, "member", Len(o), {}, top.kind, top.keys \cup {n},
               top.inPayload, top.directError, n)
  <2>1. n \notin {}
    OBVIOUS
  <2> QED
    BY <1>6, <2>1, LevelNamed DEF t
<1>17. ASSUME NEW k \in 1 .. Len(o), k # Len(o)
       PROVE  LevelIs(y, o, "member", k, {}, z.levels[k].kind, z.levels[k].keys,
                      z.levels[k].inPayload, z.levels[k].directError,
                      z.levels[k].pendingKey)
  <2>1. LevelIs(x, o, "name", k, {}, z.levels[k].kind, z.levels[k].keys,
                z.levels[k].inPayload, z.levels[k].directError, z.levels[k].pendingKey)
    BY <1>3 DEF TsLevels, TsOuter
  <2>2. \A m \in 1 .. k : o[m] = o[m]
    OBVIOUS
  <2>3. LevelIs(y, o, "member", k, {}, z.levels[k].kind, z.levels[k].keys,
                z.levels[k].inPayload, z.levels[k].directError,
                IF k = Len(o) THEN Pending(y, "member", {}) ELSE None)
    BY <1>2, <1>17, <2>1, <2>2, LevelKept
  <2>4. z.levels[k].pendingKey = None
    BY <1>17, <2>1 DEF LevelIs
  <2> QED
    BY <1>17, <2>3, <2>4
<1>18. r = [checked EXCEPT !.levels = named]
  BY <1>5, <1>9, <1>12 DEF TsShape, TsJoined
<1>19. /\ named \in Seq(TsLevel) /\ Len(named) = d
       /\ named[d].kind = top.kind /\ named[d].keys = top.keys \cup {n}
       /\ named[d].inPayload = top.inPayload
       /\ named[d].directError = top.directError /\ named[d].pendingKey = n
       /\ \A k \in 1 .. d : k # d => named[k] = z.levels[k]
  BY <1>5, TsJoin
<1> HIDE DEF named
<1>20. /\ TsShape(r) /\ r.levels = named /\ r.topLevelValues = z.topLevelValues
       /\ r.errorCode = z.errorCode /\ r.failure = checked.failure
       /\ r.topLevelMemberNameUnicodeDefect = checked.topLevelMemberNameUnicodeDefect
  BY <1>12, <1>18 DEF TsShape
<1>21. TsLevels(y, o, "member", r.levels)
  <2> HIDE DEF y
  <2>1. ASSUME NEW k \in 1 .. Len(o)
        PROVE  LevelIs(y, o, "member", k, {}, named[k].kind, named[k].keys,
                       named[k].inPayload, named[k].directError, named[k].pendingKey)
    <3>1. CASE k = Len(o)
      BY <1>5, <1>16, <1>19, <3>1
    <3>2. CASE k # Len(o)
      BY <1>5, <1>17, <1>19, <3>2
    <3> QED
      BY <3>1, <3>2
  <2> QED
    BY <1>5, <1>19, <1>20, <2>1 DEF TsLevels, TsOuter
<1>22. TsMarks(y, r)
  BY <1>3, <1>5, <1>11, <1>12, <1>15, <1>20 DEF TsMarks
<1> HIDE DEF y
<1> QED
  BY <1>13, <1>14, <1>20, <1>21, <1>22 DEF TsInv, t, y, r

-----------------------------------------------------------------------------
(* The specification.                                                      *)

\* The inductive invariant: the text keeps to the grammar, and each scan says
\* of it what it should.
ScanInv ==
  /\ Grammar(text, open, want)
  /\ RsInv(text, open, want, rs)
  /\ TsInv(text, open, want, ts)

\* Nothing has been read.
LEMMA ScanStarts == Init => ScanInv
<1> SUFFICES ASSUME Init PROVE ScanInv
  OBVIOUS
<1>1. text = <<>> /\ open = <<>> /\ want = "root" /\ rs = rs_start /\ ts = ts_start
  BY DEF Init
<1>2. Len(text) = 0 /\ Len(open) = 0 /\ text \in Seq(Token) /\ open \in Seq(Nat)
  BY <1>1
<1>3. Grammar(text, open, want)
  BY <1>1, <1>2 DEF Grammar, Paths, Containers, Wanted
<1>4. /\ FailureIs(text, None) /\ ValuesAre(text, <<>>) /\ CodeIs(text, None)
      /\ ~RootDefect(text) /\ ~Wide(text) /\ ~Deep(text)
  BY <1>2 DEF FailureIs, ValuesAre, CodeIs, RootDefect, Wide, Deep
<1>5. RsInv(text, open, want, rs)
  <2>1. RsLevels(text, open, want, <<>>)
    BY <1>2 DEF RsLevels, RsOuter
  <2> QED
    BY <1>1, <1>4, <2>1 DEF RsInv, RsShape, RsMarks, rs_start
<1>6. TsInv(text, open, want, ts)
  <2>1. TsLevels(text, open, want, <<>>)
    BY <1>2 DEF TsLevels, TsOuter
  <2> QED
    BY <1>1, <1>4, <2>1 DEF TsInv, TsShape, TsMarks, ts_start
<1> QED
  BY <1>3, <1>5, <1>6 DEF ScanInv

\* What is wanted after a value.
LEMMA AfterIs ==
  ASSUME NEW o
  PROVE  After(o) = AfterIn(text, o) /\ After(o) # "member"
BY DEF After, AfterIn, Last

\* Every token preserves the invariant.
LEMMA ScanStep == ScanInv /\ [Next]_vars => ScanInv'
<1> SUFFICES ASSUME ScanInv, [Next]_vars PROVE ScanInv'
  OBVIOUS
<1>1. Grammar(text, open, want) /\ RsInv(text, open, want, rs) /\ TsInv(text, open, want, ts)
  BY DEF ScanInv
<1>2. open \in Seq(Nat)
  BY <1>1, PathIsOpen DEF Grammar
<1>3. CASE UNCHANGED vars
  BY <1>1, <1>3 DEF ScanInv, vars
<1>4. ASSUME NEW n \in Names, Name(n) PROVE ScanInv'
  <2>1. /\ want = "name" /\ open' = open /\ want' = "member"
        /\ text' = Append(text, [token |-> "name", value |-> n, path |-> open])
        /\ rs' = rs_name(rs, n, Len(text) + 1) /\ ts' = ts_name(ts, n, Len(text) + 1)
    BY <1>4 DEF Name, Read, Index
  <2>2. Grammar(text', open', want')
    BY <1>1, <2>1, NameKeeps
  <2>3. RsInv(text', open', want', rs')
    BY <1>1, <2>1, RsName
  <2>4. TsInv(text', open', want', ts')
    BY <1>1, <2>1, TsName
  <2> QED
    BY <2>2, <2>3, <2>4 DEF ScanInv
<1>5. ASSUME NEW s \in Strings, String(s) PROVE ScanInv'
  <2> DEFINE t == [token |-> "string", value |-> s, path |-> open]
  <2>1. /\ want \in {"value", "member"} /\ open' = open /\ want' = AfterIn(text, open)
        /\ want' # "member" /\ text' = Append(text, t)
        /\ rs' = rs_string(rs, s, Len(text) + 1) /\ ts' = ts_string(ts, s, Len(text) + 1)
    BY <1>5, AfterIs DEF String, WantsValue, Read, Index
  <2>2. t \in Token /\ t.path = open
    BY <1>2 DEF Token, Word
  <2>3. Grammar(text', open', want')
    BY <1>1, <2>1, <2>2, ScalarKeeps
  <2>4. RsInv(text', open', want', rs')
    BY <1>1, <2>1, RsString
  <2>5. TsInv(text', open', want', ts')
    BY <1>1, <2>1, TsString
  <2> QED
    BY <2>3, <2>4, <2>5 DEF ScanInv
<1>6. ASSUME NEW n \in Numbers, Number(n) PROVE ScanInv'
  <2> DEFINE t == [token |-> "number", value |-> n, path |-> open]
  <2>1. /\ want \in {"value", "member"} /\ open' = open /\ want' = AfterIn(text, open)
        /\ want' # "member" /\ text' = Append(text, t)
        /\ rs' = rs_number(rs, n # "noncanonical", n = "fits", Len(text) + 1)
        /\ ts' = ts_number(ts, n # "noncanonical", Len(text) + 1)
    BY <1>6, AfterIs DEF Number, WantsValue, Read, Index
  <2>2. t \in Token /\ t.path = open
    BY <1>2 DEF Token, Word
  <2>3. Grammar(text', open', want')
    BY <1>1, <2>1, <2>2, ScalarKeeps
  <2>4. RsInv(text', open', want', rs')
    BY <1>1, <2>1, RsNumber
  <2>5. TsInv(text', open', want', ts')
    BY <1>1, <2>1, TsNumber
  <2> QED
    BY <2>3, <2>4, <2>5 DEF ScanInv
<1>7. CASE Literal
  <2> DEFINE t == [token |-> "literal", value |-> "null", path |-> open]
  <2>1. /\ want \in {"value", "member"} /\ open' = open /\ want' = AfterIn(text, open)
        /\ want' # "member" /\ text' = Append(text, t)
        /\ rs' = rs_literal(rs) /\ ts' = ts_literal(ts)
    BY <1>7, AfterIs DEF Literal, WantsValue, Read
  <2>2. t \in Token /\ t.path = open
    BY <1>2 DEF Token, Word
  <2>3. Grammar(text', open', want')
    BY <1>1, <2>1, <2>2, ScalarKeeps
  <2>4. RsInv(text', open', want', rs')
    BY <1>1, <2>1, RsLiteral
  <2>5. TsInv(text', open', want', ts')
    BY <1>1, <2>1, TsLiteral
  <2> QED
    BY <2>3, <2>4, <2>5 DEF ScanInv
<1>8. ASSUME NEW kind \in {"object", "array"}, Open(kind) PROVE ScanInv'
  <2> DEFINE t == [token |-> "open", value |-> kind, path |-> open]
  <2>1. /\ want \in {"root", "value", "member"} /\ (want = "root" => kind = "object")
        /\ open' = Append(open, Len(text) + 1)
        /\ want' = (IF kind = "object" THEN "name" ELSE "value")
        /\ want' # "member" /\ text' = Append(text, t)
        /\ rs' = rs_open(rs, kind) /\ ts' = ts_open(ts, kind)
    BY <1>8 DEF Open, WantsValue, Read, Index
  <2>2. t \in Token /\ t.path = open /\ t.token = "open" /\ t.value = kind
    BY <1>2 DEF Token, Word
  <2>3. Grammar(text', open', want')
    <3> HIDE DEF t
    <3> QED
      BY <1>1, <2>1, <2>2, OpenKeeps
  <2>4. RsInv(text', open', want', rs')
    BY <1>1, <2>1, RsOpen
  <2>5. TsInv(text', open', want', ts')
    BY <1>1, <2>1, TsOpen
  <2> QED
    BY <2>3, <2>4, <2>5 DEF ScanInv
<1>9. CASE Close
  <2> DEFINE t == [token |-> "close", value |-> "", path |-> open]
  <2>1. /\ open # <<>> /\ want # "member" /\ open' = Front(open)
        /\ want' = AfterIn(text, Front(open)) /\ want' # "member"
        /\ text' = Append(text, t) /\ rs' = rs_close(rs) /\ ts' = ts_close(ts)
    BY <1>9, AfterIs DEF Close, Read
  <2>2. t \in Token /\ t.path = open /\ t.token = "close"
    BY <1>2 DEF Token, Word
  <2>3. Grammar(text', open', want')
    <3> HIDE DEF t
    <3> QED
      BY <1>1, <2>1, <2>2, CloseKeeps
  <2>4. RsInv(text', open', want', rs')
    BY <1>1, <2>1, RsClose
  <2>5. TsInv(text', open', want', ts')
    BY <1>1, <2>1, TsClose
  <2> QED
    BY <2>3, <2>4, <2>5 DEF ScanInv
<1> QED
  BY <1>3, <1>4, <1>5, <1>6, <1>7, <1>8, <1>9 DEF Next

\* Both scanners keep, of every grammatical text, the levels of its open
\* containers and the verdict so far.
THEOREM ScanInvariant == Spec => []ScanInv
BY ScanStarts, ScanStep, PTL DEF Spec

-----------------------------------------------------------------------------
(* What the scans report.                                                  *)

\* The definitions of TokenScan are those of a text, of the text read.
LEMMA TextIs ==
  ASSUME ScanInv
  PROVE  /\ text \in Seq(Token) /\ Len(text) \in Nat /\ DOMAIN text = 1 .. Len(text)
         /\ \A i, n : IsRootMember(i, n) <=> Root(text, i, n)
         /\ \A i : InPayload(i) <=> Below(text, i)
         /\ \A i : IsOffending(i) <=> Offends(text, i)
         /\ \A i : Probed(i) = ProbedAs(text[i])
<1>1. text \in Seq(Token)
  BY DEF ScanInv, Grammar, Paths
<1>2. \A i, n : IsRootMember(i, n) <=> Root(text, i, n)
  BY DEF IsRootMember, Root
<1>3. \A i : InPayload(i) <=> Below(text, i)
  BY <1>2 DEF InPayload, Below
<1>4. \A i : IsOffending(i) <=> Offends(text, i)
  BY DEF IsOffending, Offends
<1>5. \A i : Probed(i) = ProbedAs(text[i])
  BY DEF Probed, ProbedAs
<1> QED
  BY <1>1, <1>2, <1>3, <1>4, <1>5

\* The last of a set of positions.
LEMMA LastIs ==
  ASSUME NEW S \in SUBSET Nat, NEW i \in S, \A j \in S : j <= i
  PROVE  LastOf(S) = i
<1>1. LastOf(S) \in S /\ \A j \in S : j <= LastOf(S)
  BY DEF LastOf
<1>2. LastOf(S) <= i /\ i <= LastOf(S) /\ LastOf(S) \in Nat /\ i \in Nat
  BY <1>1
<1> QED
  BY <1>2

\* The failure that a scan keeps is that of the first token that offends.
LEMMA FailureReported ==
  ASSUME ScanInv, NEW z, FailureIs(text, z)
  PROVE  IF Offending = {} THEN z = None
         ELSE LET first == CHOOSE i \in Offending : \A j \in Offending : i <= j IN
           /\ z # None /\ z.index = first
           /\ z.kind = "number" /\ z.in_payload
                <=> text[first].token = "number" /\ InPayload(first)
<1>1. \A i : i \in Offending <=> i \in 1 .. Len(text) /\ Offends(text, i)
  BY TextIs DEF Offending
<1>2. Len(text) \in Nat /\ \A i : InPayload(i) <=> Below(text, i)
  BY TextIs
<1>3. CASE z = None
  <2>1. \A i \in 1 .. Len(text) : ~Offends(text, i)
    BY <1>3, ScanConstants DEF FailureIs, FailureRecord
  <2> QED
    BY <1>1, <1>3, <2>1
<1>4. CASE z # None
  <2>1. PICK i \in 1 .. Len(text) :
          /\ Offends(text, i) /\ \A j \in 1 .. Len(text) : Offends(text, j) => i <= j
          /\ z.index = i
          /\ z.kind = "number" /\ z.in_payload <=> text[i].token = "number" /\ Below(text, i)
    BY <1>4 DEF FailureIs
  <2> DEFINE first == CHOOSE m \in Offending : \A j \in Offending : m <= j
  <2>2. i \in Offending /\ \A j \in Offending : i <= j
    BY <1>1, <2>1
  <2>3. first \in Offending /\ \A j \in Offending : first <= j
    BY <2>2
  <2>4. first = i
    BY <1>1, <1>2, <2>2, <2>3
  <2> HIDE DEF first
  <2> QED
    BY <1>2, <1>4, <2>1, <2>2, <2>4 DEF first
<1> QED
  BY <1>3, <1>4

\* FirstDefectFixesTheCode, of texts of every length: both scanners report the
\* first offending token and its code.
THEOREM FirstDefectAlwaysFixesTheCode == Spec => []FirstDefectFixesTheCode
<1>1. ScanInv => FirstDefectFixesTheCode
  <2> SUFFICES ASSUME ScanInv PROVE FirstDefectFixesTheCode
    OBVIOUS
  <2>1. FailureIs(text, rs.failure) /\ FailureIs(text, ts.failure)
    BY DEF ScanInv, RsInv, TsInv
  <2> QED
    BY <2>1, FailureReported DEF FirstDefectFixesTheCode
<1> QED
  BY <1>1, ScanInvariant, PTL

\* The value that a scan keeps of a root member is that of its last spelling.
LEMMA ValueReported ==
  ASSUME ScanInv, NEW values, ValuesAre(text, values), NEW n \in Names \ {Ill}
  PROVE  LET spelled == {i \in DOMAIN text : IsRootMember(i, n)} IN
           /\ n \in DOMAIN values <=> spelled # {}
           /\ spelled # {} => values[n] = Probed(LastOf(spelled))
<1> DEFINE spelled == {i \in DOMAIN text : IsRootMember(i, n)}
<1>1. \A i : i \in spelled <=> i \in 1 .. Len(text) /\ Root(text, i, n)
  BY TextIs
<1>2. Len(text) \in Nat /\ \A i : Probed(i) = ProbedAs(text[i])
  BY TextIs
<1> HIDE DEF spelled
<1>3. CASE n \notin DOMAIN values /\ \A i \in 1 .. Len(text) : ~Root(text, i, n)
  BY <1>1, <1>3 DEF spelled
<1>4. CASE \E i \in 1 .. Len(text) :
             /\ Root(text, i, n) /\ \A j \in 1 .. Len(text) : Root(text, j, n) => j <= i
             /\ n \in DOMAIN values /\ values[n] = ProbedAs(text[i])
  <2>1. PICK i \in 1 .. Len(text) :
          /\ Root(text, i, n) /\ \A j \in 1 .. Len(text) : Root(text, j, n) => j <= i
          /\ n \in DOMAIN values /\ values[n] = ProbedAs(text[i])
    BY <1>4
  <2>2. spelled \in SUBSET Nat /\ i \in spelled /\ \A j \in spelled : j <= i
    BY <1>1, <1>2, <2>1
  <2>3. LastOf(spelled) = i
    BY <2>2, LastIs
  <2> QED
    BY <1>2, <2>1, <2>2, <2>3 DEF spelled
<1> QED
  BY <1>3, <1>4 DEF ValuesAre

\* CorrelationIsFinalSpelling, of texts of every length: what both scanners
\* keep of a root member is its last spelling.
THEOREM CorrelationIsAlwaysFinal == Spec => []CorrelationIsFinalSpelling
<1>1. ScanInv => CorrelationIsFinalSpelling
  <2> SUFFICES ASSUME ScanInv PROVE CorrelationIsFinalSpelling
    OBVIOUS
  <2>1. /\ ValuesAre(text, rs.values) /\ ValuesAre(text, ts.topLevelValues)
        /\ rs.safe <=> ~RootDefect(text)
        /\ ts.topLevelMemberNameUnicodeDefect <=> RootDefect(text)
    BY DEF ScanInv, RsInv, TsInv, RsMarks, TsMarks
  <2>2. RootDefect(text) <=> \E i \in DOMAIN text :
          text[i].token = "name" /\ text[i].value = Ill /\ Len(text[i].path) = 1
    BY TextIs DEF RootDefect
  <2>3. ASSUME NEW n \in Names \ {Ill}
        PROVE  LET spelled == {i \in DOMAIN text : IsRootMember(i, n)} IN
                 /\ n \in DOMAIN rs.values <=> spelled # {}
                 /\ n \in DOMAIN ts.topLevelValues <=> spelled # {}
                 /\ spelled # {} => /\ rs.values[n] = Probed(LastOf(spelled))
                                    /\ ts.topLevelValues[n] = Probed(LastOf(spelled))
    BY <2>1, ValueReported
  <2> QED
    BY <2>1, <2>2, <2>3 DEF CorrelationIsFinalSpelling
<1> QED
  BY <1>1, ScanInvariant, PTL

\* The codes directly in a root error.
CodesOf(last) ==
  {i \in DOMAIN text :
     /\ text[i].token \notin {"name", "close"}
     /\ text[i].path = <<1, last>> /\ text[last].value = "object"
     /\ text[i - 1].token = "name" /\ text[i - 1].value = "code"}

\* The code that a scan keeps is the last one of the last root error.
LEMMA CodeReported ==
  ASSUME ScanInv, NEW code, CodeIs(text, code)
  PROVE  LET errors == {i \in DOMAIN text : IsRootMember(i, "error")}
             codes == CodesOf(LastOf(errors))
         IN code = IF errors = {} \/ codes = {} THEN None
                   ELSE IF Probed(LastOf(codes)).type = "string"
                   THEN text[LastOf(codes)].value ELSE None
<1> DEFINE errors == {i \in DOMAIN text : IsRootMember(i, "error")}
           codes == CodesOf(LastOf(errors))
<1>1. \A i : i \in errors <=> i \in 1 .. Len(text) /\ Root(text, i, "error")
  BY TextIs
<1>2. Len(text) \in Nat /\ \A i : Probed(i) = ProbedAs(text[i])
  BY TextIs
<1>3. \A e, i : i \in CodesOf(e) <=> i \in 1 .. Len(text) /\ CodeOf(text, e, i)
  BY TextIs DEF CodesOf, CodeOf
<1> HIDE DEF errors
<1>4. CASE code = None /\ \A e \in 1 .. Len(text) : ~Root(text, e, "error")
  <2>1. errors = {}
    BY <1>1, <1>4
  <2> QED
    BY <1>4, <2>1 DEF errors
<1>5. CASE ~(code = None /\ \A e \in 1 .. Len(text) : ~Root(text, e, "error"))
  <2>1. PICK e \in 1 .. Len(text) :
          /\ Root(text, e, "error")
          /\ \A j \in 1 .. Len(text) : Root(text, j, "error") => j <= e
          /\ \/ code = None /\ \A i \in 1 .. Len(text) : ~CodeOf(text, e, i)
             \/ \E i \in 1 .. Len(text) :
                  /\ CodeOf(text, e, i)
                  /\ \A j \in 1 .. Len(text) : CodeOf(text, e, j) => j <= i
                  /\ code = IF ProbedAs(text[i]).type = "string" THEN text[i].value ELSE None
    BY <1>5 DEF CodeIs
  <2>2. errors \in SUBSET Nat /\ e \in errors /\ \A j \in errors : j <= e
    BY <1>1, <1>2, <2>1
  <2>3. LastOf(errors) = e
    BY <2>2, LastIs
  <2>4. \A i : i \in codes <=> i \in 1 .. Len(text) /\ CodeOf(text, e, i)
    BY <1>3, <2>3
  <2> HIDE DEF codes
  <2>5. CASE code = None /\ \A i \in 1 .. Len(text) : ~CodeOf(text, e, i)
    <3>1. codes = {}
      BY <2>4, <2>5
    <3> QED
      BY <2>5, <3>1 DEF codes, errors
  <2>6. CASE \E i \in 1 .. Len(text) :
               /\ CodeOf(text, e, i)
               /\ \A j \in 1 .. Len(text) : CodeOf(text, e, j) => j <= i
               /\ code = IF ProbedAs(text[i]).type = "string" THEN text[i].value ELSE None
    <3>1. PICK i \in 1 .. Len(text) :
            /\ CodeOf(text, e, i)
            /\ \A j \in 1 .. Len(text) : CodeOf(text, e, j) => j <= i
            /\ code = IF ProbedAs(text[i]).type = "string" THEN text[i].value ELSE None
      BY <2>6
    <3>2. codes \in SUBSET Nat /\ i \in codes /\ \A j \in codes : j <= i
      BY <1>2, <2>4, <3>1
    <3>3. LastOf(codes) = i
      BY <3>2, LastIs
    <3>4. errors # {} /\ codes # {}
      BY <2>2, <3>2
    <3>5. code = IF Probed(LastOf(codes)).type = "string" THEN text[LastOf(codes)].value
                 ELSE None
      BY <1>2, <3>1, <3>3
    <3> QED
      BY <3>4, <3>5 DEF codes, errors
  <2> QED
    BY <2>1, <2>5, <2>6
<1> QED
  BY <1>4, <1>5

\* ErrorCodeIsDirect, of texts of every length: both scanners keep the code
\* directly in the last root error.
THEOREM ErrorCodeIsAlwaysDirect == Spec => []ErrorCodeIsDirect
<1>1. ScanInv => ErrorCodeIsDirect
  <2> SUFFICES ASSUME ScanInv PROVE ErrorCodeIsDirect
    OBVIOUS
  <2>1. CodeIs(text, rs.error_code) /\ CodeIs(text, ts.errorCode)
    BY DEF ScanInv, RsInv, TsInv
  <2> QED
    BY <2>1, CodeReported DEF ErrorCodeIsDirect, CodesOf
<1> QED
  BY <1>1, ScanInvariant, PTL

\* PayloadBoundsAreMarked, of texts of every length and every depth limit: no
\* integer that does not fit and no container too deep goes unmarked.
THEOREM PayloadBoundsAreAlwaysMarked == Spec => []PayloadBoundsAreMarked
<1>1. ScanInv => PayloadBoundsAreMarked
  <2> SUFFICES ASSUME ScanInv PROVE PayloadBoundsAreMarked
    OBVIOUS
  <2>1. (rs.wide <=> Wide(text)) /\ (rs.deep <=> Deep(text))
    BY DEF ScanInv, RsInv, RsMarks
  <2> QED
    BY <2>1, TextIs DEF PayloadBoundsAreMarked, Wide, Deep
<1> QED
  BY <1>1, ScanInvariant, PTL
=============================================================================
