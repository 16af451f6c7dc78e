------------------------------- MODULE Tokens -------------------------------
(***************************************************************************)
(* What the two token scanners share: the value that stands for no value,  *)
(* the strings that no scanner decodes, and maps of the root's members.    *)
(***************************************************************************)
EXTENDS Naturals, Sequences, SequencesExt

CONSTANTS
  None,            \* Option::None, undefined
  Ill              \* a string token that is not well-formed Unicode

\* HashMap::insert, Map.set.
insert(map, key, value) ==
  [k \in DOMAIN map \cup {key} |-> IF k = key THEN value ELSE map[k]]
=============================================================================
