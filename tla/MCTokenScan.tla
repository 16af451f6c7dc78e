---------------------------- MODULE MCTokenScan ----------------------------
(***************************************************************************)
(* Instance of TokenScan: the member names the scanners treat specially,   *)
(* one that stands for the correlation members, and an ill-formed one.     *)
(***************************************************************************)
EXTENDS TokenScan

MCNames == {"payload", "error", "code", "kind", Ill}

MCStrings == {"x", Ill}
=============================================================================
