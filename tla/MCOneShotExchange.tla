------------------------- MODULE MCOneShotExchange -------------------------
(* Instances of OneShotExchange: calls that share one event id, with       *)
(* identical and with conflicting signals.                                 *)
EXTENDS OneShotExchange

CONSTANTS a, a2

MCEventOf == [s \in Signal |-> "event"]
=============================================================================
