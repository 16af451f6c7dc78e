---------------------------- MODULE MCDshAdapter ----------------------------
(* Instance of DshAdapter.  The journal may hold other event ids than that *)
(* of the configuration; no call of the adapter names one.                 *)
EXTENDS DshAdapter

MCArgs ==
  {Malformed} \cup
  {[kind |-> k, findingCount |-> n] :
     <<k, n>> \in {<<"repair_submitted", 1>>, <<"repair_submitted", 0>>,
                   <<"implementation_ready", None>>, <<"blocked", None>>,
                   <<"review_findings", 1>>, <<"review_passed", 0>>,
                   <<"review_passed", Big>>, <<"review_passed", Negative>>}}

MCSignal ==
  [event_id : {EventId} \cup Core!SignalKind, role : Core!Role, ids : BOOLEAN,
   kind : Core!SignalKind, finding_count : {None, 0, 1},
   artifact_ref : {None, "good"}, short_error_code : {None, "good"}]

MCEventOf == [s \in Signal |-> s.event_id]
=============================================================================
