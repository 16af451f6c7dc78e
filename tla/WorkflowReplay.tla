--------------------------- MODULE WorkflowReplay ---------------------------
(***************************************************************************)
(* WorkflowState::replay as the loop the code runs: a map from event id to *)
(* signal, grown by `apply`, which refuses an id it already holds.  The    *)
(* loop is checked against the closed form WorkflowCore uses for it, and   *)
(* `decide` and `reconcile` against each other along every history.  The   *)
(* entries come from the store: StoreImageMatrix composes the two.         *)
(***************************************************************************)
EXTENDS WorkflowCore

CONSTANTS
  Signals,        \* the signals that occur, as SignalParts records
  Expected,       \* the assignment the shell is bound to
  ApplyError      \* the result of a failed apply

ASSUME SignalsValid == \A s \in Signals : validate(s)

EventIds == {s.event_id : s \in Signals}

\* No map of accepted signals is mistaken for one of the two constants.
ASSUME ReplayConstants ==
  /\ None # ApplyError
  /\ \A ids \in SUBSET EventIds :
       None \notin [ids -> Signals] /\ ApplyError \notin [ids -> Signals]

VARIABLES
  events,         \* the events the loop has consumed
  state           \* WorkflowState.accepted, or ApplyError; None: no replay yet

lookup(event_id) == IF event_id \in DOMAIN state THEN {state[event_id]} ELSE {}

NoReplay == events = <<>> /\ state = None

NewState ==
  /\ state = None
  /\ state' = [id \in {} |-> None]
  /\ UNCHANGED events

\* The map with one more signal in it.
insert(map, signal) ==
  [id \in DOMAIN map \cup {signal.event_id} |->
     IF id = signal.event_id THEN signal ELSE map[id]]

\* Faulty variant of Apply: it lets the later signal overwrite the earlier one.
ApplyOverwrites(signal) ==
  /\ state \notin {None, ApplyError}
  /\ events' = Append(events, signal)
  /\ state' = insert(state, signal)

\* One iteration of the loop; after an error replay has returned.
Apply(signal) ==
  /\ state \notin {None, ApplyError}
  /\ events' = Append(events, signal)
  /\ state' = IF signal.event_id \in DOMAIN state
              THEN ApplyError
              ELSE insert(state, signal)

-----------------------------------------------------------------------------
\* The map the loop builds is the closed form: replay fails exactly when an
\* event id repeats, and otherwise WorkflowState::accepted finds exactly the
\* signal the history holds (state.rs replay, apply, accepted).
ReplayMatchesHistory ==
  CASE state = None -> TRUE
    [] state = ApplyError -> ~replay_ok(events)
    [] OTHER ->
       /\ replay_ok(events)
       /\ \A s \in Signals : lookup(s.event_id) = accepted(events, s.event_id)

\* A submission and a reconciliation of the same signal against the same
\* history never tell the caller contradictory things: a signal the decider
\* would accept is absent, a duplicate is accepted, a conflicting id is a
\* conflict (decision.rs and recovery/mod.rs).
DecideAgreesWithReconcile ==
  state \notin {None, ApplyError} =>
    \A s \in Signals :
      check_expected(s, Expected) = "OK" =>
        decide(events, s, Expected) =
          CASE reconcile(events, s) = "absent"   -> "ACCEPTED"
            [] reconcile(events, s) = "accepted" -> "DUPLICATE"
            [] reconcile(events, s) = "conflict" -> "EVENT_CONFLICT"
=============================================================================
