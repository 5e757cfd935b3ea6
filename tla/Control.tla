------------------------------- MODULE Control -------------------------------
(***************************************************************************)
(* The operator's control events (control.py): an append-only file, and    *)
(* the state a paper order is checked against, folded from the events of   *)
(* the order's symbol in the order of their timestamps.  An event's        *)
(* timestamp is --now or the clock, so the file need not be in time order. *)
(***************************************************************************)
EXTENDS Integers, Sequences, SequencesExt

CONSTANTS
  Symbols,      \* the traded symbols
  AllSymbols,   \* the scope of an event recorded without --symbol
  MaxLevel      \* bound: positions and caps are levels 0 .. MaxLevel

ASSUME MaxLevelAssumption == MaxLevel \in Nat
ASSUME ScopeAssumption == AllSymbols \notin Symbols

Levels == 0..MaxLevel
NoCap == -1
ControlActions ==
  {"PAUSE", "RESUME", "STOP_NEW_ENTRIES", "REDUCE_RISK", "EMERGENCY_STOP", "SET_MAX_POSITION"}
ControlEvent(Times) ==
  [action : ControlActions, scope : Symbols \cup {AllSymbols}, at : Times, cap : Levels]

InitialState ==
  [paused |-> FALSE, stop |-> FALSE, reduce |-> FALSE, emergency |-> FALSE, cap |-> NoCap]

\* A PAUSE only pauses, an EMERGENCY_STOP does everything, and a RESUME lifts
\* everything but the position cap.
MutApply(state, e) ==
  CASE e.action = "PAUSE"  -> [state EXCEPT !.paused = TRUE]
    [] e.action = "RESUME" -> [InitialState EXCEPT !.emergency = state.emergency, !.cap = state.cap]
    [] e.action = "STOP_NEW_ENTRIES" -> [state EXCEPT !.stop = TRUE]
    [] e.action = "REDUCE_RISK"      -> [state EXCEPT !.reduce = TRUE, !.stop = TRUE]
    [] e.action = "EMERGENCY_STOP"   ->
         [state EXCEPT !.emergency = TRUE, !.paused = TRUE, !.stop = TRUE, !.reduce = TRUE]
    [] e.action = "SET_MAX_POSITION" -> [state EXCEPT !.cap = e.cap]
Apply(state, e) ==
  CASE e.action = "PAUSE"  -> [state EXCEPT !.paused = TRUE]
    [] e.action = "RESUME" -> [InitialState EXCEPT !.cap = state.cap]
    [] e.action = "STOP_NEW_ENTRIES" -> [state EXCEPT !.stop = TRUE]
    [] e.action = "REDUCE_RISK"      -> [state EXCEPT !.reduce = TRUE, !.stop = TRUE]
    [] e.action = "EMERGENCY_STOP"   ->
         [state EXCEPT !.emergency = TRUE, !.paused = TRUE, !.stop = TRUE, !.reduce = TRUE]
    [] e.action = "SET_MAX_POSITION" -> [state EXCEPT !.cap = e.cap]

\* The events that concern s, in time order, those of one time in file order.
InScope(events, s) == {i \in DOMAIN events : events[i].scope \in {s, AllSymbols}}
Before(events, i, j) ==
  \/ events[i].at < events[j].at
  \/ events[i].at = events[j].at /\ i < j
\* The state after the last of them, which is applied to the state after the rest.
Newest(events, S) == CHOOSE i \in S : \A j \in S : j = i \/ Before(events, j, i)
CurrentState(events, s) ==
  MapThenFoldSet(LAMBDA i, state : Apply(state, events[i]), InitialState,
                 LAMBDA i : i, LAMBDA S : Newest(events, S), InScope(events, s))

\* Why an order with this action and target may not be created: the control
\* part of paper_order_control_block_reason.
Blocked(state, action, target) ==
  \/ state.emergency
  \/ state.paused
  \/ action = "BUY" /\ (state.stop \/ state.reduce)
  \/ action = "BUY" /\ state.cap # NoCap /\ target > state.cap
=============================================================================
