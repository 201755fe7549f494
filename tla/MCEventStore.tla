---------------------------- MODULE MCEventStore ----------------------------
(* Small instances of EventStore.  The codec is addition modulo the number *)
(* of states: every change tells every two states apart, so replaying from *)
(* a wrong base or with a change missing always shows.                     *)
EXTENDS EventStore

AddModulo(state, p) == (state + p) % Cardinality(States)
=============================================================================
