------------------------------ MODULE EventLog ------------------------------
(***************************************************************************)
(* What an event store promises: each stream is an append-only log.  A     *)
(* stream does not exist, or it is a sequence whose first entry is the     *)
(* base state and whose later entries are one change each, with times that *)
(* never run backwards.  Nothing but a deletion of the whole stream ever   *)
(* takes an entry away or changes it: not a crash, not a failed write, not *)
(* a change of the sealing key.                                            *)
(***************************************************************************)
EXTENDS Naturals, Sequences

CONSTANTS
  Streams,      \* stream ids
  Entries       \* records [ts |-> time, body |-> base state or change]

VARIABLE log    \* log[s]: the entries of s, << >> while s does not exist

Init == log = [s \in Streams |-> << >>]

(* A stream begins with its base state. *)
Create(s) ==
  /\ log[s] = << >>
  /\ \E e \in Entries : log' = [log EXCEPT ![s] = << e >>]

(* One more change, no earlier than the last one. *)
AppendTo(s) ==
  /\ log[s] # << >>
  /\ \E e \in Entries :
       /\ e.ts >= log[s][Len(log[s])].ts
       /\ log' = [log EXCEPT ![s] = Append(@, e)]

(* A stream goes as a whole. *)
Delete(s) == log' = [log EXCEPT ![s] = << >>]

Next == \E s \in Streams : Create(s) \/ AppendTo(s) \/ Delete(s)

Spec == Init /\ [][Next]_log
=============================================================================
