---------------------------- MODULE SecondWriter ----------------------------
(***************************************************************************)
(* Two requests of the server, each a thread, append to one stream.  The   *)
(* lock that serialises writers belongs to an EventStore; which EventStore *)
(* a request gets is decided by DatabaseManager.events, which looks the    *)
(* database up in a dict and, some time later, puts a new store there.     *)
(*                                                                         *)
(* EventStore models what one store does under its lock.  Here an append   *)
(* is the three storage accesses that matter between two stores: the tail  *)
(* is read, the slot is checked, the record is put.                        *)
(***************************************************************************)
EXTENDS Integers

CONSTANTS
  Threads,    \* requests; a thread that makes an EventStore names it
  MaxSeq,     \* bound: the last sequence number explored
  None        \* absent

Seqs == 0 .. MaxSeq

VARIABLES
  shared,     \* _event_stores[name]
  store,      \* the EventStore each thread was given
  lock,       \* the thread that holds each store's _lock
  tail,       \* _tails of each store: the last sequence number it knows
  slot,       \* each thread's seq, one past the tail it saw
  blocks,     \* the event block at each number: whose event it is
  stage,      \* how far each thread is
  acked       \* events whose append returned: [seq, by]

vars == <<shared, store, lock, tail, slot, blocks, stage, acked>>

(* The stream exists: its base is event 0. *)
Idle ==
  /\ store = [w \in Threads |-> None]
  /\ lock = [i \in Threads |-> None]
  /\ tail = [i \in Threads |-> None]
  /\ slot = [w \in Threads |-> None]
  /\ blocks = [n \in Seqs |-> IF n = 0 THEN "base" ELSE None]
  /\ stage = [w \in Threads |-> "asking"]
  /\ acked = {}

Init == shared = None /\ Idle

Goes(w, next) == stage' = [stage EXCEPT ![w] = next]

(* DatabaseManager.events: a store that is there is shared. *)
Lookup(w) ==
  /\ stage[w] = "asking"
  /\ IF shared # None
     THEN store' = [store EXCEPT ![w] = shared] /\ Goes(w, "idle")
     ELSE Goes(w, "building") /\ UNCHANGED store
  /\ UNCHANGED <<shared, lock, tail, slot, blocks, acked>>

Build(w) ==
  /\ stage[w] = "building"
  /\ shared' = w
  /\ store' = [store EXCEPT ![w] = w]
  /\ Goes(w, "idle")
  /\ UNCHANGED <<lock, tail, slot, blocks, acked>>

(* append: the lock, then the tail, from the cache or the whole log. *)
LastSeq == CHOOSE n \in Seqs : blocks[n] # None /\ \A m \in Seqs : m > n => blocks[m] = None

LockFree(i) == lock[i] = None

Begin(w) ==
  /\ stage[w] = "idle"
  /\ LockFree(store[w])
  /\ lock' = [lock EXCEPT ![store[w]] = w]
  /\ LET last == IF tail[store[w]] = None THEN LastSeq ELSE tail[store[w]]
     IN /\ last < MaxSeq
        /\ tail' = [tail EXCEPT ![store[w]] = last]
        /\ slot' = [slot EXCEPT ![w] = last + 1]
  /\ Goes(w, "checking")
  /\ UNCHANGED <<shared, store, blocks, acked>>

Release(w) == lock' = [lock EXCEPT ![store[w]] = None]

(* _put: storage.exists, and ConcurrencyError if it does. *)
CheckSlot(w) ==
  /\ stage[w] = "checking"
  /\ IF blocks[slot[w]] = None
     THEN Goes(w, "putting") /\ UNCHANGED <<tail, lock>>
     ELSE Goes(w, "idle") /\ Release(w) /\ tail' = [tail EXCEPT ![store[w]] = None]
  /\ UNCHANGED <<shared, store, slot, blocks, acked>>

(* _put: storage.put, which overwrites a block that is there by now. *)
Put(w) ==
  /\ stage[w] = "putting"
  /\ blocks' = [blocks EXCEPT ![slot[w]] = w]
  /\ tail' = [tail EXCEPT ![store[w]] = slot[w]]
  /\ acked' = acked \cup {[seq |-> slot[w], by |-> w]}
  /\ Release(w)
  /\ Goes(w, "idle")
  /\ UNCHANGED <<shared, store, slot>>

Next == \E w \in Threads : Lookup(w) \/ Build(w) \/ Begin(w) \/ CheckSlot(w) \/ Put(w)
Spec == Init /\ [][Next]_vars

(* A request before these has used the database: its store is shared.      *)
Opened == shared \in Threads /\ Idle
OpenedSpec == Opened /\ [][Next]_vars

-----------------------------------------------------------------------------
(* An event whose append returned is never overwritten by another writer:  *)
(* store.py says that a second writer "would be caught by the sequence     *)
(* check and raise ConcurrencyError rather than overwrite an event".       *)
NothingOverwritten == \A a \in acked : blocks[a.seq] = a.by

(* With one EventStore per database, as manager.py has it, the check never *)
(* finds a block in its slot: no append is refused for another's.          *)
NobodyRefused == \A w \in Threads : stage[w] = "checking" => blocks[slot[w]] = None
=============================================================================
