-------------------------- MODULE SecondWriterProofs --------------------------
(***************************************************************************)
(* What the requests of a server need so that no append overwrites         *)
(* another's event: one EventStore, made before any of them asks for it.   *)
(* Proved for any number of requests and of events.                        *)
(***************************************************************************)
EXTENDS SecondWriter, TLAPS

(* What is no request, no number and no event.                             *)
Absent == None \notin Threads \cup Seqs \cup {"base"}

-----------------------------------------------------------------------------
(* Everyone has the shared store, or none yet; who is within append holds  *)
(* its lock; the log has no gap, the store knows its end if it knows a     *)
(* tail, and the number an append was given is the next one.               *)

Inside(w) == stage[w] \in {"checking", "putting"}
EndsAt(last) == \A n \in Seqs : blocks[n] # None <=> n <= last
Types ==
  /\ shared \in Threads
  /\ store \in [Threads -> {shared, None}]
  /\ lock \in [Threads -> Threads \cup {None}]
  /\ tail \in [Threads -> Seqs \cup {None}]
  /\ slot \in [Threads -> Seqs \cup {None}]
  /\ blocks \in [Seqs -> Threads \cup {"base", None}]
  /\ stage \in [Threads -> {"asking", "idle", "checking", "putting"}]
  /\ acked \subseteq [seq : Seqs, by : Threads]
OneLock ==
  \A w \in Threads : /\ stage[w] # "asking" => store[w] = shared
                     /\ Inside(w) => lock[shared] = w
NextNumber ==
  \E last \in Seqs : /\ EndsAt(last)
                     /\ tail[shared] \in {None, last} \/ \E w \in Threads : Inside(w)
                     /\ \A w \in Threads : Inside(w) => slot[w] = last + 1 /\ slot[w] \in Seqs /\ tail[shared] = last
Inv == Types /\ OneLock /\ NextNumber /\ NothingOverwritten

LEMMA InvInit ==
  ASSUME Absent, MaxSeq \in Nat, Opened
  PROVE  Inv
<1>1. 0 \in Seqs /\ Seqs \subseteq Nat
  BY DEF Seqs
<1>2. Types
  BY <1>1 DEF Opened, Idle, Types
<1>3. OneLock
  BY DEF Opened, Idle, OneLock, Inside
<1>4. NextNumber
  <2>1. EndsAt(0)
    BY <1>1 DEF EndsAt, Absent, Opened, Idle
  <2>2. tail[shared] = None
    BY DEF Opened, Idle
  <2>3. \A w \in Threads : ~Inside(w)
    BY DEF Inside, Opened, Idle
  <2> QED
    BY <1>1, <2>1, <2>2, <2>3 DEF NextNumber
<1>5. NothingOverwritten
  BY DEF Opened, Idle, NothingOverwritten
<1> QED
  BY <1>2, <1>3, <1>4, <1>5 DEF Inv

(* The last event is the one the log ends with.                            *)
LEMMA LastIs ==
  ASSUME MaxSeq \in Nat, NEW last \in Seqs, EndsAt(last)
  PROVE  LastSeq = last
<1>1. Seqs \subseteq Nat
  BY DEF Seqs
<1>2. blocks[last] # None /\ \A m \in Seqs : m > last => blocks[m] = None
  BY <1>1 DEF EndsAt
<1>3. ASSUME NEW n \in Seqs, blocks[n] # None, \A m \in Seqs : m > n => blocks[m] = None
      PROVE  n = last
  BY <1>1, <1>2, <1>3
<1> QED
  BY <1>2, <1>3 DEF LastSeq

-----------------------------------------------------------------------------
(* One lemma per step.                                                     *)

LEMMA LookupStep ==
  ASSUME Absent, MaxSeq \in Nat, Inv, NEW w \in Threads, Lookup(w)
  PROVE  Inv'
<1>1. /\ stage[w] = "asking"
      /\ store' = [store EXCEPT ![w] = shared] /\ stage' = [stage EXCEPT ![w] = "idle"]
      /\ UNCHANGED <<shared, lock, tail, slot, blocks, acked>>
  BY DEF Lookup, Goes, Inv, Types, Absent
<1>2. Types'
  BY <1>1 DEF Inv, Types
<1>3. \A v \in Threads : Inside(v)' <=> Inside(v)
  BY <1>1 DEF Inv, Types, Inside
<1>4. OneLock'
  BY <1>1, <1>3 DEF Inv, Types, OneLock
<1>5. NextNumber'
  BY <1>1, <1>3 DEF Inv, NextNumber, EndsAt
<1>6. NothingOverwritten'
  BY <1>1 DEF Inv, NothingOverwritten
<1> QED
  BY <1>2, <1>4, <1>5, <1>6 DEF Inv

LEMMA BeginStep ==
  ASSUME Absent, MaxSeq \in Nat, Inv, NEW w \in Threads, Begin(w)
  PROVE  Inv'
<1>1. stage[w] = "idle" /\ store[w] = shared /\ lock[shared] = None
  BY DEF Begin, LockFree, Inv, OneLock
<1>2. \A v \in Threads : ~Inside(v)
  BY <1>1 DEF Inv, OneLock, Absent
<1>3. PICK last \in Seqs : EndsAt(last) /\ tail[shared] \in {None, last}
  BY <1>2 DEF Inv, NextNumber
<1>4. /\ last < MaxSeq
      /\ lock' = [lock EXCEPT ![shared] = w]
      /\ tail' = [tail EXCEPT ![shared] = last]
      /\ slot' = [slot EXCEPT ![w] = last + 1]
      /\ stage' = [stage EXCEPT ![w] = "checking"]
      /\ UNCHANGED <<shared, store, blocks, acked>>
  BY <1>1, <1>3, LastIs DEF Begin, Goes
<1>5. last + 1 \in Seqs
  BY <1>4 DEF Seqs
<1>6. Types'
  BY <1>4, <1>5 DEF Inv, Types
<1>7. \A v \in Threads : Inside(v)' <=> v = w
  BY <1>2, <1>4 DEF Inv, Types, Inside
<1>8. OneLock'
  BY <1>1, <1>4, <1>7 DEF Inv, Types, OneLock
<1>9. NextNumber'
  <2>1. EndsAt(last)'
    BY <1>3, <1>4 DEF EndsAt
  <2>2. tail'[shared'] = last /\ slot'[w] = last + 1
    BY <1>4 DEF Inv, Types
  <2> QED
    BY <1>5, <1>7, <2>1, <2>2 DEF NextNumber
<1>10. NothingOverwritten'
  BY <1>4 DEF Inv, NothingOverwritten
<1> QED
  BY <1>6, <1>8, <1>9, <1>10 DEF Inv

(* Who checks finds the slot free: nothing is put past the end of the log. *)
LEMMA SlotFree ==
  ASSUME MaxSeq \in Nat, Inv, NEW w \in Threads, Inside(w)
  PROVE  /\ lock[shared] = w /\ store[w] = shared
         /\ slot[w] \in Seqs /\ blocks[slot[w]] = None
<1>1. PICK last \in Seqs : EndsAt(last) /\ slot[w] = last + 1 /\ slot[w] \in Seqs
  BY DEF Inv, NextNumber
<1>2. ~(last + 1 <= last)
  BY DEF Seqs
<1> QED
  BY <1>1, <1>2 DEF Inv, OneLock, Inside, EndsAt

LEMMA CheckStep ==
  ASSUME Absent, MaxSeq \in Nat, Inv, NEW w \in Threads, CheckSlot(w)
  PROVE  Inv'
<1>1. stage[w] = "checking" /\ Inside(w)
  BY DEF CheckSlot, Inside
<1>2. /\ stage' = [stage EXCEPT ![w] = "putting"]
      /\ UNCHANGED <<tail, lock, shared, store, slot, blocks, acked>>
  BY <1>1, SlotFree DEF CheckSlot, Goes
<1>3. Types'
  BY <1>2 DEF Inv, Types
<1>4. \A v \in Threads : Inside(v)' <=> Inside(v)
  BY <1>1, <1>2 DEF Inv, Types, Inside
<1>5. OneLock'
  BY <1>1, <1>2, <1>4 DEF Inv, Types, OneLock
<1>6. NextNumber'
  BY <1>2, <1>4 DEF Inv, NextNumber, EndsAt
<1>7. NothingOverwritten'
  BY <1>2 DEF Inv, NothingOverwritten
<1> QED
  BY <1>3, <1>5, <1>6, <1>7 DEF Inv

LEMMA PutStep ==
  ASSUME Absent, MaxSeq \in Nat, Inv, NEW w \in Threads, Put(w)
  PROVE  Inv'
<1>1. Inside(w)
  BY DEF Put, Inside
<1>2. lock[shared] = w /\ store[w] = shared /\ slot[w] \in Seqs /\ blocks[slot[w]] = None
  BY <1>1, SlotFree
<1>3. PICK last \in Seqs : EndsAt(last) /\ slot[w] = last + 1
  BY <1>1 DEF Inv, NextNumber
<1>4. /\ blocks' = [blocks EXCEPT ![slot[w]] = w]
      /\ tail' = [tail EXCEPT ![shared] = slot[w]]
      /\ acked' = acked \cup {[seq |-> slot[w], by |-> w]}
      /\ lock' = [lock EXCEPT ![shared] = None]
      /\ stage' = [stage EXCEPT ![w] = "idle"]
      /\ UNCHANGED <<shared, store, slot>>
  BY <1>2 DEF Put, Release, Goes
<1>5. Types'
  BY <1>2, <1>4 DEF Inv, Types
<1>6. \A v \in Threads : ~Inside(v)'
  BY <1>2, <1>4 DEF Inv, Types, OneLock, Inside
<1>7. OneLock'
  BY <1>2, <1>4, <1>6 DEF Inv, Types, OneLock
<1>8. NextNumber'
  <2>1. blocks' \in [Seqs -> Threads \cup {"base", None}] /\ w # None
    BY <1>5 DEF Types, Absent
  <2>2. ASSUME NEW n \in Seqs
        PROVE  blocks'[n] # None <=> n <= slot[w]
    <3>1. n \in Nat /\ last \in Nat
      BY DEF Seqs
    <3>2. CASE n = slot[w]
      BY <1>2, <1>3, <1>4, <2>1, <3>1, <3>2 DEF Inv, Types
    <3>3. CASE n # slot[w]
      BY <1>3, <1>4, <3>1, <3>3 DEF Inv, Types, EndsAt
    <3> QED
      BY <3>2, <3>3
  <2>3. EndsAt(slot[w])'
    BY <1>4, <2>2 DEF EndsAt
  <2>4. tail'[shared'] = slot[w]
    BY <1>4 DEF Inv, Types
  <2> QED
    BY <1>2, <1>4, <1>6, <2>2, <2>4 DEF NextNumber, EndsAt
<1>9. NothingOverwritten'
  <2>1. ASSUME NEW a \in acked
        PROVE  blocks'[a.seq] = a.by
    <3>1. blocks[a.seq] = a.by /\ a.by \in Threads /\ a.seq \in Seqs
      BY DEF Inv, Types, NothingOverwritten
    <3>2. a.seq # slot[w]
      BY <1>2, <3>1 DEF Absent
    <3> QED
      BY <1>4, <3>1, <3>2 DEF Inv, Types
  <2>2. blocks'[slot[w]] = w
    BY <1>2, <1>4 DEF Inv, Types
  <2> QED
    BY <1>4, <2>1, <2>2 DEF NothingOverwritten
<1> QED
  BY <1>5, <1>7, <1>8, <1>9 DEF Inv

-----------------------------------------------------------------------------
(* Once a database has its one EventStore, no append overwrites another's  *)
(* event and none is refused for another's, however many requests append.  *)
(* What SecondWriter's run finds needs two stores: the lookup and the      *)
(* store of DatabaseManager.events, which no lock joins, are all there is  *)
(* to mend.                                                                *)
THEOREM OneStoreSuffices ==
  ASSUME Absent, MaxSeq \in Nat
  PROVE  OpenedSpec => [](NothingOverwritten /\ NobodyRefused)
<1>1. Opened => Inv
  BY InvInit
<1>2. Inv /\ [Next]_vars => Inv'
  <2> SUFFICES ASSUME Inv, [Next]_vars
               PROVE  Inv'
    OBVIOUS
  <2>1. ASSUME NEW w \in Threads, Build(w)
        PROVE  FALSE
    BY <2>1 DEF Build, Inv, Types
  <2>2. CASE UNCHANGED vars
    BY <2>2 DEF vars, Inv, Types, OneLock, NextNumber, EndsAt, Inside, NothingOverwritten
  <2> QED
    BY <2>1, <2>2, LookupStep, BeginStep, CheckStep, PutStep DEF Next
<1>3. Inv => NothingOverwritten /\ NobodyRefused
  BY SlotFree DEF Inv, NobodyRefused, Inside
<1> QED
  BY <1>1, <1>2, <1>3, PTL DEF OpenedSpec
=============================================================================
