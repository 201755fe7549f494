-------------------------- MODULE EventStoreProofs --------------------------
(***************************************************************************)
(* Proofs about EventStore, for every set of streams, keys and readers and *)
(* every value of the bounds.                                              *)
(***************************************************************************)
EXTENDS EventStore, TLAPS, SequenceTheorems

-----------------------------------------------------------------------------
(* What a few operators return.                                            *)

(* Writing one block changes that block and no other. *)
LEMMA OneBlock ==
  ASSUME NEW V, NEW f \in [Streams -> [Seqs -> V]], NEW s \in Streams, NEW n \in Seqs, NEW v \in V,
         NEW g, g = [f EXCEPT ![s][n] = v]
  PROVE  /\ g \in [Streams -> [Seqs -> V]]
         /\ g[s][n] = v
         /\ \A x \in Streams, m \in Seqs : x # s \/ m # n => g[x][m] = f[x][m]
OBVIOUS

(* Every cursor that is not idle names a stream, a key and a target; one   *)
(* past the base also has a position, a time and a state.                  *)
LEMMA CursorFields ==
  ASSUME NEW cur \in Cursor, cur # IdleCursor
  PROVE  /\ cur.stage \in {"listed", "based", "replay", "done"}
         /\ cur.s \in Streams /\ cur.at \in Times \cup {None}
         /\ cur.key \in Keys /\ cur.target \in Seqs
         /\ cur.stage # "listed" => cur.n \in Seqs /\ cur.ts \in Times /\ cur.state \in States
BY DEF Cursor

(* A cursor that moved on is a cursor. *)
LEMMA AdvanceType ==
  ASSUME NEW s \in Streams, NEW at \in Times \cup {None}, NEW key \in Keys,
         NEW target \in Seqs, NEW n \in Seqs, NEW ts \in Times, NEW state \in States,
         NEW cur, cur.s = s, cur.at = at, cur.key = key, cur.target = target
  PROVE  Advance(cur, n, ts, state) \in Cursor
BY DEF Advance, Cursor

(* Caching a tail leaves a cache of tails. *)
LEMMA RememberType ==
  ASSUME TypeOK, NEW s \in Streams, NEW entry \in TailRecord, Remember(s, entry)
  PROVE  tail' \in [Streams -> TailRecord \cup {None}]
BY DEF TypeOK, Remember

(* A replay begins at an event the stream has. *)
LEMMA StartReplayType ==
  ASSUME TypeOK, NEW c \in Callers, NEW s \in Streams, NEW at \in Times \cup {None},
         NEW seq \in Seqs \cup {None}, StartReplay(c, s, at, seq)
  PROVE  cursors' \in [Callers -> Cursor]
BY NoneAssumption DEF TypeOK, StartReplay, Cursor

(* A replay that raises. *)
LEMMA RaiseType ==
  ASSUME TypeOK, NEW c \in Callers, Raise(c), UNCHANGED <<storage, config, process, truth>>
  PROVE  TypeOK'
<1>1. IdleCursor \in Cursor /\ FreeLock \in Job
  BY DEF Cursor, Job
<1> QED
  BY <1>1 DEF Raise, TypeOK, storage, process

(* The initial state has its type. *)
LEMMA TypeInit == Init => TypeOK
<1> SUFFICES ASSUME Init PROVE TypeOK
  OBVIOUS
<1>1. 0 \in Seqs
  BY BoundsAssumption DEF Seqs
<1>2. FreeLock \in Job /\ IdleCursor \in Cursor
  BY DEF Job, Cursor
<1> QED
  BY <1>1, <1>2 DEF Init, TypeOK, NoBlocks

(* Every step keeps it. *)
LEMMA TypeNext == TypeOK /\ [Next]_vars => TypeOK'
<1> SUFFICES ASSUME TypeOK, [Next]_vars
             PROVE  TypeOK'
  OBVIOUS
<1> USE NoneAssumption, BoundsAssumption
<1>1. CASE KeyChecked
  BY <1>1 DEF KeyChecked, TypeOK, VerifiedNow
<1>2. ASSUME NEW s \in Streams, CreateKeyCheck(s)
      PROVE  TypeOK'
  BY <1>2 DEF CreateKeyCheck, TypeOK, Job
<1>3. ASSUME NEW s \in Streams, NEW state \in States, NEW ts \in Stamps(None),
             CreateStream(s, state, ts)
      PROVE  TypeOK'
  <2>1. ts \in Times
    BY DEF Stamps
  <2>2. 0 \in Seqs
    BY DEF Seqs
  <2>3. [seq |-> 0, ts |-> ts, state |-> state] \in TailRecord
    BY <2>1, <2>2 DEF TailRecord
  <2>4. tail' \in [Streams -> TailRecord \cup {None}]
    BY <1>3, <2>3, RememberType DEF CreateStream
  <2>5. [key |-> master, ts |-> ts, body |-> state] \in EventRecord
    BY <2>1 DEF EventRecord, TypeOK
  <2>6. [ts |-> ts, state |-> state] \in Moment
    BY <2>1 DEF Moment
  <2>7. evt' \in [Streams -> [Seqs -> EventRecord \cup {None}]]
    BY <1>3, <2>2, <2>5 DEF CreateStream, TypeOK
  <2>8. truth' \in [Streams -> [Seqs -> Moment \cup {None}]]
    BY <1>3, <2>2, <2>6 DEF CreateStream, TypeOK, NoBlocks
  <2>9. /\ \A x \in Streams : evt'[x][0] # None => evt'[x][0].body \in States
        /\ \A x \in Streams, n \in Seqs :
             n > 0 /\ evt'[x][n] # None => evt'[x][n].body \in Payloads
    BY <1>3, <2>2, <2>5 DEF CreateStream, TypeOK
  <2> QED
    BY <1>3, <2>4, <2>7, <2>8, <2>9 DEF CreateStream, TypeOK, VerifiedNow, Job
<1>4. ASSUME NEW c \in Callers, OpenBase(c)
      PROVE  TypeOK'
  <2> DEFINE cur == cursors[c]
             block == evt[cur.s][0]
  <2>1. /\ cur.s \in Streams /\ cur.at \in Times \cup {None}
        /\ cur.key \in Keys /\ cur.target \in Seqs
    BY <1>4, CursorFields DEF OpenBase, TypeOK, IdleCursor
  <2>2. 0 \in Seqs
    BY DEF Seqs
  <2>3. CASE Opens(block, cur.key) /\ InTime(cur, block.ts)
    <3>1. block.ts \in Times /\ block.body \in States
      BY <2>1, <2>2, <2>3 DEF Opens, TypeOK, EventRecord
    <3>2. [stage |-> "based", s |-> cur.s, at |-> cur.at, key |-> cur.key,
           target |-> cur.target, n |-> 0, ts |-> block.ts, state |-> block.body] \in Cursor
      BY <2>1, <2>2, <3>1 DEF Cursor
    <3>3. /\ UNCHANGED job
          /\ cursors' = [cursors EXCEPT ![c] =
               [stage |-> "based", s |-> cur.s, at |-> cur.at, key |-> cur.key,
                target |-> cur.target, n |-> 0, ts |-> block.ts, state |-> block.body]]
      BY <1>4, <2>3 DEF OpenBase
    <3>4. cursors' \in [Callers -> Cursor]
      BY <3>2, <3>3 DEF TypeOK
    <3> QED
      BY <1>4, <3>3, <3>4 DEF OpenBase, TypeOK, storage, process
  <2> QED
    BY <1>4, <2>3, RaiseType DEF OpenBase
<1>5. ASSUME NEW c \in Callers, PickSnapshot(c)
      PROVE  TypeOK'
  <2> DEFINE cur == cursors[c]
             blocks == snp[cur.s]
  <2>1. /\ cur.s \in Streams /\ cur.at \in Times \cup {None}
        /\ cur.key \in Keys /\ cur.target \in Seqs
        /\ cur.n \in Seqs /\ cur.ts \in Times /\ cur.state \in States
    BY <1>5, CursorFields DEF PickSnapshot, TypeOK, IdleCursor
  <2>2. 0 \in Seqs
    BY DEF Seqs
  <2>3. CASE Deciding(cur) = {}
             /\ cursors' = [cursors EXCEPT ![c] = Advance(cur, 0, cur.ts, cur.state)]
             /\ UNCHANGED job
    <3>1. Advance(cur, 0, cur.ts, cur.state) \in Cursor
      BY <2>1, <2>2, AdvanceType
    <3> QED
      BY <1>5, <2>3, <3>1 DEF PickSnapshot, TypeOK, storage, process
  <2>4. ASSUME NEW n \in Deciding(cur), Opens(blocks[n], cur.key),
               cursors' = [cursors EXCEPT ![c] = Advance(cur, n, blocks[n].ts, blocks[n].body)],
               UNCHANGED job
        PROVE  TypeOK'
    <3>1. n \in Seqs /\ blocks[n].ts \in Times /\ blocks[n].body \in States
      BY <2>1, <2>4 DEF Deciding, Opens, TypeOK, SnapshotRecord
    <3>2. Advance(cur, n, blocks[n].ts, blocks[n].body) \in Cursor
      BY <2>1, <3>1, AdvanceType
    <3> QED
      BY <1>5, <2>4, <3>2 DEF PickSnapshot, TypeOK, storage, process
  <2> QED
    BY <1>5, <2>3, <2>4, RaiseType DEF PickSnapshot
<1>6. ASSUME NEW c \in Callers, ReplayEvent(c)
      PROVE  TypeOK'
  <2> DEFINE cur == cursors[c]
             block == evt[cur.s][cur.n + 1]
             state == Apply(cur.state, block.body)
  <2>1. /\ cur.s \in Streams /\ cur.at \in Times \cup {None}
        /\ cur.key \in Keys /\ cur.target \in Seqs
        /\ cur.n \in Seqs /\ cur.ts \in Times /\ cur.state \in States
    BY <1>6, CursorFields DEF ReplayEvent, TypeOK, IdleCursor
  <2>2. ASSUME cursors' = [cursors EXCEPT ![c].stage = "done"], UNCHANGED job
        PROVE  TypeOK'
    <3> DEFINE Open == [stage : {"based", "replay", "done"}, s : Streams,
                        at : Times \cup {None}, key : Keys, target : Seqs,
                        n : Seqs, ts : Times, state : States]
    <3>1. [cur EXCEPT !.stage = "done"] \in Cursor
      <4>1. cur \in Open
        BY <1>6 DEF ReplayEvent, TypeOK, Cursor, IdleCursor
      <4>2. [cur EXCEPT !.stage = "done"] \in Open
        BY <4>1
      <4> QED
        BY <4>2 DEF Cursor
    <3> QED
      BY <1>6, <2>2, <3>1 DEF ReplayEvent, TypeOK, storage, process
  <2>3. ASSUME Opens(block, cur.key), state # None,
               cursors' = [cursors EXCEPT ![c] = Advance(cur, cur.n + 1, block.ts, state)],
               UNCHANGED job
        PROVE  TypeOK'
    <3>1. cur.n + 1 \in Seqs
      BY <1>6, <2>1 DEF ReplayEvent, Seqs
    <3>2. block.ts \in Times /\ block.body \in Payloads
      BY <2>1, <2>3, <3>1 DEF Opens, TypeOK, EventRecord, Seqs
    <3>3. state \in States
      BY <2>1, <2>3, <3>2, CodecAssumption
    <3>4. Advance(cur, cur.n + 1, block.ts, state) \in Cursor
      BY <2>1, <3>1, <3>2, <3>3, AdvanceType
    <3> QED
      BY <1>6, <2>3, <3>4 DEF ReplayEvent, TypeOK, storage, process
  <2> QED
    BY <1>6, <2>2, <2>3, RaiseType DEF ReplayEvent
<1>7. ASSUME NEW r \in Readers, NEW s \in Streams, NEW at \in Times \cup {None},
             NEW seq \in Seqs \cup {None}, ReadBegin(r, s, at, seq)
      PROVE  TypeOK'
  <2>1. cursors' \in [Callers -> Cursor]
    BY <1>7, StartReplayType DEF ReadBegin, Callers
  <2> QED
    BY <1>7, <2>1 DEF ReadBegin, TypeOK, storage, VerifiedNow
<1>8. ASSUME NEW r \in Readers, ReadEnd(r)
      PROVE  TypeOK'
  <2>1. IdleCursor \in Cursor
    BY DEF Cursor
  <2> QED
    BY <1>8, <2>1 DEF ReadEnd, TypeOK, storage, process
<1>9. ASSUME NEW s \in Streams, AppendLoad(s)
      PROVE  TypeOK'
  <2>1. cursors' \in [Callers -> Cursor]
    BY <1>9, StartReplayType DEF AppendLoad, Callers
  <2>2. job' \in Job
    BY <1>9 DEF AppendLoad, Job
  <2> QED
    BY <1>9, <2>1, <2>2 DEF AppendLoad, TypeOK, storage, VerifiedNow
<1>10. ASSUME NEW s \in Streams, TailLoaded(s)
       PROVE  TypeOK'
  <2> DEFINE cur == cursors[Appender]
  <2>1. cur.n \in Seqs /\ cur.ts \in Times /\ cur.state \in States
    <3>1. cur \in Cursor /\ cur.stage = "done"
      BY <1>10 DEF TailLoaded, TypeOK, Callers
    <3>2. cur # IdleCursor
      BY <3>1 DEF IdleCursor
    <3> QED
      BY <3>1, <3>2, CursorFields
  <2>2. [seq |-> cur.n, ts |-> cur.ts, state |-> cur.state] \in TailRecord
    BY <2>1 DEF TailRecord
  <2>3. tail' \in [Streams -> TailRecord \cup {None}]
    BY <1>10, <2>2, RememberType DEF TailLoaded
  <2>4. cursors' \in [Callers -> Cursor]
    BY <1>10 DEF TailLoaded, Cursor, TypeOK
  <2>5. job' \in Job
    BY <1>10 DEF TailLoaded, Job
  <2>6. UNCHANGED <<evt, snp, keycheck, config, master, verified, truth>>
    BY <1>10 DEF TailLoaded, storage
  <2> QED
    BY <2>3, <2>4, <2>5, <2>6 DEF TypeOK
<1>11. ASSUME NEW s \in Streams, NEW p \in Payloads, NEW ts \in Times, AppendEvent(s, p, ts)
       PROVE  TypeOK'
  <2> DEFINE seq == tail[s].seq + 1
             state == Apply(tail[s].state, p)
             entry == [seq |-> seq, ts |-> ts, state |-> state]
  <2>1. tail[s] \in TailRecord
    BY <1>11 DEF AppendEvent, Appending, TypeOK
  <2>2. seq \in Seqs /\ seq > 0
    BY <1>11, <2>1 DEF AppendEvent, TailRecord, Seqs
  <2>3. state \in States
    BY <1>11, <2>1, CodecAssumption DEF AppendEvent, TailRecord
  <2>4. entry \in TailRecord
    BY <2>2, <2>3 DEF TailRecord
  <2>5. tail' \in [Streams -> TailRecord \cup {None}] /\ job' \in Job
    <3>1. CASE SnapshotDue(seq)
      BY <1>11, <2>4, <3>1 DEF AppendEvent, TypeOK, Job
    <3>2. CASE ~SnapshotDue(seq)
      BY <1>11, <2>4, <3>2, RememberType DEF AppendEvent, Job
    <3> QED
      BY <3>1, <3>2
  <2>6. [key |-> master, ts |-> ts, body |-> p] \in EventRecord
    BY DEF EventRecord, TypeOK
  <2>7. /\ evt' = [evt EXCEPT ![s][seq] = [key |-> master, ts |-> ts, body |-> p]]
        /\ truth' = [truth EXCEPT ![s][seq] = [ts |-> ts, state |-> state]]
        /\ verified' = VerifiedNow
        /\ UNCHANGED <<snp, keycheck, config, master, cursors>>
    BY <1>11 DEF AppendEvent
  <2>8. evt' \in [Streams -> [Seqs -> EventRecord \cup {None}]]
    BY <2>2, <2>6, <2>7 DEF TypeOK
  <2>9. /\ \A x \in Streams : evt'[x][0] # None => evt'[x][0].body \in States
        /\ \A x \in Streams, n \in Seqs :
             n > 0 /\ evt'[x][n] # None => evt'[x][n].body \in Payloads
    <3>1. 0 \in Seqs
      BY DEF Seqs
    <3>2. evt'[s][seq].body \in Payloads
      BY <2>2, <2>6, <2>7, OneBlock DEF TypeOK
    <3>3. \A x \in Streams, m \in Seqs : x # s \/ m # seq => evt'[x][m] = evt[x][m]
      BY <2>2, <2>6, <2>7, OneBlock DEF TypeOK
    <3>4. seq # 0
      BY <2>2 DEF Seqs
    <3> QED
      BY <3>1, <3>2, <3>3, <3>4 DEF TypeOK
  <2>10. truth' \in [Streams -> [Seqs -> Moment \cup {None}]]
    BY <2>2, <2>3, <2>7 DEF TypeOK, Moment
  <2> QED
    BY <2>5, <2>7, <2>8, <2>9, <2>10 DEF TypeOK, VerifiedNow
<1>12. ASSUME NEW s \in Streams, SlotTaken(s)
       PROVE  TypeOK'
  BY <1>12 DEF SlotTaken, Forget, TypeOK, storage, VerifiedNow, Job
<1>13. ASSUME NEW s \in Streams, AppendSnapshot(s)
       PROVE  TypeOK'
  <2> DEFINE entry == job.entry
  <2>1. entry \in TailRecord
    BY <1>13 DEF AppendSnapshot, TypeOK, Job, FreeLock
  <2>2. [key |-> master, ts |-> entry.ts, body |-> entry.state] \in SnapshotRecord
    BY <2>1 DEF SnapshotRecord, TailRecord, TypeOK
  <2>3. CASE SlotFree(snp[s], entry.seq)
    <3>1. tail' \in [Streams -> TailRecord \cup {None}]
      BY <1>13, <2>1, <2>3, RememberType DEF AppendSnapshot
    <3>2. snp' \in [Streams -> [Seqs -> SnapshotRecord \cup {None}]]
      <4>1. entry.seq \in Seqs
        BY <2>1 DEF TailRecord
      <4>2. snp' = [snp EXCEPT ![s][entry.seq] =
                      [key |-> master, ts |-> entry.ts, body |-> entry.state]]
        BY <1>13, <2>3 DEF AppendSnapshot
      <4> QED
        BY <2>2, <4>1, <4>2, OneBlock DEF TypeOK
    <3> QED
      BY <1>13, <3>1, <3>2 DEF AppendSnapshot, TypeOK, Job
  <2>4. CASE ~SlotFree(snp[s], entry.seq)
    BY <1>13, <2>4 DEF AppendSnapshot, Forget, TypeOK, Job
  <2> QED
    BY <2>3, <2>4
<1>14. ASSUME NEW s \in Streams, DeleteBegin(s)
       PROVE  TypeOK'
  BY <1>14 DEF DeleteBegin, TypeOK, storage, process, Job
<1>15. ASSUME NEW s \in Streams, DeleteNothing(s) \/ DeleteEnd(s)
       PROVE  TypeOK'
  BY <1>15 DEF DeleteNothing, DeleteEnd, Forget, TypeOK, storage, Job
<1>16. ASSUME NEW s \in Streams, NEW n \in Seqs, DeleteBlock(s, n)
       PROVE  TypeOK'
  <2>1. /\ truth' \in [Streams -> [Seqs -> Moment \cup {None}]]
        /\ UNCHANGED <<keycheck, config, master, verified, tail, job, cursors>>
    BY <1>16 DEF DeleteBlock, TypeOK, NoBlocks, process
  <2>2. CASE evt' = [evt EXCEPT ![s][n] = None] /\ UNCHANGED snp
    <3>1. 0 \in Seqs
      BY DEF Seqs
    <3>2. /\ evt' \in [Streams -> [Seqs -> EventRecord \cup {None}]]
          /\ evt'[s][n] = None
          /\ \A x \in Streams, m \in Seqs : x # s \/ m # n => evt'[x][m] = evt[x][m]
      BY <2>2, OneBlock DEF TypeOK
    <3> QED
      BY <2>1, <2>2, <3>1, <3>2 DEF TypeOK
  <2>3. CASE snp' = [snp EXCEPT ![s][n] = None] /\ UNCHANGED evt
    BY <2>1, <2>3 DEF TypeOK
  <2> QED
    BY <1>16, <2>2, <2>3 DEF DeleteBlock
<1>17. ASSUME NEW new \in Keys, RotateFinished(new) \/ RotateBegin(new)
       PROVE  TypeOK'
  <2>1. CASE RotateFinished(new)
    BY <2>1 DEF RotateFinished, TypeOK, storage, AllTails
  <2>2. CASE RotateBegin(new)
    <3>1. job' \in Job
      BY <2>2 DEF RotateBegin, Job
    <3> QED
      BY <2>2, <3>1 DEF RotateBegin, TypeOK, storage, VerifiedNow
  <2> QED
    BY <1>17, <2>1, <2>2
<1>18. ASSUME NEW s \in Streams, NEW n \in Seqs, RotateBlock(s, n)
       PROVE  TypeOK'
  <2>1. job.to \in Keys
    BY <1>18 DEF RotateBlock, TypeOK, Job, FreeLock
  <2>2. CASE OldEvent(s, n) /\ evt' = [evt EXCEPT ![s][n].key = job.to] /\ UNCHANGED snp
    <3> DEFINE sealed == [evt[s][n] EXCEPT !.key = job.to]
    <3>1. evt[s][n] \in EventRecord
      BY <2>2 DEF OldEvent, TypeOK
    <3>2. sealed \in EventRecord /\ sealed.body = evt[s][n].body
      BY <2>1, <3>1 DEF EventRecord
    <3>3. evt' = [evt EXCEPT ![s][n] = sealed]
      BY <2>2
    <3>4. /\ evt' \in [Streams -> [Seqs -> EventRecord \cup {None}]]
          /\ evt'[s][n] = sealed
          /\ \A x \in Streams, m \in Seqs : x # s \/ m # n => evt'[x][m] = evt[x][m]
      BY <3>2, <3>3, OneBlock DEF TypeOK
    <3>5. 0 \in Seqs
      BY DEF Seqs
    <3>6. /\ \A x \in Streams : evt'[x][0] # None => evt'[x][0].body \in States
          /\ \A x \in Streams, m \in Seqs :
               m > 0 /\ evt'[x][m] # None => evt'[x][m].body \in Payloads
      <4>1. evt[s][n] # None
        BY <3>1
      <4>2. ASSUME NEW x \in Streams, NEW m \in Seqs
            PROVE  /\ evt'[x][m] # None => evt[x][m] # None
                   /\ evt'[x][m] # None => evt'[x][m].body = evt[x][m].body
        BY <3>2, <3>4, <4>1
      <4> QED
        BY <3>5, <4>2 DEF TypeOK
    <3> QED
      BY <1>18, <2>2, <3>4, <3>6 DEF RotateBlock, TypeOK, process
  <2>3. CASE OldSnapshot(s, n) /\ snp' = [snp EXCEPT ![s][n].key = job.to] /\ UNCHANGED evt
    <3>1. snp[s][n] \in SnapshotRecord
      BY <2>3 DEF OldSnapshot, TypeOK
    <3>2. [snp[s][n] EXCEPT !.key = job.to] \in SnapshotRecord
      BY <2>1, <3>1 DEF SnapshotRecord
    <3> QED
      BY <1>18, <2>3, <3>2 DEF RotateBlock, TypeOK, process
  <2> QED
    BY <1>18, <2>2, <2>3 DEF RotateBlock
<1>19. ASSUME RotateAdopt
       PROVE  TypeOK'
  <2>1. job.to \in Keys
    BY <1>19 DEF RotateAdopt, TypeOK, Job, FreeLock
  <2> QED
    BY <1>19, <2>1 DEF RotateAdopt, TypeOK, AllTails, Job
<1>20. CASE SwitchKey
  BY <1>20 DEF SwitchKey, TypeOK, storage, process
<1>21. CASE Abort
  BY <1>21, RaiseType DEF Abort, TypeOK, storage, process, Cursor, Job
<1>22. CASE Crash
  BY <1>22 DEF Crash, TypeOK, storage, AllTails, Cursor, Job
<1>23. CASE UNCHANGED vars
  BY <1>23 DEF vars, TypeOK
<1> QED
  BY <1>1, <1>2, <1>3, <1>4, <1>5, <1>6, <1>7, <1>8, <1>9, <1>10, <1>11, <1>12, <1>13, <1>14,
     <1>15, <1>16, <1>17, <1>18, <1>19, <1>20, <1>21, <1>22, <1>23
     DEF Next, Create, Read, Replay, AppendOp, DeleteOp, Rotate

(* Whatever the sets and the bounds, whatever crashes and aborts, every    *)
(* variable keeps its type.                                                *)
THEOREM TypeCorrect == Spec => []TypeOK
BY TypeInit, TypeNext, PTL DEF Spec

-----------------------------------------------------------------------------
(* Coherence.  A step either leaves a stream's log as it is, gives it its  *)
(* first or its next event, or belongs to a deletion, which no replay sees *)
(* and which ends only when nothing is left of the stream.                 *)

(* The blocks of s hold what they held, under whatever key. *)
SameLog(s) ==
  \A n \in Seqs :
    /\ evt'[s][n] # None <=> evt[s][n] # None
    /\ evt[s][n] # None => evt'[s][n].ts = evt[s][n].ts /\ evt'[s][n].body = evt[s][n].body
    /\ snp'[s][n] # None <=> snp[s][n] # None
    /\ snp[s][n] # None => snp'[s][n].ts = snp[s][n].ts /\ snp'[s][n].body = snp[s][n].body

StreamIsTrue(s) == LogIsTrue(s) /\ SnapshotsAreTrue(s) /\ TailIsTrue(s)

(* A stream nobody wrote to stays coherent, its tail cached or not. *)
LEMMA StreamKept ==
  ASSUME NEW s \in Streams, StreamIsTrue(s), SameLog(s), truth'[s] = truth[s],
         tail'[s] \in {tail[s], None}
  PROVE  StreamIsTrue(s)'
<1>1. 0 \in Seqs
  BY BoundsAssumption DEF Seqs
<1>2. LogIsTrue(s)'
  BY <1>1 DEF StreamIsTrue, SameLog, LogIsTrue
<1>3. SnapshotsAreTrue(s)'
  BY DEF StreamIsTrue, SameLog, SnapshotsAreTrue
<1>4. TailIsTrue(s)'
  BY DEF StreamIsTrue, TailIsTrue
<1> QED
  BY <1>2, <1>3, <1>4 DEF StreamIsTrue

(* A stream of which nothing is left is coherent. *)
LEMMA StreamGone ==
  ASSUME NEW s \in Streams, \A n \in Seqs : evt'[s][n] = None /\ snp'[s][n] = None,
         truth'[s] = NoBlocks, tail'[s] = None
  PROVE  StreamIsTrue(s)'
<1>1. 0 \in Seqs
  BY BoundsAssumption DEF Seqs
<1> QED
  BY <1>1 DEF StreamIsTrue, LogIsTrue, SnapshotsAreTrue, TailIsTrue, NoBlocks

(* A replay that did not move stays true while its stream only grows. *)
LEMMA CursorKept ==
  ASSUME TypeOK, Coherent, NEW c \in Callers, cursors'[c] = cursors[c],
         cursors[c] # IdleCursor =>
           /\ ~Deleting(cursors[c].s)'
           /\ \A n \in Seqs : truth[cursors[c].s][n] # None =>
                truth'[cursors[c].s][n] = truth[cursors[c].s][n]
  PROVE  CursorIsTrue(c)'
<1> DEFINE cur == cursors[c]
           past == truth[cur.s]
<1> SUFFICES ASSUME cur # IdleCursor PROVE CursorIsTrue(c)'
  BY DEF CursorIsTrue
<1>1. /\ cur \in Cursor /\ cur.s \in Streams /\ cur.target \in Seqs
      /\ cur.stage # "listed" => cur.n \in Seqs
  BY CursorFields DEF TypeOK
<1>2. CursorIsTrue(c) /\ LogIsTrue(cur.s)
  BY <1>1 DEF Coherent, CursorIsTrue
<1>3. ASSUME cur.stage # "listed", cur.n # cur.target
      PROVE  cur.n + 1 \in Seqs /\ past[cur.n + 1] # None
  <2>1. cur.n + 1 \in Seqs /\ cur.n + 1 <= cur.target
    BY <1>1, <1>2, <1>3, BoundsAssumption DEF CursorIsTrue, Seqs
  <2> QED
    BY <1>1, <1>2, <2>1 DEF CursorIsTrue, LogIsTrue
<1>4. ASSUME cur.stage # "listed"
      PROVE  past[cur.n] # None
  BY <1>1, <1>2, <1>4 DEF CursorIsTrue, LogIsTrue, TypeOK
<1> QED
  BY <1>1, <1>2, <1>3, <1>4 DEF CursorIsTrue, InTime

(* A replay that moved on to an event whose outcome it knows is true. *)
LEMMA CursorAdvanced ==
  ASSUME NEW c \in Callers, NEW cur, NEW n \in Seqs, NEW ts \in Times, NEW state \in States,
         cur.target \in Seqs, n <= cur.target, InTime(cur, ts),
         cursors'[c] = Advance(cur, n, ts, state),
         ~(job'.stage = "delete" /\ job'.s = cur.s),
         truth'[cur.s][cur.target] # None,
         truth'[cur.s][n] = [ts |-> ts, state |-> state]
  PROVE  CursorIsTrue(c)'
<1> DEFINE new == cursors'[c]
<1>1. /\ new.s = cur.s /\ new.at = cur.at /\ new.target = cur.target
      /\ new.n = n /\ new.ts = ts /\ new.state = state
      /\ new.stage = IF n = cur.target THEN "done" ELSE "replay"
  BY DEF Advance
<1>2. n # cur.target => n < cur.target
  BY DEF Seqs
<1> QED
  BY <1>1, <1>2 DEF CursorIsTrue, InTime, Deleting

(* A replay that begins names an event the stream has. *)
LEMMA CursorStarted ==
  ASSUME TypeOK, Coherent, NEW c \in Callers, NEW s \in Streams, NEW at \in Times \cup {None},
         NEW seq \in Seqs \cup {None}, StartReplay(c, s, at, seq), ~Deleting(s),
         truth' = truth, ~(job'.stage = "delete" /\ job'.s = s)
  PROVE  /\ CursorIsTrue(c)'
         /\ cursors'[c] # IdleCursor /\ cursors'[c].s = s
         /\ \A d \in Callers : d # c => cursors'[d] = cursors[d]
<1>1. PICK last \in Seqs :
        /\ Ordered(s, last)
        /\ seq # None => seq <= last
        /\ cursors' = [cursors EXCEPT ![c] =
             [stage |-> "listed", s |-> s, at |-> at, key |-> master,
              target |-> IF seq = None THEN last ELSE seq]]
  BY DEF StartReplay
<1> DEFINE target == IF seq = None THEN last ELSE seq
<1>2. target \in Seqs /\ target <= last
  BY <1>1 DEF Seqs
<1>3. truth[s][target] # None
  BY <1>1, <1>2 DEF Ordered, Coherent, LogIsTrue
<1>4. cursors'[c] = [stage |-> "listed", s |-> s, at |-> at, key |-> master, target |-> target]
  BY <1>1 DEF TypeOK
<1>5. /\ cursors'[c].stage = "listed" /\ cursors'[c].s = s /\ cursors'[c].target = target
      /\ cursors'[c] # IdleCursor
  BY <1>4 DEF IdleCursor
<1>6. \A d \in Callers : d # c => cursors'[d] = cursors[d]
  BY <1>1 DEF TypeOK
<1> QED
  BY <1>3, <1>5, <1>6 DEF CursorIsTrue, Deleting

(* Opening one more block of the replay. *)
LEMMA CursorMoved ==
  ASSUME TypeOK, Coherent, NEW c \in Callers,
         OpenBase(c) \/ PickSnapshot(c) \/ ReplayEvent(c)
  PROVE  /\ CursorIsTrue(c)'
         /\ \A d \in Callers : d # c => cursors'[d] = cursors[d]
         /\ \/ job' = job /\ cursors'[c] # IdleCursor /\ cursors'[c].s = cursors[c].s
            \/ Raise(c)
<1> DEFINE cur == cursors[c]
           s == cur.s
<1>1. cur # IdleCursor /\ cur \in Cursor
  <2>1. cur.stage \in {"listed", "based", "replay"}
    BY DEF OpenBase, PickSnapshot, ReplayEvent
  <2> QED
    BY <2>1 DEF IdleCursor, TypeOK
<1>2. /\ s \in Streams /\ cur.at \in Times \cup {None} /\ cur.key \in Keys /\ cur.target \in Seqs
      /\ cur.stage # "listed" => cur.n \in Seqs /\ cur.ts \in Times /\ cur.state \in States
  BY <1>1, CursorFields
<1>3. CursorIsTrue(c) /\ ~Deleting(s) /\ truth[s][cur.target] # None
  BY <1>1 DEF Coherent, CursorIsTrue
<1>4. LogIsTrue(s) /\ SnapshotsAreTrue(s)
  BY <1>2, <1>3 DEF Coherent
<1>5. ASSUME Raise(c)
      PROVE  CursorIsTrue(c)' /\ \A d \in Callers : d # c => cursors'[d] = cursors[d]
  BY <1>5 DEF Raise, CursorIsTrue, TypeOK
<1>6. 0 \in Seqs
  BY BoundsAssumption DEF Seqs
<1>7. CASE OpenBase(c)
  <2> DEFINE block == evt[s][0]
             new == [stage |-> "based", s |-> cur.s, at |-> cur.at, key |-> cur.key,
                     target |-> cur.target, n |-> 0, ts |-> block.ts, state |-> block.body]
  <2>1. CASE Raise(c)
    BY <1>5, <2>1
  <2>2. CASE ~Raise(c)
    <3>1. /\ Opens(block, cur.key) /\ InTime(cur, block.ts)
          /\ cursors' = [cursors EXCEPT ![c] = new] /\ job' = job /\ truth' = truth
      BY <1>7, <2>2 DEF OpenBase
    <3>2. block \in EventRecord /\ block # None
      BY <1>2, <1>6, <3>1 DEF Opens, TypeOK
    <3>3. truth[s][0] = [ts |-> block.ts, state |-> block.body]
      <4>1. /\ truth[s][0] # None /\ block.ts = truth[s][0].ts
            /\ block.body = truth[s][0].state
        BY <1>4, <1>6, <3>2 DEF LogIsTrue
      <4>2. truth[s][0] \in Moment
        BY <1>2, <1>6, <4>1 DEF TypeOK
      <4> QED
        BY <4>1, <4>2 DEF Moment
    <3>4. cursors'[c] = new
      BY <3>1 DEF TypeOK
    <3>5. new # IdleCursor
      BY DEF IdleCursor
    <3>6. CursorIsTrue(c)'
      BY <1>2, <1>3, <3>1, <3>3, <3>4, BoundsAssumption DEF CursorIsTrue, InTime, Deleting, Seqs
    <3> QED
      BY <3>1, <3>4, <3>5, <3>6 DEF TypeOK
  <2> QED
    BY <2>1, <2>2
<1>8. CASE PickSnapshot(c)
  <2>1. CASE Raise(c)
    BY <1>5, <2>1
  <2>2. ASSUME NEW n \in Seqs, NEW ts \in Times, NEW state \in States,
               n <= cur.target, InTime(cur, ts), truth[s][n] = [ts |-> ts, state |-> state],
               cursors' = [cursors EXCEPT ![c] = Advance(cur, n, ts, state)], UNCHANGED job
        PROVE  /\ CursorIsTrue(c)'
               /\ \A d \in Callers : d # c => cursors'[d] = cursors[d]
               /\ job' = job /\ cursors'[c] # IdleCursor /\ cursors'[c].s = cursors[c].s
    <3>1. cursors'[c] = Advance(cur, n, ts, state)
      BY <2>2 DEF TypeOK
    <3>2. cursors'[c] # IdleCursor /\ cursors'[c].s = s
      BY <3>1 DEF Advance, IdleCursor
    <3>3. truth' = truth
      BY <1>8 DEF PickSnapshot
    <3>4. CursorIsTrue(c)'
      BY <1>2, <1>3, <2>2, <3>1, <3>3, CursorAdvanced DEF Deleting
    <3> QED
      BY <2>2, <3>2, <3>4 DEF TypeOK
  <2>3. CASE cursors' = [cursors EXCEPT ![c] = Advance(cur, 0, cur.ts, cur.state)] /\ UNCHANGED job
    <3>1. cur.n = 0 /\ InTime(cur, cur.ts) /\ truth[s][0] = [ts |-> cur.ts, state |-> cur.state]
      BY <1>1, <1>3, <1>8 DEF PickSnapshot, CursorIsTrue
    <3>2. cur.ts \in Times /\ cur.state \in States /\ 0 <= cur.target
      BY <1>2, <1>8 DEF PickSnapshot, Seqs
    <3> QED
      BY <1>6, <2>2, <2>3, <3>1, <3>2
  <2>4. ASSUME NEW n \in Deciding(cur), Opens(snp[s][n], cur.key),
               cursors' = [cursors EXCEPT ![c] = Advance(cur, n, snp[s][n].ts, snp[s][n].body)],
               UNCHANGED job
        PROVE  /\ CursorIsTrue(c)'
               /\ \A d \in Callers : d # c => cursors'[d] = cursors[d]
               /\ job' = job /\ cursors'[c] # IdleCursor /\ cursors'[c].s = cursors[c].s
    <3>1. n \in Seqs /\ n <= cur.target /\ snp[s][n] # None /\ InTime(cur, snp[s][n].ts)
      BY <2>4 DEF Deciding
    <3>2. snp[s][n].ts \in Times /\ snp[s][n].body \in States
      BY <1>2, <3>1 DEF TypeOK, SnapshotRecord
    <3>3. truth[s][n] = [ts |-> snp[s][n].ts, state |-> snp[s][n].body]
      BY <1>4, <3>1 DEF SnapshotsAreTrue
    <3> QED
      BY <2>2, <2>4, <3>1, <3>2, <3>3
  <2> QED
    BY <1>8, <2>1, <2>3, <2>4 DEF PickSnapshot
<1>9. CASE ReplayEvent(c)
  <2> DEFINE n == cur.n + 1
             block == evt[s][n]
             state == Apply(cur.state, block.body)
  <2>1. /\ cur.stage = "replay" /\ cur.n \in Seqs /\ cur.ts \in Times /\ cur.state \in States
        /\ n \in Seqs /\ n <= cur.target /\ n > 0 /\ n - 1 = cur.n
    <3>1. cur.stage = "replay" /\ cur.n < cur.target
      BY <1>9 DEF ReplayEvent
    <3>2. cur.n \in Seqs /\ cur.ts \in Times /\ cur.state \in States
      BY <1>2, <3>1
    <3>3. n \in Seqs /\ n <= cur.target /\ n > 0 /\ n - 1 = cur.n
      BY <1>2, <3>1, <3>2, BoundsAssumption DEF Seqs
    <3> QED
      BY <3>1, <3>2, <3>3
  <2>2. truth' = truth
    BY <1>9 DEF ReplayEvent
  <2>3. truth[s][cur.n] = [ts |-> cur.ts, state |-> cur.state] /\ InTime(cur, cur.ts)
    BY <1>1, <1>3, <2>1 DEF CursorIsTrue
  <2>4. block # None /\ truth[s][n] # None /\ block.ts = truth[s][n].ts
    BY <1>2, <1>3, <1>4, <2>1 DEF LogIsTrue
  <2>5. CASE Raise(c)
    BY <1>5, <2>5
  <2>6. CASE ~InTime(cur, block.ts) /\ cursors' = [cursors EXCEPT ![c].stage = "done"] /\ UNCHANGED job
    <3>1. /\ cursors'[c] = [cur EXCEPT !.stage = "done"]
          /\ \A d \in Callers : d # c => cursors'[d] = cursors[d]
      BY <2>6 DEF TypeOK
    <3>2. cur \in [stage : {"based", "replay", "done"}, s : Streams, at : Times \cup {None},
                   key : Keys, target : Seqs, n : Seqs, ts : Times, state : States]
      BY <1>1, <2>1 DEF Cursor, IdleCursor
    <3>3. /\ cursors'[c].stage = "done" /\ cursors'[c].s = s /\ cursors'[c].at = cur.at
          /\ cursors'[c].target = cur.target /\ cursors'[c].n = cur.n
          /\ cursors'[c].ts = cur.ts /\ cursors'[c].state = cur.state
      BY <3>1, <3>2
    <3>4. cursors'[c] # IdleCursor
      BY <3>3 DEF IdleCursor
    <3>5. cur.n <= cur.target
      BY <1>2, <2>1 DEF Seqs
    <3>6. CursorIsTrue(c)'
      BY <1>3, <2>2, <2>3, <2>4, <2>6, <3>3, <3>5 DEF CursorIsTrue, InTime, Deleting
    <3> QED
      BY <2>6, <3>1, <3>3, <3>4, <3>6
  <2>7. CASE /\ InTime(cur, block.ts) /\ state # None /\ UNCHANGED job
             /\ cursors' = [cursors EXCEPT ![c] = Advance(cur, n, block.ts, state)]
    <3>1. block.ts \in Times /\ block.body \in Payloads
      BY <1>2, <2>1, <2>4 DEF TypeOK, EventRecord
    <3>2. state \in States
      BY <2>1, <2>7, <3>1, CodecAssumption
    <3>3. truth[s][n].state = state
      <4>1. truth[s][n].state = Apply(truth[s][cur.n].state, block.body)
        BY <1>4, <2>1, <2>4 DEF LogIsTrue
      <4>2. truth[s][cur.n].state = cur.state
        BY <2>3
      <4> QED
        BY <4>1, <4>2
    <3>4. truth[s][n] = [ts |-> block.ts, state |-> state]
      BY <1>2, <2>1, <2>4, <3>3 DEF TypeOK, Moment
    <3>5. cursors'[c] = Advance(cur, n, block.ts, state)
      BY <2>7 DEF TypeOK
    <3>6. cursors'[c] # IdleCursor /\ cursors'[c].s = s
      BY <3>5 DEF Advance, IdleCursor
    <3>7. CursorIsTrue(c)'
      BY <1>2, <1>3, <2>1, <2>2, <2>7, <3>1, <3>2, <3>4, <3>5, CursorAdvanced DEF Deleting
    <3> QED
      BY <2>7, <3>6, <3>7 DEF TypeOK
  <2> QED
    BY <1>9, <2>5, <2>6, <2>7 DEF ReplayEvent
<1> QED
  BY <1>7, <1>8, <1>9

(* Every recorded time of an event is no earlier than the previous one's. *)
LEMMA StampsNeverRunBack ==
  ASSUME NEW floor \in Times, NEW ts \in Stamps(floor)
  PROVE  ts \in Times /\ floor <= ts
BY NoneAssumption DEF Stamps, Allowed, When, Times

(* A stream's first event. *)
LEMMA CreateCoherent ==
  ASSUME TypeOK, Coherent, NEW s \in Streams, NEW state \in States, NEW ts \in Stamps(None),
         CreateStream(s, state, ts)
  PROVE  Coherent'
<1>1. /\ job = FreeLock \/ job = [stage |-> "create", s |-> s]
      /\ job' = FreeLock /\ ~HasEvents(s)
      /\ evt' = [evt EXCEPT ![s][0] = [key |-> master, ts |-> ts, body |-> state]]
      /\ truth' = [truth EXCEPT ![s] = [NoBlocks EXCEPT ![0] = [ts |-> ts, state |-> state]]]
      /\ snp' = snp /\ cursors' = cursors
      /\ Remember(s, [seq |-> 0, ts |-> ts, state |-> state])
  BY DEF CreateStream
<1>2. 0 \in Seqs /\ ts \in Times
  BY BoundsAssumption DEF Seqs, Stamps
<1>3. \A x \in Streams : ~Deleting(x) /\ ~Deleting(x)'
  BY <1>1 DEF Deleting, FreeLock
<1>4. \A x \in Streams : StreamIsTrue(x)
  BY <1>3 DEF Coherent, StreamIsTrue
<1>5. \A n \in Seqs : evt[s][n] = None /\ truth[s][n] = None /\ snp[s][n] = None
  <2> TAKE n \in Seqs
  <2>1. evt[s][n] = None /\ truth[s][n] = None
    BY <1>1, <1>4 DEF HasEvents, StreamIsTrue, LogIsTrue
  <2>2. ASSUME snp[s][n] # None
        PROVE  truth[s][n] \in Moment
    <3>1. snp[s][n].ts \in Times /\ snp[s][n].body \in States
      BY <2>2 DEF TypeOK, SnapshotRecord
    <3>2. truth[s][n] = [ts |-> snp[s][n].ts, state |-> snp[s][n].body]
      BY <1>4, <2>2 DEF StreamIsTrue, SnapshotsAreTrue
    <3> QED
      BY <3>1, <3>2 DEF Moment
  <2> QED
    BY <2>1, <2>2, NoneAssumption
<1>6. /\ evt'[s][0] = [key |-> master, ts |-> ts, body |-> state]
      /\ \A x \in Streams, n \in Seqs : x # s \/ n # 0 => evt'[x][n] = evt[x][n]
  BY <1>1, <1>2 DEF TypeOK
<1>7. /\ truth'[s][0] = [ts |-> ts, state |-> state]
      /\ \A n \in Seqs : n # 0 => truth'[s][n] = None
      /\ \A x \in Streams : x # s => truth'[x] = truth[x]
  BY <1>1, <1>2 DEF TypeOK, NoBlocks
<1>8. /\ tail'[s] = [seq |-> 0, ts |-> ts, state |-> state]
      /\ \A x \in Streams : x # s => tail'[x] \in {tail[x], None}
  BY <1>1 DEF Remember
<1>9. StreamIsTrue(s)'
  <2>1. evt'[s][0] # None /\ truth'[s][0] # None
    <3>1. evt'[s][0] \in EventRecord /\ truth'[s][0] \in Moment
      BY <1>2, <1>6, <1>7 DEF EventRecord, Moment, TypeOK
    <3> QED
      BY <3>1, NoneAssumption
  <2>2. \A n \in Seqs : n # 0 => evt'[s][n] = None /\ snp'[s][n] = None
    BY <1>1, <1>5, <1>6
  <2>3. snp'[s][0] = None
    BY <1>1, <1>2, <1>5
  <2>4. LogIsTrue(s)'
    BY <1>2, <1>6, <1>7, <2>1, <2>2 DEF LogIsTrue, Seqs, Times
  <2>5. SnapshotsAreTrue(s)'
    BY <2>2, <2>3 DEF SnapshotsAreTrue
  <2>6. TailIsTrue(s)'
    BY <1>7, <1>8 DEF TailIsTrue
  <2> QED
    BY <2>4, <2>5, <2>6 DEF StreamIsTrue
<1>10. ASSUME NEW x \in Streams, x # s
       PROVE  StreamIsTrue(x)'
  <2>1. SameLog(x)
    BY <1>1, <1>6, <1>10 DEF SameLog
  <2> QED
    BY <1>4, <1>7, <1>8, <1>10, <2>1, StreamKept
<1>11. ASSUME NEW c \in Callers
       PROVE  CursorIsTrue(c)'
  <2>1. cursors[c] # IdleCursor => cursors[c].s \in Streams /\ cursors[c].target \in Seqs
    BY CursorFields DEF TypeOK
  <2>2. cursors[c] # IdleCursor => cursors[c].s # s
    <3>1. CursorIsTrue(c)
      BY DEF Coherent
    <3>2. cursors[c] # IdleCursor => truth[cursors[c].s][cursors[c].target] # None
      BY <3>1 DEF CursorIsTrue
    <3> QED
      BY <1>5, <2>1, <3>2
  <2> QED
    BY <1>1, <1>3, <1>7, <2>1, <2>2, CursorKept
<1>12. JobIsTrue'
  BY <1>1 DEF JobIsTrue, Coherent, FreeLock
<1> QED
  BY <1>9, <1>10, <1>11, <1>12 DEF Coherent, StreamIsTrue

(* What an append finds and what it adds: the last event of the log is the *)
(* one its cached tail names, and the new one follows from it.             *)
LEMMA AppendFollows ==
  ASSUME TypeOK, Coherent, NEW s \in Streams, NEW p \in Payloads, NEW ts \in Times,
         AppendEvent(s, p, ts)
  PROVE  LET n == tail[s].seq + 1
             state == Apply(tail[s].state, p)
         IN /\ tail[s] \in TailRecord /\ n \in Seqs /\ n > 0 /\ state \in States
            /\ ~Deleting(s) /\ job.stage \in {"free", "ready"}
            /\ evt[s][n] = None /\ truth[s][n] = None
            /\ evt[s][n - 1] # None /\ truth[s][n - 1] # None
            /\ truth[s][n - 1] = [ts |-> tail[s].ts, state |-> tail[s].state]
            /\ tail[s].ts <= ts
            /\ evt' = [evt EXCEPT ![s][n] = [key |-> master, ts |-> ts, body |-> p]]
            /\ truth' = [truth EXCEPT ![s][n] = [ts |-> ts, state |-> state]]
            /\ snp' = snp /\ cursors' = cursors
<1> DEFINE n == tail[s].seq + 1
           state == Apply(tail[s].state, p)
<1>1. /\ tail[s] # None /\ n <= MaxSeq /\ state # None /\ ts \in Stamps(tail[s].ts)
      /\ SlotFree(evt[s], n) /\ snp' = snp /\ cursors' = cursors
      /\ evt' = [evt EXCEPT ![s][n] = [key |-> master, ts |-> ts, body |-> p]]
      /\ truth' = [truth EXCEPT ![s][n] = [ts |-> ts, state |-> state]]
      /\ job = [stage |-> "ready", s |-> s] \/ job = FreeLock
  BY DEF AppendEvent, Appending
<1>2. ~Deleting(s) /\ job.stage \in {"free", "ready"}
  BY <1>1 DEF Deleting, FreeLock
<1>3. /\ tail[s] \in TailRecord /\ tail[s].seq \in Seqs /\ tail[s].ts \in Times
      /\ tail[s].state \in States
  BY <1>1 DEF TypeOK, TailRecord
<1>4. n \in Seqs /\ n > 0 /\ n - 1 = tail[s].seq /\ n - 1 \in Seqs
  BY <1>1, <1>3, BoundsAssumption DEF Seqs
<1>5. state \in States
  BY <1>1, <1>3, CodecAssumption
<1>6. truth[s][n - 1] = [ts |-> tail[s].ts, state |-> tail[s].state]
  BY <1>1, <1>2, <1>4 DEF Coherent, TailIsTrue
<1>7. truth[s][n - 1] # None
  <2>1. truth[s][n - 1] \in Moment
    BY <1>3, <1>6 DEF Moment
  <2> QED
    BY <2>1, NoneAssumption
<1>8. evt[s][n - 1] # None /\ evt[s][n] = None /\ truth[s][n] = None
  BY <1>1, <1>2, <1>4, <1>7 DEF Coherent, LogIsTrue, SlotFree
<1>9. tail[s].ts <= ts
  BY <1>1, <1>3, StampsNeverRunBack
<1> QED
  BY <1>1, <1>2, <1>3, <1>4, <1>5, <1>6, <1>7, <1>8, <1>9

(* A stream's next event. *)
LEMMA AppendCoherent ==
  ASSUME TypeOK, Coherent, NEW s \in Streams, NEW p \in Payloads, NEW ts \in Times,
         AppendEvent(s, p, ts)
  PROVE  Coherent'
<1> DEFINE n == tail[s].seq + 1
           state == Apply(tail[s].state, p)
           entry == [seq |-> n, ts |-> ts, state |-> state]
           rec == [key |-> master, ts |-> ts, body |-> p]
           moment == [ts |-> ts, state |-> state]
<1>1. /\ tail[s] \in TailRecord /\ n \in Seqs /\ n > 0 /\ state \in States
      /\ ~Deleting(s) /\ job.stage \in {"free", "ready"}
      /\ evt[s][n] = None /\ truth[s][n] = None
      /\ evt[s][n - 1] # None /\ truth[s][n - 1] # None
      /\ truth[s][n - 1] = [ts |-> tail[s].ts, state |-> tail[s].state]
      /\ tail[s].ts <= ts
      /\ evt' = [evt EXCEPT ![s][n] = rec]
      /\ truth' = [truth EXCEPT ![s][n] = moment]
      /\ snp' = snp /\ cursors' = cursors
  BY AppendFollows
<1>2. \/ job' = FreeLock /\ Remember(s, entry)
      \/ job' = [stage |-> "snapshot", s |-> s, entry |-> entry] /\ tail' = tail
  BY DEF AppendEvent
<1>3. \A x \in Streams : ~Deleting(x) /\ ~Deleting(x)'
  BY <1>1, <1>2 DEF Deleting, FreeLock
<1>4. \A x \in Streams : StreamIsTrue(x)
  BY <1>3 DEF Coherent, StreamIsTrue
<1>5. rec \in EventRecord /\ moment \in Moment
  BY <1>1 DEF TypeOK, EventRecord, Moment
<1>6. rec # None /\ moment # None
  BY <1>5, NoneAssumption
<1>7. /\ evt'[s][n] = rec
      /\ \A x \in Streams, m \in Seqs : x # s \/ m # n => evt'[x][m] = evt[x][m]
  BY <1>1 DEF TypeOK
<1>8. /\ truth'[s][n] = moment
      /\ \A x \in Streams, m \in Seqs : x # s \/ m # n => truth'[x][m] = truth[x][m]
      /\ \A x \in Streams : x # s => truth'[x] = truth[x]
  BY <1>1 DEF TypeOK
<1>9. tail'[s] \in {entry, tail[s]} /\ \A x \in Streams : x # s => tail'[x] \in {tail[x], None}
  BY <1>2 DEF Remember, TypeOK
<1>10. StreamIsTrue(s)'
  <2>1. LogIsTrue(s)
    BY <1>4 DEF StreamIsTrue
  <2>2. \A m \in Seqs : evt'[s][m] # None => m <= n
    BY <1>1, <1>7, <2>1 DEF LogIsTrue, Seqs
  <2>3. \A m \in Seqs : m < n => evt[s][m] # None /\ truth[s][m].ts <= tail[s].ts
    <3>1. n - 1 \in Seqs /\ \A m \in Seqs : m < n => m <= n - 1
      BY <1>1, BoundsAssumption DEF Seqs
    <3>2. truth[s][n - 1].ts = tail[s].ts
      BY <1>1
    <3> QED
      BY <1>1, <2>1, <3>1, <3>2 DEF LogIsTrue
  <2>4. \A m \in Seqs : m < n => truth[s][m] # None /\ truth[s][m].ts <= ts
    <3> TAKE m \in Seqs
    <3> SUFFICES ASSUME m < n PROVE truth[s][m] # None /\ truth[s][m].ts <= ts
      OBVIOUS
    <3>1. truth[s][m] # None /\ truth[s][m].ts <= tail[s].ts
      BY <2>1, <2>3 DEF LogIsTrue
    <3>2. truth[s][m].ts \in Int /\ tail[s].ts \in Int /\ ts \in Int
      BY <1>1, <3>1 DEF TypeOK, Moment, TailRecord, Times
    <3> QED
      BY <1>1, <3>1, <3>2
  <2>5. LogIsTrue(s)'
    <3>1. ASSUME NEW k \in Seqs, k # n
          PROVE  /\ evt'[s][k] # None <=> truth'[s][k] # None
                 /\ evt'[s][k] # None =>
                      /\ k < n
                      /\ evt'[s][k].ts = truth'[s][k].ts
                      /\ \A m \in Seqs : m <= k =>
                           evt'[s][m] # None /\ truth'[s][m].ts <= truth'[s][k].ts
                      /\ k > 0 => truth'[s][k].state =
                                    Apply(truth'[s][k - 1].state, evt'[s][k].body)
      <4>1. evt'[s][k] = evt[s][k] /\ truth'[s][k] = truth[s][k]
        BY <1>7, <1>8, <3>1
      <4>2. evt[s][k] # None <=> truth[s][k] # None
        BY <2>1 DEF LogIsTrue
      <4> SUFFICES ASSUME evt[s][k] # None
                   PROVE  /\ k < n
                          /\ evt'[s][k].ts = truth'[s][k].ts
                          /\ \A m \in Seqs : m <= k =>
                               evt'[s][m] # None /\ truth'[s][m].ts <= truth'[s][k].ts
                          /\ k > 0 => truth'[s][k].state =
                                        Apply(truth'[s][k - 1].state, evt'[s][k].body)
        BY <4>1, <4>2
      <4>3. k < n
        <5>1. k <= n
          BY <2>2, <4>1
        <5>2. k \in Int /\ n \in Int
          BY <1>1 DEF Seqs
        <5> QED
          BY <3>1, <5>1, <5>2
      <4>4. \A m \in Seqs : m <= k => evt'[s][m] = evt[s][m] /\ truth'[s][m] = truth[s][m]
        BY <1>1, <1>7, <1>8, <4>3 DEF Seqs
      <4>5. k > 0 => k - 1 \in Seqs /\ k - 1 <= k
        BY BoundsAssumption DEF Seqs
      <4> QED
        BY <2>1, <4>1, <4>3, <4>4, <4>5 DEF LogIsTrue
    <3>2. /\ evt'[s][n] # None /\ truth'[s][n] # None /\ evt'[s][n].ts = truth'[s][n].ts
          /\ truth'[s][n].state = Apply(truth'[s][n - 1].state, evt'[s][n].body)
      BY <1>1, <1>6, <1>7, <1>8 DEF Seqs
    <3>3. \A m \in Seqs : m <= n => evt'[s][m] # None /\ truth'[s][m].ts <= truth'[s][n].ts
      BY <1>1, <1>6, <1>7, <1>8, <2>3, <2>4 DEF Seqs, Times
    <3>4. evt'[s][0] # None => evt'[s][0].body = truth'[s][0].state
      BY <1>1, <1>7, <1>8, <2>1, BoundsAssumption DEF LogIsTrue, Seqs
    <3> QED
      BY <3>1, <3>2, <3>3, <3>4 DEF LogIsTrue
  <2>6. SnapshotsAreTrue(s)'
    <3> SUFFICES ASSUME NEW m \in Seqs, snp[s][m] # None
                 PROVE  truth'[s][m] = [ts |-> snp[s][m].ts, state |-> snp[s][m].body]
      BY <1>1 DEF SnapshotsAreTrue
    <3>1. truth[s][m] = [ts |-> snp[s][m].ts, state |-> snp[s][m].body]
      BY <1>4 DEF StreamIsTrue, SnapshotsAreTrue
    <3>2. truth[s][m] \in Moment
      BY <3>1 DEF TypeOK, SnapshotRecord, Moment
    <3>3. m # n
      BY <1>1, <3>2, NoneAssumption
    <3> QED
      BY <1>8, <3>1, <3>3
  <2>7. TailIsTrue(s)'
    <3>1. CASE tail'[s] = entry
      BY <1>8, <3>1 DEF TailIsTrue
    <3>2. CASE tail'[s] = tail[s]
      BY <1>1, <1>8, <3>2 DEF TailIsTrue, TailRecord, Seqs
    <3> QED
      BY <1>9, <3>1, <3>2
  <2> QED
    BY <2>5, <2>6, <2>7 DEF StreamIsTrue
<1>11. ASSUME NEW x \in Streams, x # s
       PROVE  StreamIsTrue(x)'
  <2>1. SameLog(x)
    BY <1>1, <1>7, <1>11 DEF SameLog
  <2> QED
    BY <1>4, <1>8, <1>9, <1>11, <2>1, StreamKept
<1>12. ASSUME NEW c \in Callers
       PROVE  CursorIsTrue(c)'
  <2>1. cursors[c] # IdleCursor => cursors[c].s \in Streams
    BY CursorFields DEF TypeOK
  <2> QED
    BY <1>1, <1>3, <1>8, <2>1, CursorKept
<1>13. JobIsTrue'
  <2>1. job'.stage # "tail" /\ job'.stage # "delete" /\ cursors'[Appender] = IdleCursor
    BY <1>1, <1>2 DEF JobIsTrue, Coherent, FreeLock
  <2>2. job'.stage = "snapshot" =>
          job'.s = s /\ job'.entry.seq = n /\ job'.entry.ts = ts /\ job'.entry.state = state
    BY <1>2 DEF FreeLock
  <2> QED
    BY <1>8, <2>1, <2>2 DEF JobIsTrue
<1> QED
  BY <1>10, <1>11, <1>12, <1>13 DEF Coherent, StreamIsTrue

(* Before the first step there is nothing to disagree. *)
LEMMA CoherentInit == Init => Coherent
<1> SUFFICES ASSUME Init PROVE Coherent
  OBVIOUS
<1>1. 0 \in Seqs /\ Appender \in Callers
  BY BoundsAssumption DEF Seqs, Callers
<1>2. \A s \in Streams : LogIsTrue(s) /\ SnapshotsAreTrue(s) /\ TailIsTrue(s)
  BY <1>1 DEF Init, NoBlocks, LogIsTrue, SnapshotsAreTrue, TailIsTrue
<1>3. \A c \in Callers : CursorIsTrue(c)
  BY DEF Init, CursorIsTrue
<1>4. JobIsTrue
  BY <1>1 DEF Init, JobIsTrue, FreeLock
<1> QED
  BY <1>2, <1>3, <1>4 DEF Coherent

(* Steps that leave the log alone, and every replay but one. *)
LEMMA QuietStep ==
  ASSUME TypeOK, Coherent, JobIsTrue',
         truth' = truth, \A s \in Streams : SameLog(s),
         \A s \in Streams : ~Deleting(s)' =>
           IF Deleting(s) THEN ~HasBlocks(s) /\ tail'[s] = None
           ELSE tail'[s] \in {tail[s], None} \/ TailIsTrue(s)',
         \A c \in Callers : CursorIsTrue(c)' \/ (cursors'[c] = cursors[c] /\ DeletesUnobserved)
  PROVE  Coherent'
<1>1. ASSUME NEW s \in Streams, ~Deleting(s)'
      PROVE  StreamIsTrue(s)'
  <2>1. CASE Deleting(s)
    <3>1. \A n \in Seqs : evt'[s][n] = None /\ snp'[s][n] = None
      BY <1>1, <2>1 DEF HasBlocks, SameLog
    <3>2. truth'[s] = NoBlocks /\ tail'[s] = None
      BY <1>1, <2>1 DEF Coherent, JobIsTrue, Deleting
    <3> QED
      BY <3>1, <3>2, StreamGone
  <2>2. CASE ~Deleting(s)
    <3>1. StreamIsTrue(s)
      BY <2>2 DEF Coherent, StreamIsTrue
    <3>2. CASE tail'[s] \in {tail[s], None}
      BY <3>1, <3>2, StreamKept
    <3>3. CASE TailIsTrue(s)'
      <4>1. 0 \in Seqs
        BY BoundsAssumption DEF Seqs
      <4>2. LogIsTrue(s)'
        BY <3>1, <4>1 DEF StreamIsTrue, SameLog, LogIsTrue
      <4>3. SnapshotsAreTrue(s)'
        BY <3>1 DEF StreamIsTrue, SameLog, SnapshotsAreTrue
      <4> QED
        BY <3>3, <4>2, <4>3 DEF StreamIsTrue
    <3> QED
      BY <1>1, <2>2, <3>2, <3>3
  <2> QED
    BY <2>1, <2>2
<1>2. ASSUME NEW c \in Callers
      PROVE  CursorIsTrue(c)'
  <2> SUFFICES ASSUME cursors'[c] = cursors[c], DeletesUnobserved
               PROVE  CursorIsTrue(c)'
    OBVIOUS
  <2>1. cursors[c] # IdleCursor => ~Deleting(cursors[c].s)'
    BY DEF DeletesUnobserved, Deleting
  <2> QED
    BY <2>1, CursorKept
<1> QED
  BY <1>1, <1>2 DEF Coherent, StreamIsTrue

(* Writing a snapshot, or finding one in its place. *)
LEMMA SnapshotCoherent ==
  ASSUME TypeOK, Coherent, NEW s \in Streams, AppendSnapshot(s), DeletesUnobserved
  PROVE  Coherent'
<1> DEFINE entry == job.entry
           rec == [key |-> master, ts |-> entry.ts, body |-> entry.state]
<1>1. /\ job.stage = "snapshot" /\ job.s = s /\ job' = FreeLock
      /\ evt' = evt /\ cursors' = cursors /\ truth' = truth
  BY DEF AppendSnapshot
<1>2. /\ entry \in TailRecord /\ entry.seq \in Seqs /\ entry.ts \in Times
      /\ entry.state \in States
  BY <1>1 DEF TypeOK, Job, FreeLock, TailRecord
<1>3. truth[s][entry.seq] = [ts |-> entry.ts, state |-> entry.state]
  BY <1>1 DEF Coherent, JobIsTrue
<1>4. \A x \in Streams : ~Deleting(x) /\ ~Deleting(x)'
  BY <1>1 DEF Deleting, FreeLock
<1>5. \A x \in Streams : StreamIsTrue(x)
  BY <1>4 DEF Coherent, StreamIsTrue
<1>6. JobIsTrue'
  BY <1>1 DEF Coherent, JobIsTrue, FreeLock
<1>7. \A c \in Callers : CursorIsTrue(c)'
  <2> TAKE c \in Callers
  <2>1. cursors[c] # IdleCursor => cursors[c].s \in Streams
    BY CursorFields DEF TypeOK
  <2> QED
    BY <1>1, <1>4, <2>1, CursorKept
<1>8. CASE snp' = snp /\ \A x \in Streams : tail'[x] \in {tail[x], None}
  BY <1>1, <1>4, <1>5, <1>6, <1>7, <1>8, StreamKept DEF SameLog, Coherent, StreamIsTrue
<1>9. CASE snp' = [snp EXCEPT ![s][entry.seq] = rec] /\ Remember(s, entry)
  <2>1. /\ snp'[s][entry.seq] = rec
        /\ \A x \in Streams, m \in Seqs : x # s \/ m # entry.seq => snp'[x][m] = snp[x][m]
    BY <1>2, <1>9 DEF TypeOK
  <2>2. tail'[s] = entry /\ \A x \in Streams : x # s => tail'[x] \in {tail[x], None}
    BY <1>9 DEF Remember
  <2>3. ASSUME NEW x \in Streams, x # s
        PROVE  StreamIsTrue(x)'
    <3>1. SameLog(x)
      BY <1>1, <2>1, <2>3 DEF SameLog
    <3> QED
      BY <1>1, <1>5, <2>2, <2>3, <3>1, StreamKept
  <2>4. StreamIsTrue(s)'
    <3>1. LogIsTrue(s)'
      BY <1>1, <1>5 DEF StreamIsTrue, LogIsTrue
    <3>2. SnapshotsAreTrue(s)'
      BY <1>1, <1>3, <1>5, <2>1 DEF StreamIsTrue, SnapshotsAreTrue
    <3>3. TailIsTrue(s)'
      BY <1>1, <1>3, <2>2 DEF TailIsTrue
    <3> QED
      BY <3>1, <3>2, <3>3 DEF StreamIsTrue
  <2> QED
    BY <1>6, <1>7, <2>3, <2>4 DEF Coherent, StreamIsTrue
<1> QED
  BY <1>8, <1>9 DEF AppendSnapshot, Forget, TypeOK

(* Re-sealing a block changes its key alone. *)
LEMMA RotationKeepsContent ==
  ASSUME TypeOK, NEW s \in Streams, NEW n \in Seqs, RotateBlock(s, n), NEW x \in Streams
  PROVE  SameLog(x)
<1>1. CASE OldEvent(s, n) /\ evt' = [evt EXCEPT ![s][n].key = job.to] /\ UNCHANGED snp
  <2> DEFINE sealed == [evt[s][n] EXCEPT !.key = job.to]
  <2>1. evt[s][n] \in EventRecord
    BY <1>1 DEF OldEvent, TypeOK
  <2>2. sealed.ts = evt[s][n].ts /\ sealed.body = evt[s][n].body
    BY <2>1 DEF EventRecord
  <2>3. job.to \in Keys
    BY DEF RotateBlock, TypeOK, Job, FreeLock
  <2>4. sealed \in EventRecord /\ sealed # None /\ evt[s][n] # None
    BY <2>1, <2>3, NoneAssumption DEF EventRecord
  <2>5. /\ evt'[s][n] = sealed
        /\ \A y \in Streams, m \in Seqs : y # s \/ m # n => evt'[y][m] = evt[y][m]
    BY <1>1 DEF TypeOK
  <2> QED
    BY <1>1, <2>2, <2>4, <2>5 DEF SameLog
<1>2. CASE OldSnapshot(s, n) /\ snp' = [snp EXCEPT ![s][n].key = job.to] /\ UNCHANGED evt
  <2> DEFINE sealed == [snp[s][n] EXCEPT !.key = job.to]
  <2>1. snp[s][n] \in SnapshotRecord
    BY <1>2 DEF OldSnapshot, TypeOK
  <2>2. sealed.ts = snp[s][n].ts /\ sealed.body = snp[s][n].body
    BY <2>1 DEF SnapshotRecord
  <2>3. job.to \in Keys
    BY DEF RotateBlock, TypeOK, Job, FreeLock
  <2>4. sealed \in SnapshotRecord /\ sealed # None /\ snp[s][n] # None
    BY <2>1, <2>3, NoneAssumption DEF SnapshotRecord
  <2>5. /\ snp'[s][n] = sealed
        /\ \A y \in Streams, m \in Seqs : y # s \/ m # n => snp'[y][m] = snp[y][m]
    BY <1>2 DEF TypeOK
  <2> QED
    BY <1>2, <2>2, <2>4, <2>5 DEF SameLog
<1> QED
  BY <1>1, <1>2 DEF RotateBlock

(* Every step of a careful deployment keeps the store coherent.            *)
LEMMA CoherentNext == TypeOK /\ Coherent /\ [CareNext]_vars => Coherent'
<1> SUFFICES ASSUME TypeOK, Coherent, [CareNext]_vars
             PROVE  Coherent'
  OBVIOUS
<1> DEFINE SameBlocks == evt' = evt /\ snp' = snp
<1>1. SameBlocks => \A s \in Streams : SameLog(s)
  BY DEF SameLog
<1>2. JobIsTrue /\ Appender \in Callers
  BY DEF Coherent, Callers
<1>3. CASE UNCHANGED <<evt, snp, tail, job, cursors, truth>>
  BY <1>3 DEF Coherent, LogIsTrue, SnapshotsAreTrue, TailIsTrue, CursorIsTrue, JobIsTrue,
              Deleting, HasBlocks
<1> SUFFICES ASSUME Next, DeletesFinish, DeletesUnobserved
             PROVE  Coherent'
  BY <1>3 DEF CareNext, vars
<1>4. CASE KeyChecked \/ SwitchKey
  BY <1>3, <1>4 DEF KeyChecked, SwitchKey, storage, process
<1>5. ASSUME NEW s \in Streams, CreateKeyCheck(s)
      PROVE  Coherent'
  <2>1. /\ SameBlocks /\ truth' = truth /\ tail' = tail /\ cursors' = cursors
        /\ job.stage = "free" /\ job'.stage = "create"
    BY <1>5 DEF CreateKeyCheck, FreeLock
  <2>2. JobIsTrue'
    BY <1>2, <2>1 DEF JobIsTrue
  <2> QED
    BY <1>1, <2>1, <2>2, QuietStep DEF Deleting
<1>6. ASSUME NEW c \in Callers, OpenBase(c) \/ PickSnapshot(c) \/ ReplayEvent(c)
      PROVE  Coherent'
  <2>1. /\ CursorIsTrue(c)'
        /\ \A d \in Callers : d # c => cursors'[d] = cursors[d]
    BY <1>6, CursorMoved
  <2>2. SameBlocks /\ truth' = truth /\ tail' = tail
    BY <1>6 DEF OpenBase, PickSnapshot, ReplayEvent, storage, process
  <2>3. cursors[c] # IdleCursor
    <3>1. cursors[c].stage \in {"listed", "based", "replay"}
      BY <1>6 DEF OpenBase, PickSnapshot, ReplayEvent
    <3> QED
      BY <3>1 DEF IdleCursor
  <2>4. CASE job' = job /\ cursors'[c] # IdleCursor /\ cursors'[c].s = cursors[c].s
    <3>1. cursors[c] # IdleCursor
      BY <2>3
    <3>2. JobIsTrue'
      BY <1>2, <2>1, <2>2, <2>4, <3>1 DEF JobIsTrue, HasBlocks
    <3> QED
      BY <1>1, <2>1, <2>2, <2>4, <3>2, QuietStep DEF Deleting
  <2>5. CASE Raise(c)
    <3>1. cursors'[c] = IdleCursor /\ job' = IF c = Appender THEN FreeLock ELSE job
      BY <2>5 DEF Raise, TypeOK
    <3>2. cursors[c] # IdleCursor
      BY <2>3
    <3>3. JobIsTrue'
      BY <1>2, <2>1, <2>2, <3>1, <3>2 DEF JobIsTrue, HasBlocks, FreeLock
    <3>4. \A s \in Streams : Deleting(s) <=> Deleting(s)'
      BY <1>2, <3>1, <3>2 DEF JobIsTrue, Deleting, FreeLock
    <3> QED
      BY <1>1, <2>1, <2>2, <3>3, <3>4, QuietStep
  <2> QED
    BY <1>6, <2>4, <2>5, CursorMoved
<1>7. ASSUME NEW r \in Readers, NEW s \in Streams, NEW at \in Times \cup {None},
             NEW seq \in Seqs \cup {None}, ReadBegin(r, s, at, seq)
      PROVE  Coherent'
  <2>1. /\ SameBlocks /\ truth' = truth /\ tail' = tail /\ job' = job
        /\ StartReplay(r, s, at, seq) /\ r \in Callers /\ r # Appender
    BY <1>7, AppenderAssumption DEF ReadBegin, storage, Callers
  <2>2. cursors'[r] # IdleCursor /\ cursors'[r].s = s
    BY <2>1 DEF StartReplay, TypeOK, IdleCursor
  <2>3. ~Deleting(s)
    BY <2>1, <2>2 DEF DeletesUnobserved, Deleting
  <2>4. /\ CursorIsTrue(r)'
        /\ \A d \in Callers : d # r => cursors'[d] = cursors[d]
    BY <2>1, <2>3, CursorStarted DEF Deleting
  <2>5. JobIsTrue'
    BY <1>2, <2>1, <2>4 DEF JobIsTrue, HasBlocks
  <2> QED
    BY <1>1, <2>1, <2>4, <2>5, QuietStep DEF Deleting
<1>8. ASSUME NEW r \in Readers, ReadEnd(r)
      PROVE  Coherent'
  <2>1. /\ SameBlocks /\ truth' = truth /\ tail' = tail /\ job' = job
        /\ r # Appender /\ cursors'[r] = IdleCursor
        /\ \A d \in Callers : d # r => cursors'[d] = cursors[d]
    BY <1>8, AppenderAssumption DEF ReadEnd, storage, process, Callers, TypeOK
  <2>2. JobIsTrue'
    BY <1>2, <2>1 DEF JobIsTrue, HasBlocks
  <2>3. CursorIsTrue(r)'
    BY <2>1 DEF CursorIsTrue
  <2> QED
    BY <1>1, <2>1, <2>2, <2>3, QuietStep DEF Deleting
<1>9. ASSUME NEW s \in Streams, AppendLoad(s)
      PROVE  Coherent'
  <2>1. /\ SameBlocks /\ truth' = truth /\ tail' = tail
        /\ StartReplay(Appender, s, None, None)
        /\ job = FreeLock /\ job' = [stage |-> "tail", s |-> s]
    BY <1>9 DEF AppendLoad, storage
  <2>2. \A x \in Streams : ~Deleting(x) /\ ~Deleting(x)'
    BY <2>1 DEF Deleting, FreeLock
  <2>3. ~(job'.stage = "delete" /\ job'.s = s)
    BY <2>1
  <2>4. /\ CursorIsTrue(Appender)'
        /\ cursors'[Appender] # IdleCursor /\ cursors'[Appender].s = s
        /\ \A d \in Callers : d # Appender => cursors'[d] = cursors[d]
    BY <1>2, <2>1, <2>2, <2>3, CursorStarted
  <2>5. JobIsTrue'
    BY <2>1, <2>4 DEF JobIsTrue
  <2> QED
    BY <1>1, <2>1, <2>2, <2>4, <2>5, QuietStep
<1>10. ASSUME NEW s \in Streams, TailLoaded(s)
       PROVE  Coherent'
  <2> DEFINE cur == cursors[Appender]
             entry == [seq |-> cur.n, ts |-> cur.ts, state |-> cur.state]
  <2>1. /\ SameBlocks /\ truth' = truth /\ Remember(s, entry) /\ cur.stage = "done"
        /\ job = [stage |-> "tail", s |-> s] /\ job' = [stage |-> "ready", s |-> s]
        /\ cursors'[Appender] = IdleCursor
        /\ \A d \in Callers : d # Appender => cursors'[d] = cursors[d]
    BY <1>2, <1>10 DEF TailLoaded, storage, TypeOK
  <2>2. \A x \in Streams : ~Deleting(x) /\ ~Deleting(x)'
    BY <2>1 DEF Deleting
  <2>3. cur # IdleCursor /\ cur.s = s
    BY <1>2, <2>1 DEF JobIsTrue
  <2>4. truth[s][cur.n] = [ts |-> cur.ts, state |-> cur.state]
    BY <1>2, <2>1, <2>3 DEF Coherent, CursorIsTrue
  <2>5. tail'[s] = entry /\ \A x \in Streams : x # s => tail'[x] \in {tail[x], None}
    BY <2>1 DEF Remember
  <2>6. TailIsTrue(s)'
    BY <2>1, <2>4, <2>5 DEF TailIsTrue
  <2>7. JobIsTrue'
    BY <2>1 DEF JobIsTrue
  <2>8. CursorIsTrue(Appender)'
    BY <2>1 DEF CursorIsTrue
  <2> QED
    BY <1>1, <2>1, <2>2, <2>5, <2>6, <2>7, <2>8, QuietStep
<1>11. ASSUME NEW s \in Streams, SlotTaken(s)
       PROVE  Coherent'
  <2>1. /\ SameBlocks /\ truth' = truth /\ cursors' = cursors /\ job' = FreeLock
        /\ job = [stage |-> "ready", s |-> s] \/ job = FreeLock
        /\ \A x \in Streams : tail'[x] \in {tail[x], None}
    BY <1>11 DEF SlotTaken, Appending, Forget, storage, TypeOK
  <2>2. \A x \in Streams : ~Deleting(x) /\ ~Deleting(x)'
    BY <2>1 DEF Deleting, FreeLock
  <2>3. JobIsTrue'
    BY <1>2, <2>1 DEF JobIsTrue, FreeLock
  <2> QED
    BY <1>1, <2>1, <2>2, <2>3, QuietStep
<1>12. ASSUME NEW s \in Streams, AppendSnapshot(s)
       PROVE  Coherent'
  BY <1>12, SnapshotCoherent
<1>13. ASSUME NEW s \in Streams, DeleteBegin(s)
       PROVE  Coherent'
  <2>1. /\ SameBlocks /\ truth' = truth /\ tail' = tail /\ cursors' = cursors
        /\ job = FreeLock /\ job' = [stage |-> "delete", s |-> s] /\ HasBlocks(s)
    BY <1>13 DEF DeleteBegin, storage, process
  <2>2. \A x \in Streams : ~Deleting(x)
    BY <2>1 DEF Deleting, FreeLock
  <2>3. JobIsTrue'
    BY <1>2, <2>1 DEF JobIsTrue, FreeLock, HasBlocks
  <2> QED
    BY <1>1, <2>1, <2>2, <2>3, QuietStep
<1>14. ASSUME NEW s \in Streams, DeleteNothing(s)
       PROVE  Coherent'
  <2>1. /\ SameBlocks /\ truth' = truth /\ cursors' = cursors /\ job' = job
        /\ job = FreeLock /\ \A x \in Streams : tail'[x] \in {tail[x], None}
    BY <1>14 DEF DeleteNothing, Forget, storage, TypeOK
  <2>2. \A x \in Streams : ~Deleting(x) /\ ~Deleting(x)'
    BY <2>1 DEF Deleting, FreeLock
  <2>3. JobIsTrue'
    BY <1>2, <2>1 DEF JobIsTrue, FreeLock
  <2> QED
    BY <1>1, <2>1, <2>2, <2>3, QuietStep
<1>15. ASSUME NEW s \in Streams, NEW n \in Seqs, DeleteBlock(s, n)
       PROVE  Coherent'
  <2>1. /\ tail' = tail /\ cursors' = cursors /\ job' = job
        /\ job = [stage |-> "delete", s |-> s]
        /\ truth' = [truth EXCEPT ![s] = NoBlocks]
        /\ evt' = [evt EXCEPT ![s][n] = None] \/ evt' = evt
        /\ snp' = [snp EXCEPT ![s][n] = None] \/ snp' = snp
    BY <1>15 DEF DeleteBlock, process
  <2>2. Deleting(s) /\ Deleting(s)' /\ \A x \in Streams : x # s => ~Deleting(x) /\ ~Deleting(x)'
    BY <2>1 DEF Deleting
  <2>3. ASSUME NEW x \in Streams, x # s
        PROVE  StreamIsTrue(x)'
    <3>1. SameLog(x) /\ truth'[x] = truth[x]
      BY <2>1, <2>3 DEF SameLog, TypeOK
    <3>2. StreamIsTrue(x)
      BY <2>2, <2>3 DEF Coherent, StreamIsTrue
    <3> QED
      BY <2>1, <3>1, <3>2, StreamKept
  <2>4. ASSUME NEW c \in Callers
        PROVE  CursorIsTrue(c)'
    <3>1. CursorIsTrue(c)
      BY DEF Coherent
    <3>2. cursors[c] # IdleCursor => cursors[c].s \in Streams /\ cursors[c].s # s
      BY <2>2, <3>1, CursorFields DEF CursorIsTrue, TypeOK
    <3>3. cursors[c] # IdleCursor =>
            ~Deleting(cursors[c].s)' /\ truth'[cursors[c].s] = truth[cursors[c].s]
      BY <2>1, <2>2, <3>2 DEF TypeOK
    <3> QED
      BY <2>1, <3>3, CursorKept
  <2>5. JobIsTrue'
    BY <1>2, <2>1 DEF JobIsTrue, TypeOK
  <2> QED
    BY <2>2, <2>3, <2>4, <2>5 DEF Coherent, StreamIsTrue
<1>16. ASSUME NEW s \in Streams, DeleteEnd(s)
       PROVE  Coherent'
  <2>1. /\ SameBlocks /\ truth' = truth /\ cursors' = cursors /\ job' = FreeLock
        /\ job = [stage |-> "delete", s |-> s] /\ ~HasBlocks(s)
        /\ tail'[s] = None /\ \A x \in Streams : tail'[x] \in {tail[x], None}
    BY <1>16 DEF DeleteEnd, Forget, storage, TypeOK
  <2>2. \A x \in Streams : Deleting(x) => x = s
    BY <2>1 DEF Deleting
  <2>3. JobIsTrue'
    BY <1>2, <2>1 DEF JobIsTrue, FreeLock
  <2> QED
    BY <1>1, <2>1, <2>2, <2>3, QuietStep
<1>17. CASE (\E new \in Keys : RotateFinished(new) \/ RotateBegin(new)) \/ RotateAdopt
  <2>1. /\ SameBlocks /\ truth' = truth /\ cursors' = cursors
        /\ job.stage \in {"free", "rotate"} /\ job'.stage \in {"free", "rotate"}
        /\ \A x \in Streams : tail'[x] \in {tail[x], None}
    BY <1>17 DEF RotateFinished, RotateBegin, RotateAdopt, AllTails, FreeLock, storage
  <2>2. \A x \in Streams : ~Deleting(x) /\ ~Deleting(x)'
    BY <2>1 DEF Deleting
  <2>3. JobIsTrue'
    BY <1>2, <2>1 DEF JobIsTrue
  <2> QED
    BY <1>1, <2>1, <2>2, <2>3, QuietStep
<1>18. ASSUME NEW s \in Streams, NEW n \in Seqs, RotateBlock(s, n)
       PROVE  Coherent'
  <2>1. /\ truth' = truth /\ cursors' = cursors /\ tail' = tail /\ job' = job
        /\ job.stage = "rotate"
    BY <1>18 DEF RotateBlock, process
  <2>2. \A x \in Streams : SameLog(x)
    BY <1>18, RotationKeepsContent
  <2>3. \A x \in Streams : ~Deleting(x) /\ ~Deleting(x)'
    BY <2>1 DEF Deleting
  <2>4. JobIsTrue'
    BY <1>2, <2>1 DEF JobIsTrue
  <2> QED
    BY <2>1, <2>2, <2>3, <2>4, QuietStep
<1>19. CASE Abort
  <2>1. /\ SameBlocks /\ truth' = truth /\ tail' = tail /\ job # FreeLock /\ job' = FreeLock
        /\ cursors'[Appender] = IdleCursor
        /\ \A d \in Callers : d # Appender => cursors'[d] = cursors[d]
    BY <1>2, <1>19 DEF Abort, storage, process, TypeOK
  <2>2. job.stage # "delete"
    BY <1>19, <2>1 DEF Abort, DeletesFinish
  <2>3. \A x \in Streams : ~Deleting(x) /\ ~Deleting(x)'
    BY <2>1, <2>2 DEF Deleting, FreeLock
  <2>4. JobIsTrue' /\ CursorIsTrue(Appender)'
    BY <2>1 DEF JobIsTrue, CursorIsTrue, FreeLock
  <2> QED
    BY <1>1, <2>1, <2>3, <2>4, QuietStep
<1>20. CASE Crash
  <2>1. /\ SameBlocks /\ truth' = truth /\ job' = FreeLock
        /\ \A x \in Streams : tail'[x] = None
        /\ \A d \in Callers : cursors'[d] = IdleCursor
    BY <1>20 DEF Crash, storage, AllTails
  <2>2. \A x \in Streams : Deleting(x) => ~HasBlocks(x)
    BY <2>1 DEF Deleting, DeletesFinish, FreeLock
  <2>3. JobIsTrue'
    BY <1>2, <2>1 DEF JobIsTrue, FreeLock
  <2>4. \A d \in Callers : CursorIsTrue(d)'
    BY <2>1 DEF CursorIsTrue
  <2> QED
    BY <1>1, <2>1, <2>2, <2>3, <2>4, QuietStep
<1> QED
  BY <1>4, <1>5, <1>6, <1>7, <1>8, <1>9, <1>10, <1>11, <1>12, <1>13, <1>14, <1>15, <1>16, <1>17,
     <1>18, <1>19, <1>20, CreateCoherent, AppendCoherent
     DEF Next, Create, Read, Replay, AppendOp, DeleteOp, Rotate

(* At the end of a coherent replay stands the state that was asked for.    *)
LEMMA CoherentReads == TypeOK /\ Coherent => ReadsAreExact
<1> SUFFICES ASSUME TypeOK, Coherent, NEW c \in Callers, cursors[c].stage = "done"
             PROVE  LET cur == cursors[c]
                    IN /\ truth[cur.s][cur.n] = [ts |-> cur.ts, state |-> cur.state]
                       /\ cur.at = None => cur.n = cur.target
                       /\ cur.at # None => \A m \in 0 .. cur.target :
                                             (truth[cur.s][m].ts <= cur.at) <=> (m <= cur.n)
  BY DEF ReadsAreExact
<1> DEFINE cur == cursors[c]
           past == truth[cur.s]
<1>1. /\ cur # IdleCursor /\ cur \in Cursor /\ cur.stage # "listed"
  BY DEF IdleCursor, TypeOK
<1>2. /\ cur.s \in Streams /\ cur.at \in Times \cup {None} /\ cur.target \in Seqs
      /\ cur.n \in Seqs /\ cur.ts \in Times
  BY <1>1, CursorFields
<1>3. /\ ~Deleting(cur.s) /\ past[cur.target] # None /\ cur.n <= cur.target
      /\ past[cur.n] = [ts |-> cur.ts, state |-> cur.state] /\ InTime(cur, cur.ts)
      /\ cur.n # cur.target => ~InTime(cur, past[cur.n + 1].ts)
  BY <1>1 DEF Coherent, CursorIsTrue
<1>4. LogIsTrue(cur.s)
  BY <1>2, <1>3 DEF Coherent
<1>5. cur.at = None => cur.n = cur.target
  BY <1>3 DEF InTime
<1>6. ASSUME cur.at # None, NEW m \in 0 .. cur.target
      PROVE  (past[m].ts <= cur.at) <=> (m <= cur.n)
  <2>1. m \in Seqs /\ cur.n \in Int /\ cur.target \in Int /\ m \in Int
    BY <1>2, BoundsAssumption DEF Seqs
  <2>2. \A k \in Seqs : k <= cur.target => past[k] # None /\ past[k].ts \in Int
    BY <1>2, <1>3, <1>4 DEF LogIsTrue, TypeOK, Moment, Times
  <2>3. \A j, k \in Seqs : j <= k /\ k <= cur.target => past[j].ts <= past[k].ts
    BY <1>4, <2>2 DEF LogIsTrue
  <2>4. cur.at \in Int
    BY <1>2, <1>6 DEF Times
  <2>5. CASE m <= cur.n
    <3>1. past[cur.n].ts <= cur.at
      BY <1>3, <1>6 DEF InTime
    <3> QED
      BY <1>2, <1>3, <2>1, <2>2, <2>3, <2>4, <2>5, <3>1
  <2>6. CASE m > cur.n
    <3>1. cur.n # cur.target /\ cur.n + 1 \in Seqs /\ cur.n + 1 <= m /\ cur.n + 1 <= cur.target
      BY <1>2, <1>3, <2>1, <2>6, BoundsAssumption DEF Seqs
    <3>2. ~(past[cur.n + 1].ts <= cur.at)
      BY <1>3, <1>6, <3>1 DEF InTime
    <3> QED
      BY <2>1, <2>2, <2>3, <2>4, <2>6, <3>1, <3>2
  <2> QED
    BY <2>1, <2>5, <2>6
<1> QED
  BY <1>3, <1>5, <1>6

(* The blocks, the snapshots, the cached tails and every replay in         *)
(* progress agree with what was acknowledged, at every moment of a         *)
(* carefully run store.                                                    *)
THEOREM AlwaysCoherent == CareSpec => []Coherent
<1>1. Init => TypeOK /\ Coherent
  BY TypeInit, CoherentInit
<1>2. TypeOK /\ Coherent /\ [CareNext]_vars => (TypeOK /\ Coherent)'
  BY TypeNext, CoherentNext DEF CareNext, vars
<1> QED
  BY <1>1, <1>2, PTL DEF CareSpec

(* state_at, unlocked, answers with what the log says, for every number of *)
(* readers and streams, beside appends, rotations and crashes, as long as  *)
(* deletions finish and nobody reads a stream while it is deleted.         *)
THEOREM ReadsCorrect == CareSpec => []ReadsAreExact
<1>1. Init => TypeOK /\ Coherent
  BY TypeInit, CoherentInit
<1>2. TypeOK /\ Coherent /\ [CareNext]_vars => (TypeOK /\ Coherent)'
  BY TypeNext, CoherentNext DEF CareNext, vars
<1>3. TypeOK /\ Coherent => ReadsAreExact
  BY CoherentReads
<1> QED
  BY <1>1, <1>2, <1>3, PTL DEF CareSpec

-----------------------------------------------------------------------------
(* The writes.                                                             *)

(* Only append makes an event other than a base appear. *)
LEMMA OnlyAppendAdds ==
  ASSUME TypeOK, Next, NEW s \in Streams, NEW n \in Seqs, n > 0,
         evt[s][n] = None, evt'[s][n] # None
  PROVE  \E p \in Payloads, ts \in Times : AppendEvent(s, p, ts) /\ n = tail[s].seq + 1
<1>1. evt' # evt
  OBVIOUS
<1>2. ASSUME NEW x \in Streams, NEW state \in States, NEW ts \in Stamps(None),
             CreateStream(x, state, ts)
      PROVE  FALSE
  <2>1. 0 \in Seqs /\ n # 0
    BY BoundsAssumption DEF Seqs
  <2> QED
    BY <1>2, <2>1 DEF CreateStream, TypeOK
<1>3. ASSUME NEW x \in Streams, NEW p \in Payloads, NEW ts \in Times, AppendEvent(x, p, ts)
      PROVE  x = s /\ n = tail[s].seq + 1
  <2> DEFINE m == tail[x].seq + 1
  <2>1. m \in Seqs
    BY <1>3, BoundsAssumption DEF AppendEvent, Appending, TypeOK, TailRecord, Seqs
  <2>2. evt' = [evt EXCEPT ![x][m] = [key |-> master, ts |-> ts, body |-> p]]
    BY <1>3 DEF AppendEvent
  <2> QED
    BY <2>1, <2>2 DEF TypeOK
<1>4. ASSUME NEW x \in Streams, NEW m \in Seqs, DeleteBlock(x, m)
      PROVE  FALSE
  <2>1. evt' = [evt EXCEPT ![x][m] = None]
    BY <1>1, <1>4 DEF DeleteBlock
  <2> QED
    BY <2>1 DEF TypeOK
<1>5. ASSUME NEW x \in Streams, NEW m \in Seqs, RotateBlock(x, m)
      PROVE  FALSE
  BY <1>5, RotationKeepsContent DEF SameLog
<1> QED
  BY <1>1, <1>2, <1>3, <1>4, <1>5
     DEF Next, KeyChecked, Create, CreateKeyCheck, Read, ReadBegin, ReadEnd, Replay, OpenBase,
         PickSnapshot, ReplayEvent, AppendOp, AppendLoad, TailLoaded, SlotTaken, AppendSnapshot,
         DeleteOp, DeleteBegin, DeleteNothing, DeleteEnd, Rotate, RotateFinished, RotateBegin,
         RotateAdopt, SwitchKey, Abort, Crash, storage

(* No append, in any interleaving with crashes, evictions and stale cached *)
(* tails, builds on anything but the latest event of the log, or is dated  *)
(* before it.                                                              *)
THEOREM AppendsCorrect == CareSpec => AppendsExtendTheLog
<1> DEFINE Extends ==
      \A s \in Streams, n \in Seqs :
        evt[s][n] = None /\ evt'[s][n] # None /\ n > 0 =>
          /\ truth[s][n - 1] # None
          /\ truth'[s][n] = [ts |-> evt'[s][n].ts,
                             state |-> Apply(truth[s][n - 1].state, evt'[s][n].body)]
          /\ truth'[s][n].ts >= truth[s][n - 1].ts
<1>1. Init => TypeOK /\ Coherent
  BY TypeInit, CoherentInit
<1>2. TypeOK /\ Coherent /\ [CareNext]_vars => (TypeOK /\ Coherent)'
  BY TypeNext, CoherentNext DEF CareNext, vars
<1>3. TypeOK /\ Coherent /\ [CareNext]_vars => [Extends]_vars
  <2> SUFFICES ASSUME TypeOK, Coherent, CareNext, NEW s \in Streams, NEW n \in Seqs,
                      evt[s][n] = None, evt'[s][n] # None, n > 0
               PROVE  /\ truth[s][n - 1] # None
                      /\ truth'[s][n] = [ts |-> evt'[s][n].ts,
                                         state |-> Apply(truth[s][n - 1].state, evt'[s][n].body)]
                      /\ truth'[s][n].ts >= truth[s][n - 1].ts
    BY DEF vars
  <2>1. PICK p \in Payloads, ts \in Times : AppendEvent(s, p, ts) /\ n = tail[s].seq + 1
    BY OnlyAppendAdds DEF CareNext
  <2> DEFINE state == Apply(tail[s].state, p)
  <2>2. /\ tail[s] \in TailRecord /\ truth[s][n - 1] # None
        /\ truth[s][n - 1] = [ts |-> tail[s].ts, state |-> tail[s].state]
        /\ tail[s].ts <= ts
        /\ evt' = [evt EXCEPT ![s][n] = [key |-> master, ts |-> ts, body |-> p]]
        /\ truth' = [truth EXCEPT ![s][n] = [ts |-> ts, state |-> state]]
    BY <2>1, AppendFollows
  <2>3. /\ evt'[s][n] = [key |-> master, ts |-> ts, body |-> p]
        /\ truth'[s][n] = [ts |-> ts, state |-> state]
    BY <2>2 DEF TypeOK
  <2>4. ts \in Int /\ tail[s].ts \in Int
    BY <2>2 DEF TailRecord, Times
  <2> QED
    BY <2>2, <2>3, <2>4
<1> QED
  BY <1>1, <1>2, <1>3, PTL DEF CareSpec, AppendsExtendTheLog

(* No step changes the time or the content of a block that stays: writes   *)
(* go to free slots, and a rotation changes keys alone.  This needs no     *)
(* care of the deployment.                                                 *)
THEOREM NeverUpdated == Spec => NothingUpdatedInPlace
<1> DEFINE Kept ==
      \A s \in Streams, n \in Seqs :
        /\ evt[s][n] # None /\ evt'[s][n] # None =>
             evt'[s][n].ts = evt[s][n].ts /\ evt'[s][n].body = evt[s][n].body
        /\ snp[s][n] # None /\ snp'[s][n] # None =>
             snp'[s][n].ts = snp[s][n].ts /\ snp'[s][n].body = snp[s][n].body
<1>1. TypeOK /\ [Next]_vars => [Kept]_vars
  <2> SUFFICES ASSUME TypeOK, Next
               PROVE  Kept
    OBVIOUS
  <2>1. CASE UNCHANGED <<evt, snp>>
    BY <2>1
  <2>2. ASSUME NEW s \in Streams, NEW state \in States, NEW ts \in Stamps(None),
               CreateStream(s, state, ts)
        PROVE  Kept
    <3>1. 0 \in Seqs /\ evt[s][0] = None
      BY <2>2, BoundsAssumption DEF CreateStream, HasEvents, Seqs
    <3>2. \A x \in Streams, n \in Seqs : x # s \/ n # 0 => evt'[x][n] = evt[x][n]
      BY <2>2, <3>1 DEF CreateStream, TypeOK
    <3> QED
      BY <2>2, <3>1, <3>2 DEF CreateStream
  <2>3. ASSUME NEW s \in Streams, NEW p \in Payloads, NEW ts \in Times, AppendEvent(s, p, ts)
        PROVE  Kept
    <3>1. evt[s][tail[s].seq + 1] = None /\ snp' = snp
      BY <2>3 DEF AppendEvent, SlotFree
    <3>2. \A x \in Streams, n \in Seqs : x # s \/ n # tail[s].seq + 1 => evt'[x][n] = evt[x][n]
      BY <2>3 DEF AppendEvent, TypeOK
    <3> QED
      BY <3>1, <3>2
  <2>4. ASSUME NEW s \in Streams, AppendSnapshot(s)
        PROVE  Kept
    <3>1. evt' = evt
      BY <2>4 DEF AppendSnapshot
    <3>2. CASE SlotFree(snp[s], job.entry.seq)
      <4>1. \A x \in Streams, n \in Seqs : x # s \/ n # job.entry.seq => snp'[x][n] = snp[x][n]
        BY <2>4, <3>2 DEF AppendSnapshot, TypeOK
      <4>2. snp[s][job.entry.seq] = None
        BY <3>2 DEF SlotFree
      <4> QED
        BY <3>1, <4>1, <4>2
    <3>3. CASE ~SlotFree(snp[s], job.entry.seq)
      BY <2>4, <3>1, <3>3 DEF AppendSnapshot
    <3> QED
      BY <3>2, <3>3
  <2>5. ASSUME NEW s \in Streams, NEW n \in Seqs, DeleteBlock(s, n)
        PROVE  Kept
    <3>1. CASE evt' = [evt EXCEPT ![s][n] = None] /\ snp' = snp
      <4>1. /\ evt'[s][n] = None
            /\ \A x \in Streams, m \in Seqs : x # s \/ m # n => evt'[x][m] = evt[x][m]
        BY <3>1 DEF TypeOK
      <4> QED
        BY <3>1, <4>1
    <3>2. CASE snp' = [snp EXCEPT ![s][n] = None] /\ evt' = evt
      <4>1. /\ snp'[s][n] = None
            /\ \A x \in Streams, m \in Seqs : x # s \/ m # n => snp'[x][m] = snp[x][m]
        BY <3>2 DEF TypeOK
      <4> QED
        BY <3>2, <4>1
    <3> QED
      BY <2>5, <3>1, <3>2 DEF DeleteBlock
  <2>6. ASSUME NEW s \in Streams, NEW n \in Seqs, RotateBlock(s, n)
        PROVE  Kept
    BY <2>6, RotationKeepsContent DEF SameLog
  <2> QED
    BY <2>1, <2>2, <2>3, <2>4, <2>5, <2>6
       DEF Next, KeyChecked, Create, CreateKeyCheck, Read, ReadBegin, ReadEnd, Replay, OpenBase,
           PickSnapshot, ReplayEvent, AppendOp, AppendLoad, TailLoaded, SlotTaken,
           DeleteOp, DeleteBegin, DeleteNothing, DeleteEnd, Rotate, RotateFinished, RotateBegin,
           RotateAdopt, SwitchKey, Abort, Crash, storage
<1> QED
  BY <1>1, TypeInit, TypeNext, PTL DEF Spec, NothingUpdatedInPlace

(* What a rotation in progress can rely on: its plan was made under the    *)
(* lock, and nothing but the rotation writes until it lets go of it.       *)
RotationPlanned == job.stage = "rotate" => Plannable(job.to)

LEMMA RotationPlannedNext ==
  TypeOK /\ RotationPlanned /\ [Next]_vars => RotationPlanned'
<1> SUFFICES ASSUME TypeOK, RotationPlanned, [Next]_vars, job'.stage = "rotate"
             PROVE  Plannable(job.to)'
  BY DEF RotationPlanned
<1>1. CASE UNCHANGED <<evt, snp, master, job>>
  BY <1>1 DEF RotationPlanned, Plannable, ListedStreams, HasEvents
<1>2. ASSUME NEW new \in Keys, RotateBegin(new)
      PROVE  Plannable(job.to)'
  BY <1>2 DEF RotateBegin, storage, Plannable, ListedStreams, HasEvents
<1>3. ASSUME NEW s \in Streams, NEW n \in Seqs, RotateBlock(s, n)
      PROVE  Plannable(job.to)'
  <2>1. Plannable(job.to) /\ job' = job /\ master' = master /\ job.to \in Keys
    BY <1>3 DEF RotateBlock, process, RotationPlanned, TypeOK, Job, FreeLock
  <2>2. \A x \in Streams : SameLog(x)
    BY <1>3, RotationKeepsContent
  <2>3. \A x \in Streams : HasEvents(x)' <=> HasEvents(x)
    BY <2>2 DEF HasEvents, SameLog
  <2>4. ASSUME NEW x \in Streams, NEW m \in Seqs
        PROVE  /\ evt'[x][m] # None => evt'[x][m].key \in {evt[x][m].key, job.to}
               /\ snp'[x][m] # None => snp'[x][m].key \in {snp[x][m].key, job.to}
    <3>1. CASE OldEvent(s, n) /\ evt' = [evt EXCEPT ![s][n].key = job.to] /\ UNCHANGED snp
      <4>1. evt[s][n] \in EventRecord
        BY <3>1 DEF OldEvent, TypeOK
      <4>2. [evt[s][n] EXCEPT !.key = job.to].key = job.to
        BY <4>1 DEF EventRecord
      <4> QED
        BY <3>1, <4>2 DEF TypeOK
    <3>2. CASE OldSnapshot(s, n) /\ snp' = [snp EXCEPT ![s][n].key = job.to] /\ UNCHANGED evt
      <4>1. snp[s][n] \in SnapshotRecord
        BY <3>2 DEF OldSnapshot, TypeOK
      <4>2. [snp[s][n] EXCEPT !.key = job.to].key = job.to
        BY <4>1 DEF SnapshotRecord
      <4> QED
        BY <3>2, <4>2 DEF TypeOK
    <3> QED
      BY <1>3, <3>1, <3>2 DEF RotateBlock
  <2> QED
    <3> SUFFICES ASSUME NEW x \in Streams, HasEvents(x)', NEW m \in Seqs
                 PROVE  /\ evt'[x][m] # None => evt'[x][m].key \in {master, job.to}
                        /\ snp'[x][m] # None => snp'[x][m].key \in {master, job.to}
      BY <2>1 DEF Plannable, ListedStreams
    <3>1. /\ evt[x][m] # None => evt[x][m].key \in {master, job.to}
          /\ snp[x][m] # None => snp[x][m].key \in {master, job.to}
      BY <2>1, <2>3 DEF Plannable, ListedStreams
    <3>2. (evt'[x][m] # None <=> evt[x][m] # None) /\ (snp'[x][m] # None <=> snp[x][m] # None)
      BY <2>2 DEF SameLog
    <3> QED
      BY <2>4, <3>1, <3>2
<1>4. ASSUME NEW c \in Callers, OpenBase(c) \/ PickSnapshot(c) \/ ReplayEvent(c)
      PROVE  UNCHANGED <<evt, snp, master, job>>
  <2>1. job' = job \/ Raise(c)
    BY <1>4 DEF OpenBase, PickSnapshot, ReplayEvent
  <2>2. job' = job
    BY <2>1 DEF Raise, FreeLock
  <2> QED
    BY <1>4, <2>2 DEF OpenBase, PickSnapshot, ReplayEvent, storage, process
<1>5. ASSUME NEW s \in Streams,
             \/ AppendLoad(s) \/ TailLoaded(s) \/ SlotTaken(s) \/ AppendSnapshot(s)
             \/ \E p \in Payloads, ts \in Times : AppendEvent(s, p, ts)
      PROVE  FALSE
  <2>1. CASE AppendLoad(s) \/ TailLoaded(s) \/ SlotTaken(s) \/ AppendSnapshot(s)
    BY <2>1 DEF AppendLoad, TailLoaded, SlotTaken, AppendSnapshot, FreeLock
  <2>2. ASSUME NEW p \in Payloads, NEW ts \in Times, AppendEvent(s, p, ts)
        PROVE  FALSE
    <3>1. job'.stage \in {"snapshot", "free"}
      BY <2>2 DEF AppendEvent, FreeLock
    <3> QED
      BY <3>1
  <2> QED
    BY <1>5, <2>1, <2>2
<1>6. ASSUME NEW s \in Streams,
             \/ CreateKeyCheck(s) \/ DeleteBegin(s) \/ DeleteNothing(s) \/ DeleteEnd(s)
             \/ \E n \in Seqs : DeleteBlock(s, n)
             \/ \E state \in States, ts \in Stamps(None) : CreateStream(s, state, ts)
      PROVE  FALSE
  <2>1. CASE CreateKeyCheck(s) \/ DeleteBegin(s) \/ DeleteEnd(s)
    BY <2>1 DEF CreateKeyCheck, DeleteBegin, DeleteEnd, FreeLock
  <2>2. CASE DeleteNothing(s)
    BY <2>2 DEF DeleteNothing, FreeLock, storage
  <2>3. ASSUME NEW n \in Seqs, DeleteBlock(s, n)
        PROVE  FALSE
    BY <2>3 DEF DeleteBlock
  <2>4. ASSUME NEW state \in States, NEW ts \in Stamps(None), CreateStream(s, state, ts)
        PROVE  FALSE
    BY <2>4 DEF CreateStream, FreeLock
  <2> QED
    BY <1>6, <2>1, <2>2, <2>3, <2>4
<1>7. CASE KeyChecked \/ Read
  BY <1>1, <1>7 DEF KeyChecked, Read, ReadBegin, ReadEnd, storage, process
<1>8. ASSUME \/ \E new \in Keys : RotateFinished(new)
             \/ RotateAdopt \/ SwitchKey \/ Abort \/ Crash
      PROVE  FALSE
  BY <1>8 DEF RotateFinished, RotateAdopt, SwitchKey, Abort, Crash, FreeLock
<1> QED
  BY <1>1, <1>2, <1>3, <1>4, <1>5, <1>6, <1>7, <1>8
     DEF vars, Next, Create, Replay, AppendOp, DeleteOp, Rotate

(* The moment the key check changes, every record of every listed stream   *)
(* opens with the key it names, whatever crashed before.                   *)
THEOREM KeyCheckIsRight == Spec => KeyCheckIsLast
<1> DEFINE Last ==
      keycheck' # keycheck =>
        \A s \in Streams, n \in Seqs : HasEvents(s) =>
          /\ evt'[s][n] # None => Opens(evt'[s][n], keycheck')
          /\ snp'[s][n] # None => Opens(snp'[s][n], keycheck')
<1>1. Init => RotationPlanned
  BY DEF Init, FreeLock, RotationPlanned
<1>2. TypeOK /\ RotationPlanned /\ [Next]_vars => [Last]_vars
  <2> SUFFICES ASSUME TypeOK, RotationPlanned, Next, keycheck' # keycheck,
                      NEW s \in Streams, NEW n \in Seqs, HasEvents(s)
               PROVE  /\ evt'[s][n] # None => Opens(evt'[s][n], keycheck')
                      /\ snp'[s][n] # None => Opens(snp'[s][n], keycheck')
    OBVIOUS
  <2>1. RotateAdopt \/ \E x \in Streams : CreateKeyCheck(x)
    <3>1. ~Read /\ ~Replay
      BY DEF Read, ReadBegin, ReadEnd, Replay, OpenBase, PickSnapshot, ReplayEvent, storage
    <3>2. ~AppendOp
      <4>1. ASSUME NEW x \in Streams
            PROVE  ~AppendLoad(x) /\ ~TailLoaded(x) /\ ~SlotTaken(x) /\ ~AppendSnapshot(x)
        BY DEF AppendLoad, TailLoaded, SlotTaken, AppendSnapshot, storage
      <4>2. ASSUME NEW x \in Streams, NEW p \in Payloads, NEW ts \in Times
            PROVE  ~AppendEvent(x, p, ts)
        BY DEF AppendEvent
      <4> QED
        BY <4>1, <4>2 DEF AppendOp
    <3>3. ~DeleteOp
      BY DEF DeleteOp, DeleteBegin, DeleteNothing, DeleteBlock, DeleteEnd, storage
    <3>4. ~KeyChecked /\ ~Abort /\ ~Crash
      BY DEF KeyChecked, Abort, Crash, storage
    <3>5. Create => \E x \in Streams : CreateKeyCheck(x)
      BY DEF Create, CreateStream
    <3>6. Rotate => RotateAdopt
      BY DEF Rotate, RotateFinished, RotateBegin, RotateBlock, SwitchKey, storage
    <3> QED
      BY <3>1, <3>2, <3>3, <3>4, <3>5, <3>6 DEF Next
  <2>2. ~CreateKeyCheck(s) /\ \A x \in Streams : ~CreateKeyCheck(x)
    BY DEF CreateKeyCheck, FirstStream, ListedStreams
  <2>3. /\ job.stage = "rotate" /\ ~Planned /\ keycheck' = job.to /\ evt' = evt /\ snp' = snp
    BY <2>1, <2>2 DEF RotateAdopt, ListedStreams
  <2>4. /\ evt[s][n] # None => evt[s][n].key = job.to
        /\ snp[s][n] # None => snp[s][n].key = job.to
    BY <2>3 DEF RotationPlanned, Plannable, ListedStreams, Planned, OldEvent, OldSnapshot
  <2> QED
    BY <2>3, <2>4 DEF Opens
<1> QED
  BY <1>1, <1>2, TypeInit, TypeNext, RotationPlannedNext, PTL DEF Spec, KeyCheckIsLast

-----------------------------------------------------------------------------
(* EventStore implements EventLog: to whoever lists the blocks of a store  *)
(* that is run with care, each stream is an append-only log.               *)

(* The log of one stream, as an operator of its blocks.                    *)

Blocks == [Seqs -> EventRecord \cup {None}]
Entry == [ts : Times, body : States \cup Payloads]
Said(block) == [ts |-> block.ts, body |-> block.body]
LengthIn(b) ==
  IF b[0] = None THEN 0
  ELSE CHOOSE k \in 1 .. MaxSeq + 1 :
         /\ \A n \in 0 .. k - 1 : b[n] # None
         /\ k = MaxSeq + 1 \/ b[k] = None
LogIn(b) == [i \in 1 .. LengthIn(b) |-> [ts |-> b[i - 1].ts, body |-> b[i - 1].body]]
Ends(b, last) == \A n \in Seqs : (b[n] # None) <=> (n <= last)

(* What is said of a stream that is being deleted: nothing. *)
Shown(s) == IF Deleting(s) THEN << >> ELSE LogIn(evt[s])

LEMMA NoEntries ==
  ASSUME NEW b
  PROVE  [i \in 1 .. 0 |-> [ts |-> b[i - 1].ts, body |-> b[i - 1].body]] = << >>
OBVIOUS

LEMMA LogOfStreams ==
  /\ Log = [s \in Streams |-> Shown(s)]
  /\ Log' = [s \in Streams |-> Shown(s)']
<1>1. ASSUME NEW s \in Streams
      PROVE  /\ [i \in 1 .. Length(s) |-> [ts |-> evt[s][i - 1].ts, body |-> evt[s][i - 1].body]] = Shown(s)
             /\ [i \in 1 .. Length(s)' |-> [ts |-> evt'[s][i - 1].ts, body |-> evt'[s][i - 1].body]] = Shown(s)'
  <2>1. [i \in 1 .. Length(s) |-> [ts |-> evt[s][i - 1].ts, body |-> evt[s][i - 1].body]] = Shown(s)
    <3>1. CASE Deleting(s)
      <4>1. Length(s) = 0
        BY ONLY <3>1 DEF Length
      <4>2. Shown(s) = << >>
        BY ONLY <3>1 DEF Shown
      <4> QED
        BY <4>1, <4>2, NoEntries
    <3>2. CASE ~Deleting(s)
      <4>1. Length(s) = LengthIn(evt[s])
        BY ONLY <3>2 DEF Length, LengthIn
      <4>2. Shown(s) = LogIn(evt[s])
        BY ONLY <3>2 DEF Shown
      <4> QED
        BY ONLY <4>1, <4>2 DEF LogIn
    <3> QED
      BY <3>1, <3>2
  <2>2. [i \in 1 .. Length(s)' |-> [ts |-> evt'[s][i - 1].ts, body |-> evt'[s][i - 1].body]] = Shown(s)'
    <3>1. CASE Deleting(s)'
      <4>1. Length(s)' = 0
        BY ONLY <3>1 DEF Length
      <4>2. Shown(s)' = << >>
        BY ONLY <3>1 DEF Shown
      <4> QED
        BY <4>1, <4>2, NoEntries
    <3>2. CASE ~Deleting(s)'
      <4>1. Length(s)' = LengthIn(evt'[s])
        BY ONLY <3>2 DEF Length, LengthIn
      <4>2. Shown(s)' = LogIn(evt'[s])
        BY ONLY <3>2 DEF Shown
      <4> QED
        BY ONLY <4>1, <4>2 DEF LogIn
    <3> QED
      BY <3>1, <3>2
  <2> QED
    BY <2>1, <2>2
<1> QED
  BY <1>1 DEF Log

LEMMA SaidType ==
  ASSUME NEW block \in EventRecord
  PROVE  Said(block) \in Entry
BY DEF EventRecord, Entry, Said

(* A log that ends has one entry per block up to its last.                 *)
LEMMA LogEnds ==
  ASSUME NEW b \in Blocks, NEW last \in Seqs, Ends(b, last)
  PROVE  /\ LogIn(b) \in Seq(Entry) /\ Len(LogIn(b)) = last + 1
         /\ \A n \in 0 .. last : LogIn(b)[n + 1] = Said(b[n])
<1>1. last \in 0 .. MaxSeq /\ MaxSeq \in Nat /\ Seqs = 0 .. MaxSeq
  BY BoundsAssumption DEF Seqs
<1> DEFINE Fits(k) == (\A n \in 0 .. k - 1 : b[n] # None) /\ (k = MaxSeq + 1 \/ b[k] = None)
<1>2. Fits(last + 1) /\ last + 1 \in 1 .. MaxSeq + 1
  BY <1>1 DEF Ends
<1>3. \A k \in 1 .. MaxSeq + 1 : Fits(k) => k = last + 1
  <2> SUFFICES ASSUME NEW k \in 1 .. MaxSeq + 1, Fits(k) PROVE k = last + 1
    OBVIOUS
  <2>1. k - 1 <= last
    BY <1>1 DEF Ends
  <2>2. k > last
    BY <1>1 DEF Ends
  <2> QED
    BY <1>1, <2>1, <2>2
<1>4. b[0] # None
  BY <1>1 DEF Ends
<1>5. LengthIn(b) = last + 1
  <2>1. LengthIn(b) = CHOOSE k \in 1 .. MaxSeq + 1 : Fits(k)
    BY <1>4 DEF LengthIn
  <2> HIDE DEF Fits
  <2> QED
    BY <1>2, <1>3, <2>1
<1>6. LogIn(b) = [i \in 1 .. last + 1 |-> Said(b[i - 1])]
  BY <1>5 DEF LogIn, Said
<1>7. \A i \in 1 .. last + 1 : Said(b[i - 1]) \in Entry
  <2> TAKE i \in 1 .. last + 1
  <2>1. i - 1 \in Seqs /\ i - 1 <= last
    BY <1>1
  <2>2. b[i - 1] \in EventRecord
    BY <2>1 DEF Ends, Blocks
  <2> QED
    BY <2>2, SaidType
<1>8. last + 1 \in Nat
  BY <1>1
<1>9. LogIn(b) \in [1 .. last + 1 -> Entry]
  BY <1>6, <1>7
<1>10. LogIn(b) \in Seq(Entry) /\ Len(LogIn(b)) = last + 1
  BY <1>8, <1>9
<1>11. \A n \in 0 .. last : n + 1 \in 1 .. last + 1 /\ (n + 1) - 1 = n
  BY <1>1
<1> QED
  BY <1>6, <1>10, <1>11

LEMMA LogEmpty ==
  ASSUME NEW b, b[0] = None
  PROVE  LogIn(b) = << >>
<1>1. LengthIn(b) = 0
  BY DEF LengthIn
<1>2. LogIn(b) = [i \in 1 .. 0 |-> Said(b[i - 1])]
  BY <1>1 DEF LogIn, Said
<1> QED
  BY <1>2

(* Another key does not change what a log says.                            *)
LEMMA LogSame ==
  ASSUME NEW b \in Blocks, NEW c \in Blocks,
         b[0] # None => \E last \in Seqs : Ends(b, last),
         \A n \in Seqs : /\ b[n] # None <=> c[n] # None
                         /\ b[n] # None => c[n].ts = b[n].ts /\ c[n].body = b[n].body
  PROVE  LogIn(c) = LogIn(b)
<1>1. 0 \in Seqs /\ Seqs = 0 .. MaxSeq /\ MaxSeq \in Nat
  BY BoundsAssumption DEF Seqs
<1>2. CASE b[0] = None
  BY <1>1, <1>2, LogEmpty
<1>3. CASE b[0] # None
  <2>1. PICK last \in Seqs : Ends(b, last)
    BY <1>3
  <2>2. Ends(c, last)
    BY <2>1 DEF Ends
  <2>3. LogIn(b) \in Seq(Entry) /\ Len(LogIn(b)) = last + 1 /\ \A n \in 0 .. last : LogIn(b)[n + 1] = Said(b[n])
    BY <2>1, LogEnds
  <2>4. LogIn(c) \in Seq(Entry) /\ Len(LogIn(c)) = last + 1 /\ \A n \in 0 .. last : LogIn(c)[n + 1] = Said(c[n])
    BY <2>2, LogEnds
  <2>5. ASSUME NEW i \in 1 .. last + 1
        PROVE  LogIn(c)[i] = LogIn(b)[i]
    <3>1. PICK n \in 0 .. last : i = n + 1
      <4>1. i - 1 \in 0 .. last /\ i = (i - 1) + 1
        BY <1>1
      <4> QED
        BY <4>1
    <3>2. n \in Seqs /\ b[n] # None
      BY <1>1, <2>1 DEF Ends
    <3>3. Said(c[n]) = Said(b[n])
      BY <3>2 DEF Said
    <3> QED
      BY <2>3, <2>4, <3>1, <3>3
  <2> QED
    BY <2>3, <2>4, <2>5, SeqEqual
<1> QED
  BY <1>2, <1>3

(* A block more is an entry more.                                          *)
LEMMA LogFirst ==
  ASSUME NEW b \in Blocks, NEW c \in Blocks, b[0] = None, Ends(c, 0)
  PROVE  /\ LogIn(b) = << >> /\ c[0] \in EventRecord
         /\ LogIn(c) = << Said(c[0]) >>
<1>1. 0 \in Seqs /\ 0 \in 0 .. 0
  BY BoundsAssumption DEF Seqs
<1>2. c[0] \in EventRecord
  BY <1>1 DEF Ends, Blocks
<1>3. LogIn(c) \in Seq(Entry) /\ Len(LogIn(c)) = 0 + 1 /\ \A n \in 0 .. 0 : LogIn(c)[n + 1] = Said(c[n])
  BY <1>1, LogEnds
<1>4. PICK e : e = Said(c[0])
  OBVIOUS
<1>5. e \in Entry
  BY <1>2, <1>4, SaidType
<1>6. << e >> \in Seq(Entry) /\ Len(<< e >>) = 1 /\ << e >>[1] = e
  BY <1>5
<1>7. Len(LogIn(c)) = 1 /\ LogIn(c)[1] = e
  BY <1>1, <1>3, <1>4
<1>8. \A i \in 1 .. Len(LogIn(c)) : LogIn(c)[i] = << e >>[i]
  BY <1>6, <1>7
<1>9. LogIn(c) = << e >>
  BY <1>3, <1>6, <1>7, <1>8, SeqEqual
<1> QED
  BY <1>2, <1>4, <1>9, LogEmpty

LEMMA LogNext ==
  ASSUME NEW b \in Blocks, NEW c \in Blocks, NEW last \in Seqs, last + 1 \in Seqs,
         Ends(b, last), Ends(c, last + 1), \A n \in Seqs : n <= last => c[n] = b[n]
  PROVE  /\ LogIn(b) # << >> /\ LogIn(b)[Len(LogIn(b))] = Said(b[last])
         /\ c[last + 1] \in EventRecord
         /\ LogIn(c) = Append(LogIn(b), Said(c[last + 1]))
<1>1. last \in Nat /\ Seqs = 0 .. MaxSeq /\ MaxSeq \in Nat
  BY BoundsAssumption DEF Seqs
<1>2. c[last + 1] \in EventRecord
  BY <1>1 DEF Ends, Blocks
<1>3. PICK e : e = Said(c[last + 1])
  OBVIOUS
<1>4. e \in Entry
  BY <1>2, <1>3, SaidType
<1>5. PICK old : old = LogIn(b)
  OBVIOUS
<1>6. PICK new : new = LogIn(c)
  OBVIOUS
<1>7. old \in Seq(Entry) /\ Len(old) = last + 1 /\ \A n \in 0 .. last : old[n + 1] = Said(b[n])
  BY <1>5, LogEnds
<1>8. new \in Seq(Entry) /\ Len(new) = (last + 1) + 1 /\ \A n \in 0 .. last + 1 : new[n + 1] = Said(c[n])
  BY <1>6, LogEnds
<1>9. /\ Append(old, e) \in Seq(Entry) /\ Len(Append(old, e)) = Len(old) + 1
      /\ \A i \in 1 .. Len(old) : Append(old, e)[i] = old[i]
      /\ Append(old, e)[Len(old) + 1] = e
  BY <1>4, <1>7, AppendProperties
<1>10. \A i \in 1 .. Len(new) : new[i] = Append(old, e)[i]
  <2> TAKE i \in 1 .. Len(new)
  <2>1. CASE i = last + 2
    <3>1. last + 1 \in 0 .. last + 1
      BY <1>1
    <3>2. new[(last + 1) + 1] = e
      BY <1>3, <1>8, <3>1
    <3> QED
      BY <1>1, <1>7, <1>9, <2>1, <3>2
  <2>2. CASE i # last + 2
    <3>1. PICK n \in 0 .. last : i = n + 1
      <4>1. i - 1 \in 0 .. last /\ i = (i - 1) + 1
        BY <1>1, <1>8, <2>2
      <4> QED
        BY <4>1
    <3>2. n \in 0 .. last + 1 /\ n \in Seqs /\ n <= last /\ i \in 1 .. last + 1
      BY <1>1, <3>1
    <3>3. new[i] = Said(c[n]) /\ c[n] = b[n]
      BY <1>8, <3>1, <3>2
    <3>4. Append(old, e)[i] = Said(b[n])
      BY <1>7, <1>9, <3>1, <3>2
    <3> QED
      BY <3>3, <3>4
  <2> QED
    BY <2>1, <2>2
<1>11. new = Append(old, e)
  BY <1>7, <1>8, <1>9, <1>10, <1>1, SeqEqual
<1>12. old # << >> /\ old[Len(old)] = Said(b[last])
  <2>1. Len(old) # 0 /\ last \in 0 .. last
    BY <1>1, <1>7
  <2> QED
    BY <1>7, <2>1
<1> QED
  BY <1>2, <1>3, <1>5, <1>6, <1>11, <1>12

-----------------------------------------------------------------------------
(* Every step is a step of the log, or none.  A log has an end wherever it *)
(* has a base and is not being deleted, because events come one after the  *)
(* other and what is deleted goes as a whole.                              *)

Ended(s) == evt[s][0] # None => \E last \in Seqs : Ends(evt[s], last)
Whole == \A s \in Streams : ~Deleting(s) => Ended(s)

(* Which streams are being deleted, where the lock goes to no deletion and *)
(* from none.                                                              *)
LEMMA NoDeletion ==
  ASSUME job.stage # "delete", job'.stage # "delete"
  PROVE  \A s \in Streams : ~Deleting(s) /\ ~Deleting(s)'
BY DEF Deleting

LEMMA OneLogChanges ==
  ASSUME NEW s \in Streams,
         \A x \in Streams : x # s => evt'[x] = evt[x] /\ (Deleting(x)' <=> Deleting(x))
  PROVE  Log' = [Log EXCEPT ![s] = Shown(s)']
<1>1. \A x \in Streams : x # s => Shown(x)' = Shown(x)
  BY DEF Shown
<1> QED
  BY <1>1, LogOfStreams

(* A stream's blocks, before and after. *)
LEMMA BlocksTyped ==
  ASSUME TypeOK, TypeOK'
  PROVE  \A s \in Streams : evt[s] \in Blocks /\ evt'[s] \in Blocks
BY DEF TypeOK, Blocks

LEMMA CreateLogs ==
  ASSUME TypeOK, TypeOK', Whole, NEW s \in Streams, NEW state \in States, NEW ts \in Stamps(None),
         CreateStream(s, state, ts)
  PROVE  Whole' /\ L!Create(s)
<1>1. 0 \in Seqs /\ Seqs = 0 .. MaxSeq /\ MaxSeq \in Nat
  BY BoundsAssumption DEF Seqs
<1>2. /\ \A n \in Seqs : evt[s][n] = None
      /\ evt' = [evt EXCEPT ![s][0] = [key |-> master, ts |-> ts, body |-> state]]
  BY DEF CreateStream, HasEvents
<1>3. [key |-> master, ts |-> ts, body |-> state] \in EventRecord
  BY DEF TypeOK, EventRecord, Stamps
<1>4. /\ evt'[s][0] # None /\ \A n \in Seqs : n # 0 => evt'[s][n] = None
      /\ \A x \in Streams : x # s => evt'[x] = evt[x]
  BY <1>1, <1>2, <1>3, NoneAssumption DEF TypeOK
<1>5. Ends(evt'[s], 0)
  BY <1>1, <1>4 DEF Ends
<1>51. \A x \in Streams : ~Deleting(x) /\ ~Deleting(x)'
  <2>1. job.stage # "delete" /\ job'.stage # "delete"
    BY DEF CreateStream, FreeLock
  <2> QED
    BY <2>1, NoDeletion
<1>6. Whole'
  BY <1>1, <1>4, <1>5, <1>51 DEF Whole, Ended
<1>7. PICK b, c : b = evt[s] /\ c = evt'[s]
  OBVIOUS
<1>8. b \in Blocks /\ c \in Blocks /\ b[0] = None /\ Ends(c, 0)
  BY <1>1, <1>2, <1>5, <1>7, BlocksTyped
<1>9. LogIn(b) = << >> /\ c[0] \in EventRecord /\ LogIn(c) = << Said(c[0]) >>
  BY <1>8, LogFirst
<1>10. Said(c[0]) \in Entry
  BY <1>9, SaidType
<1>11. Log[s] = << >> /\ Log' = [Log EXCEPT ![s] = << Said(c[0]) >>]
  <2>1. Shown(s) = << >> /\ Shown(s)' = << Said(c[0]) >>
    BY <1>51, <1>7, <1>9 DEF Shown
  <2> QED
    <3>1. \A x \in Streams : x # s => evt'[x] = evt[x] /\ (Deleting(x)' <=> Deleting(x))
      BY <1>4, <1>51
    <3>2. Log' = [Log EXCEPT ![s] = Shown(s)']
      BY <3>1, OneLogChanges
    <3> QED
      BY <2>1, <3>2, LogOfStreams
<1> QED
  BY <1>6, <1>10, <1>11 DEF L!Create, Entry

LEMMA AppendLogs ==
  ASSUME TypeOK, TypeOK', Coherent, Whole,
         NEW s \in Streams, NEW p \in Payloads, NEW ts \in Times, AppendEvent(s, p, ts)
  PROVE  Whole' /\ L!AppendTo(s)
<1>1. 0 \in Seqs /\ Seqs = 0 .. MaxSeq /\ MaxSeq \in Nat
  BY BoundsAssumption DEF Seqs
<1>2. PICK n : n = tail[s].seq + 1
  OBVIOUS
<1>3. /\ tail[s] \in TailRecord /\ n \in Seqs /\ n > 0 /\ ~Deleting(s)
      /\ evt[s][n] = None /\ evt[s][n - 1] # None
      /\ truth[s][n - 1] = [ts |-> tail[s].ts, state |-> tail[s].state]
      /\ tail[s].ts <= ts
      /\ evt' = [evt EXCEPT ![s][n] = [key |-> master, ts |-> ts, body |-> p]]
  <2>1. LET m == tail[s].seq + 1
            state == Apply(tail[s].state, p)
        IN /\ tail[s] \in TailRecord /\ m \in Seqs /\ m > 0 /\ state \in States
           /\ ~Deleting(s) /\ job.stage \in {"free", "ready"}
           /\ evt[s][m] = None /\ truth[s][m] = None
           /\ evt[s][m - 1] # None /\ truth[s][m - 1] # None
           /\ truth[s][m - 1] = [ts |-> tail[s].ts, state |-> tail[s].state]
           /\ tail[s].ts <= ts
           /\ evt' = [evt EXCEPT ![s][m] = [key |-> master, ts |-> ts, body |-> p]]
           /\ truth' = [truth EXCEPT ![s][m] = [ts |-> ts, state |-> state]]
           /\ snp' = snp /\ cursors' = cursors
    BY AppendFollows
  <2> QED
    BY <1>2, <2>1
<1>4. PICK last \in Seqs : n = last + 1
  <2>1. n - 1 \in Seqs /\ n = (n - 1) + 1
    BY <1>1, <1>3
  <2> QED
    BY <2>1
<1>5. LogIsTrue(s) /\ evt[s][last] # None /\ evt[s][last].ts = tail[s].ts
  <2>1. n - 1 = last
    BY <1>1, <1>4
  <2>2. LogIsTrue(s)
    BY <1>3 DEF Coherent
  <2> QED
    BY <1>3, <2>1, <2>2 DEF LogIsTrue
<1>6. Ends(evt[s], last)
  <2> SUFFICES ASSUME NEW m \in Seqs
               PROVE  (evt[s][m] # None) <=> (m <= last)
    BY DEF Ends
  <2>1. m <= last => evt[s][m] # None
    BY <1>5 DEF LogIsTrue
  <2>2. evt[s][m] # None => ~(n <= m)
    BY <1>3, <1>5 DEF LogIsTrue
  <2> QED
    BY <1>1, <1>4, <2>1, <2>2
<1>7. [key |-> master, ts |-> ts, body |-> p] \in EventRecord
  BY DEF TypeOK, EventRecord
<1>8. /\ evt'[s][n] = [key |-> master, ts |-> ts, body |-> p] /\ evt'[s][n] # None
      /\ \A m \in Seqs : m # n => evt'[s][m] = evt[s][m]
      /\ \A x \in Streams : x # s => evt'[x] = evt[x]
  BY <1>3, <1>7, NoneAssumption DEF TypeOK
<1>9. Ends(evt'[s], n)
  <2> SUFFICES ASSUME NEW m \in Seqs
               PROVE  (evt'[s][m] # None) <=> (m <= n)
    BY DEF Ends
  <2>1. CASE m = n
    BY <1>1, <1>8, <2>1
  <2>2. CASE m # n
    <3>1. (evt[s][m] # None) <=> (m <= last)
      BY <1>6 DEF Ends
    <3>2. (m <= last) <=> (m <= n)
      BY <1>1, <1>4, <2>2
    <3> QED
      BY <1>8, <2>2, <3>1, <3>2
  <2> QED
    BY <2>1, <2>2
<1>91. \A x \in Streams : ~Deleting(x) /\ ~Deleting(x)'
  <2>1. job.stage # "delete" /\ job'.stage # "delete"
    BY DEF AppendEvent, Appending, FreeLock
  <2> QED
    BY <2>1, NoDeletion
<1>10. Whole'
  BY <1>3, <1>8, <1>9, <1>91 DEF Whole, Ended
<1>11. PICK b, c : b = evt[s] /\ c = evt'[s]
  OBVIOUS
<1>12. /\ b \in Blocks /\ c \in Blocks /\ last \in Seqs /\ last + 1 \in Seqs
       /\ Ends(b, last) /\ Ends(c, last + 1)
       /\ \A m \in Seqs : m <= last => c[m] = b[m]
  <2>1. \A m \in Seqs : m <= last => m # n
    BY <1>1, <1>4
  <2> QED
    BY <1>3, <1>4, <1>6, <1>8, <1>9, <1>11, <2>1, BlocksTyped
<1>13. /\ LogIn(b) # << >> /\ LogIn(b)[Len(LogIn(b))] = Said(b[last])
       /\ c[last + 1] \in EventRecord
       /\ LogIn(c) = Append(LogIn(b), Said(c[last + 1]))
  BY <1>12, LogNext
<1>14. PICK e : e = Said(c[last + 1])
  OBVIOUS
<1>15. e \in Entry /\ e.ts = ts
  BY <1>4, <1>8, <1>11, <1>13, <1>14, SaidType DEF Said
<1>16. Log[s] # << >> /\ Log[s][Len(Log[s])].ts = tail[s].ts
  <2>1. Log[s] = LogIn(b)
    BY <1>11, <1>91, LogOfStreams DEF Shown
  <2>2. Said(b[last]).ts = tail[s].ts
    BY <1>5, <1>11 DEF Said
  <2> QED
    BY <1>13, <2>1, <2>2
<1>17. e.ts >= Log[s][Len(Log[s])].ts
  BY <1>3, <1>15, <1>16 DEF TailRecord, Times
<1>18. Log' = [Log EXCEPT ![s] = Append(Log[s], e)]
  <2>1. Shown(s) = LogIn(b) /\ Shown(s)' = Append(LogIn(b), e)
    BY <1>11, <1>13, <1>14, <1>91 DEF Shown
  <2> QED
    <3>1. \A x \in Streams : x # s => evt'[x] = evt[x] /\ (Deleting(x)' <=> Deleting(x))
      BY <1>8, <1>91
    <3>2. Log' = [Log EXCEPT ![s] = Shown(s)']
      BY <3>1, OneLogChanges
    <3> QED
      BY <2>1, <3>2, LogOfStreams
<1> QED
  BY <1>10, <1>15, <1>16, <1>17, <1>18 DEF L!AppendTo, Entry

(* A deletion shows when it begins, and all at once.                       *)
LEMMA DeleteLogs ==
  ASSUME Whole, NEW s \in Streams, DeleteBegin(s)
  PROVE  Whole' /\ L!Delete(s)
<1>1. evt' = evt /\ job = FreeLock /\ job' = [stage |-> "delete", s |-> s]
  BY DEF DeleteBegin, storage
<1>2. \A x \in Streams : ~Deleting(x) /\ (Deleting(x)' <=> x = s)
  BY <1>1 DEF Deleting, FreeLock
<1>3. Whole'
  BY <1>1, <1>2 DEF Whole, Ended
<1>4. Shown(s)' = << >>
  BY <1>2 DEF Shown
<1>5. Log' = [Log EXCEPT ![s] = << >>]
  <2>1. \A x \in Streams : x # s => evt'[x] = evt[x] /\ (Deleting(x)' <=> Deleting(x))
    BY <1>1, <1>2
  <2>2. Log' = [Log EXCEPT ![s] = Shown(s)']
    BY <2>1, OneLogChanges
  <2> QED
    BY <1>4, <2>2
<1> QED
  BY <1>3, <1>5 DEF L!Delete

(* While it lasts only its own blocks change, and it ends with none left.  *)
LEMMA DeleteStage ==
  ASSUME TypeOK, Coherent, CareNext, job.stage = "delete"
  PROVE  /\ job.s \in Streams
         /\ \A x \in Streams : x # job.s => evt'[x] = evt[x]
         /\ job' = job \/ (job' = FreeLock /\ evt' = evt /\ ~HasBlocks(job.s))
<1>1. job.s \in Streams /\ job # FreeLock
  BY DEF TypeOK, Job, FreeLock
<1>2. CASE KeyChecked \/ Read
  BY <1>1, <1>2 DEF KeyChecked, Read, ReadBegin, ReadEnd, storage
<1>3. ASSUME NEW c \in Callers, OpenBase(c) \/ PickSnapshot(c) \/ ReplayEvent(c)
      PROVE  evt' = evt /\ job' = job
  <2>1. cursors[c] # IdleCursor
    BY <1>3 DEF OpenBase, PickSnapshot, ReplayEvent, IdleCursor
  <2>2. c # Appender
    BY <2>1 DEF Coherent, JobIsTrue
  <2> QED
    BY <1>3, <2>2 DEF OpenBase, PickSnapshot, ReplayEvent, Raise, storage
<1>4. ASSUME NEW s \in Streams,
             \/ AppendLoad(s) \/ TailLoaded(s) \/ SlotTaken(s) \/ AppendSnapshot(s)
             \/ \E p \in Payloads, ts \in Times : AppendEvent(s, p, ts)
             \/ CreateKeyCheck(s) \/ DeleteBegin(s) \/ DeleteNothing(s)
             \/ \E state \in States, ts \in Stamps(None) : CreateStream(s, state, ts)
      PROVE  FALSE
  <2>1. ~(AppendLoad(s) \/ CreateKeyCheck(s) \/ DeleteBegin(s) \/ DeleteNothing(s))
    BY <1>1 DEF AppendLoad, CreateKeyCheck, DeleteBegin, DeleteNothing
  <2>2. ~(TailLoaded(s) \/ AppendSnapshot(s))
    BY DEF TailLoaded, AppendSnapshot
  <2>3. ~Appending(s)
    BY <1>1 DEF Appending
  <2>4. ~(SlotTaken(s) \/ \E p \in Payloads, ts \in Times : AppendEvent(s, p, ts))
    BY <2>3 DEF SlotTaken, AppendEvent
  <2>5. ~\E state \in States, ts \in Stamps(None) : CreateStream(s, state, ts)
    <3>1. job # [stage |-> "create", s |-> s]
      OBVIOUS
    <3>2. \A state, ts : ~CreateStream(s, state, ts)
      BY <1>1, <3>1, Zenon DEF CreateStream
    <3> QED
      BY ONLY <3>2
  <2> QED
    BY <1>4, <2>1, <2>2, <2>4, <2>5
<1>5. ASSUME NEW s \in Streams, NEW n \in Seqs, DeleteBlock(s, n)
      PROVE  job' = job /\ \A x \in Streams : x # job.s => evt'[x] = evt[x]
  BY <1>5 DEF DeleteBlock, TypeOK
<1>6. ASSUME NEW s \in Streams, DeleteEnd(s)
      PROVE  job' = FreeLock /\ evt' = evt /\ ~HasBlocks(job.s)
  BY <1>6 DEF DeleteEnd, storage
<1>7. ~Rotate
  BY <1>1 DEF Rotate, RotateFinished, RotateBegin, RotateBlock, RotateAdopt, SwitchKey
<1>8. CASE Abort \/ Crash
  <2>1. job' = FreeLock /\ evt' = evt
    BY <1>8 DEF Abort, Crash, storage
  <2>2. ~HasBlocks(job.s)
    BY <1>1, <2>1 DEF CareNext, DeletesFinish
  <2> QED
    BY <1>1, <2>1, <2>2
<1> QED
  BY <1>1, <1>2, <1>3, <1>4, <1>5, <1>6, <1>7, <1>8
     DEF CareNext, Next, Create, Replay, AppendOp, DeleteOp

LEMMA DeleteHidden ==
  ASSUME TypeOK, Coherent, Whole, CareNext, job.stage = "delete"
  PROVE  Whole' /\ Log' = Log
<1>0. PICK s : s = job.s
  OBVIOUS
<1>1. /\ s \in Streams
      /\ \A x \in Streams : x # s => evt'[x] = evt[x]
      /\ job' = job \/ (job' = FreeLock /\ evt' = evt /\ ~HasBlocks(s))
  BY <1>0, DeleteStage
<1>2. \A x \in Streams : Deleting(x) <=> x = s
  BY <1>0 DEF Deleting
<1>3. \A x \in Streams : x # s => ~Deleting(x) /\ ~Deleting(x)'
  BY <1>1, <1>2 DEF Deleting, FreeLock
<1>4. Deleting(s)' \/ evt'[s][0] = None
  <2>1. CASE job' = job
    BY <1>0, <2>1 DEF Deleting
  <2>2. CASE evt' = evt /\ ~HasBlocks(s)
    BY <1>1, <2>2, BoundsAssumption DEF HasBlocks, Seqs
  <2> QED
    BY <1>1, <2>1, <2>2
<1>5. Whole'
  <2> SUFFICES ASSUME NEW x \in Streams, ~Deleting(x)'
               PROVE  Ended(x)'
    BY DEF Whole
  <2>1. CASE x = s
    BY <1>4, <2>1 DEF Ended
  <2>2. CASE x # s
    BY <1>1, <1>3, <2>2 DEF Whole, Ended
  <2> QED
    BY <2>1, <2>2
<1>6. ASSUME NEW x \in Streams
      PROVE  Shown(x)' = Shown(x)
  <2>1. CASE x = s
    <3>1. Shown(x) = << >>
      BY <1>2, <2>1 DEF Shown
    <3>2. PICK b : b = evt'[x]
      OBVIOUS
    <3>3. Deleting(x)' \/ LogIn(b) = << >>
      <4>1. CASE Deleting(x)'
        BY <4>1
      <4>2. CASE ~Deleting(x)'
        <5>1. b[0] = None
          BY ONLY <1>4, <2>1, <3>2, <4>2
        <5> QED
          BY ONLY <5>1, LogEmpty
      <4> QED
        BY <4>1, <4>2
    <3> QED
      BY <3>1, <3>2, <3>3 DEF Shown
  <2>2. CASE x # s
    BY <1>1, <1>3, <2>2 DEF Shown
  <2> QED
    BY <2>1, <2>2
<1> QED
  BY <1>5, <1>6, LogOfStreams

(* A step that leaves the events alone, away from deletions.               *)
LEMMA QuietLogs ==
  ASSUME Whole, evt' = evt, job.stage # "delete", job'.stage # "delete"
  PROVE  Whole' /\ Log' = Log
<1>1. \A s \in Streams : ~Deleting(s) /\ ~Deleting(s)'
  BY NoDeletion
<1> QED
  BY <1>1, LogOfStreams DEF Whole, Ended, Shown

(* A change of the sealing key is no change of any log. *)
LEMMA RotateLogs ==
  ASSUME TypeOK, TypeOK', Whole, NEW s \in Streams, NEW n \in Seqs, RotateBlock(s, n)
  PROVE  Whole' /\ Log' = Log
<1>0. \A x \in Streams : ~Deleting(x) /\ ~Deleting(x)'
  BY NoDeletion DEF RotateBlock
<1>1. 0 \in Seqs
  BY BoundsAssumption DEF Seqs
<1>2. ASSUME NEW x \in Streams
      PROVE  /\ LogIn(evt'[x]) = LogIn(evt[x])
             /\ evt'[x][0] # None => \E last \in Seqs : Ends(evt'[x], last)
  <2>1. SameLog(x)
    BY RotationKeepsContent
  <2>2. PICK b, c : b = evt[x] /\ c = evt'[x]
    OBVIOUS
  <2>3. /\ b \in Blocks /\ c \in Blocks
        /\ \A m \in Seqs : /\ b[m] # None <=> c[m] # None
                           /\ b[m] # None => c[m].ts = b[m].ts /\ c[m].body = b[m].body
    BY <2>1, <2>2, BlocksTyped DEF SameLog
  <2>4. b[0] # None => \E last \in Seqs : Ends(b, last)
    BY <1>0, <2>2 DEF Whole, Ended
  <2>5. LogIn(c) = LogIn(b)
    BY <2>3, <2>4, LogSame
  <2>6. c[0] # None => \E last \in Seqs : Ends(c, last)
    BY <1>1, <2>3, <2>4 DEF Ends
  <2> QED
    BY <2>2, <2>5, <2>6
<1> QED
  BY <1>0, <1>2, LogOfStreams DEF Whole, Ended, Shown

LEMMA LogStep == TypeOK /\ Coherent /\ Whole /\ [CareNext]_vars => Whole' /\ [L!Next]_Log
<1> SUFFICES ASSUME TypeOK, Coherent, Whole, [CareNext]_vars
             PROVE  Whole' /\ [L!Next]_Log
  OBVIOUS
<1>1. TypeOK'
  BY TypeNext DEF CareNext, vars
<1>2. CASE CareNext /\ job.stage = "delete"
  BY <1>2, DeleteHidden
<1>3. ASSUME NEW s \in Streams, NEW state \in States, NEW ts \in Stamps(None), CreateStream(s, state, ts)
      PROVE  Whole' /\ [L!Next]_Log
  BY <1>1, <1>3, CreateLogs DEF L!Next
<1>4. ASSUME NEW s \in Streams, NEW p \in Payloads, NEW ts \in Times, AppendEvent(s, p, ts)
      PROVE  Whole' /\ [L!Next]_Log
  BY <1>1, <1>4, AppendLogs DEF L!Next
<1>5. ASSUME NEW s \in Streams, DeleteBegin(s)
      PROVE  Whole' /\ [L!Next]_Log
  BY <1>5, DeleteLogs DEF L!Next
<1>6. ASSUME NEW s \in Streams, NEW n \in Seqs, RotateBlock(s, n)
      PROVE  Whole' /\ [L!Next]_Log
  BY <1>1, <1>6, RotateLogs DEF L!Next
<1>7. ASSUME evt' = evt, job.stage # "delete", job'.stage # "delete"
      PROVE  Whole' /\ [L!Next]_Log
  BY <1>7, QuietLogs
<1>8. CASE CareNext /\ job.stage # "delete"
  <2>1. CASE KeyChecked \/ Read
    BY <1>7, <1>8, <2>1 DEF KeyChecked, Read, ReadBegin, ReadEnd, storage
  <2>2. CASE Create
    BY <1>3, <1>7, <1>8, <2>2 DEF Create, CreateKeyCheck
  <2>3. ASSUME NEW c \in Callers, OpenBase(c) \/ PickSnapshot(c) \/ ReplayEvent(c)
        PROVE  Whole' /\ [L!Next]_Log
    <3>1. evt' = evt /\ (job' = job \/ Raise(c))
      BY <2>3 DEF OpenBase, PickSnapshot, ReplayEvent, storage
    <3>2. job'.stage # "delete"
      BY <1>8, <3>1 DEF Raise, FreeLock
    <3> QED
      BY <1>7, <1>8, <3>1, <3>2
  <2>4. CASE AppendOp
    <3>1. ASSUME NEW s \in Streams,
                 AppendLoad(s) \/ TailLoaded(s) \/ SlotTaken(s) \/ AppendSnapshot(s)
          PROVE  evt' = evt /\ job'.stage # "delete"
      BY <3>1 DEF AppendLoad, TailLoaded, SlotTaken, AppendSnapshot, storage, FreeLock
    <3> QED
      BY <1>4, <1>7, <1>8, <2>4, <3>1 DEF AppendOp
  <2>5. CASE DeleteOp
    <3>1. ASSUME NEW s \in Streams, DeleteEnd(s) \/ \E n \in Seqs : DeleteBlock(s, n)
          PROVE  FALSE
      BY <1>8, <3>1 DEF DeleteEnd, DeleteBlock
    <3>2. ASSUME NEW s \in Streams, DeleteNothing(s)
          PROVE  evt' = evt /\ job' = job
      BY <3>2 DEF DeleteNothing, storage
    <3> QED
      BY <1>5, <1>7, <1>8, <2>5, <3>1, <3>2 DEF DeleteOp
  <2>6. CASE Rotate
    <3>1. ASSUME RotateAdopt \/ SwitchKey \/ \E new \in Keys : RotateFinished(new) \/ RotateBegin(new)
          PROVE  evt' = evt /\ job'.stage # "delete"
      BY <1>8, <3>1 DEF RotateFinished, RotateBegin, RotateAdopt, SwitchKey, storage, FreeLock
    <3> QED
      BY <1>6, <1>7, <1>8, <2>6, <3>1 DEF Rotate
  <2>7. CASE Abort \/ Crash
    BY <1>7, <1>8, <2>7 DEF Abort, Crash, storage, FreeLock
  <2> QED
    BY <1>8, <2>1, <2>2, <2>3, <2>4, <2>5, <2>6, <2>7 DEF CareNext, Next, Replay
<1>9. CASE UNCHANGED vars
  <2>1. evt' = evt /\ job' = job
    BY <1>9 DEF vars
  <2> QED
    BY <2>1, LogOfStreams DEF Whole, Ended, Shown, Deleting
<1> QED
  BY <1>2, <1>8, <1>9

(* The promise of an event store: whatever appends, reads, rotations,      *)
(* failures and crashes do, what a careful deployment shows of its blocks  *)
(* is an append-only log per stream, which begins with a base, whose times *)
(* never run back and which goes only as a whole.                          *)
THEOREM ImplementsEventLog == CareSpec => IsAnEventLog
<1>1. Init => TypeOK /\ Coherent /\ Whole /\ L!Init
  <2> SUFFICES ASSUME Init PROVE Whole /\ L!Init
    BY TypeInit, CoherentInit
  <2>1. \A s \in Streams : evt[s][0] = None
    BY BoundsAssumption DEF Init, NoBlocks, Seqs
  <2>2. \A s \in Streams : Shown(s) = << >>
    BY <2>1, LogEmpty DEF Shown
  <2> QED
    BY <2>1, <2>2, LogOfStreams DEF Whole, Ended, L!Init
<1>2. TypeOK /\ Coherent /\ Whole /\ [CareNext]_vars => (TypeOK /\ Coherent /\ Whole)' /\ [L!Next]_Log
  BY TypeNext, CoherentNext, LogStep DEF CareNext, vars
<1> QED
  BY <1>1, <1>2, PTL DEF CareSpec, IsAnEventLog, L!Spec
=============================================================================
