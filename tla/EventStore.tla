----------------------------- MODULE EventStore -----------------------------
(***************************************************************************)
(* mdc.events.EventStore over one database: sealed event and snapshot      *)
(* blocks, the key check, the cache of stream tails, the lock that         *)
(* serialises writers, readers that take no lock, key rotation, storage    *)
(* calls that fail and processes that die between two of them.             *)
(*                                                                         *)
(* Every storage call that writes is a step.  A sealed block is its        *)
(* content and the master key it was sealed under: the associated data     *)
(* binds a block to its stream, kind and sequence number, which here is    *)
(* its place in evt or snp, so a block opens exactly when the keys agree.  *)
(* A stream's state and changes are members of small sets and the codec is *)
(* an operator.  Definitions marked "Fault" are the bugs the properties    *)
(* are tried against; nothing in the specification uses them.              *)
(***************************************************************************)
EXTENDS Integers, FiniteSets

CONSTANTS
  Streams,        \* stream ids
  Keys,           \* master keys
  Readers,        \* concurrent calls of state_at
  Appender,       \* the lock holder, as a caller of _rebuild
  States,         \* states a stream can be in
  Payloads,       \* codec payloads
  Apply(_, _),    \* StateCodec.apply: a state, or None if the codec refuses
  MaxSeq,         \* bound: the last sequence number explored
  MaxTime,        \* bound: the last moment explored
  MaxClockSkew,   \* _MAX_CLOCK_SKEW
  SnapshotEvery,  \* snapshot_every
  CacheSize,      \* _CACHE_SIZE
  None            \* absent

Seqs == 0 .. MaxSeq
Times == 0 .. MaxTime
Callers == Readers \cup {Appender}

EventRecord == [key : Keys, ts : Times, body : States \cup Payloads]
SnapshotRecord == [key : Keys, ts : Times, body : States]
Moment == [ts : Times, state : States]             \* what an event left behind
TailRecord == [seq : Seqs, ts : Times, state : States]

ASSUME BoundsAssumption ==
  /\ MaxSeq \in Nat /\ MaxTime \in Nat /\ MaxClockSkew \in Nat
  /\ SnapshotEvery \in Nat \ {0} /\ CacheSize \in Nat \ {0}
ASSUME CodecAssumption ==
  \A state \in States, p \in Payloads : Apply(state, p) \in States \cup {None}
ASSUME NoneAssumption ==
  /\ None \notin EventRecord /\ None \notin SnapshotRecord
  /\ None \notin Moment /\ None \notin TailRecord
  /\ None \notin States /\ None \notin Keys /\ None \notin Times /\ None \notin Seqs
  /\ None \notin Streams
ASSUME AppenderAssumption == Appender \notin Readers

VARIABLES
  evt,        \* evt[s][n]: the block evt:s:n, or None
  snp,        \* snp[s][n]: the block snp:s:n, or None
  keycheck,   \* the key that opens the block keycheck:events, or None
  config,     \* the key a new process is configured with
  master,     \* _master
  verified,   \* _key_verified
  tail,       \* _tails
  job,        \* what the holder of _lock is in the middle of
  cursors,    \* each caller's replay
  truth       \* history: what each event of a live stream left behind

storage == <<evt, snp, keycheck>>
process == <<master, verified, tail>>
vars == <<evt, snp, keycheck, config, master, verified, tail, job, cursors, truth>>

FreeLock == [stage |-> "free"]
IdleCursor == [stage |-> "idle"]
NoBlocks == [n \in Seqs |-> None]

Init ==
  /\ evt = [s \in Streams |-> NoBlocks]
  /\ snp = [s \in Streams |-> NoBlocks]
  /\ keycheck = None
  /\ config \in Keys
  /\ master = config
  /\ verified = FALSE
  /\ tail = [s \in Streams |-> None]
  /\ job = FreeLock
  /\ cursors = [c \in Callers |-> IdleCursor]
  /\ truth = [s \in Streams |-> NoBlocks]

-----------------------------------------------------------------------------
(* Blocks and streams.                                                     *)

HasEvents(s) == \E n \in Seqs : evt[s][n] # None
HasBlocks(s) == \E n \in Seqs : evt[s][n] # None \/ snp[s][n] # None

(* list_streams_in: from event blocks alone. *)
ListedStreams == {s \in Streams : HasEvents(s)}

(* open_sealed: the block is there and authenticates under the key. *)
Opens(block, key) == block # None /\ block.key = key

(* _ordered_event_ids: the event blocks are 0, 1, ..., last. *)
Ordered(s, last) == \A n \in Seqs : (evt[s][n] # None) <=> (n <= last)

-----------------------------------------------------------------------------
(* The key check.                                                          *)

(* _check_key passes; VerifiedNow is the flag it leaves. *)
KeyAccepted == verified \/ keycheck \in {None, master}
VerifiedNow == verified \/ keycheck # None

(* A call that stops right after its key check, or one that only reads the *)
(* records (history).                                                      *)
KeyChecked ==
  /\ KeyAccepted
  /\ verified' = VerifiedNow
  /\ UNCHANGED <<evt, snp, keycheck, config, master, tail, job, cursors, truth>>

(* The first stream of an empty database also writes the key check. *)
FirstStream == ~verified /\ keycheck = None /\ ListedStreams = {}

-----------------------------------------------------------------------------
(* Recorded times: the clock may read anything, the caller may ask for a   *)
(* time, and a stream's times never go back.                               *)

Allowed(now, requested, floor) ==
  \/ requested = None
  \/ /\ requested <= now + MaxClockSkew
     /\ floor = None \/ requested >= floor

(* Fault: a clock that ran back is believed. *)
WhenUnclamped(now, requested, floor) == IF requested = None THEN now ELSE requested

When(now, requested, floor) ==
  LET when == IF requested = None THEN now ELSE requested
  IN  IF floor # None /\ when < floor THEN floor ELSE when

Stamps(floor) ==
  {ts \in Times : \E now \in Times, requested \in Times \cup {None} :
     Allowed(now, requested, floor) /\ ts = When(now, requested, floor)}

-----------------------------------------------------------------------------
(* The cache of tails: a full cache drops some other stream's tail, which  *)
(* stands for the least recently used one.                                 *)

Cached == {s \in Streams : tail[s] # None}
Victims(s) ==
  IF Cardinality(Cached \cup {s}) <= CacheSize THEN {None} ELSE Cached \ {s}

(* Fault: the tail is cached one event too early. *)
RememberBehind(s, entry) ==
  tail' = [tail EXCEPT ![s] = [entry EXCEPT !.seq = @ - 1]]

Remember(s, entry) ==
  \E victim \in Victims(s) :
    tail' = [x \in Streams |-> CASE x = s -> entry
                                 [] x # s /\ x = victim -> None
                                 [] OTHER -> tail[x]]

(* Fault: a deleted stream's tail stays. *)
ForgetNothing(s) == tail' = tail

Forget(s) == tail' = [tail EXCEPT ![s] = None]

-----------------------------------------------------------------------------
(* _put refuses a record whose block exists.                               *)

(* Fault: _put overwrites. *)
SlotAlwaysFree(blocks, n) == TRUE
SlotFree(blocks, n) == blocks[n] = None

-----------------------------------------------------------------------------
(* create_stream.                                                          *)

(* _check_key(first_stream=True) writes the key check before the base is   *)
(* written, as a block of its own.                                         *)
CreateKeyCheck(s) ==
  /\ job = FreeLock
  /\ FirstStream
  /\ keycheck' = master
  /\ verified' = TRUE
  /\ job' = [stage |-> "create", s |-> s]
  /\ UNCHANGED <<evt, snp, config, master, tail, cursors, truth>>

CreateStream(s, state, ts) ==
  /\ \/ job = [stage |-> "create", s |-> s]
     \/ job = FreeLock /\ KeyAccepted /\ ~FirstStream
  /\ ~HasEvents(s)
  /\ evt' = [evt EXCEPT ![s][0] = [key |-> master, ts |-> ts, body |-> state]]
  /\ truth' = [truth EXCEPT ![s] = [NoBlocks EXCEPT ![0] = [ts |-> ts, state |-> state]]]
  /\ Remember(s, [seq |-> 0, ts |-> ts, state |-> state])
  /\ verified' = VerifiedNow
  /\ job' = FreeLock
  /\ UNCHANGED <<snp, keycheck, config, master, cursors>>

-----------------------------------------------------------------------------
(* _rebuild, one storage call at a time.  A caller's cursor holds the key  *)
(* and the target it fixed when it listed the events.                      *)

StartReplay(c, s, at, seq) ==
  \E last \in Seqs :
    /\ Ordered(s, last)
    /\ seq # None => seq <= last
    /\ cursors' = [cursors EXCEPT ![c] =
         [stage |-> "listed", s |-> s, at |-> at, key |-> master,
          target |-> IF seq = None THEN last ELSE seq]]

(* The replay raises; the lock holder leaves its lock with it. *)
Raise(c) ==
  /\ cursors' = [cursors EXCEPT ![c] = IdleCursor]
  /\ job' = IF c = Appender THEN FreeLock ELSE job

(* The cursor once the state after event n is known. *)
Advance(cur, n, ts, state) ==
  [stage |-> IF n = cur.target THEN "done" ELSE "replay",
   s |-> cur.s, at |-> cur.at, key |-> cur.key, target |-> cur.target,
   n |-> n, ts |-> ts, state |-> state]

(* Fault: an event at the very moment asked for is left out. *)
InTimeStrictly(cur, ts) == cur.at # None => ts < cur.at
InTime(cur, ts) == cur.at # None => ts <= cur.at

OpenBase(c) ==
  LET cur == cursors[c]
      block == evt[cur.s][0]
  IN /\ cur.stage = "listed"
     /\ IF Opens(block, cur.key) /\ InTime(cur, block.ts)
        THEN /\ cursors' = [cursors EXCEPT ![c] =
                  [stage |-> "based", s |-> cur.s, at |-> cur.at, key |-> cur.key,
                   target |-> cur.target, n |-> 0, ts |-> block.ts, state |-> block.body]]
             /\ UNCHANGED job
        ELSE Raise(c)
     /\ UNCHANGED <<storage, config, process, truth>>

(* Snapshots are tried newest first, none past the target: the first one   *)
(* that fails to open raises, the first one in time is taken.              *)
Deciding(cur) ==
  {n \in Seqs : /\ n <= cur.target
                /\ snp[cur.s][n] # None
                /\ Opens(snp[cur.s][n], cur.key) => InTime(cur, snp[cur.s][n].ts)}

PickSnapshot(c) ==
  LET cur == cursors[c]
      blocks == snp[cur.s]
  IN /\ cur.stage = "based"
     /\ \/ /\ Deciding(cur) = {}
           /\ cursors' = [cursors EXCEPT ![c] = Advance(cur, 0, cur.ts, cur.state)]
           /\ UNCHANGED job
        \/ \E n \in Deciding(cur) :
             /\ \A m \in Deciding(cur) : m <= n
             /\ IF Opens(blocks[n], cur.key)
                THEN /\ cursors' = [cursors EXCEPT ![c] =
                                      Advance(cur, n, blocks[n].ts, blocks[n].body)]
                     /\ UNCHANGED job
                ELSE Raise(c)
     /\ UNCHANGED <<storage, config, process, truth>>

ReplayEvent(c) ==
  LET cur == cursors[c]
      block == evt[cur.s][cur.n + 1]
  IN /\ cur.stage = "replay"
     /\ cur.n < cur.target
     /\ \/ /\ ~Opens(block, cur.key)
           /\ Raise(c)
        \/ /\ Opens(block, cur.key)
           /\ ~InTime(cur, block.ts)
           /\ cursors' = [cursors EXCEPT ![c].stage = "done"]
           /\ UNCHANGED job
        \/ /\ Opens(block, cur.key)
           /\ InTime(cur, block.ts)
           /\ IF Apply(cur.state, block.body) # None
              THEN /\ cursors' = [cursors EXCEPT ![c] =
                        Advance(cur, cur.n + 1, block.ts, Apply(cur.state, block.body))]
                   /\ UNCHANGED job
              ELSE Raise(c)
     /\ UNCHANGED <<storage, config, process, truth>>

-----------------------------------------------------------------------------
(* state_at: unlocked, by time, by event number, or the latest.            *)

ReadBegin(r, s, at, seq) ==
  /\ cursors[r] = IdleCursor
  /\ at = None \/ seq = None
  /\ KeyAccepted
  /\ verified' = VerifiedNow
  /\ StartReplay(r, s, at, seq)
  /\ UNCHANGED <<storage, config, master, tail, job, truth>>

(* The result is returned, or a storage call of the read raised. *)
ReadEnd(r) ==
  /\ cursors[r] # IdleCursor
  /\ cursors' = [cursors EXCEPT ![r] = IdleCursor]
  /\ UNCHANGED <<storage, config, process, job, truth>>

-----------------------------------------------------------------------------
(* append.                                                                 *)

(* _tail on a cache miss: replay the whole log under the lock. *)
AppendLoad(s) ==
  /\ job = FreeLock
  /\ KeyAccepted
  /\ tail[s] = None
  /\ StartReplay(Appender, s, None, None)
  /\ verified' = VerifiedNow
  /\ job' = [stage |-> "tail", s |-> s]
  /\ UNCHANGED <<storage, config, master, tail, truth>>

TailLoaded(s) ==
  LET cur == cursors[Appender]
  IN /\ job = [stage |-> "tail", s |-> s]
     /\ cur.stage = "done"
     /\ Remember(s, [seq |-> cur.n, ts |-> cur.ts, state |-> cur.state])
     /\ cursors' = [cursors EXCEPT ![Appender] = IdleCursor]
     /\ job' = [stage |-> "ready", s |-> s]
     /\ UNCHANGED <<storage, config, master, verified, truth>>

(* The tail of s is in hand. *)
Appending(s) ==
  /\ tail[s] # None
  /\ \/ job = [stage |-> "ready", s |-> s]
     \/ job = FreeLock /\ KeyAccepted

SnapshotDue(seq) == seq % SnapshotEvery = 0

AppendEvent(s, p, ts) ==
  LET seq == tail[s].seq + 1
      state == Apply(tail[s].state, p)
      entry == [seq |-> seq, ts |-> ts, state |-> state]
  IN /\ Appending(s)
     /\ seq <= MaxSeq
     /\ state # None
     /\ ts \in Stamps(tail[s].ts)
     /\ SlotFree(evt[s], seq)
     /\ evt' = [evt EXCEPT ![s][seq] = [key |-> master, ts |-> ts, body |-> p]]
     /\ truth' = [truth EXCEPT ![s][seq] = [ts |-> ts, state |-> state]]
     /\ IF SnapshotDue(seq)
        THEN job' = [stage |-> "snapshot", s |-> s, entry |-> entry] /\ UNCHANGED tail
        ELSE job' = FreeLock /\ Remember(s, entry)
     /\ verified' = VerifiedNow
     /\ UNCHANGED <<snp, keycheck, config, master, cursors>>

(* _put finds the slot taken: the cached tail was behind.  It is dropped   *)
(* and ConcurrencyError raised.                                            *)
SlotTaken(s) ==
  /\ Appending(s)
  /\ tail[s].seq < MaxSeq
  /\ ~SlotFree(evt[s], tail[s].seq + 1)
  /\ Forget(s)
  /\ verified' = VerifiedNow
  /\ job' = FreeLock
  /\ UNCHANGED <<storage, config, master, cursors, truth>>

AppendSnapshot(s) ==
  LET entry == job.entry
  IN /\ job.stage = "snapshot"
     /\ job.s = s
     /\ IF SlotFree(snp[s], entry.seq)
        THEN /\ snp' = [snp EXCEPT ![s][entry.seq] =
                          [key |-> master, ts |-> entry.ts, body |-> entry.state]]
             /\ Remember(s, entry)
        ELSE Forget(s) /\ UNCHANGED snp           \* ConcurrencyError
     /\ job' = FreeLock
     /\ UNCHANGED <<evt, keycheck, config, master, verified, cursors, truth>>

-----------------------------------------------------------------------------
(* delete_stream: the event blocks, then the snapshots, then the cached    *)
(* tail.  The blocks of a kind come as search lists them, in no order that *)
(* it promises.                                                            *)

DeleteBegin(s) ==
  /\ job = FreeLock
  /\ HasBlocks(s)
  /\ job' = [stage |-> "delete", s |-> s]
  /\ UNCHANGED <<storage, config, process, cursors, truth>>

(* Nothing to delete: the answer is False and the tail is dropped. *)
DeleteNothing(s) ==
  /\ job = FreeLock
  /\ ~HasBlocks(s)
  /\ Forget(s)
  /\ UNCHANGED <<storage, config, master, verified, job, cursors, truth>>

DeleteBlock(s, n) ==
  /\ job = [stage |-> "delete", s |-> s]
  /\ \/ /\ evt[s][n] # None
        /\ evt' = [evt EXCEPT ![s][n] = None]
        /\ UNCHANGED snp
     \/ /\ ~HasEvents(s)
        /\ snp[s][n] # None
        /\ snp' = [snp EXCEPT ![s][n] = None]
        /\ UNCHANGED evt
  /\ truth' = [truth EXCEPT ![s] = NoBlocks]
  /\ UNCHANGED <<keycheck, config, process, job, cursors>>

DeleteEnd(s) ==
  /\ job = [stage |-> "delete", s |-> s]
  /\ ~HasBlocks(s)
  /\ Forget(s)
  /\ job' = FreeLock
  /\ UNCHANGED <<storage, config, master, verified, cursors, truth>>

-----------------------------------------------------------------------------
(* rotate_key.                                                             *)

AllTails == [s \in Streams |-> None]

(* _finished_under: an earlier run wrote the key check, which is last. *)
RotateFinished(new) ==
  /\ job = FreeLock
  /\ new # master
  /\ keycheck = new
  /\ master' = new
  /\ verified' = TRUE
  /\ tail' = AllTails
  /\ UNCHANGED <<storage, config, job, cursors, truth>>

(* Every record of a listed stream opens with the old or the new key. *)
Plannable(new) ==
  \A s \in ListedStreams, n \in Seqs :
    /\ evt[s][n] # None => evt[s][n].key \in {master, new}
    /\ snp[s][n] # None => snp[s][n].key \in {master, new}

RotateBegin(new) ==
  /\ job = FreeLock
  /\ new # master
  /\ keycheck # new
  /\ KeyAccepted
  /\ verified' = VerifiedNow
  /\ Plannable(new)
  /\ job' = [stage |-> "rotate", to |-> new]
  /\ UNCHANGED <<storage, config, master, tail, cursors, truth>>

(* What is left of the plan: records still under the old key. *)
OldEvent(s, n) == evt[s][n] # None /\ evt[s][n].key = master
OldSnapshot(s, n) == HasEvents(s) /\ snp[s][n] # None /\ snp[s][n].key = master

(* Fault: the key check is written before the records. *)
NothingPlanned == FALSE
Planned == \E s \in Streams, n \in Seqs : OldEvent(s, n) \/ OldSnapshot(s, n)

RotateBlock(s, n) ==
  /\ job.stage = "rotate"
  /\ \/ /\ OldEvent(s, n)
        /\ \A m \in Seqs : m < n => ~OldEvent(s, m)
        /\ evt' = [evt EXCEPT ![s][n].key = job.to]
        /\ UNCHANGED snp
     \/ /\ OldSnapshot(s, n)
        /\ \A m \in Seqs : ~OldEvent(s, m) /\ (m < n => ~OldSnapshot(s, m))
        /\ snp' = [snp EXCEPT ![s][n].key = job.to]
        /\ UNCHANGED evt
  /\ UNCHANGED <<keycheck, config, process, job, cursors, truth>>

(* The key check is rewritten last, and only if there are streams. *)
RotateAdopt ==
  /\ job.stage = "rotate"
  /\ ~Planned
  /\ keycheck' = IF ListedStreams # {} THEN job.to ELSE keycheck
  /\ master' = job.to
  /\ verified' = (verified \/ ListedStreams # {})
  /\ tail' = AllTails
  /\ job' = FreeLock
  /\ UNCHANGED <<evt, snp, config, cursors, truth>>

(* After a rotation that returned, the operator configures the new key. *)
SwitchKey ==
  /\ job = FreeLock
  /\ config # master
  /\ config' = master
  /\ UNCHANGED <<storage, process, job, cursors, truth>>

-----------------------------------------------------------------------------
(* What goes wrong.                                                        *)

(* A storage call or a check raises while the lock is held.  After its     *)
(* last block is gone a deletion has nothing left that could raise.        *)
Abort ==
  /\ job # FreeLock
  /\ job.stage = "delete" => HasBlocks(job.s)
  /\ job' = FreeLock
  /\ cursors' = [cursors EXCEPT ![Appender] = IdleCursor]
  /\ UNCHANGED <<storage, config, process, truth>>

(* The process dies and a new one opens the database. *)
Crash ==
  /\ master' = config
  /\ verified' = FALSE
  /\ tail' = AllTails
  /\ job' = FreeLock
  /\ cursors' = [c \in Callers |-> IdleCursor]
  /\ UNCHANGED <<storage, config, truth>>

-----------------------------------------------------------------------------
Create == \E s \in Streams :
  \/ CreateKeyCheck(s)
  \/ \E state \in States, ts \in Stamps(None) : CreateStream(s, state, ts)
Read == \E r \in Readers :
  \/ \E s \in Streams, at \in Times \cup {None}, seq \in Seqs \cup {None} :
       ReadBegin(r, s, at, seq)
  \/ ReadEnd(r)
Replay == \E c \in Callers : OpenBase(c) \/ PickSnapshot(c) \/ ReplayEvent(c)
AppendOp == \E s \in Streams :
  \/ AppendLoad(s) \/ TailLoaded(s)
  \/ \E p \in Payloads, ts \in Times : AppendEvent(s, p, ts)
  \/ SlotTaken(s) \/ AppendSnapshot(s)
DeleteOp == \E s \in Streams :
  \/ DeleteBegin(s) \/ DeleteNothing(s)
  \/ \E n \in Seqs : DeleteBlock(s, n)
  \/ DeleteEnd(s)
Rotate ==
  \/ \E new \in Keys : RotateFinished(new) \/ RotateBegin(new)
  \/ \E s \in Streams, n \in Seqs : RotateBlock(s, n)
  \/ RotateAdopt
  \/ SwitchKey

Next == KeyChecked \/ Create \/ Read \/ Replay \/ AppendOp \/ DeleteOp \/ Rotate \/ Abort \/ Crash

Spec == Init /\ [][Next]_vars
-----------------------------------------------------------------------------
(* Two things the code does not defend against, which the specification of *)
(* a careful deployment leaves out: a deletion that stops half-way, and a  *)
(* reader of a stream that is being deleted.                               *)

DeletesFinish == job.stage = "delete" /\ job' # job => ~HasBlocks(job.s)

DeletesUnobserved ==
  job'.stage = "delete" =>
    \A c \in Callers : cursors'[c] = IdleCursor \/ cursors'[c].s # job'.s

CareNext == Next /\ DeletesFinish /\ DeletesUnobserved
CareSpec == Init /\ [][CareNext]_vars

(* Only the readers are careful: a deletion may stop half-way. *)
CarelessDeletes == Init /\ [][Next /\ DeletesUnobserved]_vars

-----------------------------------------------------------------------------
Cursor ==
  {IdleCursor}
  \cup [stage : {"listed"}, s : Streams, at : Times \cup {None}, key : Keys, target : Seqs]
  \cup [stage : {"based", "replay", "done"}, s : Streams, at : Times \cup {None},
        key : Keys, target : Seqs, n : Seqs, ts : Times, state : States]

Job ==
  {FreeLock}
  \cup [stage : {"create", "tail", "ready", "delete"}, s : Streams]
  \cup [stage : {"snapshot"}, s : Streams, entry : TailRecord]
  \cup [stage : {"rotate"}, to : Keys]

(* Every variable has its type. *)
TypeOK ==
  /\ evt \in [Streams -> [Seqs -> EventRecord \cup {None}]]
  /\ snp \in [Streams -> [Seqs -> SnapshotRecord \cup {None}]]
  /\ keycheck \in Keys \cup {None}
  /\ config \in Keys
  /\ master \in Keys
  /\ verified \in BOOLEAN
  /\ tail \in [Streams -> TailRecord \cup {None}]
  /\ job \in Job
  /\ cursors \in [Callers -> Cursor]
  /\ truth \in [Streams -> [Seqs -> Moment \cup {None}]]
  /\ \A s \in Streams : evt[s][0] # None => evt[s][0].body \in States
  /\ \A s \in Streams, n \in Seqs : n > 0 /\ evt[s][n] # None => evt[s][n].body \in Payloads

(* What the blocks, the cache of tails and every replay in progress have   *)
(* to do with the log that was written.  Each part speaks of the streams   *)
(* that are not being deleted.                                             *)
Deleting(s) == job.stage = "delete" /\ job.s = s

(* The log has no holes, its times never run back, and replaying an event  *)
(* on what the one before left behind gives what it left behind.           *)
LogIsTrue(s) ==
  /\ \A n \in Seqs :
       /\ evt[s][n] # None <=> truth[s][n] # None
       /\ evt[s][n] # None => evt[s][n].ts = truth[s][n].ts
       /\ \A m \in Seqs : m <= n /\ evt[s][n] # None =>
            evt[s][m] # None /\ truth[s][m].ts <= truth[s][n].ts
       /\ n > 0 /\ evt[s][n] # None =>
            truth[s][n].state = Apply(truth[s][n - 1].state, evt[s][n].body)
  /\ evt[s][0] # None => evt[s][0].body = truth[s][0].state

SnapshotsAreTrue(s) ==
  \A n \in Seqs : snp[s][n] # None =>
    truth[s][n] = [ts |-> snp[s][n].ts, state |-> snp[s][n].body]

TailIsTrue(s) ==
  tail[s] # None => truth[s][tail[s].seq] = [ts |-> tail[s].ts, state |-> tail[s].state]

CursorIsTrue(c) ==
  LET cur == cursors[c]
      past == truth[cur.s]
  IN cur # IdleCursor =>
       /\ ~Deleting(cur.s)
       /\ past[cur.target] # None
       /\ cur.stage # "listed" =>
            /\ cur.n <= cur.target
            /\ past[cur.n] = [ts |-> cur.ts, state |-> cur.state]
            /\ InTime(cur, cur.ts)
       /\ cur.stage = "based" => cur.n = 0
       /\ cur.stage = "replay" => cur.n < cur.target
       /\ cur.stage = "done" /\ cur.n # cur.target => ~InTime(cur, past[cur.n + 1].ts)

JobIsTrue ==
  /\ job.stage = "tail" <=> cursors[Appender] # IdleCursor
  /\ job.stage = "tail" => cursors[Appender].s = job.s
  /\ job.stage = "snapshot" =>
       truth[job.s][job.entry.seq] = [ts |-> job.entry.ts, state |-> job.entry.state]
  /\ job.stage = "delete" /\ ~HasBlocks(job.s) => truth[job.s] = NoBlocks

(* Every copy the store keeps of a stream, and every replay on the way to  *)
(* one, agrees with what was acknowledged: the inductive invariant behind  *)
(* ReadsAreExact and AppendsExtendTheLog.                                  *)
Coherent ==
  /\ \A s \in Streams : ~Deleting(s) => LogIsTrue(s) /\ SnapshotsAreTrue(s) /\ TailIsTrue(s)
  /\ \A c \in Callers : CursorIsTrue(c)
  /\ JobIsTrue

(* state_at, unlocked, beside appends, rotations and crashes: a read that  *)
(* finishes answers with what the event it names left behind, and that     *)
(* event is the one asked for, or the last one no later than the time      *)
(* asked for (store.py: "rebuilds the state exactly as it was at that      *)
(* time").                                                                 *)
ReadsAreExact ==
  \A c \in Callers : cursors[c].stage = "done" =>
    LET cur == cursors[c]
    IN /\ truth[cur.s][cur.n] = [ts |-> cur.ts, state |-> cur.state]
       /\ cur.at = None => cur.n = cur.target
       /\ cur.at # None => \A m \in 0 .. cur.target :
                             (truth[cur.s][m].ts <= cur.at) <=> (m <= cur.n)

(* An append builds on the latest state of the log, whatever the cache of  *)
(* tails held, and its time is no earlier than the previous event's.       *)
AppendsExtendTheLog ==
  [][\A s \in Streams, n \in Seqs :
       evt[s][n] = None /\ evt'[s][n] # None /\ n > 0 =>
         /\ truth[s][n - 1] # None
         /\ truth'[s][n] = [ts |-> evt'[s][n].ts,
                            state |-> Apply(truth[s][n - 1].state, evt'[s][n].body)]
         /\ truth'[s][n].ts >= truth[s][n - 1].ts]_vars

(* "Nothing is ever updated in place": no step, not a rotation and not a   *)
(* crash, changes the content of a block that stays.                       *)
NothingUpdatedInPlace ==
  [][\A s \in Streams, n \in Seqs :
       /\ evt[s][n] # None /\ evt'[s][n] # None =>
            evt'[s][n].ts = evt[s][n].ts /\ evt'[s][n].body = evt[s][n].body
       /\ snp[s][n] # None /\ snp'[s][n] # None =>
            snp'[s][n].ts = snp[s][n].ts /\ snp'[s][n].body = snp[s][n].body]_vars

(* rotate_key writes the key check last: the moment it changes, every      *)
(* record of every listed stream opens with the key it names.              *)
KeyCheckIsLast ==
  [][keycheck' # keycheck =>
       \A s \in Streams, n \in Seqs : HasEvents(s) =>
         /\ evt'[s][n] # None => Opens(evt'[s][n], keycheck')
         /\ snp'[s][n] # None => Opens(snp'[s][n], keycheck')]_vars

-----------------------------------------------------------------------------
(* The log a reader of the blocks sees, who does not look at a stream      *)
(* while its blocks are deleted one by one.                                *)
Length(s) ==
  IF Deleting(s) \/ evt[s][0] = None THEN 0
  ELSE CHOOSE k \in 1 .. MaxSeq + 1 :
         /\ \A n \in 0 .. k - 1 : evt[s][n] # None
         /\ k = MaxSeq + 1 \/ evt[s][k] = None
Log == [s \in Streams |->
          [i \in 1 .. Length(s) |-> [ts |-> evt[s][i - 1].ts, body |-> evt[s][i - 1].body]]]

L == INSTANCE EventLog WITH log <- Log, Entries <- [ts : Times, body : States \cup Payloads]

(* The blocks of a carefully run store implement an append-only log. *)
IsAnEventLog == L!Spec
=============================================================================
