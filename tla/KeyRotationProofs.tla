------------------------- MODULE KeyRotationProofs -------------------------
(***************************************************************************)
(* Theorems about KeyRotation, for any number of databases, records,       *)
(* archived blocks, keys and mishaps.  A rotation goes through the         *)
(* databases in order, so that there is at every moment a frontier: what   *)
(* is before it is under the new key, what is after it under the old one.  *)
(* The frontier stays where it is when the command dies; a rerun passes    *)
(* over what is before it, and a run with a wrong key gets no further.     *)
(***************************************************************************)
EXTENDS KeyRotation, TLAPS

(* One database, and how far its rotation from "old" to "new" is.          *)

StreamsDone(d, new) ==
  /\ \A r \in Records : recs[d][r] \in {Absent, new}
  /\ check[d] = IF HasStreams(d) THEN new ELSE Absent
Done(d, new) ==
  /\ StreamsDone(d, new)
  /\ \A b \in Blocks : arch[d][b] \in {Absent, new}
Midway(d, old, new) ==
  /\ \A r \in Records : recs[d][r] \in {Absent, old, new}
  /\ \A b \in Blocks : arch[d][b] \in {Absent, old, new}
  /\ check[d] \in {Absent, old, new}
  /\ ~HasStreams(d) => check[d] = Absent
  /\ check[d] = new \/ (\E b \in Blocks : arch[d][b] = new) => StreamsDone(d, new)
Untouched(d, old) ==
  /\ \A r \in Records : recs[d][r] \in {Absent, old}
  /\ \A b \in Blocks : arch[d][b] \in {Absent, old}
  /\ check[d] \in {Absent, old}
  /\ ~HasStreams(d) => check[d] = Absent
Holds(d, key) ==
  \/ \E r \in Records : recs[d][r] = key
  \/ \E b \in Blocks : arch[d][b] = key

(* All databases: c is the frontier. *)
Frontier(c, old, new) ==
  /\ \A d \in Databases : d < c => Done(d, new)
  /\ Midway(c, old, new)
  /\ \A d \in Databases : d > c => Untouched(d, old)

(* No rotation is pending. *)
Rest ==
  pending = Absent =>
    /\ run = NoRun
    /\ disk[Source] \in Keys
    /\ \A d \in Databases : Untouched(d, disk[Source])

(* One is, whether or not the command runs: before the key file is         *)
(* replaced, and from then on.                                             *)
Before(new) ==
  /\ disk[Source] \in Keys \ {new}
  /\ \E c \in Databases : Frontier(c, disk[Source], new)
From(new) ==
  /\ disk[Source] \in {Empty, new}
  /\ disk[Staged] = new
  /\ \A d \in Databases : Done(d, new)
UnderWay ==
  pending # Absent =>
    /\ Before(pending.new) \/ (pending.mode = "generate" /\ From(pending.new))
    /\ pending.mode = "file" => pending.new \in kept \/ disk[Staged] = pending.new
    /\ pending.mode = "generate" /\ disk[Staged] # pending.new =>
         /\ disk[Source] \in Keys \ {pending.new}
         /\ \A d \in Databases : Untouched(d, disk[Source])

(* The command runs, with the key of the pending rotation.                 *)
RightRun ==
  run # NoRun /\ run.new = pending.new =>
    /\ run.old # run.new
    /\ run.mode = "generate" => pending.mode = "generate"
    /\ disk[Source] = IF run.stage = "unlink" THEN run.new
                      ELSE IF run.stage = "source" /\ run.opened THEN Empty ELSE run.old
    /\ run.opened => run.stage \in {"backup", "stage", "source"}
    /\ run.stage \in {"backup", "stage"} =>
         /\ run.mode = "generate" /\ run.db = 1
         /\ \A d \in Databases : Untouched(d, run.old)
    /\ run.stage \notin {"backup", "stage"} /\ pending.mode = "generate" => disk[Staged] = run.new
    /\ run.stage \in {"events", "archive"} =>
         \E c \in Databases : run.db <= c /\ Frontier(c, run.old, run.new)
    /\ run.stage = "archive" => StreamsDone(run.db, run.new)
    /\ run.stage \in {"source", "unlink", "done"} => \A d \in Databases : Done(d, run.new)
    /\ run.stage \in {"source", "unlink"} => run.mode = "generate"

(* It runs with a wrong key: what it has passed holds nothing that opens   *)
(* with the pending one, but something does.                               *)
WrongRun ==
  run # NoRun /\ run.new # pending.new =>
    /\ run.mode = "file" /\ run.stage \in {"events", "archive"} /\ ~run.opened
    /\ disk[Source] = run.old /\ run.old \notin {run.new, pending.new}
    /\ \E c \in Databases : run.db <= c /\ Frontier(c, run.old, pending.new)
    /\ \E d \in Databases : Holds(d, pending.new)
    /\ \A d \in Databases : d < run.db => ~Holds(d, pending.new)
    /\ run.stage = "archive" => \A r \in Records : recs[run.db][r] # pending.new

(* A key that was never used is in no file, and is not to be rotated to. *)
UsedAreKnown ==
  /\ \A f \in Files : disk[f] \in Keys => disk[f] \in used
  /\ pending # Absent => pending.new \in used

IInv == TypeOK /\ Rest /\ UnderWay /\ RightRun /\ WrongRun /\ UsedAreKnown

-----------------------------------------------------------------------------
(* Types.                                                                  *)

Stages == {"backup", "stage", "events", "archive", "source", "unlink", "done"}
Running ==
  [stage : Stages, mode : {"file", "generate"}, old : Keys, new : Keys, db : Databases, opened : BOOLEAN]

LEMMA RunIs == run \in Run <=> run = NoRun \/ run \in Running
BY DEF Run, Running, Stages

LEMMA RunsInAStage == TypeOK => (run # NoRun <=> run \in Running) /\ (run.stage \in Stages <=> run \in Running)
BY RunIs DEF TypeOK, NoRun, Running, Stages

LEMMA NewIsNotOld ==
  ASSUME TypeOK, UsedAreKnown, NEW new \in Keys \ used
  PROVE  \A f \in Files : disk[f] # new
BY DEF UsedAreKnown, TypeOK

LEMMA FilesAre == Source \in Files /\ Staged \in Files /\ Keys \subseteq Files /\ Source # Staged
BY DEF Files, Source, Staged

LEMMA BeginType ==
  ASSUME TypeOK, disk[Source] \in Keys, NEW new \in Keys, NEW stage \in Stages, NEW mode \in {"file", "generate"},
         Begin(new, stage, mode), kept' \in SUBSET Keys, used' \in SUBSET Keys
  PROVE  TypeOK'
<1>1. 1 \in Databases
  BY SizeAssumption DEF Databases
<1> QED BY <1>1 DEF TypeOK, Begin, Run, Stages

LEMMA AfterArchiveType ==
  ASSUME run \in Running
  PROVE  AfterArchive \in Running
<1>1. CASE run.db < LastDatabase
  <2>1. run.db + 1 \in Databases
    BY <1>1, SizeAssumption DEF Running, Databases
  <2>2. run.db # LastDatabase
    BY <1>1, SizeAssumption DEF Running, Databases
  <2>3. AfterArchive = [run EXCEPT !.stage = "events", !.db = @ + 1]
    BY <1>1, <2>2 DEF AfterArchive
  <2> QED BY <2>1, <2>3 DEF Running, Stages
<1>2. CASE run.db = LastDatabase /\ run.mode = "generate"
  BY <1>2, SizeAssumption DEF AfterArchive, Running, Stages, Databases
<1>3. CASE run.db = LastDatabase /\ run.mode = "file"
  BY <1>3, SizeAssumption DEF AfterArchive, Running, Stages, Databases
<1> QED BY <1>1, <1>2, <1>3, SizeAssumption DEF Running, Databases

LEMMA WriteKeyFileType == TypeOK /\ WriteKeyFile => TypeOK'
<1> SUFFICES ASSUME TypeOK, WriteKeyFile PROVE TypeOK'
  OBVIOUS
<1>1. run \in Running /\ run.stage \in {"backup", "stage", "source"}
  BY RunsInAStage DEF WriteKeyFile, Stages
<1>2. FileOf(run.stage) \in Files /\ KeyOf(run.stage) \in Keys /\ After(run.stage) \in Stages
  BY <1>1, FilesAre DEF FileOf, KeyOf, After, Running, Stages
<1>3. run' \in Running
  BY <1>1, <1>2 DEF WriteKeyFile, Running
<1>4. disk' \in [Files -> Keys \cup {Absent, Empty}]
  BY <1>2 DEF WriteKeyFile, TypeOK
<1> QED BY <1>3, <1>4, RunIs DEF WriteKeyFile, TypeOK, Run, Running, stores, Stages

LEMMA CommandType == TypeOK /\ Command => TypeOK'
<1> SUFFICES ASSUME TypeOK, Command PROVE TypeOK'
  OBVIOUS
<1>1. CASE WriteKeyFile
  BY <1>1, WriteKeyFileType
<1>2. CASE Unlink
  BY <1>2 DEF Unlink, TypeOK, Run, stores
<1>3. CASE RotateStreams
  <2>1. run \in Running /\ run.db \in Databases /\ run.new \in Keys
    BY <1>3, RunsInAStage DEF RotateStreams, Stages, Running
  <2>2. run' = run \/ run' = [run EXCEPT !.stage = "archive"]
    BY <1>3 DEF RotateStreams
  <2>3. run' \in Run
    BY <2>1, <2>2 DEF Run, Running, Stages
  <2>4. recs' \in [Databases -> [Records -> Keys \cup {Absent}]]
    <3>1. SealedUnder(recs[run.db], run.old) \subseteq Records
      BY <2>1 DEF SealedUnder, TypeOK
    <3>2. ASSUME NEW r \in Records
          PROVE  [recs EXCEPT ![run.db][r] = run.new] \in [Databases -> [Records -> Keys \cup {Absent}]]
      BY <2>1 DEF TypeOK
    <3>3. recs' = recs \/ \E r \in SealedUnder(recs[run.db], run.old) : recs' = [recs EXCEPT ![run.db][r] = run.new]
      BY <1>3 DEF RotateStreams
    <3>4. recs \in [Databases -> [Records -> Keys \cup {Absent}]]
      BY DEF TypeOK
    <3>5. CASE recs' = recs
      BY <3>4, <3>5
    <3>6. CASE \E r \in SealedUnder(recs[run.db], run.old) : recs' = [recs EXCEPT ![run.db][r] = run.new]
      <4>1. PICK r \in Records : recs' = [recs EXCEPT ![run.db][r] = run.new]
        BY <3>1, <3>6
      <4> QED BY <3>2, <4>1
    <3> QED BY <3>3, <3>5, <3>6
  <2>5. check' \in [Databases -> Keys \cup {Absent}]
    BY <1>3, <2>1 DEF RotateStreams, TypeOK, NewCheck
  <2> QED BY <1>3, <2>3, <2>4, <2>5 DEF RotateStreams, TypeOK
<1>4. CASE RotateArchive
  <2>1. run \in Running /\ run.db \in Databases /\ run.new \in Keys
    BY <1>4, RunsInAStage DEF RotateArchive, Stages, Running
  <2>2. run' \in Run
    BY <1>4, <2>1, AfterArchiveType DEF RotateArchive, Run, Running, Stages
  <2>3. arch' \in [Databases -> [Blocks -> Keys \cup {Absent}]]
    <3>1. SealedUnder(arch[run.db], run.old) \subseteq Blocks
      BY <2>1 DEF SealedUnder, TypeOK
    <3>2. ASSUME NEW b \in Blocks
          PROVE  [arch EXCEPT ![run.db][b] = run.new] \in [Databases -> [Blocks -> Keys \cup {Absent}]]
      BY <2>1 DEF TypeOK
    <3>3. arch' = arch \/ \E b \in SealedUnder(arch[run.db], run.old) : arch' = [arch EXCEPT ![run.db][b] = run.new]
      BY <1>4 DEF RotateArchive
    <3>4. arch \in [Databases -> [Blocks -> Keys \cup {Absent}]]
      BY DEF TypeOK
    <3>5. CASE arch' = arch
      BY <3>4, <3>5
    <3>6. CASE \E b \in SealedUnder(arch[run.db], run.old) : arch' = [arch EXCEPT ![run.db][b] = run.new]
      <4>1. PICK b \in Blocks : arch' = [arch EXCEPT ![run.db][b] = run.new]
        BY <3>1, <3>6
      <4> QED BY <3>2, <4>1
    <3> QED BY <3>3, <3>5, <3>6
  <2> QED BY <1>4, <2>2, <2>3 DEF RotateArchive, TypeOK
<1>5. CASE Stop
  BY <1>5 DEF Stop, TypeOK, Run, stores
<1> QED BY <1>1, <1>2, <1>3, <1>4, <1>5 DEF Command

LEMMA ServerType == TypeOK /\ Server => TypeOK'
<1> SUFFICES ASSUME TypeOK, NEW d \in Databases,
                    \/ \E r \in Records : Seal(d, r) \/ DeleteRecord(d, r)
                    \/ \E b \in Blocks : Archive(d, b)
             PROVE  TypeOK'
  BY DEF Server
<1>1. ASSUME NEW r \in Records, Seal(d, r)
      PROVE  TypeOK'
  BY <1>1 DEF Seal, Serving, TypeOK
<1>2. ASSUME NEW r \in Records, DeleteRecord(d, r)
      PROVE  TypeOK'
  BY <1>2 DEF DeleteRecord, TypeOK
<1>3. ASSUME NEW b \in Blocks, Archive(d, b)
      PROVE  TypeOK'
  BY <1>3 DEF Archive, Serving, TypeOK
<1> QED BY <1>1, <1>2, <1>3

LEMMA OperatorType == TypeOK /\ UnderWay /\ (Start \/ Mishap \/ CarefulOperator) => TypeOK'
<1> SUFFICES ASSUME TypeOK, UnderWay, Start \/ Mishap \/ CarefulOperator PROVE TypeOK'
  OBVIOUS
<1> USE DEF Stages
<1>1. ASSUME NEW new \in Keys, StartWithFile(new)
      PROVE  TypeOK'
  BY <1>1, BeginType DEF StartWithFile, Serving, TypeOK
<1>2. ASSUME NEW new \in Keys, StartGenerate(new)
      PROVE  TypeOK'
  BY <1>2, BeginType DEF StartGenerate, GenerateWith, TypeOK
<1>3. CASE Crash
  BY <1>3, SizeAssumption DEF Crash, TypeOK, Run, stores
<1>4. ASSUME NEW new \in Keys, WrongKey(new)
      PROVE  TypeOK'
  <2>1. 1 \in Databases
    BY SizeAssumption DEF Databases
  <2>2. run' \in Run
    BY <1>4, <2>1 DEF WrongKey, Run
  <2> QED BY <1>4, <2>2, SizeAssumption DEF WrongKey, TypeOK, stores
<1>5. CASE Switch
  <2>1. run.new \in Keys
    BY <1>5, RunsInAStage DEF Switch, Running
  <2> QED BY <1>5, <2>1 DEF Switch, TypeOK, Run, stores
<1>6. CASE RerunFile \/ Resume
  <2>1. pending.new \in Keys
    BY <1>6 DEF RerunFile, Resume, Interrupted, TypeOK
  <2>2. CASE Resume
    BY <2>1, <2>2, BeginType DEF Resume, TypeOK
  <2>3. CASE RerunFile
    <3>1. disk[Source] \in Keys
      BY <2>3 DEF UnderWay, Before, RerunFile, Interrupted
    <3> QED BY <2>1, <2>3, <3>1, BeginType DEF RerunFile, TypeOK
  <2> QED BY <1>6, <2>2, <2>3
<1>7. CASE Repair
  <2>1. pending.new \in Keys
    BY <1>7 DEF Repair, Interrupted, TypeOK
  <2> QED BY <1>7, <2>1 DEF Repair, TypeOK, stores
<1>8. CASE GiveUp
  BY <1>8 DEF GiveUp, TypeOK, stores
<1> QED BY <1>1, <1>2, <1>3, <1>4, <1>5, <1>6, <1>7, <1>8 DEF Start, Mishap, CarefulOperator

-----------------------------------------------------------------------------
(* The stores.                                                             *)

LEMMA SameStores ==
  ASSUME UNCHANGED stores, NEW d, NEW old, NEW new
  PROVE  /\ HasStreams(d)' <=> HasStreams(d)
         /\ StreamsDone(d, new)' <=> StreamsDone(d, new)
         /\ Done(d, new)' <=> Done(d, new)
         /\ Midway(d, old, new)' <=> Midway(d, old, new)
         /\ Untouched(d, old)' <=> Untouched(d, old)
         /\ Holds(d, new)' <=> Holds(d, new)
         /\ Frontier(d, old, new)' <=> Frontier(d, old, new)
<1>1. recs' = recs /\ check' = check /\ arch' = arch
  BY DEF stores
<1>2. HasStreams(d)' <=> HasStreams(d)
  BY <1>1 DEF HasStreams
<1>3. Frontier(d, old, new)' <=> Frontier(d, old, new)
  BY <1>1 DEF Frontier, Midway, Done, StreamsDone, Untouched, HasStreams
<1> QED BY <1>1, <1>2, <1>3 DEF StreamsDone, Done, Midway, Untouched, Holds, HasStreams

LEMMA AtTheFirst ==
  ASSUME NEW old \in Keys, NEW new \in Keys, old # new, \A d \in Databases : Untouched(d, old)
  PROVE  1 \in Databases /\ Frontier(1, old, new)
<1>1. 1 \in Databases /\ \A d \in Databases : ~(d < 1)
  BY SizeAssumption DEF Databases
<1>2. Midway(1, old, new)
  BY <1>1, DistinctAssumption DEF Untouched, Midway
<1> QED BY <1>1, <1>2 DEF Frontier

-----------------------------------------------------------------------------
(* The server works on databases that are at rest.                         *)

Rests == Rest /\ UnderWay /\ RightRun /\ WrongRun /\ UsedAreKnown

LEMMA ServerRests == TypeOK /\ Rests /\ Server => Rests'
<1> SUFFICES ASSUME TypeOK, Rests, NEW d \in Databases,
                    \/ \E r \in Records : Seal(d, r) \/ (SparesLastStream(d, r) /\ DeleteRecord(d, r))
                    \/ \E b \in Blocks : Archive(d, b)
             PROVE  Rests'
  BY DEF Server
<1>1. /\ run = NoRun /\ pending = Absent /\ disk[Source] \in Keys
      /\ \A x \in Databases : Untouched(x, disk[Source])
      /\ UNCHANGED <<disk, kept, used, run, pending>>
  BY DEF Seal, DeleteRecord, Archive, Serving, Rests, Rest
<1>2. ASSUME NEW r \in Records, Seal(d, r), NEW x \in Databases
      PROVE  Untouched(x, disk[Source])'
  <2>1. /\ recs' = [recs EXCEPT ![d][r] = disk[Source]] /\ arch' = arch
        /\ check' = [check EXCEPT ![d] = IF HasStreams(d) THEN @ ELSE disk[Source]]
    BY <1>2 DEF Seal
  <2>2. CASE x = d
    <3>1. recs'[d][r] # Absent
      BY <1>1, <2>1, DistinctAssumption DEF TypeOK
    <3> QED BY <1>1, <2>1, <2>2, <3>1 DEF TypeOK, Untouched, HasStreams
  <2>3. CASE x # d
    BY <1>1, <2>1, <2>3 DEF TypeOK, Untouched, HasStreams
  <2> QED BY <2>2, <2>3
<1>3. ASSUME NEW r \in Records, SparesLastStream(d, r), DeleteRecord(d, r), NEW x \in Databases
      PROVE  Untouched(x, disk[Source])'
  <2>1. recs' = [recs EXCEPT ![d][r] = Absent] /\ arch' = arch /\ check' = check
    BY <1>3 DEF DeleteRecord
  <2>2. HasStreams(x)' <=> HasStreams(x)
    BY <1>3, <2>1 DEF TypeOK, HasStreams, SparesLastStream
  <2> QED BY <1>1, <2>1, <2>2 DEF TypeOK, Untouched
<1>4. ASSUME NEW b \in Blocks, Archive(d, b), NEW x \in Databases
      PROVE  Untouched(x, disk[Source])'
  BY <1>1, <1>4 DEF Archive, TypeOK, Untouched, HasStreams
<1>5. \A x \in Databases : Untouched(x, disk[Source])'
  BY <1>2, <1>3, <1>4
<1> QED BY <1>1, <1>5 DEF Rests, Rest, UnderWay, RightRun, WrongRun, UsedAreKnown

-----------------------------------------------------------------------------
(* The command is started.                                                 *)

LEMMA BeginIsPending ==
  ASSUME NEW new \in Keys, NEW stage, NEW mode \in {"file", "generate"}, Begin(new, stage, mode)
  PROVE  /\ pending' # Absent /\ pending'.new = new /\ pending'.mode = mode
         /\ UNCHANGED stores /\ disk' = disk
BY DistinctAssumption DEF Begin, stores

LEMMA BeginRuns ==
  ASSUME NEW new \in Keys, NEW stage \in Stages, NEW mode, Begin(new, stage, mode)
  PROVE  /\ run' # NoRun /\ run'.new = new /\ run'.stage = stage /\ run'.mode = mode
         /\ run'.old = disk[Source] /\ run'.db = 1 /\ run'.opened = FALSE
BY DEF Begin, NoRun, Stages

LEMMA StartRests == TypeOK /\ Rests /\ Start => Rests'
<1> SUFFICES ASSUME TypeOK, Rests, NEW new \in Keys, StartWithFile(new) \/ StartGenerate(new)
             PROVE  Rests'
  BY DEF Start
<1>1. /\ disk[Source] \in Keys /\ new \notin used /\ used' = used \cup {new} /\ new # disk[Source]
      /\ \A d \in Databases : Untouched(d, disk[Source])
  BY FilesAre, NewIsNotOld DEF StartWithFile, StartGenerate, GenerateWith, Serving, Rests, Rest
<1>2. 1 \in Databases /\ Frontier(1, disk[Source], new)
  BY <1>1, AtTheFirst
<1>3. CASE StartWithFile(new)
  <2>1. Begin(new, "events", "file") /\ kept' = kept \cup {new}
    BY <1>3 DEF StartWithFile
  <2>2. /\ pending' # Absent /\ pending'.new = new /\ pending'.mode = "file" /\ disk' = disk
        /\ UNCHANGED stores
    BY <2>1, BeginIsPending
  <2>3. /\ run' # NoRun /\ run'.new = new /\ run'.stage = "events" /\ run'.mode = "file"
        /\ run'.old = disk[Source] /\ run'.db = 1 /\ run'.opened = FALSE
    BY <2>1, BeginRuns DEF Stages
  <2>4. Frontier(1, disk[Source], new)'
    BY <1>2, <2>2, SameStores
  <2>5. Rest' /\ WrongRun' /\ UsedAreKnown'
    BY <1>1, <2>2, <2>3 DEF Rests, Rest, WrongRun, UsedAreKnown
  <2>6. UnderWay'
    BY <1>1, <1>2, <2>1, <2>2, <2>4 DEF UnderWay, Before
  <2>7. RightRun'
    BY <1>1, <1>2, <2>2, <2>3, <2>4 DEF RightRun
  <2> QED BY <2>5, <2>6, <2>7 DEF Rests
<1>4. CASE StartGenerate(new)
  <2>1. Begin(new, "backup", "generate")
    BY <1>4 DEF StartGenerate, GenerateWith
  <2>2. /\ pending' # Absent /\ pending'.new = new /\ pending'.mode = "generate" /\ disk' = disk
        /\ UNCHANGED stores
    BY <2>1, BeginIsPending
  <2>3. /\ run' # NoRun /\ run'.new = new /\ run'.stage = "backup" /\ run'.mode = "generate"
        /\ run'.old = disk[Source] /\ run'.db = 1 /\ run'.opened = FALSE
    BY <2>1, BeginRuns DEF Stages
  <2>4. Frontier(1, disk[Source], new)' /\ \A d \in Databases : Untouched(d, disk[Source])'
    BY <1>1, <1>2, <2>2, SameStores
  <2>5. Rest' /\ WrongRun' /\ UsedAreKnown'
    BY <1>1, <2>2, <2>3 DEF Rests, Rest, WrongRun, UsedAreKnown
  <2>6. UnderWay'
    BY <1>1, <1>2, <2>2, <2>4 DEF UnderWay, Before
  <2>7. RightRun'
    BY <1>1, <2>2, <2>3, <2>4 DEF RightRun
  <2> QED BY <2>5, <2>6, <2>7 DEF Rests
<1> QED BY <1>3, <1>4

(* With the key of the pending rotation: it is taken up where it is. *)
LEMMA RerunRests == TypeOK /\ Rests /\ (RerunFile \/ Resume) => Rests'
<1> SUFFICES ASSUME TypeOK, Rests, RerunFile \/ Resume PROVE Rests'
  OBVIOUS
<1>1. /\ run = NoRun /\ pending # Absent /\ Begin(pending.new, "events", "file") /\ UNCHANGED <<kept, used>>
  BY DEF RerunFile, Resume, Interrupted
<1>2. PICK new \in Keys : new = pending.new
  BY <1>1 DEF TypeOK
<1>3. Before(new) /\ (new \in kept \/ disk[Staged] = new)
  BY <1>1, <1>2, DistinctAssumption DEF RerunFile, Resume, StagedKey, Rests, UnderWay, From
<1>4. PICK c \in Databases : Frontier(c, disk[Source], new)
  BY <1>3 DEF Before
<1>5. 1 \in Databases /\ 1 <= c
  BY SizeAssumption DEF Databases
<1>6. /\ pending' # Absent /\ pending'.new = new /\ pending'.mode = "file" /\ disk' = disk
      /\ UNCHANGED stores
  BY <1>1, <1>2, BeginIsPending
<1>7. /\ run' # NoRun /\ run'.new = new /\ run'.stage = "events" /\ run'.mode = "file"
      /\ run'.old = disk[Source] /\ run'.db = 1 /\ run'.opened = FALSE
  BY <1>1, <1>2, BeginRuns DEF Stages
<1>8. Frontier(c, disk[Source], new)'
  BY <1>4, <1>6, SameStores
<1>9. Rest' /\ WrongRun' /\ UsedAreKnown'
  BY <1>1, <1>2, <1>6, <1>7 DEF Rests, Rest, WrongRun, UsedAreKnown
<1>10. UnderWay'
  BY <1>1, <1>3, <1>6, <1>8 DEF UnderWay, Before
<1>11. RightRun'
  BY <1>3, <1>5, <1>6, <1>7, <1>8 DEF RightRun, Before
<1> QED BY <1>9, <1>10, <1>11 DEF Rests

LEMMA WrongKeyRests == TypeOK /\ Rests /\ (\E new \in Keys : WrongKey(new)) => Rests'
<1> SUFFICES ASSUME TypeOK, Rests, NEW wrong \in Keys, WrongKey(wrong) PROVE Rests'
  OBVIOUS
<1>1. /\ run = NoRun /\ pending # Absent /\ disk[Source] \in Keys \ {pending.new}
      /\ wrong \notin {pending.new, disk[Source]}
      /\ UNCHANGED <<stores, disk, pending>> /\ used \subseteq used' /\ kept \subseteq kept'
  BY DEF WrongKey, Interrupted
<1>2. /\ run' # NoRun /\ run'.new = wrong /\ run'.stage = "events" /\ run'.mode = "file"
      /\ run'.old = disk[Source] /\ run'.db = 1 /\ run'.opened = FALSE
  BY DEF WrongKey, NoRun
<1>3. PICK c \in Databases : Frontier(c, disk[Source], pending.new)
  BY <1>1, DistinctAssumption DEF Rests, UnderWay, From, Before
<1>4. 1 <= c /\ \A d \in Databases : ~(d < 1)
  BY DEF Databases
<1>5. UNCHANGED stores
  BY <1>1
<1>6. Frontier(c, disk[Source], pending.new)'
  BY <1>1, <1>3, <1>5, SameStores
<1>7. \E d \in Databases : Holds(d, pending.new)'
  <2>1. PICK d \in Databases : Holds(d, pending.new)
    BY DEF WrongKey, Holds
  <2> QED BY <1>1, <1>5, <2>1, SameStores
<1>8. Rest' /\ RightRun' /\ UsedAreKnown'
  BY <1>1, <1>2 DEF Rests, Rest, RightRun, UsedAreKnown
<1>9. UnderWay'
  <2>1. Before(pending.new)'
    BY <1>1, <1>6 DEF Before
  <2>2. \A d \in Databases : Untouched(d, disk[Source]) => Untouched(d, disk[Source])'
    BY <1>1, <1>5, SameStores
  <2> QED BY <1>1, <2>1, <2>2 DEF Rests, UnderWay
<1>10. WrongRun'
  BY <1>1, <1>2, <1>4, <1>6, <1>7 DEF WrongRun
<1> QED BY <1>8, <1>9, <1>10 DEF Rests

-----------------------------------------------------------------------------
(* The command ends, or it is over.                                        *)

(* The stores and the key files in use and staged are as they were.        *)
LEMMA StillUnderWay ==
  ASSUME Rests, UNCHANGED stores, disk'[Source] = disk[Source], disk'[Staged] = disk[Staged],
         kept' = kept, pending' = pending
  PROVE  UnderWay'
<1>1. CASE pending = Absent
  BY <1>1 DEF UnderWay
<1>2. CASE pending # Absent
  <2>1. Before(pending.new) => Before(pending.new)'
    BY SameStores DEF Before
  <2>2. From(pending.new) => From(pending.new)'
    BY SameStores DEF From
  <2>3. \A d \in Databases : Untouched(d, disk[Source]) => Untouched(d, disk[Source])'
    BY SameStores
  <2> QED BY <1>2, <2>1, <2>2, <2>3 DEF Rests, UnderWay
<1> QED BY <1>1, <1>2

LEMMA EndRests == TypeOK /\ Rests /\ (Stop \/ Crash) => Rests'
<1> SUFFICES ASSUME TypeOK, Rests, Stop \/ Crash PROVE Rests'
  OBVIOUS
<1>1. run # NoRun /\ run' = NoRun /\ UNCHANGED <<stores, disk, kept, used, pending>>
  BY DEF Stop, Refused, Crash, NoRun
<1>2. UnderWay'
  BY <1>1, StillUnderWay
<1> QED BY <1>1, <1>2 DEF Rests, Rest, RightRun, WrongRun, UsedAreKnown

LEMMA DoneIsUntouched ==
  ASSUME NEW d, NEW new, Done(d, new)
  PROVE  Untouched(d, new)
BY DEF Done, StreamsDone, Untouched

LEMMA RightStages ==
  ASSUME TypeOK, Rests, run.stage \in Stages \ {"events", "archive"}
  PROVE  /\ run # NoRun /\ run \in Running /\ pending # Absent /\ run.new = pending.new
         /\ pending.new \in Keys /\ pending.mode \in {"file", "generate"}
<1>1. run # NoRun /\ run \in Running
  BY RunsInAStage
<1>2. pending # Absent /\ run.new = pending.new
  BY <1>1 DEF Rests, Rest, WrongRun
<1> QED BY <1>1, <1>2 DEF TypeOK

LEMMA FinishRests == TypeOK /\ Rests /\ (Switch \/ Unlink \/ Repair \/ GiveUp) => Rests'
<1> SUFFICES ASSUME TypeOK, Rests, Switch \/ Unlink \/ Repair \/ GiveUp PROVE Rests'
  OBVIOUS
<1>1. run' = NoRun /\ pending' = Absent /\ UNCHANGED stores /\ used' = used
  BY DEF Switch, Unlink, Repair, GiveUp, Interrupted
<1>2. pending # Absent /\ pending.new \in Keys /\ pending.new \in used
  BY RightStages DEF Switch, Unlink, Repair, GiveUp, Interrupted, TypeOK, Stages, Rests, UsedAreKnown
<1>3. /\ disk'[Source] \in Keys
      /\ \A d \in Databases : Untouched(d, disk'[Source])
  <2>1. CASE Switch \/ Unlink
    <3>1. RightRun /\ run # NoRun /\ run.new = pending.new /\ run.stage \in {"done", "unlink"}
      BY <2>1, RightStages DEF Switch, Unlink, Stages, Rests
    <3>2. disk'[Source] = pending.new
      BY <2>1, <3>1, FilesAre DEF Switch, Unlink, RightRun, TypeOK
    <3>3. \A d \in Databases : Done(d, pending.new)
      BY <3>1 DEF RightRun
    <3> QED BY <1>2, <3>2, <3>3, DoneIsUntouched
  <2>2. CASE Repair
    <3>1. disk'[Source] = pending.new
      BY <2>2, FilesAre DEF Repair, TypeOK
    <3>2. From(pending.new)
      BY <1>2, <2>2, DistinctAssumption DEF Repair, Rests, UnderWay, Before
    <3> QED BY <1>2, <3>1, <3>2, DoneIsUntouched DEF From
  <2>3. CASE GiveUp
    BY <1>2, <2>3 DEF GiveUp, StagedKey, Rests, UnderWay
  <2> QED BY <2>1, <2>2, <2>3
<1>4. \A d \in Databases : Untouched(d, disk[Source])'
  BY <1>1, <1>3, SameStores
<1>5. \A f \in Files : disk'[f] \in Keys => disk'[f] \in used
  <2>1. \A f \in Files : disk'[f] \in Keys => disk'[f] = disk[f] \/ disk'[f] = pending.new
    BY DistinctAssumption, RightStages DEF Switch, Unlink, Repair, GiveUp, TypeOK, Stages
  <2> QED BY <1>2, <2>1 DEF Rests, UsedAreKnown
<1> QED BY <1>1, <1>3, <1>4, <1>5 DEF Rests, Rest, UnderWay, RightRun, WrongRun, UsedAreKnown

-----------------------------------------------------------------------------
(* The command runs.                                                       *)

LEMMA WriteKeyFileRests == TypeOK /\ Rests /\ WriteKeyFile => Rests'
<1> SUFFICES ASSUME TypeOK, Rests, WriteKeyFile PROVE Rests'
  OBVIOUS
<1>1. /\ run.stage \in {"backup", "stage", "source"}
      /\ run \in Running /\ run # NoRun /\ pending # Absent /\ run.new = pending.new
  BY RightStages DEF WriteKeyFile, Stages
<1>2. PICK old \in Keys, new \in Keys : old = run.old /\ new = run.new
  BY <1>1 DEF Running
<1>3. /\ old # new /\ old # Source /\ old # Staged /\ pending.mode = "generate" /\ run.mode = "generate"
      /\ run.stage \in {"backup", "stage"} => /\ disk[Source] = old /\ run.db = 1
                                              /\ \A d \in Databases : Untouched(d, old)
      /\ run.stage = "source" => /\ disk[Staged] = new
                                 /\ \A d \in Databases : Done(d, new)
  BY <1>1, <1>2, DistinctAssumption DEF Rests, RightRun
<1>4. /\ UNCHANGED stores /\ kept' = kept /\ used' = used /\ pending' = pending
      /\ run'.old = old /\ run'.new = new /\ run'.mode = "generate" /\ run'.db = run.db
      /\ IF run.opened THEN run'.stage = After(run.stage) /\ run'.opened = FALSE
                       ELSE run'.stage = run.stage /\ run'.opened = TRUE
      /\ run' # NoRun
  BY <1>1, <1>2, <1>3 DEF WriteKeyFile, After, Running, NoRun, stores
<1>5. new \in used /\ \A f \in Files : disk[f] \in Keys => disk[f] \in used
  BY <1>1, <1>2 DEF Rests, UsedAreKnown
<1>6. Rest' /\ WrongRun'
  BY <1>1, <1>2, <1>4 DEF Rest, WrongRun
<1>7. CASE run.stage = "backup"
  <2>1. disk' = [disk EXCEPT ![old] = IF run.opened THEN old ELSE Empty]
    BY <1>2, <1>7 DEF WriteKeyFile, FileOf, KeyOf
  <2>2. disk'[Source] = disk[Source] /\ disk'[Staged] = disk[Staged]
    BY <1>3, <2>1, FilesAre DEF TypeOK
  <2>3. UnderWay'
    BY <1>4, <2>2, StillUnderWay
  <2>4. \A d \in Databases : Untouched(d, old)'
    BY <1>3, <1>4, <1>7, SameStores
  <2>5. RightRun'
    BY <1>3, <1>4, <1>7, <2>2, <2>4 DEF RightRun, After
  <2>6. UsedAreKnown'
    BY <1>1, <1>2, <1>3, <1>4, <1>5, <1>7, <2>1, FilesAre, DistinctAssumption DEF TypeOK, UsedAreKnown
  <2> QED BY <1>6, <2>3, <2>5, <2>6 DEF Rests
<1>8. CASE run.stage = "stage"
  <2>1. disk' = [disk EXCEPT ![Staged] = IF run.opened THEN new ELSE Empty]
    BY <1>2, <1>8 DEF WriteKeyFile, FileOf, KeyOf
  <2>2. disk'[Source] = old /\ disk'[Staged] = IF run.opened THEN new ELSE Empty
    BY <1>3, <1>8, <2>1, FilesAre DEF TypeOK
  <2>3. \A d \in Databases : Untouched(d, old)'
    BY <1>3, <1>4, <1>8, SameStores
  <2>4. 1 \in Databases /\ Frontier(1, old, new)'
    <3>1. 1 \in Databases /\ Frontier(1, old, new)
      BY <1>3, <1>8, AtTheFirst
    <3> QED BY <1>4, <3>1, SameStores
  <2>5. UnderWay'
    BY <1>1, <1>2, <1>3, <1>4, <2>2, <2>3, <2>4 DEF UnderWay, Before
  <2>6. RightRun'
    BY <1>3, <1>4, <1>8, <2>2, <2>3, <2>4 DEF RightRun, After
  <2>7. UsedAreKnown'
    BY <1>1, <1>2, <1>4, <1>5, <2>1, FilesAre, DistinctAssumption DEF TypeOK, UsedAreKnown
  <2> QED BY <1>6, <2>5, <2>6, <2>7 DEF Rests
<1>9. CASE run.stage = "source"
  <2>1. disk' = [disk EXCEPT ![Source] = IF run.opened THEN new ELSE Empty]
    BY <1>2, <1>9 DEF WriteKeyFile, FileOf, KeyOf
  <2>2. disk'[Staged] = new /\ disk'[Source] = IF run.opened THEN new ELSE Empty
    BY <1>3, <1>9, <2>1, FilesAre DEF TypeOK
  <2>3. \A d \in Databases : Done(d, new)'
    BY <1>3, <1>4, <1>9, SameStores
  <2>4. UnderWay'
    BY <1>1, <1>2, <1>3, <1>4, <2>2, <2>3 DEF UnderWay, From
  <2>5. RightRun'
    BY <1>3, <1>4, <1>9, <2>2, <2>3 DEF RightRun, After
  <2>6. UsedAreKnown'
    BY <1>1, <1>2, <1>4, <1>5, <2>1, FilesAre, DistinctAssumption DEF TypeOK, UsedAreKnown
  <2> QED BY <1>6, <2>4, <2>5, <2>6 DEF Rests
<1> QED BY <1>1, <1>7, <1>8, <1>9

(* A database at or before the frontier is written to. *)
LEMMA FrontierKept ==
  ASSUME TypeOK, NEW c \in Databases, NEW d \in Databases, d <= c, NEW old, NEW new, Frontier(c, old, new),
         \A x \in Databases \ {d} : recs'[x] = recs[x] /\ check'[x] = check[x] /\ arch'[x] = arch[x],
         d < c => Done(d, new)', d = c => Midway(d, old, new)'
  PROVE  Frontier(c, old, new)'
<1>1. ASSUME NEW x \in Databases, x < c PROVE Done(x, new)'
  <2>1. CASE x = d
    BY <1>1, <2>1
  <2>2. CASE x # d
    BY <1>1, <2>2 DEF Frontier, Done, StreamsDone, HasStreams
  <2> QED BY <2>1, <2>2
<1>2. Midway(c, old, new)'
  <2>1. CASE c = d
    BY <2>1
  <2>2. CASE c # d
    BY <2>2 DEF Frontier, Midway, StreamsDone, HasStreams
  <2> QED BY <2>1, <2>2
<1>3. ASSUME NEW x \in Databases, x > c PROVE Untouched(x, old)'
  <2>1. x # d
    BY <1>3 DEF Databases
  <2> QED BY <1>3, <2>1 DEF Frontier, Untouched, HasStreams
<1> QED BY <1>1, <1>2, <1>3 DEF Frontier

(* The command goes through the databases with the pending key. *)
LEMMA RightRotation ==
  ASSUME TypeOK, Rests, run # NoRun, run.new = pending.new, run.stage \in {"events", "archive"}
  PROVE  /\ run \in Running /\ pending # Absent /\ run.db \in Databases
         /\ run.old \in Keys /\ run.new \in Keys /\ run.old # run.new
         /\ disk[Source] = run.old /\ ~run.opened
         /\ pending.mode = "generate" => disk[Staged] = run.new
         /\ run.mode = "generate" => pending.mode = "generate"
         /\ run.stage = "archive" => StreamsDone(run.db, run.new)
         /\ \E c \in Databases : run.db <= c /\ Frontier(c, run.old, run.new)
<1>1. run \in Running /\ pending # Absent
  BY RunsInAStage DEF Rests, Rest
<1> QED BY <1>1 DEF Rests, RightRun, Running

LEMMA RightRotates ==
  ASSUME TypeOK, Rests, run # NoRun, run.new = pending.new, run.stage \in {"events", "archive"},
         NEW old, NEW new, old = run.old, new = run.new,
         UNCHANGED <<disk, kept, used, pending>>, run' \in Running,
         run'.old = old, run'.new = new, run'.mode = run.mode, run'.opened = run.opened,
         run'.stage \in {"events", "archive"},
         NEW c \in Databases, NEW d, run'.db = d, d <= c, Frontier(c, old, new)',
         run'.stage = "archive" => StreamsDone(d, new)'
  PROVE  Rests'
<1>1. /\ pending # Absent /\ old \in Keys /\ new \in Keys /\ old # new /\ disk[Source] = old /\ ~run.opened
      /\ pending.mode = "generate" => disk[Staged] = new
      /\ run.mode = "generate" => pending.mode = "generate"
  BY RightRotation
<1>2. UnderWay'
  BY <1>1 DEF Rests, UnderWay, Before
<1>3. run' # NoRun
  BY DEF NoRun, Running
<1>4. RightRun'
  <2>1. StreamsDone(run.db, run.new)' <=> StreamsDone(d, new)'
    BY DEF StreamsDone, HasStreams
  <2> QED BY <1>1, <2>1 DEF RightRun
<1>5. Rest' /\ WrongRun' /\ UsedAreKnown'
  BY <1>1, <1>3 DEF Rests, Rest, WrongRun, UsedAreKnown
<1> QED BY <1>2, <1>4, <1>5 DEF Rests

LEMMA RightStreams ==
  ASSUME TypeOK, Rests, run # NoRun, run.new = pending.new, RotateStreams
  PROVE  Rests'
<1>1. PICK old \in Keys, new \in Keys, d \in Databases : old = run.old /\ new = run.new /\ d = run.db
  BY RightRotation DEF RotateStreams
<1>2. /\ run \in Running /\ run.stage = "events" /\ old # new
      /\ UNCHANGED <<arch, disk, kept, used, pending>>
  BY <1>1, RightRotation DEF RotateStreams
<1>3. PICK c \in Databases : d <= c /\ Frontier(c, old, new)
  BY <1>1, <1>2, RightRotation
<1>4. d < c => Done(d, new)
  BY <1>3 DEF Frontier
<1>5. d = c => Midway(d, old, new)
  BY <1>3 DEF Frontier
<1> DEFINE next == [run EXCEPT !.stage = "archive"]
<1>6. /\ next \in Running /\ next.old = old /\ next.new = new /\ next.mode = run.mode
      /\ next.opened = run.opened /\ next.stage = "archive" /\ next.db = d
  BY <1>1, <1>2 DEF Running, Stages
<1>7. CASE Finished(d)
  <2>1. StreamsDone(d, new)
    <3>1. check[d] = new
      BY <1>1, <1>7 DEF Finished
    <3> QED BY <1>3, <1>4, <1>5, <3>1 DEF Done, Midway, Databases
  <2>2. run' = next /\ UNCHANGED stores
    BY <1>1, <1>2, <1>7 DEF RotateStreams, stores
  <2>3. StreamsDone(d, new)' /\ Frontier(c, old, new)'
    BY <1>3, <2>1, <2>2, SameStores
  <2> QED BY <1>1, <1>2, <1>3, <1>6, <2>2, <2>3, RightRotates
<1>8. ASSUME ~Finished(d), NEW r \in SealedUnder(recs[d], old), recs' = [recs EXCEPT ![d][r] = new],
             UNCHANGED <<check, run>>
      PROVE  Rests'
  <2>1. r \in Records /\ recs[d][r] = old
    BY <1>8 DEF SealedUnder, TypeOK
  <2>2. ~StreamsDone(d, new) /\ old # Absent /\ new # Absent
    BY <1>2, <2>1, DistinctAssumption DEF StreamsDone
  <2>3. d = c
    BY <1>3, <1>4, <2>2 DEF Done, Databases
  <2>4. /\ recs'[d][r] = new
        /\ \A x \in Records : recs'[d][x] \in {recs[d][x], new}
        /\ \A x \in Databases \ {d} : recs'[x] = recs[x]
    BY <1>8, <2>1 DEF TypeOK
  <2>5. Midway(d, old, new)'
    <3>1. HasStreams(d)'
      BY <2>1, <2>2, <2>4 DEF HasStreams
    <3>2. check[d] # new /\ \A b \in Blocks : arch[d][b] # new
      BY <1>5, <2>2, <2>3 DEF Midway
    <3>3. check'[d] # new /\ \A b \in Blocks : arch'[d][b] # new
      BY <1>2, <1>8, <3>2
    <3>4. check'[d] \in {Absent, old, new} /\ \A b \in Blocks : arch'[d][b] \in {Absent, old, new}
      BY <1>2, <1>5, <1>8, <2>3 DEF Midway
    <3>5. \A x \in Records : recs'[d][x] \in {Absent, old, new}
      BY <1>5, <2>3, <2>4 DEF Midway
    <3> QED BY <3>1, <3>3, <3>4, <3>5 DEF Midway
  <2>6. Frontier(c, old, new)'
    <3>1. ~(d < c)
      BY <2>3 DEF Databases
    <3> QED BY <1>2, <1>3, <1>8, <2>4, <2>5, <3>1, FrontierKept
  <2> QED BY <1>1, <1>2, <1>3, <1>8, <2>6, RightRotates, RightRotation
<1>9. ASSUME ~Finished(d), StreamsAccepted(d), SealedUnder(recs[d], old) = {},
             check' = [check EXCEPT ![d] = NewCheck(d)], run' = next, UNCHANGED recs
      PROVE  Rests'
  <2>1. \A r \in Records : recs[d][r] \in {Absent, new}
    BY <1>1, <1>9 DEF StreamsAccepted, SealedUnder, TypeOK
  <2>2. ~HasStreams(d) => check[d] = Absent
    BY <1>3, <1>4, <1>5 DEF Done, StreamsDone, Midway, Databases
  <2>3. /\ check'[d] = IF HasStreams(d) THEN new ELSE Absent
        /\ \A x \in Databases \ {d} : check'[x] = check[x]
    BY <1>1, <1>9, <2>2 DEF NewCheck, TypeOK
  <2>4. StreamsDone(d, new)'
    BY <1>9, <2>1, <2>3 DEF StreamsDone, HasStreams
  <2>5. d < c => Done(d, new)'
    BY <1>2, <1>4, <2>4 DEF Done
  <2>6. d = c => Midway(d, old, new)'
    BY <1>2, <1>5, <2>4 DEF Midway, StreamsDone
  <2>7. Frontier(c, old, new)'
    BY <1>2, <1>3, <1>9, <2>3, <2>5, <2>6, FrontierKept
  <2> QED BY <1>1, <1>2, <1>3, <1>6, <1>9, <2>4, <2>7, RightRotates
<1> QED BY <1>1, <1>7, <1>8, <1>9 DEF RotateStreams

(* With the archive of database d the frontier is past d. *)
LEMMA FrontierMoves ==
  ASSUME NEW old \in Keys, NEW new \in Keys, old # new, NEW c \in Databases, c < LastDatabase,
         Frontier(c, old, new), Done(c, new)
  PROVE  c + 1 \in Databases /\ Frontier(c + 1, old, new)
<1>1. c + 1 \in Databases
  BY SizeAssumption DEF Databases
<1>2. \A d \in Databases : (d < c + 1 <=> d < c \/ d = c) /\ (d > c + 1 => d > c)
  BY DEF Databases
<1>3. Untouched(c + 1, old)
  BY <1>1 DEF Frontier, Databases
<1>4. Midway(c + 1, old, new)
  BY <1>3, DistinctAssumption DEF Untouched, Midway
<1> QED BY <1>1, <1>2, <1>4 DEF Frontier

LEMMA RightArchive ==
  ASSUME TypeOK, Rests, run # NoRun, run.new = pending.new, RotateArchive
  PROVE  Rests'
<1>1. PICK old \in Keys, new \in Keys, d \in Databases : old = run.old /\ new = run.new /\ d = run.db
  BY RightRotation DEF RotateArchive
<1>2. /\ run \in Running /\ run.stage = "archive" /\ old # new /\ StreamsDone(d, new)
      /\ UNCHANGED <<recs, check, disk, kept, used, pending>>
  BY <1>1, RightRotation DEF RotateArchive
<1>3. PICK c \in Databases : d <= c /\ Frontier(c, old, new)
  BY <1>1, <1>2, RightRotation
<1>4. d < c => Done(d, new)
  BY <1>3 DEF Frontier
<1>5. d = c => Midway(d, old, new)
  BY <1>3 DEF Frontier
<1>6. StreamsDone(d, new)'
  BY <1>2 DEF StreamsDone, HasStreams
<1>7. ASSUME NEW b \in SealedUnder(arch[d], old), arch' = [arch EXCEPT ![d][b] = new], UNCHANGED run
      PROVE  Rests'
  <2>1. b \in Blocks /\ arch[d][b] = old
    BY <1>7 DEF SealedUnder, TypeOK
  <2>2. d = c
    BY <1>2, <1>3, <1>4, <2>1, DistinctAssumption DEF Done, Databases
  <2>3. /\ \A x \in Blocks : arch'[d][x] \in {arch[d][x], new}
        /\ \A x \in Databases \ {d} : arch'[x] = arch[x]
    BY <1>7, <2>1 DEF TypeOK
  <2>4. \A x \in Blocks : arch'[d][x] \in {Absent, old, new}
    BY <1>5, <2>2, <2>3 DEF Midway
  <2>5. Midway(d, old, new)'
    BY <1>2, <1>5, <1>6, <2>2, <2>4 DEF Midway, HasStreams
  <2>6. Frontier(c, old, new)'
    <3>1. ~(d < c)
      BY <2>2 DEF Databases
    <3> QED BY <1>2, <1>3, <2>3, <2>5, <3>1, FrontierKept
  <2> QED BY <1>1, <1>2, <1>3, <1>6, <1>7, <2>6, RightRotates
<1>8. ASSUME ArchiveAccepted(d), SealedUnder(arch[d], old) = {}, run' = AfterArchive, UNCHANGED arch
      PROVE  Rests'
  <2>1. Done(d, new)
    <3>1. \A b \in Blocks : arch[d][b] \in {Absent, new}
      BY <1>1, <1>8 DEF ArchiveAccepted, SealedUnder, TypeOK
    <3> QED BY <1>2, <3>1 DEF Done
  <2>2. UNCHANGED stores
    BY <1>2, <1>8 DEF stores
  <2>3. CASE d < LastDatabase
    <3>1. d # LastDatabase
      BY <2>3, SizeAssumption DEF Databases
    <3>2. run' = [run EXCEPT !.stage = "events", !.db = @ + 1]
      BY <1>1, <1>8, <2>3, <3>1 DEF AfterArchive
    <3>3. d + 1 \in Databases
      BY <2>3, SizeAssumption DEF Databases
    <3>4. /\ run' \in Running /\ run'.old = old /\ run'.new = new /\ run'.mode = run.mode
          /\ run'.opened = run.opened /\ run'.stage = "events" /\ run'.db = d + 1
      BY <1>1, <1>2, <3>2, <3>3 DEF Running, Stages
    <3>5. PICK n \in Databases : d + 1 <= n /\ Frontier(n, old, new)
      <4>1. CASE d = c
        <5>1. d + 1 \in Databases /\ Frontier(d + 1, old, new)
          BY <1>2, <1>3, <2>1, <2>3, <4>1, FrontierMoves
        <5> QED BY <5>1 DEF Databases
      <4>2. CASE d < c
        BY <1>3, <4>2 DEF Databases
      <4> QED BY <1>3, <4>1, <4>2 DEF Databases
    <3>6. Frontier(n, old, new)'
      BY <2>2, <3>5, SameStores
    <3> QED BY <1>1, <1>2, <3>4, <3>5, <3>6, RightRotates
  <2>4. CASE d = LastDatabase
    <3>1. /\ run' # NoRun /\ run'.old = old /\ run'.new = new /\ run'.mode = run.mode
          /\ run'.opened = run.opened
          /\ run'.stage = IF run.mode = "generate" THEN "source" ELSE "done"
      <4>1. run.db = LastDatabase /\ ~(run.db < LastDatabase) /\ run.mode \in {"file", "generate"}
        BY <1>1, <1>2, <2>4, SizeAssumption DEF Running
      <4>2. run' = [run EXCEPT !.stage = IF run.mode = "generate" THEN "source" ELSE "done"]
        BY <1>8, <4>1 DEF AfterArchive
      <4> QED BY <1>1, <1>2, <4>2 DEF Running, NoRun
    <3>2. \A x \in Databases : Done(x, new)
      <4>1. \A x \in Databases : x < c \/ x = d
        BY <1>3, <2>4, SizeAssumption DEF Databases
      <4> QED BY <1>3, <2>1, <4>1 DEF Frontier
    <3>3. \A x \in Databases : Done(x, new)'
      BY <2>2, <3>2, SameStores
    <3>4. /\ pending # Absent /\ disk[Source] = old /\ ~run.opened
          /\ pending.mode = "generate" => disk[Staged] = new
          /\ run.mode = "generate" => pending.mode = "generate"
      BY <1>1, <1>2, RightRotation
    <3>5. UnderWay'
      BY <1>2, <2>2, StillUnderWay
    <3>6. RightRun'
      BY <1>2, <3>1, <3>3, <3>4 DEF RightRun
    <3>7. Rest' /\ WrongRun' /\ UsedAreKnown'
      BY <1>1, <1>2, <3>1, <3>4 DEF Rests, Rest, WrongRun, UsedAreKnown
    <3> QED BY <3>5, <3>6, <3>7 DEF Rests
  <2> QED BY <2>3, <2>4, SizeAssumption DEF Databases
<1> QED BY <1>1, <1>7, <1>8 DEF RotateArchive

(* With another key it gets no further than the frontier, and there is     *)
(* nothing of its own to re-seal before it.                                *)
LEMMA WrongRotation ==
  ASSUME TypeOK, Rests, run # NoRun, run.new # pending.new
  PROVE  /\ run \in Running /\ pending # Absent /\ pending.new \in Keys /\ run.stage \in {"events", "archive"}
         /\ run.mode = "file" /\ ~run.opened /\ disk[Source] = run.old /\ run.old \notin {run.new, pending.new}
         /\ \E c \in Databases : run.db <= c /\ Frontier(c, run.old, pending.new)
         /\ \E d \in Databases : Holds(d, pending.new)
         /\ \A d \in Databases : d < run.db => ~Holds(d, pending.new)
         /\ run.stage = "archive" => \A r \in Records : recs[run.db][r] # pending.new
<1>1. run \in Running /\ pending # Absent
  BY RunsInAStage DEF Rests, Rest
<1> QED BY <1>1 DEF Rests, WrongRun, TypeOK

(* What holds the pending key is between the database of the run and the   *)
(* frontier.                                                               *)
LEMMA HolderIsNear ==
  ASSUME TypeOK, NEW c \in Databases, NEW d \in Databases, d <= c, NEW old \in Keys, NEW new \in Keys, old # new,
         Frontier(c, old, new), \E x \in Databases : Holds(x, new),
         \A x \in Databases : x < d => ~Holds(x, new)
  PROVE  d = c => Holds(d, new)
<1>1. PICK x \in Databases : Holds(x, new)
  OBVIOUS
<1>2. ~(x > c)
  <2>1. SUFFICES ASSUME x > c PROVE FALSE
    OBVIOUS
  <2>2. Untouched(x, old)
    BY <2>1 DEF Frontier
  <2> QED BY <1>1, <2>2, DistinctAssumption DEF Untouched, Holds
<1>3. ~(x < d)
  BY <1>1
<1>4. d = c => x = d
  BY <1>2, <1>3 DEF Databases
<1> QED BY <1>1, <1>4

LEMMA WrongGoesOn ==
  ASSUME TypeOK, Rests, run # NoRun, run.new # pending.new,
         NEW new \in Keys, new = pending.new,
         UNCHANGED stores, UNCHANGED <<disk, kept, used, pending>>, run' \in Running,
         run'.old = run.old, run'.new = run.new, run'.mode = run.mode, run'.opened = run.opened,
         run'.stage \in {"events", "archive"},
         NEW c \in Databases, NEW d \in Databases, run'.db = d, d <= c, Frontier(c, run.old, new),
         \A x \in Databases : x < d => ~Holds(x, new),
         run'.stage = "archive" => \A r \in Records : recs[d][r] # new
  PROVE  Rests'
<1>1. /\ pending # Absent /\ run.mode = "file" /\ ~run.opened
      /\ disk[Source] = run.old /\ run.old \notin {run.new, pending.new}
      /\ \E x \in Databases : Holds(x, pending.new)
  BY WrongRotation
<1>2. run' # NoRun
  BY DEF NoRun, Running
<1>3. UnderWay'
  BY StillUnderWay
<1>4. PICK old \in Keys : old = run.old
  BY WrongRotation DEF Running
<1>5. /\ Frontier(c, old, new)'
      /\ \E x \in Databases : Holds(x, new)'
      /\ \A x \in Databases : x < d => ~Holds(x, new)'
  BY <1>1, <1>4, SameStores
<1>6. run'.stage = "archive" => \A r \in Records : recs'[d][r] # new
  BY DEF stores
<1>7. \A x : Holds(x, pending.new)' <=> Holds(x, new)'
  BY DEF Holds
<1>8. Frontier(c, run.old, pending.new)'
  BY <1>4, <1>5
<1>9. WrongRun'
  BY <1>1, <1>2, <1>5, <1>6, <1>7, <1>8 DEF WrongRun
<1>10. Rest' /\ RightRun' /\ UsedAreKnown'
  BY <1>1, <1>2 DEF Rests, Rest, RightRun, UsedAreKnown
<1> QED BY <1>3, <1>9, <1>10 DEF Rests

LEMMA WrongStreams ==
  ASSUME TypeOK, Rests, run # NoRun, run.new # pending.new, RotateStreams
  PROVE  UNCHANGED <<stores, disk>> /\ Rests'
<1>1. PICK old \in Keys, wrong \in Keys, new \in Keys, d \in Databases :
        old = run.old /\ wrong = run.new /\ new = pending.new /\ d = run.db
  BY WrongRotation DEF Running
<1>2. /\ run \in Running /\ run.stage = "events" /\ old # wrong /\ old # new /\ wrong # new
      /\ UNCHANGED <<arch, disk, kept, used, pending>>
      /\ Absent \notin {old, wrong, new}
  BY <1>1, WrongRotation, DistinctAssumption DEF RotateStreams
<1>3. PICK c \in Databases : d <= c /\ Frontier(c, old, new)
  BY <1>1, WrongRotation
<1>4. \A x \in Databases : x < d => ~Holds(x, new)
  BY <1>1, WrongRotation
<1>5. /\ d < c => Done(d, new)
      /\ d = c => Midway(d, old, new) /\ Holds(d, new)
  <2>1. \E x \in Databases : Holds(x, new)
    BY <1>1, WrongRotation
  <2> QED BY <1>2, <1>3, <1>4, <2>1, HolderIsNear DEF Frontier
<1>6. ~Finished(d)
  BY <1>1, <1>2, <1>3, <1>5 DEF Finished, Done, StreamsDone, Midway, Databases
<1>7. StreamsAccepted(d)
  BY <1>1, <1>6 DEF RotateStreams
<1>8. \A r \in Records : recs[d][r] = Absent
  <2>1. \A r \in Records : recs[d][r] # new
    BY <1>1, <1>2, <1>7 DEF StreamsAccepted
  <2>2. StreamsDone(d, new)
    <3>1. CASE d < c
      BY <1>5, <3>1 DEF Done
    <3>2. CASE d = c
      <4>1. \E b \in Blocks : arch[d][b] = new
        BY <1>5, <2>1, <3>2 DEF Holds
      <4> QED BY <1>5, <3>2, <4>1 DEF Midway
    <3> QED BY <1>3, <3>1, <3>2 DEF Databases
  <2> QED BY <2>1, <2>2 DEF StreamsDone
<1>9. SealedUnder(recs[d], old) = {} /\ NewCheck(d) = check[d]
  BY <1>2, <1>8 DEF SealedUnder, NewCheck, HasStreams, TypeOK
<1>10. /\ UNCHANGED stores /\ run' = [run EXCEPT !.stage = "archive"]
  <2>1. recs' = recs /\ check' = [check EXCEPT ![d] = check[d]] /\ run' = [run EXCEPT !.stage = "archive"]
    BY <1>1, <1>6, <1>9 DEF RotateStreams
  <2>2. check' = check
    BY <2>1 DEF TypeOK
  <2> QED BY <1>2, <2>1, <2>2 DEF stores
<1>11. /\ run' \in Running /\ run'.old = run.old /\ run'.new = run.new /\ run'.mode = run.mode
       /\ run'.opened = run.opened /\ run'.stage = "archive" /\ run'.db = d
  BY <1>1, <1>2, <1>10 DEF Running, Stages
<1>12. Frontier(c, run.old, new) /\ \A r \in Records : recs[d][r] # new
  BY <1>1, <1>2, <1>3, <1>8
<1>13. Rests'
  BY <1>1, <1>2, <1>3, <1>4, <1>10, <1>11, <1>12, WrongGoesOn
<1> QED BY <1>2, <1>10, <1>13

LEMMA WrongArchive ==
  ASSUME TypeOK, Rests, run # NoRun, run.new # pending.new, RotateArchive
  PROVE  UNCHANGED <<stores, disk>> /\ Rests'
<1>1. PICK old \in Keys, wrong \in Keys, new \in Keys, d \in Databases :
        old = run.old /\ wrong = run.new /\ new = pending.new /\ d = run.db
  BY WrongRotation DEF Running
<1>2. /\ run \in Running /\ run.stage = "archive" /\ old # wrong /\ old # new /\ wrong # new
      /\ UNCHANGED <<recs, check, disk, kept, used, pending>>
      /\ Absent \notin {old, wrong, new}
      /\ \A r \in Records : recs[d][r] # new
      /\ ArchiveAccepted(d)
  BY <1>1, WrongRotation, DistinctAssumption DEF RotateArchive
<1>3. PICK c \in Databases : d <= c /\ Frontier(c, old, new)
  BY <1>1, WrongRotation
<1>4. \A x \in Databases : x < d => ~Holds(x, new)
  BY <1>1, WrongRotation
<1>5. \A b \in Blocks : arch[d][b] # new
  BY <1>1, <1>2 DEF ArchiveAccepted
<1>6. ~Holds(d, new)
  BY <1>2, <1>5 DEF Holds
<1>7. d < c
  <2>1. \E x \in Databases : Holds(x, new)
    BY <1>1, WrongRotation
  <2>2. d # c
    BY <1>2, <1>3, <1>4, <1>6, <2>1, HolderIsNear
  <2> QED BY <1>3, <2>2 DEF Databases
<1>8. SealedUnder(arch[d], old) = {}
  <2>1. Done(d, new)
    BY <1>3, <1>7 DEF Frontier
  <2>2. \A b \in Blocks : arch[d][b] = Absent
    BY <1>5, <2>1 DEF Done
  <2> QED BY <1>2, <2>2 DEF SealedUnder, TypeOK
<1>9. run' = AfterArchive /\ UNCHANGED stores
  BY <1>1, <1>2, <1>8 DEF RotateArchive, stores
<1>10. d + 1 \in Databases /\ d < LastDatabase /\ d # LastDatabase
  BY <1>7, SizeAssumption DEF Databases
<1>11. run' = [run EXCEPT !.stage = "events", !.db = @ + 1]
  BY <1>1, <1>9, <1>10 DEF AfterArchive
<1>12. /\ run' \in Running /\ run'.old = run.old /\ run'.new = run.new /\ run'.mode = run.mode
       /\ run'.opened = run.opened /\ run'.stage = "events" /\ run'.db = d + 1
  BY <1>1, <1>2, <1>10, <1>11 DEF Running, Stages
<1>13. \A x \in Databases : x < d + 1 => ~Holds(x, new)
  <2>1. \A x \in Databases : x < d + 1 => x < d \/ x = d
    BY DEF Databases
  <2> QED BY <1>4, <1>6, <2>1
<1>14. d + 1 <= c /\ Frontier(c, run.old, new)
  BY <1>1, <1>3, <1>7 DEF Databases
<1>15. Rests'
  BY <1>1, <1>2, <1>9, <1>10, <1>12, <1>13, <1>14, WrongGoesOn
<1> QED BY <1>2, <1>9, <1>15

-----------------------------------------------------------------------------
(* Every step.                                                             *)

LEMMA CommandRests == TypeOK /\ Rests /\ Command => Rests'
<1> SUFFICES ASSUME TypeOK, Rests, Command PROVE Rests'
  OBVIOUS
<1>1. CASE WriteKeyFile
  BY <1>1, WriteKeyFileRests
<1>2. CASE Unlink
  BY <1>2, FinishRests
<1>3. CASE Stop
  BY <1>3, EndRests
<1>4. CASE RotateStreams \/ RotateArchive
  <2>1. run # NoRun
    BY <1>4, RunsInAStage DEF RotateStreams, RotateArchive, NoRun
  <2>2. CASE run.new = pending.new
    BY <1>4, <2>1, <2>2, RightStreams, RightArchive
  <2>3. CASE run.new # pending.new
    BY <1>4, <2>1, <2>3, WrongStreams, WrongArchive
  <2> QED BY <2>2, <2>3
<1> QED BY <1>1, <1>2, <1>3, <1>4 DEF Command

LEMMA IInvKept == IInv /\ [Next]_vars => IInv'
<1>1. ASSUME IInv, Next PROVE IInv'
  <2>1. TypeOK /\ Rests /\ UnderWay
    BY <1>1 DEF IInv, Rests
  <2>2. TypeOK'
    BY <1>1, <2>1, ServerType, CommandType, OperatorType DEF Next
  <2>3. Rests'
    <3>1. CASE Server
      BY <2>1, <3>1, ServerRests
    <3>2. CASE Start
      BY <2>1, <3>2, StartRests
    <3>3. CASE Command
      BY <2>1, <3>3, CommandRests
    <3>4. CASE Mishap
      BY <2>1, <3>4, EndRests, WrongKeyRests DEF Mishap
    <3>5. CASE CarefulOperator
      BY <2>1, <3>5, RerunRests, FinishRests DEF CarefulOperator
    <3> QED BY <1>1, <3>1, <3>2, <3>3, <3>4, <3>5 DEF Next
  <2> QED BY <2>2, <2>3 DEF IInv, Rests
<1>2. ASSUME IInv, UNCHANGED vars PROVE IInv'
  <2>1. UNCHANGED stores /\ UNCHANGED <<recs, check, arch, disk, kept, used, run, pending, mishaps>>
    BY <1>2 DEF vars, stores
  <2> QED BY <1>2, <2>1 DEF IInv, TypeOK, Rest, UnderWay, RightRun, WrongRun, UsedAreKnown, Before, From,
             Frontier, Midway, Done, StreamsDone, Untouched, HasStreams, Holds
<1> QED BY <1>1, <1>2

LEMMA InitIInv == Init => IInv
<1> SUFFICES ASSUME Init PROVE IInv
  OBVIOUS
<1>1. PICK k \in Keys : /\ used = {k}
                        /\ disk = [f \in Files |-> IF f = Source THEN k ELSE Absent]
                        /\ recs \in [Databases -> [Records -> {Absent, k}]]
  BY DEF Init
<1>2. TypeOK
  BY <1>1, SizeAssumption DEF Init, TypeOK, Run
<1>3. disk[Source] = k /\ \A f \in Files : disk[f] \in Keys => disk[f] = k
  BY <1>1, FilesAre, DistinctAssumption
<1>4. \A d \in Databases : Untouched(d, k)
  BY <1>1 DEF Init, Untouched
<1> QED BY <1>1, <1>2, <1>3, <1>4 DEF Init, IInv, Rest, UnderWay, RightRun, WrongRun, UsedAreKnown

LEMMA AlwaysIInv == Spec => []IInv
BY InitIInv, IInvKept, PTL DEF Spec

(* What any database is sealed under while a rotation is under way. *)
LEMMA SealedUnderTwo ==
  ASSUME NEW c \in Databases, NEW old, NEW new, Frontier(c, old, new), NEW d \in Databases
  PROVE  /\ \A r \in Records : recs[d][r] \in {Absent, old, new}
         /\ check[d] \in {Absent, old, new}
         /\ \A b \in Blocks : arch[d][b] \in {Absent, old, new}
<1>1. d < c \/ d = c \/ d > c
  BY DEF Databases
<1> QED BY <1>1 DEF Frontier, Done, StreamsDone, Midway, Untouched

(* Every variable keeps its type, of a rotation that is interrupted and    *)
(* taken up too: a file whose key file was emptied is never rerun as if it *)
(* held a key.                                                             *)
THEOREM TypeCorrect == Spec => []TypeOK
BY AlwaysIInv, PTL DEF IInv

(* Whatever is sealed can be opened with a key somebody has, wherever the  *)
(* command was when it died: a generated key is staged before anything is  *)
(* re-sealed under it, and the old one is in the key file until everything *)
(* is.                                                                     *)
THEOREM KeysSurvive == Spec => []NoKeyLost
<1>1. ASSUME IInv PROVE NoKeyLost
  <2> DEFINE Safe(k) == k \in {disk[f] : f \in Files} \cup kept \cup {Absent}
  <2>1. Safe(Absent) /\ Safe(disk[Source]) /\ Safe(disk[Staged]) /\ \A k \in kept : Safe(k)
    BY FilesAre
  <2> HIDE DEF Safe
  <2>2. SUFFICES ASSUME NEW d \in Databases
                 PROVE  /\ \A r \in Records : Safe(recs[d][r])
                        /\ Safe(check[d])
                        /\ \A b \in Blocks : Safe(arch[d][b])
    BY <2>2 DEF NoKeyLost, SealingKeys, Safe
  <2>3. CASE Untouched(d, disk[Source])
    BY <2>1, <2>3 DEF Untouched
  <2>4. CASE pending # Absent /\ Before(pending.new) /\ Safe(pending.new)
    <3>1. PICK c \in Databases : Frontier(c, disk[Source], pending.new)
      BY <2>4 DEF Before
    <3> QED BY <2>1, <2>4, <3>1, SealedUnderTwo
  <2>5. CASE pending # Absent /\ From(pending.new)
    <3>1. Untouched(d, pending.new) /\ Safe(pending.new)
      BY <2>1, <2>5, DoneIsUntouched DEF From
    <3> QED BY <2>1, <3>1 DEF Untouched
  <2>6. CASE pending # Absent /\ ~From(pending.new) /\ ~Untouched(d, disk[Source])
    <3>1. Before(pending.new) /\ pending.mode \in {"file", "generate"}
      BY <1>1, <2>6 DEF IInv, UnderWay, TypeOK
    <3>2. Safe(pending.new)
      BY <1>1, <2>1, <2>6, <3>1 DEF IInv, UnderWay
    <3> QED BY <2>4, <2>6, <3>1, <3>2
  <2>7. CASE pending = Absent
    BY <1>1, <2>3, <2>7 DEF IInv, Rest
  <2> QED BY <2>3, <2>5, <2>6, <2>7
<1> QED BY <1>1, AlwaysIInv, PTL

(* A rotation that was interrupted is taken up by every store it meets:    *)
(* what an earlier run left behind, in a database it finished or in the    *)
(* one it died in, is under the old key or the new one.                    *)
THEOREM RerunsGoThrough == Spec => []NeverRefused
<1>1. ASSUME IInv PROVE NeverRefused
  <2>1. SUFFICES ASSUME run # NoRun, run.new = pending.new, run.stage \in {"events", "archive"}
                 PROVE  /\ run.stage = "events" => Finished(run.db) \/ StreamsAccepted(run.db)
                        /\ ArchiveAccepted(run.db)
    BY DEF NeverRefused, Refused
  <2>2. TypeOK /\ Rests
    BY <1>1 DEF IInv, Rests
  <2>3. PICK old \in Keys, new \in Keys, d \in Databases : old = run.old /\ new = run.new /\ d = run.db
    BY <2>1, <2>2, RightRotation
  <2>4. PICK c \in Databases : d <= c /\ Frontier(c, old, new)
    BY <2>1, <2>2, <2>3, RightRotation
  <2>5. /\ \A r \in Records : recs[d][r] \in {Absent, old, new}
        /\ check[d] \in {Absent, old, new}
        /\ \A b \in Blocks : arch[d][b] \in {Absent, old, new}
    BY <2>4, SealedUnderTwo
  <2> QED BY <2>3, <2>5 DEF Finished, StreamsAccepted, ArchiveAccepted
<1> QED BY <1>1, AlwaysIInv, PTL

(* When the rotation is over no record, key check or archived block was    *)
(* left under the old key.                                                 *)
THEOREM NothingLeftBehind == Spec => []AllUnderTheKeyInUse
<1>1. ASSUME IInv PROVE AllUnderTheKeyInUse
  BY <1>1 DEF IInv, Rest, AllUnderTheKeyInUse, Serving, SealingKeys, Untouched
<1> QED BY <1>1, AlwaysIInv, PTL

(* A command that is given the wrong key never writes: the databases       *)
(* before the frontier hold nothing it could re-seal, and it is stopped at *)
(* the first one that holds the pending key.                               *)
THEOREM WrongKeyRefused == Spec => WrongKeyIsHarmless
<1>1. ASSUME IInv, [Next]_vars
      PROVE  [run # NoRun /\ run.new # pending.new => UNCHANGED <<stores, disk>>]_vars
  <2>1. SUFFICES ASSUME Next, run # NoRun, run.new # pending.new
                 PROVE  UNCHANGED <<stores, disk>>
    BY <1>1
  <2>2. TypeOK /\ Rests
    BY <1>1 DEF IInv, Rests
  <2>3. run.stage \in {"events", "archive"}
    BY <2>1, <2>2, WrongRotation
  <2>4. CASE RotateStreams \/ RotateArchive
    BY <2>1, <2>2, <2>4, WrongStreams, WrongArchive
  <2>5. CASE Stop \/ Crash
    BY <2>5 DEF Stop, Crash
  <2>6. CASE WriteKeyFile \/ Unlink \/ Switch
    BY <2>3, <2>6 DEF WriteKeyFile, Unlink, Switch
  <2>7. CASE Server \/ Start \/ (\E new \in Keys : WrongKey(new)) \/ RerunFile \/ Resume \/ Repair \/ GiveUp
    BY <2>1, <2>7 DEF Server, Seal, DeleteRecord, Archive, Serving, Start, StartWithFile, StartGenerate,
       GenerateWith, WrongKey, RerunFile, Resume, Repair, GiveUp, Interrupted
  <2> QED BY <2>1, <2>4, <2>5, <2>6, <2>7 DEF Next, Command, Mishap, CarefulOperator
<1>2. Spec => [][Next]_vars
  BY PTL DEF Spec
<1> QED BY <1>1, <1>2, AlwaysIInv, PTL DEF WrongKeyIsHarmless

=============================================================================
