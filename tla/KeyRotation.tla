---------------------------- MODULE KeyRotation ----------------------------
(***************************************************************************)
(* "mdc key rotate" over all databases of a data directory: the command's  *)
(* key files, the databases re-sealed one after another (first the event   *)
(* streams with their key check, then the ARCHIVE tier), processes that    *)
(* die anywhere, an operator who runs the command again or gives it the    *)
(* wrong key, and the server between two rotations.                        *)
(*                                                                         *)
(* A sealed record is the key that opens it.  EventStore models one store  *)
(* in full; here a store's rotation is its storage writes.  Definitions    *)
(* marked "Fault" are the bugs the properties are tried against; nothing   *)
(* in the specification uses them.                                         *)
(***************************************************************************)
EXTENDS Integers, FiniteSets

CONSTANTS
  LastDatabase,   \* the databases are 1 .. LastDatabase, in name order
  Records,        \* sealed event and snapshot records of one database
  Blocks,         \* archived blocks of one database
  Keys,           \* master keys; a generated key is one never used before
  MaxMishaps,     \* bound: processes that die, keys given by mistake
  Absent,         \* no file, no record
  Empty           \* a key file that was truncated and not yet written

Databases == 1 .. LastDatabase

(* The key file in use, the one staged beside it, and for each key k that  *)
(* was rotated away its backup <file>.<fingerprint of k>.old.              *)
Source == "source"
Staged == "staged"
Files == {Source, Staged} \cup Keys

ASSUME SizeAssumption == LastDatabase \in Nat \ {0} /\ MaxMishaps \in Nat
ASSUME DistinctAssumption ==
  /\ Absent \notin Keys /\ Empty \notin Keys /\ Absent # Empty
  /\ Source \notin Keys /\ Staged \notin Keys
  /\ \A mode \in {"file", "generate"}, new \in Keys : Absent # [mode |-> mode, new |-> new]

VARIABLES
  recs,      \* recs[d][r]: the key record r of database d is sealed under
  check,     \* check[d]: the key of the key check of d
  arch,      \* arch[d][b]: the key archived block b of d is sealed under
  disk,      \* the key files
  kept,      \* keys the operator holds in a file of his own
  used,      \* keys that ever existed
  run,       \* the rotation command in progress
  pending,   \* the rotation the operator still has to see through
  mishaps

stores == <<recs, check, arch>>
vars == <<recs, check, arch, disk, kept, used, run, pending, mishaps>>

NoRun == [stage |-> "none"]

(* One database may hold streams from before key checks existed. *)
Init ==
  /\ \E k \in Keys :
       /\ used = {k}
       /\ disk = [f \in Files |-> IF f = Source THEN k ELSE Absent]
       /\ recs \in [Databases -> [Records -> {Absent, k}]]
  /\ check = [d \in Databases |-> Absent]
  /\ arch = [d \in Databases |-> [b \in Blocks |-> Absent]]
  /\ kept = {}
  /\ run = NoRun
  /\ pending = Absent
  /\ mishaps = 0

HasStreams(d) == \E r \in Records : recs[d][r] # Absent

-----------------------------------------------------------------------------
(* The server, stopped while a rotation is pending.                        *)

Serving == run = NoRun /\ pending = Absent /\ disk[Source] \in Keys

(* A record is written: EventStore._check_key, which also writes the key   *)
(* check of an empty database.                                             *)
Seal(d, r) ==
  /\ Serving
  /\ recs[d][r] = Absent
  /\ check[d] \in {Absent, disk[Source]}
  /\ recs' = [recs EXCEPT ![d][r] = disk[Source]]
  /\ check' = [check EXCEPT ![d] = IF HasStreams(d) THEN @ ELSE disk[Source]]
  /\ UNCHANGED <<arch, disk, kept, used, run, pending, mishaps>>

(* A stream is deleted; the key check is left.  Sparing the last one is    *)
(* what a careful operator would have to do.                               *)
DeleteRecord(d, r) ==
  /\ Serving
  /\ recs[d][r] # Absent
  /\ recs' = [recs EXCEPT ![d][r] = Absent]
  /\ UNCHANGED <<check, arch, disk, kept, used, run, pending, mishaps>>

SparesLastStream(d, r) == \E x \in Records \ {r} : recs[d][x] # Absent

Archive(d, b) ==
  /\ Serving
  /\ arch[d][b] = Absent
  /\ arch' = [arch EXCEPT ![d][b] = disk[Source]]
  /\ UNCHANGED <<recs, check, disk, kept, used, run, pending, mishaps>>

-----------------------------------------------------------------------------
(* Starting the command: the old key is read from the key file.            *)

Begin(new, stage, mode) ==
  /\ run' = [stage |-> stage, mode |-> mode, old |-> disk[Source], new |-> new,
             db |-> 1, opened |-> FALSE]
  /\ pending' = [mode |-> mode, new |-> new]
  /\ UNCHANGED <<recs, check, arch, disk, mishaps>>

(* --new-key-file: the operator made the key and has it in a file. *)
StartWithFile(new) ==
  /\ Serving
  /\ new \notin used
  /\ kept' = kept \cup {new}
  /\ used' = used \cup {new}
  /\ Begin(new, "events", "file")

GenerateWith(new) ==
  /\ run = NoRun
  /\ disk[Source] \in Keys
  /\ new \notin used
  /\ used' = used \cup {new}
  /\ UNCHANGED kept
  /\ Begin(new, "backup", "generate")

StartGenerate(new) == pending = Absent /\ GenerateWith(new)

-----------------------------------------------------------------------------
(* Key files.                                                              *)

(* Both copies exist before anything is re-sealed, and the key file is     *)
(* replaced last.                                                          *)
FileOf(stage) == CASE stage = "backup" -> run.old
                   [] stage = "stage" -> Staged
                   [] stage = "source" -> Source
KeyOf(stage) == IF stage = "backup" THEN run.old ELSE run.new

(* Fault: the generated key is not staged. *)
AfterNotStaged(stage) == IF stage = "source" THEN "unlink" ELSE "events"
After(stage) == CASE stage = "backup" -> "stage"
                  [] stage = "stage" -> "events"
                  [] stage = "source" -> "unlink"

(* write_key_file: open truncates, then the key is written. *)
WriteKeyFile ==
  /\ run.stage \in {"backup", "stage", "source"}
  /\ IF run.opened
     THEN /\ disk' = [disk EXCEPT ![FileOf(run.stage)] = KeyOf(run.stage)]
          /\ run' = [run EXCEPT !.stage = After(run.stage), !.opened = FALSE]
     ELSE /\ disk' = [disk EXCEPT ![FileOf(run.stage)] = Empty]
          /\ run' = [run EXCEPT !.opened = TRUE]
  /\ UNCHANGED <<stores, kept, used, pending, mishaps>>

(* The staged file is removed and the command is over. *)
Unlink ==
  /\ run.stage = "unlink"
  /\ disk' = [disk EXCEPT ![Staged] = Absent]
  /\ run' = NoRun
  /\ pending' = Absent
  /\ UNCHANGED <<stores, kept, used, mishaps>>

-----------------------------------------------------------------------------
(* rotate_event_key: each database's streams, then its archive.            *)

(* rotate_key of the streams opens the key check and then every record     *)
(* before it writes any.                                                   *)

(* Fault: one record under the new key passes for all of them. *)
FinishedByOneRecord(d) == \E r \in Records : recs[d][r] = run.new
Finished(d) == check[d] = run.new

(* Fault: records an earlier run re-sealed are not recognised. *)
OldRecordsOnly(d) ==
  /\ check[d] \in {Absent, run.old}
  /\ \A r \in Records : recs[d][r] \in {Absent, run.old}
(* Fault: the records are not opened before the first one is written. *)
KeyCheckOnly(d) == check[d] \in {Absent, run.old}
StreamsAccepted(d) ==
  /\ check[d] \in {Absent, run.old}
  /\ \A r \in Records : recs[d][r] \in {Absent, run.old, run.new}
ArchiveAccepted(d) == \A b \in Blocks : arch[d][b] \in {Absent, run.old, run.new}

SealedUnder(sealed, key) == {x \in DOMAIN sealed : sealed[x] = key}

(* Fault: the key check is left as it was. *)
OldCheck(d) == check[d]
(* The key check is written only where there are streams. *)
NewCheck(d) == IF HasStreams(d) THEN run.new ELSE check[d]

RotateStreams ==
  LET d == run.db
  IN /\ run.stage = "events"
     /\ \/ /\ Finished(d)
           /\ run' = [run EXCEPT !.stage = "archive"]
           /\ UNCHANGED <<recs, check>>
        \/ /\ ~Finished(d)
           /\ StreamsAccepted(d)
           /\ \E r \in SealedUnder(recs[d], run.old) : recs' = [recs EXCEPT ![d][r] = run.new]
           /\ UNCHANGED <<check, run>>
        \/ /\ ~Finished(d)
           /\ StreamsAccepted(d)
           /\ SealedUnder(recs[d], run.old) = {}
           /\ check' = [check EXCEPT ![d] = NewCheck(d)]
           /\ run' = [run EXCEPT !.stage = "archive"]
           /\ UNCHANGED recs
     /\ UNCHANGED <<arch, disk, kept, used, pending, mishaps>>

(* After the last database a generated key replaces the key file; any      *)
(* other is left for the operator to switch to.                            *)

(* Fault: one database too many. *)
AfterArchiveOnceMore ==
  IF run.db <= LastDatabase
  THEN [run EXCEPT !.stage = "events", !.db = @ + 1]
  ELSE [run EXCEPT !.stage = "done"]
AfterArchive ==
  CASE run.db < LastDatabase -> [run EXCEPT !.stage = "events", !.db = @ + 1]
    [] run.db = LastDatabase /\ run.mode = "generate" -> [run EXCEPT !.stage = "source"]
    [] run.db = LastDatabase /\ run.mode = "file" -> [run EXCEPT !.stage = "done"]

RotateArchive ==
  LET d == run.db
  IN /\ run.stage = "archive"
     /\ ArchiveAccepted(d)
     /\ \/ /\ \E b \in SealedUnder(arch[d], run.old) : arch' = [arch EXCEPT ![d][b] = run.new]
           /\ UNCHANGED run
        \/ /\ SealedUnder(arch[d], run.old) = {}
           /\ run' = AfterArchive
           /\ UNCHANGED arch
     /\ UNCHANGED <<recs, check, disk, kept, used, pending, mishaps>>

(* "Rotation stopped": a key check or a record opens with neither key. *)
Refused ==
  \/ run.stage = "events" /\ ~Finished(run.db) /\ ~StreamsAccepted(run.db)
  \/ run.stage = "archive" /\ ~ArchiveAccepted(run.db)

Stop ==
  /\ Refused
  /\ run' = NoRun
  /\ UNCHANGED <<stores, disk, kept, used, pending, mishaps>>

(* A rotation to a given key returned: the operator points the server's    *)
(* key file at the new key.                                                *)
Switch ==
  /\ run.stage = "done"
  /\ disk' = [disk EXCEPT ![Source] = run.new]
  /\ run' = NoRun
  /\ pending' = Absent
  /\ UNCHANGED <<stores, kept, used, mishaps>>

Crash ==
  /\ run # NoRun
  /\ mishaps < MaxMishaps
  /\ run' = NoRun
  /\ mishaps' = mishaps + 1
  /\ UNCHANGED <<stores, disk, kept, used, pending>>

-----------------------------------------------------------------------------
(* The operator, after an interruption.                                    *)

Interrupted == run = NoRun /\ pending # Absent

(* "run the same command again" *)
RerunFile ==
  /\ Interrupted
  /\ pending.mode = "file"
  /\ Begin(pending.new, "events", "file")
  /\ UNCHANGED <<kept, used>>

RerunGenerate(new) == Interrupted /\ pending.mode = "generate" /\ GenerateWith(new)

(* The command is given some other key while records are already sealed    *)
(* under the pending one.                                                  *)
WrongKey(new) ==
  /\ Interrupted
  /\ mishaps < MaxMishaps
  /\ disk[Source] \in Keys \ {pending.new}
  /\ new \in Keys \ {pending.new, disk[Source]}
  /\ \E d \in Databases : \/ \E r \in Records : recs[d][r] = pending.new
                          \/ \E b \in Blocks : arch[d][b] = pending.new
  /\ run' = [stage |-> "events", mode |-> "file", old |-> disk[Source], new |-> new,
             db |-> 1, opened |-> FALSE]
  /\ kept' = kept \cup {new}
  /\ used' = used \cup {new}
  /\ mishaps' = mishaps + 1
  /\ UNCHANGED <<stores, disk, pending>>

(* What the command says when it stops by itself: the staged key is given  *)
(* as --new-key-file.                                                      *)
StagedKey == disk[Staged] = pending.new
Resume ==
  /\ Interrupted
  /\ pending.mode = "generate"
  /\ StagedKey
  /\ disk[Source] \in Keys \ {pending.new}
  /\ Begin(pending.new, "events", "file")
  /\ UNCHANGED <<kept, used>>

(* The key file was already replaced, or was left empty: the staged key is *)
(* put in its place.                                                       *)
Repair ==
  /\ Interrupted
  /\ pending.mode = "generate"
  /\ StagedKey
  /\ disk[Source] \in {Empty, pending.new}
  /\ disk' = [disk EXCEPT ![Source] = pending.new]
  /\ pending' = Absent
  /\ UNCHANGED <<stores, kept, used, run, mishaps>>

(* Nothing was re-sealed before the key was staged: give up, or start over *)
(* with another.                                                           *)
GiveUp ==
  /\ Interrupted
  /\ pending.mode = "generate"
  /\ ~StagedKey
  /\ pending' = Absent
  /\ UNCHANGED <<stores, disk, kept, used, run, mishaps>>

-----------------------------------------------------------------------------
Server ==
  \E d \in Databases :
    \/ \E r \in Records : Seal(d, r) \/ (SparesLastStream(d, r) /\ DeleteRecord(d, r))
    \/ \E b \in Blocks : Archive(d, b)
Start == \E new \in Keys : StartWithFile(new) \/ StartGenerate(new)
Command == WriteKeyFile \/ Unlink \/ RotateStreams \/ RotateArchive \/ Stop
CarefulOperator == Switch \/ RerunFile \/ Resume \/ Repair \/ GiveUp

(* Rotations are seen through the way the command's own messages say. *)
Mishap == Crash \/ \E new \in Keys : WrongKey(new)
Next == Server \/ Start \/ Command \/ Mishap \/ CarefulOperator
Fairness == WF_vars(Command) /\ WF_vars(CarefulOperator)
Spec == Init /\ [][Next]_vars /\ Fairness

(* Every interruption is answered with the same command. *)
SameCommand ==
  \/ Server \/ Start \/ Command \/ Crash \/ Switch \/ RerunFile
  \/ \E new \in Keys : RerunGenerate(new)
SameCommandSpec == Init /\ [][SameCommand]_vars

-----------------------------------------------------------------------------
Run ==
  {NoRun} \cup
  [stage : {"backup", "stage", "events", "archive", "source", "unlink", "done"},
   mode : {"file", "generate"}, old : Keys, new : Keys, db : Databases, opened : BOOLEAN]

(* Every variable has its type. *)
TypeOK ==
  /\ recs \in [Databases -> [Records -> Keys \cup {Absent}]]
  /\ check \in [Databases -> Keys \cup {Absent}]
  /\ arch \in [Databases -> [Blocks -> Keys \cup {Absent}]]
  /\ disk \in [Files -> Keys \cup {Absent, Empty}]
  /\ kept \in SUBSET Keys
  /\ used \in SUBSET Keys
  /\ run \in Run
  /\ pending \in {Absent} \cup [mode : {"file", "generate"}, new : Keys]
  /\ mishaps \in 0 .. MaxMishaps

SealingKeys ==
  {recs[d][r] : d \in Databases, r \in Records}
  \cup {check[d] : d \in Databases} \cup {arch[d][b] : d \in Databases, b \in Blocks}

(* At every moment, also between two writes of the command and after any   *)
(* crash, every key that something is sealed under is in a file somebody   *)
(* has (app.py: "A generated key must exist somewhere durable BEFORE any   *)
(* record is re-sealed under it, or a crash would leave streams sealed     *)
(* with a key nobody has").                                                *)
NoKeyLost == SealingKeys \subseteq {disk[f] : f \in Files} \cup kept \cup {Absent}

(* A rotation that is under way or was interrupted is never refused by     *)
(* what an earlier run of it, or an earlier rotation, left behind.         *)
NeverRefused == run # NoRun /\ run.new = pending.new => ~Refused

(* A run given a key that is not the one records are already sealed under  *)
(* stops before it writes anything, also when it would have to get to the  *)
(* second database to find out.                                            *)
WrongKeyIsHarmless ==
  [][run # NoRun /\ run.new # pending.new => UNCHANGED <<stores, disk>>]_vars

(* When no rotation is pending everything opens with the key in the key    *)
(* file: no database, record or archived block was left behind.            *)
AllUnderTheKeyInUse ==
  Serving => SealingKeys \subseteq {Absent, disk[Source]}

(* Run again after every crash, a rotation is finished some day. *)
RotationsFinish == (pending # Absent) ~> (pending = Absent)
=============================================================================
