--------------------------- MODULE DatabasesProofs ---------------------------
(***************************************************************************)
(* Theorems about Databases, for any requests that run at the same time,   *)
(* any tables, records and bounds, and wherever the process ends.          *)
(***************************************************************************)
EXTENDS Databases, TLAPS

-----------------------------------------------------------------------------
(* Types, and which request is at which stage, also when requests          *)
(* interfere.                                                              *)

TableKinds == {"create_table", "drop_table", "insert", "delete_row", "update"}
Ops == {op \in [kind : AllKinds \cup {"nothing"}, table : Tables \cup {None}, tables : SUBSET Tables,
                ids : SUBSET Ids, how : {None, "new", "if_missing", "rows"}] :
          op.kind \in TableKinds => op.table \in Tables /\ op.tables = {op.table}}
Stages == {"idle", "exists", "connect", "publish", "get", "run", "define", "forget", "dump",
           "truncate", "write", "acknowledge", "check_ids", "put", "erase", "rewrite", "prepare",
           "plan", "insert", "unregister", "unlink", "unlink_schema"}
Found == {None} \cup Creations \cup Registries \cup SUBSET (Ids \X Rows)
Progress == [op : Ops, stage : Stages, next : Stages, by : Creations, h : Handles \cup {None},
             seen : Found, dump : Registries \cup {None}, make : SUBSET Tables, left : SUBSET Tables,
             into : Tables \cup {None}]

(* Which kinds of requests come to a stage. *)
KindsAt(stage) ==
  CASE stage = "idle" -> {"nothing"}
    [] stage \in {"exists", "connect"} -> {"create", "import"}
    [] stage = "get" -> AllKinds \ {"create"}
    [] stage = "run" -> {"drop", "create_table", "drop_table", "insert", "delete_row", "update"}
    [] stage = "define" -> {"create_table", "import"}
    [] stage = "forget" -> {"drop_table"}
    [] stage \in {"dump", "truncate", "write"} -> {"create_table", "drop_table", "import"}
    [] stage = "acknowledge" -> {"create_table", "drop_table"}
    [] stage \in {"check_ids", "put"} -> {"insert", "import"}
    [] stage = "erase" -> {"delete_row"}
    [] stage = "rewrite" -> {"update"}
    [] stage \in {"prepare", "plan", "insert"} -> {"import"}
    [] stage \in {"unregister", "unlink", "unlink_schema"} -> {"drop"}
    [] OTHER -> AllKinds

Inside == {"run", "define", "forget", "dump", "truncate", "write", "acknowledge", "check_ids",
           "put", "erase", "rewrite", "plan", "insert", "unregister"}
Saving == {"dump", "truncate", "write"}
Openings == {"exists", "connect", "get", "publish"}
Place(r) == IF r.stage \in Openings THEN r.next ELSE r.stage

(* The tables a request is to make, and those it has to write rows to. *)
RightTables(r) ==
  /\ r.make \subseteq r.op.tables /\ r.left \subseteq r.op.tables
  /\ r.stage \in {"check_ids", "put"} => r.into \in r.left

RightRequest(r) ==
  /\ r \in Progress /\ RightTables(r)
  /\ r.op.kind \in KindsAt(r.stage)
  /\ r.stage = "idle" <=> r = Idle
  /\ r.stage # "idle" => r.by \in Handles
  /\ r.stage \in Openings /\ r.op.kind # "create" =>
       r.op.kind \in KindsAt(r.next) /\ r.next \in {"run", "define", "plan", "insert", "dump"}
  /\ r.stage \in Inside \cup {"publish"} => r.h \in Handles
  /\ r.op.kind = "drop_table" /\ Place(r) \in Saving \cup {"forget", "acknowledge"} =>
       r.seen \in Creations
  /\ r.stage \in {"truncate", "write"} => r.dump \in Registries
  /\ r.stage \in {"check_ids", "put"} => r.seen \in Creations
  /\ r.stage = "rewrite" => r.seen \subseteq Ids \X Rows
  /\ r.stage \in {"unregister", "unlink", "unlink_schema"} => r.seen \in Registries

TypeInv ==
  /\ file = None \/ file \in Files
  /\ sidecar \in {None, Torn} \cup Registries
  /\ handle \in Handles \cup {None}
  /\ reg \in [Handles -> Registries]
  /\ closed \subseteq Handles
  /\ requests \in 1 .. MaxRequests /\ crashes \in 0 .. MaxCrashes
  /\ req \in [Threads -> Progress]
  /\ \A th \in Threads : RightRequest(req[th])
  /\ tables \in Registries
  /\ rows \subseteq Tables \X Ids \X Creations
  /\ edited \subseteq Tables \X Ids \X Creations \X Creations
  /\ dead \subseteq Tables \X Creations
  /\ erased \subseteq Tables \X Ids \X Creations
  /\ failed \subseteq Creations \X Tables

LEMMA TypeInvTypes == TypeInv => TypeOK
BY DEF TypeInv, TypeOK, RightRequest, Progress

LEMMA Numbered ==
  /\ 1 \in Creations /\ 0 \in Creations /\ Handles \subseteq Creations
  /\ Handles \subseteq Nat /\ Creations \subseteq Nat
BY BoundAssumption DEF Creations, Handles

LEMMA IdleRight == RightRequest(Idle)
<1>1. Whole("nothing") \in Ops
  BY DEF Whole, Op, Ops, TableKinds
<1>2. Idle \in Progress
  BY <1>1, Numbered DEF Idle, Progress, Stages, Found
<1>3. Idle.op.kind = "nothing" /\ Idle.stage = "idle" /\ Idle.next = "idle" /\ RightTables(Idle)
  BY DEF Idle, Whole, Op, RightTables
<1> QED
  BY <1>2, <1>3 DEF RightRequest, KindsAt, Openings, Inside, Saving, Place

(* One thread's request changes. *)
LEMMA OneRequest ==
  ASSUME TypeInv, NEW th \in Threads, NEW r, RightRequest(r), req' = [req EXCEPT ![th] = r]
  PROVE  /\ req' \in [Threads -> Progress]
         /\ \A u \in Threads : RightRequest(req'[u])
         /\ req'[th] = r /\ \A u \in Threads : u # th => req'[u] = req[u]
BY DEF TypeInv, RightRequest

(* The stage of a request, and what else it takes for its types. *)
LEMMA StageRight ==
  ASSUME NEW r, RightRequest(r), r.stage # "idle", NEW s \in Progress,
         s.op = r.op, s.by = r.by, s.stage # "idle", s.op.kind \in KindsAt(s.stage), RightTables(s),
         s.stage \in Openings /\ s.op.kind # "create" =>
           s.op.kind \in KindsAt(s.next) /\ s.next \in {"run", "define", "plan", "insert", "dump"},
         s.stage \in Inside \cup {"publish"} => s.h \in Handles,
         s.op.kind = "drop_table" /\ Place(s) \in Saving \cup {"forget", "acknowledge"} => s.seen \in Creations,
         s.stage \in {"truncate", "write"} => s.dump \in Registries,
         s.stage \in {"check_ids", "put"} => s.seen \in Creations,
         s.stage = "rewrite" => s.seen \subseteq Ids \X Rows,
         s.stage \in {"unregister", "unlink", "unlink_schema"} => s.seen \in Registries
  PROVE  RightRequest(s)
<1>1. s # Idle
  BY DEF Idle
<1> QED
  BY <1>1 DEF RightRequest

-----------------------------------------------------------------------------
(* Each step keeps the types.                                              *)

Moves(th) == \E r : RightRequest(r) /\ req' = [req EXCEPT ![th] = r]

(* A request that goes on to a stage which takes no more than it has.      *)
LEMMA GotoRight ==
  ASSUME NEW r, RightRequest(r), r.stage # "idle", NEW stage \in Stages \ {"idle"},
         r.op.kind \in KindsAt(stage),
         stage \in Openings /\ r.op.kind # "create" =>
           r.op.kind \in KindsAt(r.next) /\ r.next \in {"run", "define", "plan", "insert", "dump"},
         stage \in Inside \cup {"publish"} => r.h \in Handles,
         r.op.kind = "drop_table" /\ (stage \in Saving \cup {"forget", "acknowledge"} \/ (stage \in Openings /\ r.next = "dump")) =>
           r.seen \in Creations,
         stage \in {"truncate", "write"} => r.dump \in Registries,
         stage \in {"check_ids", "put"} => r.seen \in Creations /\ r.into \in r.left,
         stage = "rewrite" => r.seen \subseteq Ids \X Rows,
         stage \in {"unregister", "unlink", "unlink_schema"} => r.seen \in Registries
  PROVE  RightRequest([r EXCEPT !.stage = stage])
<1> DEFINE s == [r EXCEPT !.stage = stage]
<1>1. r \in Progress
  BY DEF RightRequest
<1>2. /\ s \in Progress /\ s.stage = stage
      /\ s.op = r.op /\ s.by = r.by /\ s.next = r.next /\ s.h = r.h /\ s.seen = r.seen /\ s.dump = r.dump
      /\ s.make = r.make /\ s.left = r.left /\ s.into = r.into
  BY <1>1 DEF Progress
<1> HIDE DEF s
<1>t. RightTables(s)
  BY <1>2 DEF RightRequest, RightTables
<1>3. s.op.kind = "drop_table" /\ Place(s) \in Saving \cup {"forget", "acknowledge"} => s.seen \in Creations
  <2> SUFFICES ASSUME s.op.kind = "drop_table", Place(s) \in Saving \cup {"forget", "acknowledge"}
               PROVE  s.seen \in Creations
    OBVIOUS
  <2>1. CASE stage \in Openings
    <3>1. s.next = "dump"
      BY <1>2, <2>1 DEF Place, Saving
    <3> QED
      BY <1>2, <2>1, <3>1
  <2>2. CASE stage \notin Openings
    BY <1>2, <2>2 DEF Place
  <2> QED
    BY <2>1, <2>2
<1>4. s.stage \in {"truncate", "write"} => s.dump \in Registries
  BY <1>2
<1>5. /\ s.stage \in {"check_ids", "put"} => s.seen \in Creations
      /\ s.stage = "rewrite" => s.seen \subseteq Ids \X Rows
      /\ s.stage \in {"unregister", "unlink", "unlink_schema"} => s.seen \in Registries
  BY <1>2
<1>6. /\ s.stage \in Openings /\ s.op.kind # "create" =>
           s.op.kind \in KindsAt(s.next) /\ s.next \in {"run", "define", "plan", "insert", "dump"}
      /\ s.stage \in Inside \cup {"publish"} => s.h \in Handles
      /\ s.stage # "idle" /\ s.op.kind \in KindsAt(s.stage)
  BY <1>2
<1>7. RightRequest(s)
  BY <1>2, <1>3, <1>4, <1>5, <1>6, <1>t, StageRight
<1> QED
  BY <1>7 DEF s

LEMMA Goes ==
  ASSUME TypeInv, NEW th \in Threads, NEW stage, Goto(th, stage), RightRequest([req[th] EXCEPT !.stage = stage])
  PROVE  Moves(th)
BY DEF Goto, Moves, TypeInv

LEMMA Ends ==
  ASSUME TypeInv, NEW th \in Threads, Done(th) \/ Raise(th)
  PROVE  Moves(th)
BY IdleRight DEF Done, Raise, Moves

(* What a request has by its stage. *)
LEMMA StageFacts ==
  ASSUME TypeInv, NEW th \in Threads
  PROVE  /\ RightRequest(req[th]) /\ req[th] \in Progress /\ req[th].op \in Ops
         /\ req[th].op.kind \in TableKinds => Name(th) \in Tables
         /\ req[th].op.ids \in SUBSET Ids
         /\ req[th].h \in Handles => Registry(th) \in Registries
         /\ req[th].op.kind \in KindsAt(req[th].stage)
         /\ req[th].stage # "idle" => req[th].by \in Handles
<1>1. RightRequest(req[th]) /\ req[th] \in Progress
  BY DEF TypeInv
<1>2. req[th].op \in Ops
  BY <1>1 DEF Progress
<1> QED
  BY <1>1, <1>2 DEF Ops, RightRequest, Name, Registry, TypeInv

LEMMA SimpleMoves ==
  ASSUME TypeInv, NEW th \in Threads,
         \/ CheckFree(th) \/ Define(th) \/ Forget(th) \/ Truncate(th) \/ Write(th)
         \/ Acknowledge(th) \/ CheckIds(th) \/ FindRow(th) \/ Erase(th) \/ Unregister(th)
         \/ Unlink(th) \/ UnlinkSchema(th) \/ Publish(th)
  PROVE  Moves(th)
<1> PICK r : r = req[th]
  OBVIOUS
<1>1. RightRequest(r) /\ r \in Progress /\ r.op.kind \in KindsAt(r.stage)
  BY StageFacts
<1>g. ASSUME NEW stage, Goto(th, stage), RightRequest([r EXCEPT !.stage = stage])
      PROVE  Moves(th)
  BY <1>g, Goes
<1> USE DEF KindsAt, Openings, Inside, Saving, Stages
<1>2. CASE CheckFree(th)
  <2>1. r.stage = "exists"
    BY <1>2 DEF CheckFree
  <2>2. RightRequest([r EXCEPT !.stage = "connect"])
    BY <1>1, <2>1, GotoRight DEF RightRequest
  <2> QED
    BY <1>2, <1>g, <2>2, Ends DEF CheckFree
<1>4. CASE Define(th)
  <2>1. RightRequest([r EXCEPT !.stage = "dump"])
    <3>1. r.op.kind \in {"create_table", "import"} /\ r.stage = "define"
      BY <1>4 DEF Define, At
    <3> QED
      BY <1>1, <3>1, GotoRight DEF RightRequest
  <2> QED
    BY <1>4, <1>g, <2>1 DEF Define, AfterChange
<1>5. CASE Forget(th)
  <2>1. RightRequest([r EXCEPT !.stage = "dump"])
    <3>1. r.op.kind = "drop_table" /\ r.stage = "forget"
      BY <1>5 DEF Forget, At
    <3> QED
      BY <1>1, <3>1, GotoRight DEF RightRequest, Place
  <2> QED
    BY <1>5, <1>g, <2>1 DEF Forget, AfterChange
<1>6. CASE Truncate(th)
  <2>1. r.stage = "truncate"
    BY <1>6 DEF Truncate
  <2>2. RightRequest([r EXCEPT !.stage = "write"])
    BY <1>1, <2>1, GotoRight DEF RightRequest, Place
  <2> QED
    BY <1>6, <1>g, <2>2 DEF Truncate
<1>7. CASE Write(th)
  <2>1. r.stage = "write"
    BY <1>7 DEF Write
  <2>2. r.op.kind = "import" => RightRequest([r EXCEPT !.stage = "insert"])
    BY <1>1, <2>1, GotoRight DEF RightRequest, Place
  <2>3. r.op.kind # "import" => RightRequest([r EXCEPT !.stage = "acknowledge"])
    BY <1>1, <2>1, GotoRight DEF RightRequest, Place
  <2> QED
    BY <1>7, <1>g, <2>2, <2>3 DEF Write
<1>8. CASE CheckIds(th)
  <2>1. r.stage = "check_ids"
    BY <1>8 DEF CheckIds
  <2>2. RightRequest([r EXCEPT !.stage = "put"])
    BY <1>1, <2>1, GotoRight DEF RightRequest, RightTables
  <2> QED
    BY <1>8, <1>g, <2>2, Ends DEF CheckIds
<1>9. CASE FindRow(th)
  <2>1. r.op.kind = "delete_row" /\ r.stage = "run"
    BY <1>9 DEF FindRow, At
  <2>2. RightRequest([r EXCEPT !.stage = "erase"])
    BY <1>1, <2>1, GotoRight DEF RightRequest
  <2> QED
    BY <1>9, <1>g, <2>2, Ends DEF FindRow
<1>10. CASE Unregister(th)
  <2>1. r.stage = "unregister"
    BY <1>10 DEF Unregister
  <2>2. RightRequest([r EXCEPT !.stage = "unlink"])
    BY <1>1, <2>1, GotoRight DEF RightRequest
  <2> QED
    BY <1>10, <1>g, <2>2 DEF Unregister
<1>11. CASE Unlink(th)
  <2>1. r.stage = "unlink"
    BY <1>11 DEF Unlink
  <2>2. RightRequest([r EXCEPT !.stage = "unlink_schema"])
    BY <1>1, <2>1, GotoRight DEF RightRequest
  <2> QED
    BY <1>11, <1>g, <2>2 DEF Unlink
<1>12. CASE Publish(th)
  <2>1. r.stage = "publish"
    BY <1>12 DEF Publish
  <2>2. ASSUME r.op.kind # "create"  PROVE RightRequest([r EXCEPT !.stage = r.next])
    <3>1. /\ r.op.kind \in KindsAt(r.next) /\ r.next \in {"run", "define", "plan", "insert", "dump"}
          /\ r.h \in Handles
      BY <1>1, <2>1, <2>2 DEF RightRequest
    <3>2. r.op.kind = "drop_table" /\ r.next = "dump" => r.seen \in Creations
      BY <1>1, <2>1 DEF RightRequest, Place
    <3> HIDE DEF KindsAt
    <3> QED
      BY <1>1, <2>1, <3>1, <3>2, GotoRight
  <2> QED
    BY <1>12, <1>g, <2>2, Ends DEF Publish
<1>13. CASE Acknowledge(th) \/ UnlinkSchema(th) \/ Erase(th)
  BY <1>13, Ends DEF Acknowledge, UnlinkSchema, Erase
<1> QED
  BY <1>2, <1>4, <1>5, <1>6, <1>7, <1>8, <1>9, <1>10, <1>11, <1>12, <1>13

(* A request that also takes something with it to its next stage. *)
LEMMA TakeRight ==
  ASSUME NEW r, RightRequest(r), r.stage # "idle", r.op.kind # "create", NEW stage \in Stages \ {"idle"},
         stage \notin Openings, r.op.kind \in KindsAt(stage),
         stage \in Inside \cup {"publish"} => r.h \in Handles,
         NEW what \in Found,
         r.op.kind = "drop_table" /\ stage \in Saving \cup {"forget", "acknowledge"} => what \in Creations,
         stage \in {"truncate", "write"} => r.dump \in Registries,
         stage \notin {"check_ids", "put"},
         stage = "rewrite" => what \subseteq Ids \X Rows,
         stage \in {"unregister", "unlink", "unlink_schema"} => what \in Registries
  PROVE  RightRequest([r EXCEPT !.stage = stage, !.seen = what])
<1> DEFINE s == [r EXCEPT !.stage = stage, !.seen = what]
<1>1. r \in Progress
  BY DEF RightRequest
<1>2. /\ s \in Progress /\ s.stage = stage /\ s.seen = what
      /\ s.op = r.op /\ s.by = r.by /\ s.next = r.next /\ s.h = r.h /\ s.dump = r.dump
      /\ s.make = r.make /\ s.left = r.left
  BY <1>1 DEF Progress
<1> HIDE DEF s
<1>t. RightTables(s)
  BY <1>2 DEF RightRequest, RightTables
<1>3. Place(s) = stage
  BY <1>2 DEF Place
<1>4. s.stage \in {"truncate", "write"} => s.dump \in Registries
  BY <1>2
<1>5. /\ s.stage \in {"check_ids", "put"} => s.seen \in Creations
      /\ s.stage = "rewrite" => s.seen \subseteq Ids \X Rows
      /\ s.stage \in {"unregister", "unlink", "unlink_schema"} => s.seen \in Registries
      /\ s.op.kind = "drop_table" /\ Place(s) \in Saving \cup {"forget", "acknowledge"} => s.seen \in Creations
  BY <1>2, <1>3
<1>6. /\ s.stage \notin Openings
      /\ s.stage \in Inside \cup {"publish"} => s.h \in Handles
      /\ s.stage # "idle" /\ s.op.kind \in KindsAt(s.stage)
  BY <1>2
<1>7. RightRequest(s)
  BY <1>2, <1>4, <1>5, <1>6, <1>t, StageRight
<1> QED
  BY <1>7 DEF s

LEMMA Takes ==
  ASSUME TypeInv, NEW th \in Threads, NEW stage, NEW what, Take(th, stage, what),
         RightRequest([req[th] EXCEPT !.stage = stage, !.seen = what])
  PROVE  Moves(th)
<1>1. req' = [req EXCEPT ![th] = [req[th] EXCEPT !.stage = stage, !.seen = what]]
  BY DEF Take, TypeInv
<1> QED
  BY <1>1 DEF Moves

LEMMA TakingMoves ==
  ASSUME TypeInv, NEW th \in Threads,
         DeleteRows(th) \/ Match(th) \/ Rewrite(th) \/ Close(th)
  PROVE  Moves(th)
<1> PICK r : r = req[th]
  OBVIOUS
<1> PICK registry : registry = Registry(th)
  OBVIOUS
<1>1. RightRequest(r) /\ r \in Progress /\ r.op.kind \in KindsAt(r.stage)
  BY StageFacts
<1>2. r.h \in Handles => registry \in Registries
  BY StageFacts
<1>3. r.op.kind \in TableKinds => r.op.table \in Tables
  BY StageFacts DEF Name
<1>t. ASSUME NEW stage, NEW what, Take(th, stage, what), RightRequest([r EXCEPT !.stage = stage, !.seen = what])
      PROVE  Moves(th)
  BY <1>t, Takes
<1>f. \A n \in Creations : n \in Found
  BY DEF Found
<1>h. r.stage \in Inside => r.h \in Handles
  BY <1>1 DEF RightRequest
<1> USE DEF KindsAt, Openings, Inside, Saving, Stages
<1>4. CASE DeleteRows(th)
  <2>1. r.op.kind = "drop_table" /\ r.stage = "run"
    BY <1>4 DEF DeleteRows, At
  <2>2. registry[r.op.table] \in Creations
    BY <1>2, <1>3, <1>h, <2>1 DEF Registries, TableKinds
  <2>3. RightRequest([r EXCEPT !.stage = "forget", !.seen = registry[r.op.table]])
    BY <1>1, <1>f, <1>h, <2>1, <2>2, TakeRight
  <2> QED
    BY <1>4, <1>t, <2>3, Ends DEF DeleteRows, Name
<1>6. CASE Close(th)
  <2>1. r.op.kind = "drop" /\ r.stage = "run"
    BY <1>6 DEF Close, At
  <2>2. registry \in Registries
    BY <1>2, <1>h, <2>1
  <2>3. registry \in Found
    BY <2>2 DEF Found
  <2>4. RightRequest([r EXCEPT !.stage = "unregister", !.seen = registry])
    BY <1>1, <1>h, <2>1, <2>2, <2>3, TakeRight
  <2> QED
    BY <1>6, <1>t, <2>4 DEF Close
<1>r. ASSUME r.op.kind = "update", r.stage \in {"run", "rewrite"}, NEW what \in SUBSET (Ids \X Rows)
      PROVE  RightRequest([r EXCEPT !.stage = "rewrite", !.seen = what])
  <2>1. what \in Found
    BY DEF Found
  <2> QED
    BY <1>1, <1>h, <1>r, <2>1, TakeRight
<1>7. CASE Match(th)
  <2>1. r.op.kind = "update" /\ r.stage = "run"
    BY <1>7 DEF Match, At
  <2>2. CASE Raise(th)
    BY <2>2, Ends
  <2>3. CASE ~Raise(th)
    <3> PICK what : what = {<<i, file.rows[Name(th)][i]>> : i \in {j \in Ids : file.rows[Name(th)][j] # None}}
      OBVIOUS
    <3>1. file # None /\ Take(th, "rewrite", what)
      BY <1>7, <2>3 DEF Match, Connected
    <3>2. Name(th) \in Tables
      BY <1>3, <2>1 DEF TableKinds, Name
    <3>3. \A i \in Ids : file.rows[Name(th)][i] # None => file.rows[Name(th)][i] \in Rows
      BY <3>1, <3>2 DEF TypeInv, Files
    <3>4. what \in SUBSET (Ids \X Rows)
      BY <3>3
    <3> QED
      BY <1>r, <1>t, <2>1, <3>1, <3>4
  <2> QED
    BY <2>2, <2>3
<1>8. CASE Rewrite(th)
  <2>1. r.op.kind = "update" /\ r.stage = "rewrite" /\ r.seen \in SUBSET (Ids \X Rows)
    BY <1>1, <1>8 DEF Rewrite, RightRequest
  <2>2. CASE Raise(th) \/ Done(th)
    BY <2>2, Ends
  <2>3. CASE ~(Raise(th) \/ Done(th))
    <3>1. PICK m \in r.seen : Take(th, "rewrite", r.seen \ {m})
      BY <1>8, <2>3 DEF Rewrite
    <3> QED
      BY <1>r, <1>t, <2>1, <3>1
  <2> QED
    BY <2>2, <2>3
<1> QED
  BY <1>4, <1>6, <1>7, <1>8

(* A request at a new place, whose tables it keeps or has found out. *)
SentTo(th, stage, next, make) ==
  req' = [req EXCEPT ![th].stage = stage, ![th].next = next, ![th].make = make]

LEMMA OpenMoves ==
  ASSUME TypeInv, NEW th \in Threads,
         \/ Get(th) \/ Connect(th) \/ Dump(th) \/ CreateTable(th) \/ Validate(th) \/ Put(th)
         \/ Prepare(th) \/ Plan(th)
  PROVE  Moves(th)
<1> PICK r : r = req[th]
  OBVIOUS
<1>1. RightRequest(r) /\ r \in Progress /\ r.op.kind \in KindsAt(r.stage)
  BY StageFacts
<1>u. \A s : req' = [req EXCEPT ![th] = s] /\ RightRequest(s) => Moves(th)
  BY DEF Moves
<1>k. ASSUME NEW s, s.op = r.op, s.make = r.make, s.left = r.left, s.stage \notin {"check_ids", "put"}
      PROVE  RightTables(s)
  BY <1>1, <1>k DEF RightRequest, RightTables
<1>h. handle \in Handles \cup {None} /\ r.by \in Creations
  BY <1>1 DEF TypeInv, Progress
<1> USE DEF KindsAt, Openings, Inside, Saving, Stages
<1>2. CASE Get(th)
  <2>1. r.stage = "get" /\ r.op.kind # "create"
    BY <1>1, <1>2 DEF Get, AllKinds
  <2>2. /\ r.op.kind \in KindsAt(r.next) /\ r.next \in {"run", "define", "plan", "insert", "dump"}
        /\ r.op.kind = "drop_table" /\ r.next = "dump" => r.seen \in Creations
        /\ r.by \in Handles
    BY <1>1, <2>1 DEF RightRequest, Place
  <2>3. CASE handle # None
    <3> DEFINE s == [r EXCEPT !.stage = r.next, !.h = handle]
    <3>1. /\ s \in Progress /\ s.op = r.op /\ s.by = r.by /\ s.stage = r.next /\ s.h \in Handles
          /\ s.seen = r.seen /\ s.make = r.make /\ s.left = r.left
      BY <1>1, <1>h, <2>2, <2>3 DEF Progress
    <3>2. req' = [req EXCEPT ![th] = s]
      BY <1>2, <2>3 DEF Get, Raise, TypeInv
    <3> HIDE DEF s
    <3>3. Place(s) = r.next
      BY <2>2, <3>1 DEF Place
    <3>4. RightRequest(s)
      BY <1>1, <1>k, <2>1, <2>2, <3>1, <3>3, StageRight
    <3> QED
      BY <1>u, <3>2, <3>4
  <2>4. CASE handle = None /\ ~Raise(th) /\ ~Done(th)
    <3> DEFINE s == [r EXCEPT !.stage = "publish", !.h = r.by]
    <3>1. /\ s \in Progress /\ s.op = r.op /\ s.by = r.by /\ s.stage = "publish" /\ s.h \in Handles
          /\ s.seen = r.seen /\ s.next = r.next /\ s.make = r.make /\ s.left = r.left
      BY <1>1, <2>2 DEF Progress
    <3>2. req' = [req EXCEPT ![th] = s]
      BY <1>2, <2>4 DEF Get, TypeInv
    <3> HIDE DEF s
    <3>3. Place(s) = r.next
      BY <3>1 DEF Place
    <3>4. s.op.kind \in KindsAt(s.stage)
      BY <2>1, <3>1, <1>1 DEF AllKinds
    <3>5. RightRequest(s)
      BY <1>1, <1>k, <2>1, <2>2, <3>1, <3>3, <3>4, StageRight
    <3> QED
      BY <1>u, <3>2, <3>5
  <2> QED
    BY <2>3, <2>4, Ends DEF Raise
<1>3. CASE Connect(th)
  <2>1. r.stage = "connect" /\ r.op.kind \in {"create", "import"}
    BY <1>1, <1>3 DEF Connect
  <2>2. /\ r.op.kind = "import" =>
             r.op.kind \in KindsAt(r.next) /\ r.next \in {"run", "define", "plan", "insert", "dump"}
        /\ r.by \in Handles
    BY <1>1, <2>1 DEF RightRequest
  <2> DEFINE s == [r EXCEPT !.stage = "publish", !.h = r.by]
  <2>3. /\ s \in Progress /\ s.op = r.op /\ s.by = r.by /\ s.stage = "publish" /\ s.h \in Handles
        /\ s.next = r.next /\ s.make = r.make /\ s.left = r.left
    BY <1>1, <2>2 DEF Progress
  <2>4. req' = [req EXCEPT ![th] = s]
    BY <1>3 DEF Connect, TypeInv
  <2> HIDE DEF s
  <2>5. s.op.kind \in KindsAt(s.stage)
    BY <2>1, <2>3 DEF AllKinds
  <2>6. RightRequest(s)
    BY <1>1, <1>k, <2>1, <2>2, <2>3, <2>5, StageRight
  <2> QED
    BY <1>u, <2>4, <2>6
<1>4. CASE Dump(th)
  <2>1. r.stage = "dump" /\ r.op.kind \in {"create_table", "drop_table", "import"}
    BY <1>1, <1>4 DEF Dump
  <2>2. r.h \in Handles /\ (r.op.kind = "drop_table" => r.seen \in Creations)
    BY <1>1, <2>1 DEF RightRequest, Place
  <2>3. CASE handle = None
    <3> DEFINE s == [r EXCEPT !.stage = "get", !.next = "dump"]
    <3>1. /\ s \in Progress /\ s.op = r.op /\ s.by = r.by /\ s.stage = "get" /\ s.next = "dump"
          /\ s.seen = r.seen /\ s.make = r.make /\ s.left = r.left
      BY <1>1 DEF Progress
    <3>2. req' = [req EXCEPT ![th] = s]
      BY <1>4, <2>3 DEF Dump, TypeInv
    <3> HIDE DEF s
    <3>3. s.op.kind \in KindsAt(s.stage) /\ s.op.kind \in KindsAt(s.next)
      BY <2>1, <3>1 DEF AllKinds
    <3>4. RightRequest(s)
      BY <1>1, <1>k, <2>1, <2>2, <3>1, <3>3, StageRight
    <3> QED
      BY <1>u, <3>2, <3>4
  <2>4. CASE handle # None
    <3> DEFINE s == [r EXCEPT !.stage = "truncate", !.dump = reg[handle]]
    <3>1. reg[handle] \in Registries
      BY <2>4 DEF TypeInv
    <3>2. /\ s \in Progress /\ s.op = r.op /\ s.by = r.by /\ s.stage = "truncate" /\ s.h = r.h
          /\ s.seen = r.seen /\ s.dump \in Registries /\ s.make = r.make /\ s.left = r.left
      BY <1>1, <3>1 DEF Progress
    <3>3. req' = [req EXCEPT ![th] = s]
      BY <1>4, <2>4 DEF Dump, TypeInv
    <3> HIDE DEF s
    <3>4. RightRequest(s)
      BY <1>1, <1>k, <2>1, <2>2, <3>2, StageRight
    <3> QED
      BY <1>u, <3>3, <3>4
  <2> QED
    BY <2>3, <2>4
<1>p. ASSUME r.op.kind = "import", r.stage # "idle", NEW stage \in {"exists", "get"},
             NEW next \in {"define", "plan", "insert"}, NEW make \in SUBSET r.op.tables,
             SentTo(th, stage, next, make)
      PROVE  Moves(th)
  <2> DEFINE s == [r EXCEPT !.stage = stage, !.next = next, !.make = make]
  <2>1. r.op.tables \subseteq Tables /\ r.left \subseteq r.op.tables
    BY <1>1 DEF Progress, Ops, RightRequest, RightTables
  <2>2. /\ s \in Progress /\ s.op = r.op /\ s.by = r.by /\ s.stage = stage /\ s.next = next
        /\ s.make = make /\ s.left = r.left
    BY <1>1, <1>p, <2>1 DEF Progress
  <2>3. req' = [req EXCEPT ![th] = s]
    BY <1>p DEF SentTo, TypeInv
  <2> HIDE DEF s
  <2>4. s.op.kind \in KindsAt(s.stage) /\ s.op.kind \in KindsAt(s.next)
    BY <1>p, <2>2 DEF AllKinds
  <2>5. RightTables(s)
    BY <2>1, <2>2 DEF RightTables
  <2>6. RightRequest(s)
    BY <1>1, <1>p, <2>2, <2>4, <2>5, StageRight
  <2> QED
    BY <1>u, <2>3, <2>6
<1>5. CASE Prepare(th)
  <2>1. r.stage = "prepare" /\ r.op.kind = "import" /\ r.make \in SUBSET r.op.tables
    BY <1>1, <1>5 DEF Prepare, RightRequest, RightTables
  <2>2. CASE Raise(th)
    BY <2>2, Ends
  <2>3. CASE SentTo(th, "exists", "define", r.op.tables)
    <3>1. r.op.tables \in SUBSET r.op.tables /\ r.stage # "idle"
      BY <2>1
    <3> QED
      BY ONLY <1>p, <2>1, <2>3, <3>1
  <2>4. CASE SentTo(th, "get", "plan", r.make)
    <3>1. r.stage # "idle"
      BY <2>1
    <3> QED
      BY ONLY <1>p, <2>1, <2>4, <3>1
  <2>5. [req EXCEPT ![th].stage = "get", ![th].next = "plan"]
         = [req EXCEPT ![th].stage = "get", ![th].next = "plan", ![th].make = r.make]
    BY <1>1 DEF TypeInv, Progress
  <2> QED
    BY <1>5, <2>2, <2>3, <2>4, <2>5 DEF Prepare, SentTo
<1>6. CASE Plan(th)
  <2>1. r.stage # "idle" /\ r.op.kind = "import"
    BY <1>1, <1>6 DEF Plan
  <2>2. CASE ~Raise(th)
    <3> PICK missing : missing = r.op.tables \ {t \in r.op.tables : Has(Registry(th), t)}
      OBVIOUS
    <3>1. req' = [req EXCEPT ![th].stage = "get", ![th].make = missing,
                             ![th].next = IF missing = {} THEN "insert" ELSE "define"]
      BY <1>6, <2>2 DEF Plan
    <3>2. PICK next \in {"define", "plan", "insert"} : next = IF missing = {} THEN "insert" ELSE "define"
      OBVIOUS
    <3>3. SentTo(th, "get", next, missing)
      BY <3>1, <3>2 DEF SentTo, TypeInv, Progress
    <3>4. missing \in SUBSET r.op.tables
      OBVIOUS
    <3> QED
      BY ONLY <1>p, <2>1, <3>2, <3>3, <3>4
  <2> QED
    BY <2>2, Ends
<1>7. CASE CreateTable(th)
  <2>1. r.op.kind = "create_table" /\ r.stage = "run" /\ r.h \in Handles /\ r.op.tables \subseteq Tables
    BY <1>1, <1>7 DEF CreateTable, At, RightRequest, Progress, Ops
  <2>2. CASE ~Raise(th)
    <3> DEFINE s == [r EXCEPT !.stage = "define", !.make = r.op.tables]
    <3>1. /\ s \in Progress /\ s.op = r.op /\ s.by = r.by /\ s.stage = "define" /\ s.h = r.h
          /\ s.make = r.op.tables /\ s.left = r.left
      BY <1>1, <2>1 DEF Progress
    <3>2. req' = [req EXCEPT ![th] = s]
      BY <1>7, <2>2 DEF CreateTable, TypeInv
    <3> HIDE DEF s
    <3>3. RightTables(s)
      BY <1>1, <3>1 DEF RightRequest, RightTables
    <3>4. RightRequest(s)
      BY <1>1, <2>1, <3>1, <3>3, StageRight
    <3> QED
      BY <1>u, <3>2, <3>4
  <2> QED
    BY <2>2, Ends
<1>8. CASE Validate(th)
  <2>1. r.h \in Handles /\ r.left \subseteq Tables /\ Registry(th) \in Registries
        /\ r.op.kind \in {"insert", "import"} /\ r.stage # "idle"
    BY <1>1, <1>8, StageFacts DEF Validate, At, RightRequest, Progress
  <2>2. CASE ~Raise(th)
    <3>1. PICK t \in r.left : req' = [req EXCEPT ![th].stage = "check_ids", ![th].into = t,
                                                ![th].seen = Registry(th)[t]]
      BY <1>8, <2>2 DEF Validate
    <3>2. PICK n \in Creations : n = Registry(th)[t]
      BY <2>1 DEF Registries
    <3> DEFINE s == [r EXCEPT !.stage = "check_ids", !.into = t, !.seen = n]
    <3>3. /\ s \in Progress /\ s.op = r.op /\ s.by = r.by /\ s.stage = "check_ids" /\ s.h = r.h
          /\ s.make = r.make /\ s.left = r.left /\ s.into = t /\ s.seen = n
      BY <1>1, <2>1 DEF Progress, Found
    <3>4. req' = [req EXCEPT ![th] = s]
      BY <3>1, <3>2 DEF TypeInv
    <3> HIDE DEF s
    <3>5. RightTables(s)
      BY <1>1, <3>3 DEF RightRequest, RightTables
    <3>6. RightRequest(s)
      BY <1>1, <2>1, <3>2, <3>3, <3>5, StageRight
    <3> QED
      BY <1>u, <3>4, <3>6
  <2> QED
    BY <2>2, Ends
<1>9. CASE Put(th)
  <2>1. r.h \in Handles /\ r.stage = "put" /\ r.op.kind \in {"insert", "import"} /\ r.left \subseteq r.op.tables
    BY <1>1, <1>9 DEF Put, RightRequest, RightTables
  <2>2. CASE ~Raise(th) /\ ~Done(th)
    <3> PICK left : left = r.left \ {r.into}
      OBVIOUS
    <3> DEFINE s == [r EXCEPT !.stage = "insert", !.left = left]
    <3>1. /\ s \in Progress /\ s.op = r.op /\ s.by = r.by /\ s.stage = "insert" /\ s.h = r.h
          /\ s.make = r.make /\ s.left = left
      BY <1>1 DEF Progress
    <3>2. left # {} /\ req' = [req EXCEPT ![th] = s]
      BY <1>9, <2>2 DEF Put, GoesOn, TypeInv
    <3> HIDE DEF s
    <3>3. RightTables(s)
      BY <1>1, <3>1 DEF RightRequest, RightTables
    <3>4. r.op.kind = "import"
      BY <1>1, <2>1, <3>2 DEF Progress, Ops, TableKinds, RightRequest, RightTables
    <3>5. RightRequest(s)
      BY <1>1, <2>1, <3>1, <3>3, <3>4, StageRight
    <3> QED
      BY <1>u, <3>2, <3>5
  <2> QED
    BY <2>2, Ends
<1> QED
  BY <1>2, <1>3, <1>4, <1>5, <1>6, <1>7, <1>8, <1>9

(* New requests. *)
FirstStage(op) ==
  CASE op.kind = "create" -> "exists"
    [] op.kind = "import" -> "prepare"
    [] OTHER -> "get"

LEMMA RequestsRight ==
  ASSUME NEW op \in Requests
  PROVE  /\ op \in Ops /\ op.kind \in AllKinds
         /\ op.kind = "import" => op.ids = Ids /\ op.how \in {"new", "if_missing", "rows"}
         /\ op.kind \in {"insert", "import"} => op.tables # {}
<1>1. \/ op \in {Whole("create"), Whole("drop")}
      \/ \E kind \in {"create_table", "drop_table", "update"}, t \in Tables : op = Single(kind, t, {})
      \/ \E kind \in {"insert", "delete_row"}, t \in Tables, one \in {{i} : i \in Ids} : op = Single(kind, t, one)
      \/ \E how \in {"new", "if_missing", "rows"}, ts \in (SUBSET Tables) \ {{}} :
           op = Op("import", None, ts, Ids, how)
  BY DEF Requests
<1>2. op.kind \in AllKinds
  BY KindsAssumption DEF Requests
<1>3. /\ op \in Ops /\ (op.kind = "import" => op.ids = Ids /\ op.how \in {"new", "if_missing", "rows"})
      /\ op.kind \in {"insert", "import"} => op.tables # {}
  <2>1. CASE op \in {Whole("create"), Whole("drop")}
    BY <2>1 DEF Op, Whole, Ops, TableKinds, AllKinds
  <2>2. ASSUME NEW kind \in {"create_table", "drop_table", "update"}, NEW t \in Tables, op = Single(kind, t, {})
        PROVE  op \in Ops /\ op.kind \notin {"insert", "import"}
    BY <2>2 DEF Op, Single, Ops, TableKinds, AllKinds
  <2>3. ASSUME NEW kind \in {"insert", "delete_row"}, NEW t \in Tables, NEW one \in {{i} : i \in Ids},
               op = Single(kind, t, one)
        PROVE  op \in Ops /\ op.kind # "import" /\ op.tables # {}
    BY <2>3 DEF Op, Single, Ops, TableKinds, AllKinds
  <2>4. ASSUME NEW how \in {"new", "if_missing", "rows"}, NEW ts \in (SUBSET Tables) \ {{}},
               op = Op("import", None, ts, Ids, how)
        PROVE  op \in Ops /\ op.ids = Ids /\ op.how = how /\ op.tables # {}
    BY <2>4 DEF Op, Ops, TableKinds, AllKinds
  <2>5. op \in {Whole("create"), Whole("drop")} => op.kind \notin {"insert", "import"}
    BY DEF Op, Whole
  <2> QED
    BY <1>1, <2>1, <2>2, <2>3, <2>4, <2>5
<1> QED
  BY <1>2, <1>3

LEMMA BeginRequest ==
  ASSUME TypeInv, NEW th \in Threads, NEW op \in Requests, Begin(th, op)
  PROVE  \E r : /\ RightRequest(r) /\ req' = [req EXCEPT ![th] = r]
                /\ r.op = op /\ r.by = requests + 1 /\ r.stage = FirstStage(op) /\ r.next = "run"
                /\ r.make = {} /\ r.left = IF op.kind \in {"insert", "import"} THEN op.tables ELSE {}
<1> PICK left : left = IF op.kind \in {"insert", "import"} THEN op.tables ELSE {}
  OBVIOUS
<1> DEFINE r == [Idle EXCEPT !.op = op, !.by = requests', !.next = "run", !.left = left,
                             !.stage = FirstStage(op)]
<1>1. op \in Ops /\ op.kind \in AllKinds
  BY RequestsRight
<1>2. requests' = requests + 1 /\ requests' \in Handles /\ requests' \in Creations
  BY BoundAssumption DEF Begin, TypeInv, Handles, Creations
<1>3. FirstStage(op) \in {"exists", "prepare", "get"} /\ op.kind \in KindsAt(FirstStage(op))
  <2>1. CASE op.kind = "create"
    BY <2>1 DEF FirstStage, KindsAt
  <2>2. CASE op.kind = "import"
    BY <2>2 DEF FirstStage, KindsAt
  <2>3. CASE op.kind \notin {"create", "import"}
    <3>1. FirstStage(op) = "get"
      BY <2>3 DEF FirstStage
    <3> QED
      BY <1>1, <2>3, <3>1 DEF KindsAt
  <2> QED
    BY <2>1, <2>2, <2>3
<1>4. Idle \in Progress /\ left \subseteq op.tables /\ left \subseteq Tables
  BY <1>1, IdleRight DEF RightRequest, Ops
<1>5. req' = [req EXCEPT ![th] = r]
  BY DEF Begin, FirstStage
<1>6. /\ r \in Progress /\ r.op = op /\ r.by = requests' /\ r.stage = FirstStage(op) /\ r.next = "run"
      /\ r.h = None /\ r.make = {} /\ r.left = left
  BY <1>1, <1>2, <1>3, <1>4 DEF Progress, Stages, Idle
<1> HIDE DEF r
<1>7. r # Idle /\ r.stage # "idle" /\ r.by \in Handles /\ r.op.kind \in KindsAt(r.stage)
  BY <1>2, <1>3, <1>6 DEF Idle
<1>8. r.stage \in Openings /\ r.op.kind # "create" => r.op.kind \in KindsAt(r.next)
  BY <1>1, <1>6 DEF KindsAt, FirstStage, AllKinds, Openings
<1>t. RightTables(r)
  BY <1>3, <1>4, <1>6 DEF RightTables
<1>9. RightRequest(r)
  BY <1>3, <1>6, <1>7, <1>8, <1>t DEF RightRequest, Inside, Saving, Place, Openings
<1> QED
  BY <1>2, <1>5, <1>6, <1>9

LEMMA MigratedType ==
  ASSUME NEW f \in Files
  PROVE  Migrated(f) \in Files /\ Migrated(f).blocks = {}
<1>1. [table |-> 1, by |-> 1, edits |-> {}] \in Rows
  BY Numbered DEF Rows
<1> QED
  BY <1>1 DEF Migrated, Files

LEMMA MergedRow ==
  ASSUME NEW row \in Rows, NEW by \in Creations
  PROVE  /\ Merged(row, by) \in Rows
         /\ Merged(row, by).table = row.table /\ Merged(row, by).by = row.by
         /\ Merged(row, by).edits = row.edits \cup {by}
BY DEF Merged, Rows

LEMMA FileOf ==
  ASSUME NEW all \in [Tables -> [Ids -> Rows \cup {None}]], NEW blocks \in SUBSET (Tables \X Ids)
  PROVE  [rows |-> all, blocks |-> blocks] \in Files
BY DEF Files

(* A file in which one row is another. *)
WithRow(f, t, i, row) == [f EXCEPT !.rows[t][i] = row]

LEMMA OneRow ==
  ASSUME NEW f \in Files, NEW t \in Tables, NEW i \in Ids, NEW row \in Rows \cup {None},
         NEW g, g = WithRow(f, t, i, row)
  PROVE  /\ g \in Files /\ g.blocks = f.blocks /\ g.rows[t][i] = row
         /\ \A s \in Tables, j \in Ids : s # t \/ j # i => g.rows[s][j] = f.rows[s][j]
<1> DEFINE table == [f.rows[t] EXCEPT ![i] = row]
           all == [f.rows EXCEPT ![t] = table]
<1>1. f.rows \in [Tables -> [Ids -> Rows \cup {None}]] /\ f.blocks \in SUBSET (Tables \X Ids)
      /\ f = [rows |-> f.rows, blocks |-> f.blocks]
  BY DEF Files
<1>2. table \in [Ids -> Rows \cup {None}] /\ table[i] = row /\ \A j \in Ids : j # i => table[j] = f.rows[t][j]
  BY <1>1
<1>3. g = [f EXCEPT !.rows = all]
  BY <1>1 DEF WithRow
<1> HIDE DEF table
<1>4. /\ all \in [Tables -> [Ids -> Rows \cup {None}]]
      /\ all[t] = table /\ \A s \in Tables : s # t => all[s] = f.rows[s]
  BY <1>1, <1>2
<1> HIDE DEF all
<1>5. g = [rows |-> all, blocks |-> f.blocks]
  BY <1>1, <1>3
<1>6. f.blocks \in SUBSET (Tables \X Ids)
  BY <1>1
<1>7. g \in Files /\ g.blocks = f.blocks /\ g.rows = all
  <2>1. PICK blocks : blocks = f.blocks
    OBVIOUS
  <2>2. g = [rows |-> all, blocks |-> blocks] /\ blocks \in SUBSET (Tables \X Ids)
    BY <1>5, <1>6, <2>1
  <2>3. [rows |-> all, blocks |-> blocks] \in Files
    BY <1>4, <2>2, FileOf
  <2>4. g \in Files
    BY <2>2, <2>3
  <2>5. g.blocks = blocks /\ g.rows = all
    BY <2>2
  <2> QED
    BY <2>1, <2>4, <2>5
<1>8. \A s \in Tables, j \in Ids : s # t \/ j # i => all[s][j] = f.rows[s][j]
  BY <1>2, <1>4
<1> QED
  BY <1>2, <1>4, <1>7, <1>8

LEMMA EmptyTypes ==
  Empty \in Registries /\ NoRows \in [Tables -> [Ids -> Rows \cup {None}]] /\ NewFile \in Files
BY Numbered DEF Empty, NoTable, Registries, NoRows, NewFile, Files

-----------------------------------------------------------------------------
LEMMA TypeInit == Init => TypeInv
<1> SUFFICES ASSUME Init PROVE TypeInv
  OBVIOUS
<1>1. /\ file = None \/ file \in Files
      /\ sidecar = None \/ sidecar \in Registries
      /\ rows \subseteq Tables \X Ids \X Creations
  <2>1. CASE file = None /\ sidecar = None
    BY <2>1 DEF Init
  <2>2. ASSUME NEW t \in Tables, NEW i \in Ids,
               file = [rows |-> NoRows, blocks |-> {<<t, i>>}], sidecar = [Empty EXCEPT ![t] = 1]
        PROVE  file \in Files /\ sidecar \in Registries /\ rows \subseteq Tables \X Ids \X Creations
    <3>1. file \in Files /\ sidecar \in Registries
      BY <2>2, EmptyTypes, Numbered DEF Files, Registries
    <3>2. rows \subseteq {<<t, i, 1>>}
      BY <2>2 DEF Init
    <3> QED
      BY <3>1, <3>2, Numbered
  <2> QED
    BY <2>1, <2>2 DEF Init
<1>2. req \in [Threads -> Progress] /\ \A th \in Threads : RightRequest(req[th])
  BY IdleRight DEF Init, RightRequest
<1>3. tables \in Registries
  BY <1>1, EmptyTypes DEF Init
<1>4. reg \in [Handles -> Registries]
  BY EmptyTypes DEF Init
<1>5. requests \in 1 .. MaxRequests /\ crashes \in 0 .. MaxCrashes
  BY BoundAssumption DEF Init
<1> QED
  BY <1>1, <1>2, <1>3, <1>4, <1>5 DEF Init, TypeInv

LEMMA StepMoves ==
  ASSUME TypeInv, NEW th \in Threads, Step(th)
  PROVE  Moves(th)
BY SimpleMoves, TakingMoves, OpenMoves DEF Step

(* The variables other than the requests. *)
StoreTypes ==
  /\ file = None \/ file \in Files
  /\ sidecar \in {None, Torn} \cup Registries
  /\ handle \in Handles \cup {None}
  /\ reg \in [Handles -> Registries]
  /\ closed \subseteq Handles
HistoryTypes ==
  /\ tables \in Registries
  /\ rows \subseteq Tables \X Ids \X Creations
  /\ edited \subseteq Tables \X Ids \X Creations \X Creations
  /\ dead \subseteq Tables \X Creations
  /\ erased \subseteq Tables \X Ids \X Creations
  /\ failed \subseteq Creations \X Tables

LEMMA FailedTypes ==
  ASSUME TypeInv, NEW th \in Threads, Failed(th)
  PROVE  failed' \subseteq Creations \X Tables
<1>1. req[th].by \in Creations /\ req[th].left \subseteq Tables
  BY StageFacts DEF Progress
<1> QED
  BY <1>1 DEF Failed, TypeInv

LEMMA RaiseTypes ==
  ASSUME TypeInv, NEW th \in Threads, Raise(th)
  PROVE  StoreTypes' /\ HistoryTypes'
<1>1. failed' \subseteq Creations \X Tables
  BY FailedTypes DEF Raise
<1> QED
  BY <1>1 DEF Raise, memory, TypeInv, StoreTypes, HistoryTypes

LEMMA StoreStep ==
  ASSUME TypeInv, NEW th \in Threads, Step(th)
  PROVE  StoreTypes'
<1>r. ASSUME Raise(th) PROVE StoreTypes'
  BY <1>r, RaiseTypes
<1>u. ASSUME UNCHANGED <<file, sidecar, memory>> PROVE StoreTypes'
  BY <1>u DEF memory, TypeInv, StoreTypes
<1>1. /\ req[th].op.kind \in TableKinds => Name(th) \in Tables
      /\ req[th].op.kind \in KindsAt(req[th].stage) /\ RightRequest(req[th])
      /\ req[th].stage # "idle" => req[th].by \in Handles
  BY StageFacts
<1>h. req[th].stage \in Inside \cup {"publish"} => req[th].h \in Handles
  BY <1>1 DEF RightRequest
<1>2. CASE CheckFree(th) \/ CreateTable(th) \/ Dump(th) \/ Acknowledge(th) \/ Validate(th) \/ CheckIds(th)
           \/ FindRow(th) \/ Match(th) \/ Prepare(th) \/ Plan(th)
  BY <1>2, <1>r, <1>u DEF CheckFree, CreateTable, Dump, Acknowledge, Validate, CheckIds, FindRow, Match,
       Prepare, Plan, memory
<1>3. CASE Get(th)
  <2>1. file # None => Migrated(file) \in Files
    BY MigratedType DEF TypeInv
  <2>2. req[th].by \in Handles
    BY <1>1, <1>3 DEF Get
  <2>3. sidecar # Torn => (IF sidecar = None THEN Empty ELSE sidecar) \in Registries
    BY EmptyTypes DEF TypeInv
  <2> QED
    BY <1>3, <1>r, <1>u, <2>1, <2>2, <2>3 DEF Get, memory, TypeInv, StoreTypes
<1>4. CASE Connect(th)
  <2>1. file # None => Migrated(file) \in Files
    BY MigratedType DEF TypeInv
  <2>2. req[th].by \in Handles
    BY <1>1, <1>4 DEF Connect
  <2> QED
    BY <1>4, <2>1, <2>2, EmptyTypes DEF Connect, TypeInv, StoreTypes
<1>5. CASE Publish(th)
  BY <1>5, <1>h DEF Publish, TypeInv, StoreTypes
<1>6. CASE Define(th)
  <2>1. req[th].by \in Creations
    BY <1>1, <1>6, Numbered DEF Define, At
  <2>2. req[th].h \in Handles => reg' \in [Handles -> Registries]
    BY <1>6, <2>1 DEF Define, TypeInv, Registries
  <2>3. req[th].h \in Handles
    BY <1>6, <1>h DEF Define, At, Inside
  <2> QED
    BY <1>6, <2>2, <2>3 DEF Define, TypeInv, StoreTypes
<1>7. CASE Forget(th)
  <2>1. Name(th) \in Tables /\ Removed \in Creations /\ req[th].h \in Handles
    BY <1>1, <1>7, <1>h, Numbered DEF Forget, At, TableKinds, Removed, NoTable, Inside
  <2>2. reg' \in [Handles -> Registries]
    BY <1>7, <2>1 DEF Forget, TypeInv, Registries
  <2> QED
    BY <1>7, <2>2 DEF Forget, TypeInv, StoreTypes
<1>8. CASE DeleteRows(th)
  <2>1. Name(th) \in Tables
    BY <1>1, <1>8 DEF DeleteRows, At, TableKinds
  <2>2. CASE ~Raise(th)
    <3>1. file \in Files /\ file' = [file EXCEPT !.rows[Name(th)] = NoRows[Name(th)]]
      BY <1>8, <2>2 DEF DeleteRows, Connected, TypeInv
    <3>2. NoRows[Name(th)] \in [Ids -> Rows \cup {None}]
      BY <2>1, EmptyTypes
    <3>3. file' \in Files
      BY <2>1, <3>1, <3>2 DEF Files
    <3> QED
      BY <1>8, <2>2, <3>3 DEF DeleteRows, memory, TypeInv, StoreTypes
  <2> QED
    BY <1>r, <2>2
<1>9. CASE Truncate(th)
  BY <1>9 DEF Truncate, memory, TypeInv, StoreTypes
<1>10. CASE Write(th)
  <2>1. req[th].dump \in Registries
    BY <1>1, <1>10 DEF Write, RightRequest
  <2> QED
    BY <1>10, <2>1 DEF Write, memory, TypeInv, StoreTypes
<1>11. CASE Put(th)
  <2> PICK into : into = req[th].into
    OBVIOUS
  <2>2. into \in Tables /\ req[th].op.ids \in SUBSET Ids
    BY <1>1, <1>11, StageFacts DEF Put, RightRequest, RightTables, Progress
  <2>3. Row(th) \in Rows
    BY <1>1, <1>11, Numbered DEF Put, RightRequest, Row, Rows
  <2>4. CASE ~Raise(th)
    <3>1. file \in Files
      BY <1>11, <2>4 DEF Put, Connected, TypeInv
    <3>2. file.rows[into] \in [Ids -> Rows \cup {None}]
      BY <2>2, <3>1 DEF Files
    <3>3. [i \in Ids |-> IF i \in req[th].op.ids THEN Row(th) ELSE file.rows[into][i]]
            \in [Ids -> Rows \cup {None}]
      BY <2>3, <3>2
    <3>4. \E table \in [Ids -> Rows \cup {None}] : file' = [file EXCEPT !.rows[into] = table]
      <4>1. \/ file' = [file EXCEPT !.rows[into] = [i \in Ids |-> IF i \in req[th].op.ids THEN Row(th) ELSE @[i]]]
            \/ file' = [file EXCEPT !.rows[into] = @]
        BY <1>11, <2>4 DEF Put, RolledBack
      <4>2. file' = [file EXCEPT !.rows[into] = @]
              => file' = [file EXCEPT !.rows[into] = file.rows[into]]
        OBVIOUS
      <4>3. file' = [file EXCEPT !.rows[into] = [i \in Ids |-> IF i \in req[th].op.ids THEN Row(th) ELSE @[i]]]
              => file' = [file EXCEPT !.rows[into] =
                            [i \in Ids |-> IF i \in req[th].op.ids THEN Row(th) ELSE file.rows[into][i]]]
        OBVIOUS
      <4>4. CASE file' = [file EXCEPT !.rows[into] = file.rows[into]]
        BY <3>2, <4>4
      <4>5. CASE file' = [file EXCEPT !.rows[into] =
                            [i \in Ids |-> IF i \in req[th].op.ids THEN Row(th) ELSE file.rows[into][i]]]
        <5> DEFINE table == [i \in Ids |-> IF i \in req[th].op.ids THEN Row(th) ELSE file.rows[into][i]]
        <5>1. table \in [Ids -> Rows \cup {None}] /\ file' = [file EXCEPT !.rows[into] = table]
          BY <3>3, <4>5
        <5> HIDE DEF table
        <5> QED
          BY <5>1
      <4> QED
        BY <4>1, <4>2, <4>3, <4>4, <4>5
    <3>5. file' \in Files
      <4>1. PICK table \in [Ids -> Rows \cup {None}] : file' = [file EXCEPT !.rows[into] = table]
        BY <3>4
      <4>2. PICK all \in [Tables -> [Ids -> Rows \cup {None}]], blocks \in SUBSET (Tables \X Ids) :
              file = [rows |-> all, blocks |-> blocks]
        BY <3>1 DEF Files
      <4>3. file' = [rows |-> [all EXCEPT ![into] = table], blocks |-> blocks]
        BY <4>1, <4>2
      <4>4. [all EXCEPT ![into] = table] \in [Tables -> [Ids -> Rows \cup {None}]]
        BY <2>2
      <4> QED
        BY <4>3, <4>4, FileOf
    <3> QED
      BY <1>11, <2>4, <3>5 DEF Put, memory, TypeInv, StoreTypes
  <2> QED
    BY <1>r, <2>4
<1>12. CASE Erase(th)
  <2>1. req[th].op.kind \in TableKinds
    BY <1>1, <1>12 DEF Erase, KindsAt, TableKinds
  <2>2. Name(th) \in Tables /\ req[th].op.ids \in SUBSET Ids
    BY <2>1, StageFacts
  <2>3. CASE ~Raise(th)
    <3>1. file \in Files /\ \E i \in req[th].op.ids : file' = WithRow(file, Name(th), i, None)
      BY <1>12, <2>3 DEF Erase, Connected, TypeInv, WithRow
    <3>2. file' \in Files
      BY <2>2, <3>1, OneRow
    <3> QED
      BY <1>12, <2>3, <3>2 DEF Erase, memory, TypeInv, StoreTypes
  <2> QED
    BY <1>r, <2>3
<1>13. CASE Rewrite(th)
  <2>1. Name(th) \in Tables
    BY <1>1, <1>13 DEF Rewrite, KindsAt, TableKinds
  <2>2. req[th].seen \subseteq Ids \X Rows
    BY <1>1, <1>13 DEF Rewrite, RightRequest
  <2>3. CASE ~Raise(th)
    <3>1. PICK m \in req[th].seen :
            file \in Files /\ file' = WithRow(file, Name(th), m[1], Merged(m[2], req[th].by))
      BY <1>13, <2>3 DEF Rewrite, Connected, TypeInv, WithRow
    <3>2. m[1] \in Ids /\ Merged(m[2], req[th].by) \in Rows
      BY <1>1, <1>13, <2>2, MergedRow, Numbered DEF Rewrite
    <3>3. file' \in Files
      BY <2>1, <3>1, <3>2, OneRow
    <3> QED
      BY <1>13, <2>3, <3>3 DEF Rewrite, memory, TypeInv, StoreTypes
  <2> QED
    BY <1>r, <2>3
<1>14. CASE Close(th)
  BY <1>14, <1>h DEF Close, At, Inside, TypeInv, StoreTypes
<1>15. CASE Unregister(th)
  BY <1>15 DEF Unregister, TypeInv, StoreTypes
<1>16. CASE Unlink(th)
  BY <1>16 DEF Unlink, memory, TypeInv, StoreTypes
<1>17. CASE UnlinkSchema(th)
  BY <1>17 DEF UnlinkSchema, Unlinked, memory, TypeInv, StoreTypes
<1> QED
  BY <1>2, <1>3, <1>4, <1>5, <1>6, <1>7, <1>8, <1>9, <1>10, <1>11, <1>12, <1>13, <1>14, <1>15, <1>16,
     <1>17 DEF Step

LEMMA HistoryStep ==
  ASSUME TypeInv, NEW th \in Threads, Step(th)
  PROVE  HistoryTypes' /\ UNCHANGED <<requests, crashes>>
<1>0. UNCHANGED <<requests, crashes>>
  BY DEF Step, Get, CheckFree, Connect, Publish, CreateTable, Define, DeleteRows, Forget, Dump, Truncate,
    Write, Acknowledge, Validate, CheckIds, Put, FindRow, Erase, Match, Rewrite, Prepare, Plan, Close,
    Unregister, Unlink, UnlinkSchema
<1> SUFFICES HistoryTypes'
  BY <1>0
<1>r. ASSUME Raise(th) PROVE HistoryTypes'
  BY <1>r, RaiseTypes
<1>u. ASSUME UNCHANGED <<tables, rows, edited, dead, erased>>, failed' = failed \/ Failed(th)
      PROVE  HistoryTypes'
  <2>1. failed' \subseteq Creations \X Tables
    BY <1>u, FailedTypes DEF TypeInv
  <2> QED
    BY <1>u, <2>1 DEF TypeInv, HistoryTypes
<1>1. /\ req[th].op.kind \in TableKinds => Name(th) \in Tables
      /\ req[th].op.kind \in KindsAt(req[th].stage) /\ RightRequest(req[th])
      /\ req[th].op.ids \in SUBSET Ids /\ req[th].by \in Creations
  BY StageFacts DEF Progress
<1>3. CASE Get(th) \/ CheckFree(th) \/ Connect(th) \/ CreateTable(th) \/ Define(th) \/ DeleteRows(th)
           \/ Forget(th) \/ Dump(th) \/ Truncate(th) \/ Write(th) \/ Validate(th) \/ CheckIds(th)
           \/ FindRow(th) \/ Match(th) \/ Prepare(th) \/ Plan(th) \/ Close(th)
           \/ Unregister(th) \/ Unlink(th)
  BY <1>3, <1>r, <1>u DEF history, Get, CheckFree, Connect, CreateTable, Define, DeleteRows, Forget, Dump,
    Truncate, Write, Validate, CheckIds, FindRow, Match, Prepare, Plan, Close, Unregister, Unlink
<1>4. CASE Publish(th)
  <2>1. PICK by \in Creations : by = req[th].by
    BY <1>1
  <2>2. 1 .. by - 1 \subseteq Creations
    BY BoundAssumption DEF Creations
  <2>3. dead' \subseteq Tables \X Creations
    BY <1>4, <2>1, <2>2 DEF Publish, TypeInv
  <2> QED
    BY <1>4, <2>3 DEF Publish, TypeInv, HistoryTypes
<1>m. ASSUME Made(th)
      PROVE  tables' \in Registries
  BY <1>1, <1>m DEF Made, TypeInv, Registries
<1>5. CASE Acknowledge(th)
  <2>1. req[th].op.kind = "drop_table" => Name(th) \in Tables /\ req[th].seen \in Creations
    BY <1>1, <1>5 DEF Acknowledge, RightRequest, Place, Openings, TableKinds
  <2>2. tables' \in Registries
    BY <1>5, <1>m DEF Acknowledge, TypeInv
  <2>3. dead' \subseteq Tables \X Creations
    BY <1>5, <2>1 DEF Acknowledge, TypeInv
  <2> QED
    BY <1>5, <2>2, <2>3 DEF Acknowledge, TypeInv, HistoryTypes
<1>6. CASE Put(th)
  <2>1. req[th].into \in Tables
    BY <1>1, <1>6, StageFacts DEF Put, RightRequest, RightTables, Progress
  <2>2. CASE ~Raise(th)
    <3>1. tables' \in Registries
      BY <1>6, <1>m, <2>2 DEF Put, GoesOn, TypeInv
    <3>2. rows' \subseteq Tables \X Ids \X Creations
      BY <1>1, <1>6, <2>1, <2>2 DEF Put, TypeInv
    <3>3. UNCHANGED <<edited, dead, erased>> /\ (failed' = failed \/ Failed(th))
      BY <1>6, <2>2 DEF Put
    <3>4. failed' \subseteq Creations \X Tables
      BY <3>3, FailedTypes DEF TypeInv
    <3> QED
      BY <3>1, <3>2, <3>3, <3>4 DEF TypeInv, HistoryTypes
  <2> QED
    BY <1>r, <2>2
<1>7. CASE Erase(th)
  <2>1. req[th].op.kind \in TableKinds
    BY <1>1, <1>7 DEF Erase, KindsAt, TableKinds
  <2>2. CASE ~Raise(th)
    <3>1. PICK i \in req[th].op.ids :
            /\ erased' = IF file.rows[Name(th)][i] = None THEN erased
                         ELSE erased \cup {<<Name(th), i, file.rows[Name(th)][i].by>>}
            /\ rows' \subseteq rows
      BY <1>7, <2>2 DEF Erase
    <3>2. file \in Files
      BY <1>7, <2>2 DEF Erase, Connected, TypeInv
    <3>3. i \in Ids /\ Name(th) \in Tables
      BY <1>1, <2>1
    <3>4. file.rows[Name(th)][i] # None => file.rows[Name(th)][i].by \in Creations
      BY <3>2, <3>3 DEF Files, Rows
    <3>5. erased' \subseteq Tables \X Ids \X Creations
      BY <3>1, <3>3, <3>4 DEF TypeInv
    <3>6. UNCHANGED <<tables, edited, dead, failed>>
      BY <1>7, <2>2 DEF Erase
    <3> QED
      BY <3>1, <3>5, <3>6 DEF TypeInv, HistoryTypes
  <2> QED
    BY <1>r, <2>2
<1>8. CASE UnlinkSchema(th)
  <2>1. req[th].seen \in Registries
    BY <1>1, <1>8 DEF UnlinkSchema, RightRequest
  <2>2. dead' \subseteq Tables \X Creations
    BY <1>8, <2>1 DEF UnlinkSchema, TypeInv, Registries
  <2> QED
    BY <1>8, <2>2 DEF UnlinkSchema, TypeInv, HistoryTypes
<1>9. CASE Rewrite(th)
  <2>1. Name(th) \in Tables /\ req[th].seen \subseteq Ids \X Rows
    BY <1>1, <1>9 DEF Rewrite, KindsAt, TableKinds, RightRequest
  <2>2. CASE ~Raise(th)
    <3>1. PICK m \in req[th].seen : edited' = edited \cup {<<Name(th), m[1], m[2].by, req[th].by>>}
      BY <1>9, <2>2 DEF Rewrite
    <3>2. m[1] \in Ids /\ m[2].by \in Creations
      BY <2>1 DEF Rows
    <3>3. edited' \subseteq Tables \X Ids \X Creations \X Creations
      BY <1>1, <2>1, <3>1, <3>2 DEF TypeInv
    <3>4. UNCHANGED <<tables, rows, dead, erased, failed>>
      BY <1>9, <2>2 DEF Rewrite
    <3> QED
      BY <3>3, <3>4 DEF TypeInv, HistoryTypes
  <2> QED
    BY <1>r, <2>2
<1> QED
  BY <1>3, <1>4, <1>5, <1>6, <1>7, <1>8, <1>9 DEF Step

LEMMA BeginType ==
  ASSUME TypeInv, NEW th \in Threads, NEW op \in Requests, Begin(th, op)
  PROVE  TypeInv'
<1>1. PICK r : RightRequest(r) /\ req' = [req EXCEPT ![th] = r]
  BY BeginRequest
<1>2. req' \in [Threads -> Progress] /\ \A u \in Threads : RightRequest(req'[u])
  BY <1>1, OneRequest
<1>3. requests' \in 1 .. MaxRequests
  BY BoundAssumption DEF Begin, TypeInv
<1>4. tables' \in Registries
  BY EmptyTypes, Numbered DEF Begin, TypeInv, Registries, NoTable
<1>5. rows' \subseteq Tables \X Ids \X Creations
  BY DEF Begin, TypeInv
<1> QED
  BY <1>2, <1>3, <1>4, <1>5 DEF Begin, memory, TypeInv

LEMMA CrashType ==
  ASSUME TypeInv, Crash
  PROVE  TypeInv'
<1>1. req' \in [Threads -> Progress] /\ \A u \in Threads : RightRequest(req'[u])
  BY IdleRight DEF Crash, RightRequest
<1>2. crashes' \in 0 .. MaxCrashes
  BY BoundAssumption DEF Crash, TypeInv
<1>3. reg' \in [Handles -> Registries]
  BY EmptyTypes DEF Crash
<1> QED
  BY <1>1, <1>2, <1>3 DEF Crash, history, TypeInv

LEMMA TypeStep ==
  ASSUME TypeInv, [Next]_vars
  PROVE  TypeInv'
<1>1. ASSUME NEW th \in Threads, Step(th)
      PROVE  TypeInv'
  <2>1. PICK r : RightRequest(r) /\ req' = [req EXCEPT ![th] = r]
    BY <1>1, StepMoves DEF Moves
  <2>2. req' \in [Threads -> Progress] /\ \A u \in Threads : RightRequest(req'[u])
    BY <2>1, OneRequest
  <2>3. StoreTypes' /\ HistoryTypes' /\ UNCHANGED <<requests, crashes>>
    BY <1>1, StoreStep, HistoryStep
  <2> QED
    BY <2>2, <2>3 DEF TypeInv, StoreTypes, HistoryTypes
<1>2. CASE UNCHANGED vars
  BY <1>2 DEF vars, memory, history, TypeInv
<1> QED
  BY <1>1, <1>2, BeginType, CrashType DEF Next

(* Every variable keeps its type, whatever requests do to each other and   *)
(* wherever the process ends.                                              *)
THEOREM TypeCorrect == Spec => []TypeOK
<1>1. TypeInv /\ [Next]_vars => TypeInv'
  BY TypeStep
<1> QED
  BY <1>1, TypeInit, TypeInvTypes, PTL DEF Spec

-----------------------------------------------------------------------------
(* Requests that keep to CareSpec: what a request may take for granted of  *)
(* the files and of the registry.                                          *)

Busy(th) == req[th] # Idle
Defined == Saving \cup {"acknowledge", "insert", "check_ids", "put"}
Sidecar == IF sidecar \in {None, Torn} THEN Empty ELSE sidecar

(* Whoever looks first makes the table and whoever brings rows only does   *)
(* not; nobody is sent back to open the database with its work half done.  *)
RightPath(r) ==
  /\ r.op.kind = "import" =>
       /\ r.stage \in {"exists", "connect", "define"} \cup Saving \/ r.next = "define" => r.op.how # "rows"
       /\ r.stage \in {"exists", "connect"} => r.next = "define"
  /\ r.make # {} => Shaping(r.op)
  /\ r.stage = "get" =>
       /\ r.next \in (IF r.op.kind = "import" THEN {"plan", "define", "insert"} ELSE {"run"})
       /\ r.next = "insert" => r.make = {}
  /\ r.stage = "publish" /\ r.op.kind # "create" =>
       r.next \in (IF r.op.kind = "import" THEN {"plan", "define"} ELSE {"run"})

(* A table's number is used where the registry, the sidecar or a row has it. *)
Uses(n, t) ==
  \/ handle # None /\ reg[handle][t] = n
  \/ Sidecar[t] = n
  \/ file # None /\ \E i \in Ids : file.rows[t][i] # None /\ file.rows[t][i].table = n

(* A request's number is its own: no table where it has yet to write rows  *)
(* has any of its, nor had.                                                *)
OwnNumber(r) ==
  /\ r.by \in 2 .. requests
  /\ \A t \in Tables : <<r.by, t>> \notin failed /\ <<t, r.by>> \notin dead
  /\ \A e \in erased \cup edited : e[3] = r.by => e[1] \notin r.left
  /\ file # None => \A t \in r.left, i \in Ids : file.rows[t][i] # None => file.rows[t][i].by # r.by

(* Opening and closing. *)
Opening(r) ==
  /\ r.stage \in Inside => handle # None /\ r.h = handle
  /\ r.stage \in {"connect", "publish", "unlink", "unlink_schema"} => handle = None
  /\ r.stage = "exists" /\ r.op.kind = "import" => handle = None
  /\ r.stage = "connect" => file = None /\ sidecar = None
  /\ r.stage = "publish" =>
       /\ file # None /\ file.blocks = {} /\ sidecar # Torn /\ reg[r.h] = Sidecar
       /\ r.op.kind = "create" => file.rows = NoRows /\ sidecar = None
       /\ r.op.kind # "create" /\ r.next = "define" => \A t \in r.make : Sidecar[t] = NoTable
  /\ r.stage = "get" /\ r.next \in {"define", "insert"} => handle # None
  /\ r.stage = "define" \/ (r.stage = "get" /\ r.next = "define") =>
       \A t \in r.make : reg[handle][t] = NoTable
  /\ r.stage \in {"unlink", "unlink_schema"} => sidecar # Torn
  /\ r.stage = "unlink_schema" => file = None
  /\ r.op.kind = "drop" => rows = {} /\ tables = Empty

(* Changing the tables. *)
Changed(r) == IF r.op.kind = "drop_table" THEN {r.op.table} ELSE r.make
Shape(r) ==
  /\ r.stage \in Saving => \A t \in Changed(r) : tables[t] = NoTable
  /\ r.op.kind # "drop_table" /\ r.stage \in Defined => \A t \in r.make : reg[handle][t] = r.by
  /\ r.op.kind = "drop_table" /\ r.stage \in Saving \cup {"acknowledge"} => reg[handle][r.op.table] = NoTable
  /\ r.stage = "write" => sidecar = Torn
Dropping(r) ==
  r.op.kind = "drop_table" =>
    /\ tables[r.op.table] = NoTable
    /\ \A row \in rows : row[1] # r.op.table
    /\ r.stage \in Saving \cup {"forget", "acknowledge"} =>
         r.seen \in 1 .. requests /\ file.rows[r.op.table] = NoRows[r.op.table]

(* Reading and writing rows; what a drop takes with it. *)
OnRows(r) ==
  /\ r.stage \in {"check_ids", "put"} => r.seen = reg[handle][r.into] /\ r.seen # NoTable
  /\ r.stage = "rewrite" => \A m \in r.seen : file.rows[r.op.table][m[1]] = m[2]
  /\ r.stage \in {"unregister", "unlink", "unlink_schema"} => \A t \in Tables : r.seen[t] <= requests

Sound(r) ==
  r # Idle => RightPath(r) /\ OwnNumber(r) /\ Opening(r) /\ Shape(r) /\ Dropping(r) /\ OnRows(r)

(* Requests beside each other, and the files. *)
Taking == \A th, u \in Threads : th # u /\ Busy(th) /\ Busy(u) =>
  handle # None /\ Compatible(req[th].op, req[u].op) /\ req[th].by # req[u].by
Requested == \A th \in Threads : Sound(req[th])

(* What was read of the registry is what it has, but for changes that have *)
(* not been read yet; and so is the sidecar, but for changes that are      *)
(* still to be written.                                                    *)
Windows == \A th, u \in Threads : th # u /\ Writing(th) => ~Writing(u)
Unread(t) == \E th \in Threads : req[th].stage = "dump" /\ t \in Changed(req[th])
Unwritten(t) == \E th \in Threads : req[th].stage \in Saving /\ t \in Changed(req[th])
Snapshots ==
  /\ \A th \in Threads : Writing(th) =>
       \A t \in Tables : req[th].dump[t] = reg[handle][t] \/ (Unread(t) /\ req[th].dump[t] = NoTable)
  /\ handle # None /\ sidecar # Torn =>
       \A t \in Tables : Sidecar[t] = reg[handle][t] \/ Unwritten(t)

Stored ==
  /\ handle # None => file # None /\ file.blocks = {}
  /\ file = None => sidecar = None \/ \E th \in Threads : req[th].stage = "unlink_schema"
  /\ sidecar = Torn =>
       /\ file # None /\ file.blocks = {}
       /\ handle = None \/ \E th \in Threads : req[th].stage = "write"
Earlier ==
  file # None /\ file.blocks # {} =>
    handle = None /\ file.rows = NoRows /\ dead = {} /\ erased = {} /\ edited = {}

(* Numbers of tables, and of rows. *)
Bounds ==
  /\ \A d \in dead : d[2] \in 1 .. requests
  /\ \A f \in failed : f[1] \in 2 .. requests
  /\ \A e \in erased \cup edited : e[3] <= requests
  /\ \A n \in Creations, t \in Tables : Uses(n, t) => n <= requests
NoneDead ==
  /\ handle # None => \A t \in Tables : <<t, reg[handle][t]>> \notin dead
  /\ \A t \in Tables : <<t, Sidecar[t]>> \notin dead
RowsRight ==
  file # None => \A t \in Tables, i \in Ids : file.rows[t][i] # None =>
    /\ <<t, file.rows[t][i].table>> \notin dead
    /\ <<file.rows[t][i].by, t>> \notin failed /\ file.rows[t][i].by \in 1 .. requests
    /\ \A e \in erased : e[1] = t /\ e[2] = i => e[3] # file.rows[t][i].by

IInv ==
  /\ Taking /\ Requested /\ Snapshots /\ Stored /\ Earlier
  /\ Bounds /\ NoneDead /\ RowsRight
  /\ TablesSurvive /\ RowsAreKept

-----------------------------------------------------------------------------
(* Who may be beside whom.                                                 *)

LEMMA BusyStage ==
  ASSUME TypeInv, NEW th \in Threads
  PROVE  Busy(th) <=> req[th].stage # "idle"
BY DEF TypeInv, RightRequest, Busy

LEMMA Alone ==
  ASSUME Taking, NEW th \in Threads, Busy(th), handle = None \/ Structural(req[th].op)
  PROVE  \A u \in Threads : u # th => req[u] = Idle
BY DEF Taking, Busy, Compatible

LEMMA SoundFacts ==
  ASSUME TypeInv, Requested, NEW th \in Threads, Busy(th)
  PROVE  /\ RightRequest(req[th]) /\ RightPath(req[th]) /\ OwnNumber(req[th]) /\ Opening(req[th])
         /\ Shape(req[th]) /\ Dropping(req[th]) /\ OnRows(req[th])
BY DEF TypeInv, Requested, Sound, Busy

LEMMA SteadyStage ==
  ASSUME NEW r, RightRequest(r), r # Idle, ~Structural(r.op)
  PROVE  /\ r.stage \notin {"idle", "forget", "unregister", "unlink", "unlink_schema"}
         /\ r.op.kind \notin {"create", "drop", "drop_table"}
BY DEF RightRequest, KindsAt, Structural

(* Another request beside one that is in the middle of its work.           *)
LEMMA Beside ==
  ASSUME TypeInv, IInv, NEW th \in Threads, Busy(th), NEW u \in Threads, u # th, Busy(u)
  PROVE  /\ handle # None /\ req[u].by # req[th].by
         /\ ~Structural(req[u].op) /\ ~Structural(req[th].op)
         /\ \A t \in req[th].make : t \notin req[u].make
         /\ req[u].op.kind = "update" /\ req[th].op.kind \in {"update", "delete_row"} =>
              req[u].op.table # req[th].op.table
<1>1. handle # None /\ Compatible(req[th].op, req[u].op) /\ req[u].by # req[th].by
  BY DEF IInv, Taking
<1>2. /\ req[th].make \subseteq req[th].op.tables /\ req[u].make \subseteq req[u].op.tables
      /\ req[th].make # {} => Shaping(req[th].op)
      /\ req[u].make # {} => Shaping(req[u].op)
  BY SoundFacts DEF IInv, RightRequest, RightTables, RightPath
<1>3. \A t \in req[th].make : t \notin req[u].make
  BY <1>1, <1>2 DEF Compatible
<1> QED
  BY <1>1, <1>3 DEF Compatible

(* The step of one request leaves the others as they were. *)
Moved(th, r) == req' = [req EXCEPT ![th] = r]

LEMMA MovedFacts ==
  ASSUME TypeInv, NEW th \in Threads, NEW r, Moved(th, r)
  PROVE  req'[th] = r /\ \A u \in Threads : u # th => req'[u] = req[u]
BY DEF TypeInv, Moved

LEMMA TakingKept ==
  ASSUME TypeInv, Taking, NEW th \in Threads, NEW r, Moved(th, r), Busy(th),
         r # Idle => r.op = req[th].op /\ r.by = req[th].by,
         handle # None /\ ~Structural(req[th].op) => handle' # None
  PROVE  Taking'
<1>1. req'[th] = r /\ \A u \in Threads : u # th => req'[u] = req[u]
  BY MovedFacts
<1>2. handle = None \/ Structural(req[th].op) => \A u \in Threads : u # th => req[u] = Idle
  BY Alone
<1> SUFFICES ASSUME NEW a \in Threads, NEW b \in Threads, a # b, req'[a] # Idle, req'[b] # Idle
             PROVE  handle' # None /\ Compatible(req'[a].op, req'[b].op) /\ req'[a].by # req'[b].by
  BY DEF Taking, Busy
<1>3. Busy(a) /\ Busy(b)
  BY <1>1 DEF Busy
<1>4. handle # None /\ Compatible(req[a].op, req[b].op) /\ req[a].by # req[b].by
  BY <1>3 DEF Taking
<1>5. req'[a].op = req[a].op /\ req'[a].by = req[a].by /\ req'[b].op = req[b].op /\ req'[b].by = req[b].by
  BY <1>1
<1>6. handle' # None
  BY <1>1, <1>2, <1>3, <1>4 DEF Busy
<1> QED
  BY <1>4, <1>5, <1>6

LEMMA RequestedKept ==
  ASSUME TypeInv, NEW th \in Threads, NEW r, Moved(th, r), Sound(r)',
         \A u \in Threads : u # th /\ Busy(u) => \E s : s = req[u] /\ Sound(s)'
  PROVE  Requested'
<1>1. req'[th] = r /\ \A u \in Threads : u # th => req'[u] = req[u]
  BY MovedFacts
<1> SUFFICES ASSUME NEW u \in Threads
             PROVE  Sound(req[u])'
  BY DEF Requested
<1>2. CASE u = th
  BY <1>1, <1>2
<1>3. CASE u # th /\ Busy(u)
  BY <1>1, <1>3
<1>4. CASE u # th /\ ~Busy(u)
  <2>1. req'[u] = Idle
    BY <1>1, <1>4 DEF Busy
  <2> QED
    BY <2>1 DEF Sound
<1> QED
  BY <1>2, <1>3, <1>4

-----------------------------------------------------------------------------
(* Most steps only look: the request goes on, or ends, and nothing else    *)
(* changes.                                                                *)

FailedBy(n, left) == failed' = failed \/ failed' = failed \cup {n} \X left

Looks(th, r) ==
  /\ Moved(th, r)
  /\ UNCHANGED <<file, sidecar, handle, reg, requests, tables, rows, edited, dead, erased>>
  /\ \/ r # Idle /\ r.op = req[th].op /\ r.by = req[th].by /\ failed' = failed
     \/ r = Idle /\ FailedBy(req[th].by, req[th].left)
  /\ req[th].stage \notin {"write", "unlink_schema"}

LEMMA LookingOwn ==
  ASSUME NEW r, OwnNumber(r), NEW n, n # r.by, NEW left,
         UNCHANGED <<file, requests, edited, dead, erased>>, FailedBy(n, left)
  PROVE  OwnNumber(r)'
BY DEF OwnNumber, FailedBy

LEMMA LookingOther ==
  ASSUME NEW r, Opening(r) /\ Shape(r) /\ Dropping(r) /\ OnRows(r),
         UNCHANGED <<file, sidecar, handle, reg, requests, tables, rows>>
  PROVE  (Opening(r) /\ Shape(r) /\ Dropping(r) /\ OnRows(r))'
<1>1. Opening(r)'
  BY DEF Opening, Sidecar
<1>2. Shape(r)'
  BY DEF Shape, Sidecar
<1>3. Dropping(r)'
  BY DEF Dropping, Uses, Sidecar
<1>4. OnRows(r)'
  BY DEF OnRows
<1> QED
  BY <1>1, <1>2, <1>3, <1>4

LEMMA LookingSound ==
  ASSUME NEW r, Sound(r), NEW n, r # Idle => n # r.by, NEW left,
         UNCHANGED <<file, sidecar, handle, reg, requests, tables, rows, edited, dead, erased>>,
         FailedBy(n, left)
  PROVE  Sound(r)'
<1> SUFFICES ASSUME r # Idle
             PROVE  (RightPath(r) /\ OwnNumber(r) /\ Opening(r) /\ Shape(r) /\ Dropping(r) /\ OnRows(r))'
  BY DEF Sound
<1>1. RightPath(r) /\ OwnNumber(r) /\ Opening(r) /\ Shape(r) /\ Dropping(r) /\ OnRows(r)
  BY DEF Sound
<1>2. OwnNumber(r)'
  BY <1>1, LookingOwn
<1>3. RightPath(r)'
  BY <1>1 DEF RightPath
<1> QED
  BY <1>1, <1>2, <1>3, LookingOther

(* No change of the tables is under way at th. *)
LEMMA PlainSnapshots ==
  ASSUME TypeInv, IInv, NEW th \in Threads, NEW r, Moved(th, r), UNCHANGED <<sidecar, handle, reg>>,
         req[th].stage \notin Saving, r.stage \notin Saving
  PROVE  Snapshots'
<1>1. req'[th] = r /\ \A u \in Threads : u # th => req'[u] = req[u]
  BY MovedFacts
<1>2. \A u \in Threads : req[u].stage \in Saving \/ req'[u].stage \in Saving => req'[u] = req[u]
  BY <1>1
<1>3. \A t \in Tables : (Unread(t) => Unread(t)') /\ (Unwritten(t) => Unwritten(t)')
  BY <1>2 DEF Unread, Unwritten, Saving
<1>4. \A u \in Threads : Writing(u)' => Writing(u) /\ req'[u] = req[u]
  BY <1>2 DEF Writing, Saving
<1> QED
  BY <1>3, <1>4 DEF IInv, Snapshots, Sidecar

LEMMA LookingStep ==
  ASSUME TypeInv, IInv, NEW th \in Threads, Busy(th), NEW r, Looks(th, r), Sound(r), Snapshots'
  PROVE  IInv'
<1> USE DEF IInv
<1>1. req'[th] = r /\ \A u \in Threads : u # th => req'[u] = req[u]
  BY MovedFacts DEF Looks
<1>2. /\ UNCHANGED <<file, sidecar, handle, reg, requests, tables, rows, edited, dead, erased>>
      /\ FailedBy(req[th].by, req[th].left)
  BY DEF Looks, FailedBy
<1>3. OwnNumber(req[th])
  BY SoundFacts
<1>4. Requested'
  <2>1. Moved(th, r)
    BY DEF Looks
  <2>2. Sound(r)'
    <3>1. CASE r = Idle
      BY <3>1 DEF Sound
    <3>2. CASE r # Idle
      <4>1. FailedBy(r.by + 1, {})
        BY <3>2 DEF Looks, FailedBy
      <4>2. PICK n : n = r.by + 1
        OBVIOUS
      <4>3. r.by \in Nat
        BY <1>3, <3>2, BoundAssumption DEF OwnNumber, Looks, TypeInv
      <4> QED
        BY <1>2, <4>1, <4>2, <4>3, LookingSound
    <3> QED
      BY <3>1, <3>2
  <2>3. ASSUME NEW u \in Threads, u # th, Busy(u)
        PROVE  \E s : s = req[u] /\ Sound(s)'
    <3>1. PICK s : s = req[u]
      OBVIOUS
    <3>2. PICK n, left : n = req[th].by /\ left = req[th].left
      OBVIOUS
    <3>3. Sound(s) /\ s.by # n
      BY <2>3, <3>1, <3>2, Beside DEF Requested
    <3>4. Sound(s)'
      BY <1>2, <3>2, <3>3, LookingSound
    <3> QED
      BY <3>1, <3>4
  <2> QED
    BY <2>1, <2>2, <2>3, RequestedKept
<1>5. Taking'
  BY <1>2, TakingKept DEF Looks
<1>6. Stored'
  <2>1. \A u \in Threads : req[u].stage \in {"write", "unlink_schema"} => req'[u].stage = req[u].stage
    BY <1>1 DEF Looks
  <2> QED
    BY <1>2, <2>1 DEF Stored
<1>7. Earlier'
  BY <1>2 DEF Earlier
<1>8. Bounds'
  <2>1. \A f \in failed' : f[1] \in 2 .. requests
    BY <1>2, <1>3 DEF Bounds, FailedBy, OwnNumber
  <2> QED
    BY <1>2, <2>1 DEF Bounds, Uses, Sidecar
<1>9. NoneDead'
  BY <1>2 DEF NoneDead, Sidecar
<1>10. RowsRight'
  <2>1. file # None => \A t \in req[th].left, i \in Ids : file.rows[t][i] # None => file.rows[t][i].by # req[th].by
    BY <1>3 DEF OwnNumber
  <2>2. failed' \subseteq failed \cup {req[th].by} \X req[th].left
    BY <1>2 DEF FailedBy
  <2> QED
    BY <1>2, <2>1, <2>2 DEF RowsRight
<1>11. TablesSurvive'
  <2>1. \A u \in Threads : req[u].stage = "write" => req'[u] = req[u]
    BY <1>1 DEF Looks
  <2> QED
    BY <1>2, <2>1 DEF TablesSurvive
<1>12. RowsAreKept'
  BY <1>2 DEF RowsAreKept
<1> QED
  BY <1>4, <1>5, <1>6, <1>7, <1>8, <1>9, <1>10, <1>11, <1>12

(* A request that is ahead of where it was, with no table half changed. *)
Ahead(r, s) ==
  /\ s.op = r.op /\ s.by = r.by /\ s.left = r.left
  /\ s.stage \notin Saving \cup {"forget", "acknowledge", "connect", "publish", "unlink", "unlink_schema"}
  /\ s.stage \in Defined => s.make = {} \/ (r.stage \in Defined /\ s.make = r.make)
  /\ s.stage \in Inside => handle # None /\ s.h = handle
  /\ s.stage = "exists" /\ s.op.kind = "import" => handle = None
  /\ s.stage = "get" /\ s.next \in {"define", "insert"} => handle # None
  /\ s.stage = "define" \/ (s.stage = "get" /\ s.next = "define") =>
       \A t \in s.make : reg[handle][t] = NoTable

LEMMA AheadSound ==
  ASSUME NEW r, NEW s, OwnNumber(r), Opening(r), Shape(r), Dropping(r), Ahead(r, s), RightPath(s), OnRows(s)
  PROVE  Sound(s)
<1>1. OwnNumber(s)
  BY DEF OwnNumber, Ahead
<1>2. Opening(s)
  BY DEF Opening, Ahead
<1>3. Shape(s)
  BY DEF Shape, Ahead, Saving
<1>4. Dropping(s)
  BY DEF Dropping, Ahead
<1> QED
  BY <1>1, <1>2, <1>3, <1>4 DEF Sound

LEMMA EndingStep ==
  ASSUME TypeInv, IInv, NEW th \in Threads, Busy(th), Done(th),
         UNCHANGED <<file, sidecar, handle, reg, requests, tables, rows, edited, dead, erased>>,
         failed' = failed \/ Failed(th),
         req[th].stage \notin Saving \cup {"unlink_schema"}
  PROVE  IInv'
<1>1. Looks(th, Idle) /\ Sound(Idle)
  BY DEF Done, Looks, Moved, Sound, Saving, FailedBy, Failed
<1>2. Idle.stage \notin Saving
  BY DEF Idle, Saving
<1>3. Snapshots'
  BY <1>1, <1>2, PlainSnapshots DEF Looks
<1> QED
  BY <1>1, <1>3, LookingStep

LEMMA RaisingStep ==
  ASSUME TypeInv, IInv, NEW th \in Threads, Busy(th), Raise(th), UNCHANGED <<requests, crashes>>,
         req[th].stage \notin Saving \cup {"unlink_schema"}
  PROVE  IInv'
BY EndingStep DEF Raise, memory

(* A request that only goes on: what it is then, and that it may.          *)
LEMMA GoingStep ==
  ASSUME TypeInv, IInv, NEW th \in Threads, Busy(th), NEW s,
         Moved(th, s), UNCHANGED <<file, sidecar, memory, requests, history>>,
         req[th].stage \notin Saving \cup {"unlink_schema"},
         s # Idle, Ahead(req[th], s), RightPath(s), OnRows(s)
  PROVE  IInv'
<1>1. OwnNumber(req[th]) /\ Opening(req[th]) /\ Shape(req[th]) /\ Dropping(req[th])
  BY SoundFacts DEF IInv
<1>2. Sound(s)
  BY <1>1, AheadSound
<1>3. Looks(th, s)
  BY DEF Looks, Ahead, Saving, memory, history
<1>4. Snapshots'
  BY PlainSnapshots DEF Ahead, memory
<1> QED
  BY <1>2, <1>3, <1>4, LookingStep

LEMMA StageMoved ==
  ASSUME TypeInv, NEW th \in Threads, NEW stage \in Stages \ {"idle"}, Goto(th, stage)
  PROVE  \E s : /\ Moved(th, s) /\ s # Idle /\ s.stage = stage
                /\ s.op = req[th].op /\ s.by = req[th].by /\ s.next = req[th].next /\ s.h = req[th].h
                /\ s.seen = req[th].seen /\ s.dump = req[th].dump
                /\ s.make = req[th].make /\ s.left = req[th].left /\ s.into = req[th].into
<1> DEFINE s == [req[th] EXCEPT !.stage = stage]
<1>1. req[th] \in Progress
  BY StageFacts
<1>2. s.stage = stage /\ s.op = req[th].op /\ s.by = req[th].by /\ s.next = req[th].next /\ s.h = req[th].h
      /\ s.seen = req[th].seen /\ s.dump = req[th].dump
      /\ s.make = req[th].make /\ s.left = req[th].left /\ s.into = req[th].into
  BY <1>1 DEF Progress
<1>3. Moved(th, s)
  BY DEF Goto, Moved, TypeInv
<1> HIDE DEF s
<1>4. s # Idle
  BY <1>2 DEF Idle
<1> QED
  BY <1>2, <1>3, <1>4

LEMMA TakeMoved ==
  ASSUME TypeInv, NEW th \in Threads, NEW stage \in Stages \ {"idle"}, NEW what, Take(th, stage, what)
  PROVE  \E s : /\ Moved(th, s) /\ s # Idle /\ s.stage = stage /\ s.seen = what
                /\ s.op = req[th].op /\ s.by = req[th].by /\ s.next = req[th].next /\ s.h = req[th].h
                /\ s.dump = req[th].dump
                /\ s.make = req[th].make /\ s.left = req[th].left /\ s.into = req[th].into
<1> DEFINE s == [req[th] EXCEPT !.stage = stage, !.seen = what]
<1>1. req[th] \in Progress
  BY StageFacts
<1>2. s.stage = stage /\ s.op = req[th].op /\ s.by = req[th].by /\ s.next = req[th].next /\ s.h = req[th].h
      /\ s.seen = what /\ s.dump = req[th].dump
      /\ s.make = req[th].make /\ s.left = req[th].left /\ s.into = req[th].into
  BY <1>1 DEF Progress
<1>3. Moved(th, s)
  BY DEF Take, Moved, TypeInv
<1> HIDE DEF s
<1>4. s # Idle
  BY <1>2 DEF Idle
<1> QED
  BY <1>2, <1>3, <1>4

LEMMA PathMoved ==
  ASSUME TypeInv, NEW th \in Threads, NEW stage \in Stages \ {"idle"}, NEW next, NEW make,
         SentTo(th, stage, next, make)
  PROVE  \E s : /\ Moved(th, s) /\ s # Idle /\ s.stage = stage /\ s.next = next /\ s.make = make
                /\ s.op = req[th].op /\ s.by = req[th].by /\ s.h = req[th].h /\ s.left = req[th].left
<1> DEFINE s == [req[th] EXCEPT !.stage = stage, !.next = next, !.make = make]
<1>1. req[th] \in Progress
  BY StageFacts
<1>2. /\ s.stage = stage /\ s.op = req[th].op /\ s.by = req[th].by /\ s.next = next /\ s.h = req[th].h
      /\ s.make = make /\ s.left = req[th].left
  BY <1>1 DEF Progress
<1>3. Moved(th, s)
  BY DEF SentTo, Moved, TypeInv
<1> HIDE DEF s
<1>4. s # Idle
  BY <1>2 DEF Idle
<1> QED
  BY <1>2, <1>3, <1>4

EntersBy(th, stage, h) == req' = [req EXCEPT ![th].stage = stage, ![th].h = h]

LEMMA OpenMoved ==
  ASSUME TypeInv, NEW th \in Threads, NEW stage \in Stages \ {"idle"}, NEW h, EntersBy(th, stage, h)
  PROVE  \E s : /\ Moved(th, s) /\ s # Idle /\ s.stage = stage /\ s.h = h
                /\ s.op = req[th].op /\ s.by = req[th].by /\ s.next = req[th].next
                /\ s.make = req[th].make /\ s.left = req[th].left
<1> DEFINE s == [req[th] EXCEPT !.stage = stage, !.h = h]
<1>1. req[th] \in Progress
  BY StageFacts
<1>2. /\ s.stage = stage /\ s.op = req[th].op /\ s.by = req[th].by /\ s.next = req[th].next /\ s.h = h
      /\ s.make = req[th].make /\ s.left = req[th].left
  BY <1>1 DEF Progress
<1>3. Moved(th, s)
  BY DEF EntersBy, Moved, TypeInv
<1> HIDE DEF s
<1>4. s # Idle
  BY <1>2 DEF Idle
<1> QED
  BY <1>2, <1>3, <1>4

LEMMA LookingActions ==
  ASSUME TypeInv, IInv, NEW th \in Threads,
         \/ CheckFree(th) \/ CreateTable(th) \/ Validate(th) \/ CheckIds(th) \/ FindRow(th) \/ Match(th)
         \/ Prepare(th) \/ Plan(th)
  PROVE  IInv'
<1> USE DEF Stages
<1> PICK r : r = req[th]
  OBVIOUS
<1>1. r.stage \in {"exists", "run", "insert", "check_ids", "prepare", "plan"}
  BY DEF CheckFree, CreateTable, Validate, CheckIds, FindRow, Match, Prepare, Plan, At
<1>2. Busy(th)
  BY <1>1, BusyStage
<1>3. /\ RightRequest(r) /\ RightPath(r) /\ OwnNumber(r) /\ Opening(r) /\ Shape(r) /\ Dropping(r) /\ OnRows(r)
      /\ r.op.kind \in KindsAt(r.stage)
  BY <1>2, SoundFacts DEF IInv, RightRequest
<1>4. UNCHANGED <<requests, crashes>>
  BY DEF CheckFree, CreateTable, Validate, CheckIds, FindRow, Match, Prepare, Plan
<1>5. CASE Raise(th)
  BY <1>1, <1>2, <1>4, <1>5, RaisingStep DEF Saving
<1>6. ASSUME NEW s, Moved(th, s), UNCHANGED <<file, sidecar, memory, history>>, s # Idle,
             Ahead(r, s), RightPath(s), OnRows(s)
      PROVE  IInv'
  BY <1>1, <1>2, <1>4, <1>6, GoingStep DEF Saving
<1>7. r.stage \in Inside => handle # None /\ r.h = handle /\ Registry(th) = reg[handle]
  BY <1>3 DEF Opening, Registry
<1> USE DEF Ahead, RightPath, OnRows, Inside, Saving, Defined
<1>8. CASE CheckFree(th) /\ ~Raise(th)
  <2>1. /\ r.stage = "exists" /\ Goto(th, "connect") /\ handle = None /\ file = None
        /\ UNCHANGED <<file, sidecar, memory, history>>
    BY <1>8 DEF CheckFree, Exists
  <2>2. PICK s : /\ Moved(th, s) /\ s # Idle /\ s.stage = "connect"
                 /\ s.op = r.op /\ s.by = r.by /\ s.next = r.next /\ s.left = r.left /\ s.make = r.make
    BY <2>1, StageMoved
  <2>3. sidecar = None
    <3>1. \A u \in Threads : u # th => req[u] = Idle
      BY <1>2, <2>1, Alone DEF IInv
    <3>2. \A u \in Threads : req[u].stage # "unlink_schema"
      BY <2>1, <3>1 DEF Idle
    <3> QED
      BY <2>1, <3>2 DEF IInv, Stored
  <2>4. Opening(s)
    BY <1>3, <2>1, <2>2, <2>3 DEF Opening
  <2>5. RightPath(s)
    BY <1>3, <2>1, <2>2
  <2>6. OwnNumber(s)
    BY <1>3, <2>1, <2>2 DEF OwnNumber
  <2>7. r.op.kind \in {"create", "import"}
    BY <1>3, <2>1 DEF KindsAt
  <2>8. Shape(s) /\ Dropping(s) /\ OnRows(s)
    BY <2>2, <2>7 DEF Shape, Dropping
  <2>9. Sound(s)
    BY <2>4, <2>5, <2>6, <2>8 DEF Sound
  <2>10. Looks(th, s)
    BY <1>4, <2>1, <2>2 DEF Looks, memory, history
  <2>11. Snapshots'
    BY <2>1, <2>2, PlainSnapshots DEF memory
  <2> QED
    BY <1>2, <2>9, <2>10, <2>11, LookingStep
<1>9. CASE CreateTable(th) /\ ~Raise(th)
  <2>1. /\ r.stage = "run" /\ r.op.kind = "create_table" /\ r.op.tables = {r.op.table}
        /\ req' = [req EXCEPT ![th].stage = "define", ![th].make = r.op.tables]
        /\ Registry(th)[r.op.table] = NoTable /\ UNCHANGED <<file, sidecar, memory, history>>
    BY <1>3, <1>9 DEF CreateTable, At, Has, Name, RightRequest, Progress, Ops, TableKinds
  <2> DEFINE s == [r EXCEPT !.stage = "define", !.make = r.op.tables]
  <2>2. /\ s.stage = "define" /\ s.op = r.op /\ s.by = r.by /\ s.next = r.next /\ s.h = r.h
        /\ s.left = r.left /\ s.make = {r.op.table}
    BY <1>3, <2>1 DEF RightRequest, Progress
  <2>3. Moved(th, s)
    BY <2>1 DEF Moved, TypeInv
  <2> HIDE DEF s
  <2>4. Ahead(r, s) /\ RightPath(s) /\ OnRows(s) /\ s # Idle
    BY <1>3, <1>7, <2>1, <2>2 DEF Shaping, Idle
  <2> QED
    BY <1>6, <2>1, <2>3, <2>4
<1>10. CASE Validate(th) /\ ~Raise(th)
  <2>1. PICK t \in r.left :
          /\ r.stage \in {"run", "insert"} /\ r.op.kind \in {"insert", "import"}
          /\ r.op.kind = "import" => r.stage = "insert"
          /\ req' = [req EXCEPT ![th].stage = "check_ids", ![th].into = t, ![th].seen = Registry(th)[t]]
          /\ Registry(th)[t] # NoTable /\ UNCHANGED <<file, sidecar, memory, history>>
    BY <1>10 DEF Validate, At, Has
  <2> DEFINE s == [r EXCEPT !.stage = "check_ids", !.into = t, !.seen = Registry(th)[t]]
  <2>2. /\ s.stage = "check_ids" /\ s.seen = Registry(th)[t] /\ s.into = t
        /\ s.op = r.op /\ s.by = r.by /\ s.next = r.next /\ s.h = r.h /\ s.make = r.make /\ s.left = r.left
    BY <1>3 DEF RightRequest, Progress
  <2>3. Moved(th, s)
    BY <2>1 DEF Moved, TypeInv
  <2> HIDE DEF s
  <2>4. r.op.kind = "insert" => r.make = {}
    BY <1>3 DEF Shaping
  <2>5. Ahead(r, s) /\ RightPath(s) /\ OnRows(s) /\ s # Idle
    BY <1>3, <1>7, <2>1, <2>2, <2>4 DEF Idle
  <2> QED
    BY <1>6, <2>1, <2>3, <2>5
<1>11. CASE CheckIds(th) /\ ~Raise(th)
  <2>1. r.stage = "check_ids" /\ Goto(th, "put") /\ UNCHANGED <<file, sidecar, memory, history>>
    BY <1>11 DEF CheckIds
  <2>2. PICK s : /\ Moved(th, s) /\ s # Idle /\ s.stage = "put" /\ s.seen = r.seen
                 /\ s.make = r.make /\ s.left = r.left /\ s.into = r.into
                 /\ s.op = r.op /\ s.by = r.by /\ s.next = r.next /\ s.h = r.h
    BY <2>1, StageMoved
  <2>3. Ahead(r, s) /\ RightPath(s) /\ OnRows(s)
    BY <1>3, <1>7, <2>1, <2>2
  <2> QED
    BY <1>6, <2>1, <2>2, <2>3
<1>12. CASE FindRow(th) /\ ~Raise(th)
  <2>1. r.stage = "run" /\ Goto(th, "erase") /\ UNCHANGED <<file, sidecar, memory, history>>
    BY <1>12 DEF FindRow, At
  <2>2. PICK s : /\ Moved(th, s) /\ s # Idle /\ s.stage = "erase"
                 /\ s.op = r.op /\ s.by = r.by /\ s.next = r.next /\ s.h = r.h
                 /\ s.make = r.make /\ s.left = r.left
    BY <2>1, StageMoved
  <2>3. Ahead(r, s) /\ RightPath(s) /\ OnRows(s)
    BY <1>3, <1>7, <2>1, <2>2
  <2> QED
    BY <1>6, <2>1, <2>2, <2>3
<1>13. CASE Match(th) /\ ~Raise(th)
  <2> PICK what : what = {<<i, file.rows[Name(th)][i]>> : i \in {j \in Ids : file.rows[Name(th)][j] # None}}
    OBVIOUS
  <2>1. r.stage = "run" /\ Take(th, "rewrite", what) /\ UNCHANGED <<file, sidecar, memory, history>>
    BY <1>13 DEF Match, At
  <2>2. PICK s : /\ Moved(th, s) /\ s # Idle /\ s.stage = "rewrite" /\ s.seen = what
                 /\ s.op = r.op /\ s.by = r.by /\ s.next = r.next /\ s.h = r.h
                 /\ s.make = r.make /\ s.left = r.left
    BY <2>1, TakeMoved
  <2>3. \A m \in what : file.rows[r.op.table][m[1]] = m[2]
    BY DEF Name
  <2>4. Ahead(r, s) /\ RightPath(s) /\ OnRows(s)
    BY <1>3, <1>7, <2>1, <2>2, <2>3
  <2> QED
    BY <1>6, <2>1, <2>2, <2>4
<1>14. CASE Prepare(th) /\ ~Raise(th)
  <2>1. /\ r.stage = "prepare" /\ r.op.kind = "import" /\ UNCHANGED <<file, sidecar, memory, history>>
        /\ \/ r.op.how # "rows" /\ handle = None /\ SentTo(th, "exists", "define", r.op.tables)
           \/ req' = [req EXCEPT ![th].stage = "get", ![th].next = "plan"]
    BY <1>3, <1>14 DEF Prepare, KindsAt, Exists, SentTo
  <2>2. CASE r.op.how # "rows" /\ handle = None /\ SentTo(th, "exists", "define", r.op.tables)
    <3>1. PICK s : /\ Moved(th, s) /\ s # Idle /\ s.stage = "exists" /\ s.next = "define" /\ s.make = r.op.tables
                   /\ s.op = r.op /\ s.by = r.by /\ s.h = r.h /\ s.left = r.left
      BY <2>2, PathMoved
    <3>2. Ahead(r, s) /\ RightPath(s) /\ OnRows(s)
      BY <1>3, <1>7, <2>1, <2>2, <3>1 DEF Shaping
    <3> QED
      BY <1>6, <2>1, <3>1, <3>2
  <2>3. CASE req' = [req EXCEPT ![th].stage = "get", ![th].next = "plan"]
    <3>1. SentTo(th, "get", "plan", r.make)
      BY <1>3, <2>3 DEF SentTo, TypeInv, Progress
    <3>2. PICK make : make = r.make
      OBVIOUS
    <3>3. PICK s : /\ Moved(th, s) /\ s # Idle /\ s.stage = "get" /\ s.next = "plan" /\ s.make = make
                   /\ s.op = r.op /\ s.by = r.by /\ s.h = r.h /\ s.left = r.left
      BY <3>1, <3>2, PathMoved
    <3>4. Ahead(r, s) /\ RightPath(s) /\ OnRows(s)
      BY <1>3, <1>7, <2>1, <3>2, <3>3
    <3> QED
      BY <1>6, <2>1, <3>3, <3>4
  <2> QED
    BY <2>1, <2>2, <2>3
<1>15. CASE Plan(th) /\ ~Raise(th)
  <2> PICK missing : missing = r.op.tables \ {t \in r.op.tables : Has(Registry(th), t)}
    OBVIOUS
  <2>1. /\ r.stage = "plan" /\ r.op.kind = "import" /\ UNCHANGED <<file, sidecar, memory, history>>
        /\ missing # {} => r.op.how # "rows"
        /\ req' = [req EXCEPT ![th].stage = "get", ![th].make = missing,
                              ![th].next = IF missing = {} THEN "insert" ELSE "define"]
    BY <1>3, <1>15 DEF Plan, KindsAt
  <2>2. PICK next \in {"insert", "define"} : next = IF missing = {} THEN "insert" ELSE "define"
    OBVIOUS
  <2>3. SentTo(th, "get", next, missing)
    BY <2>1, <2>2 DEF SentTo, TypeInv, Progress
  <2>4. PICK s : /\ Moved(th, s) /\ s # Idle /\ s.stage = "get" /\ s.next = next /\ s.make = missing
                 /\ s.op = r.op /\ s.by = r.by /\ s.h = r.h /\ s.left = r.left
    BY <2>3, PathMoved
  <2>5. \A t \in missing : Registry(th)[t] = NoTable
    BY DEF Has
  <2>6. Ahead(r, s) /\ RightPath(s) /\ OnRows(s)
    BY <1>3, <1>7, <2>1, <2>2, <2>4, <2>5 DEF Shaping
  <2> QED
    BY <1>6, <2>1, <2>4, <2>6
<1> QED
  BY <1>5, <1>8, <1>9, <1>10, <1>11, <1>12, <1>13, <1>14, <1>15

LEMMA DumpStep ==
  ASSUME TypeInv, IInv, Windows', NEW th \in Threads, Dump(th)
  PROVE  IInv'
<1> USE DEF Stages
<1> PICK r : r = req[th]
  OBVIOUS
<1>1. Busy(th) /\ r.stage = "dump"
  BY BusyStage DEF Dump
<1>2. /\ RightRequest(r) /\ RightPath(r) /\ OwnNumber(r) /\ Opening(r) /\ Shape(r) /\ Dropping(r)
      /\ r.op.kind \in KindsAt(r.stage) /\ r \in Progress
  BY <1>1, SoundFacts DEF IInv, RightRequest
<1>3. handle # None
  BY <1>1, <1>2 DEF Opening, Inside, Saving
<1> DEFINE s == [r EXCEPT !.stage = "truncate", !.dump = reg[handle]]
<1>4. /\ s.stage = "truncate" /\ s.dump = reg[handle] /\ s.op = r.op /\ s.by = r.by /\ s.next = r.next
      /\ s.h = r.h /\ s.seen = r.seen /\ s.make = r.make /\ s.left = r.left
  BY <1>2 DEF Progress
<1>5. Moved(th, s)
  BY <1>3 DEF Dump, Moved, TypeInv
<1> HIDE DEF s
<1>6. RightPath(s)
  BY <1>1, <1>2, <1>4 DEF RightPath, Saving
<1>7. OwnNumber(s)
  BY <1>2, <1>4 DEF OwnNumber
<1>8. Opening(s)
  BY <1>1, <1>2, <1>4 DEF Opening, Inside, Saving
<1>9. Shape(s)
  BY <1>1, <1>2, <1>4 DEF Shape, Saving, Defined, Changed
<1>10. Dropping(s)
  BY <1>1, <1>2, <1>4 DEF Dropping, Saving
<1>11. Sound(s)
  BY <1>4, <1>6, <1>7, <1>8, <1>9, <1>10 DEF Sound, OnRows
<1>12. s # Idle
  BY <1>4 DEF Idle
<1>13. Looks(th, s)
  BY <1>1, <1>4, <1>5, <1>12 DEF Looks, Dump, memory, history
<1>14. req'[th] = s /\ \A u \in Threads : u # th => req'[u] = req[u]
  BY <1>5, MovedFacts
<1>15. Snapshots'
  <2>1. \A u \in Threads : Writing(u)' => u = th
    BY <1>4, <1>14 DEF Windows, Writing
  <2>2. \A t \in Tables : Unwritten(t) => Unwritten(t)'
    BY <1>1, <1>4, <1>14 DEF Unwritten, Saving, Changed
  <2>3. UNCHANGED <<sidecar, handle, reg>>
    BY <1>13 DEF Looks
  <2> QED
    BY <1>4, <1>14, <2>1, <2>2, <2>3 DEF IInv, Snapshots, Sidecar
<1> QED
  BY <1>1, <1>11, <1>13, <1>15, LookingStep

(* The registry that serves the database has what was acknowledged: then   *)
(* the sidecar has it, or will.                                            *)
InStep ==
  /\ Requested /\ Stored /\ Snapshots /\ handle # None
  /\ \A t \in Tables : tables[t] # NoTable => reg[handle][t] = tables[t]

LEMMA Surviving == InStep => TablesSurvive
<1> SUFFICES ASSUME InStep, NEW t \in Tables, tables[t] # NoTable
             PROVE  /\ reg[handle][t] = tables[t]
                    /\ \/ sidecar \notin {None, Torn} /\ sidecar[t] = tables[t]
                       \/ sidecar = Torn /\ \E th \in Threads : req[th].stage = "write" /\ req[th].dump[t] = tables[t]
  BY DEF TablesSurvive
<1>1. reg[handle][t] = tables[t]
  BY DEF InStep
<1>2. ~Unwritten(t)
  <2> SUFFICES ASSUME NEW th \in Threads, req[th].stage \in Saving, t \in Changed(req[th])
               PROVE  FALSE
    BY DEF Unwritten
  <2>1. req[th] # Idle
    BY DEF Idle, Saving
  <2> QED
    BY <2>1 DEF InStep, Requested, Sound, Shape
<1>3. ~Unread(t)
  BY <1>2 DEF Unread, Unwritten, Saving
<1>4. CASE sidecar = Torn
  <2>1. PICK th \in Threads : req[th].stage = "write"
    BY <1>4 DEF InStep, Stored
  <2>2. req[th].dump[t] = reg[handle][t]
    BY <1>3, <2>1 DEF InStep, Snapshots, Writing
  <2> QED
    BY <1>1, <1>4, <2>1, <2>2
<1>5. CASE sidecar # Torn
  <2>1. Sidecar[t] = tables[t]
    BY <1>1, <1>2, <1>5 DEF InStep, Snapshots
  <2>2. Empty[t] = NoTable
    BY DEF Empty
  <2> QED
    BY <1>1, <1>5, <2>1, <2>2 DEF Sidecar
<1> QED
  BY <1>4, <1>5

-----------------------------------------------------------------------------
(* Steps of a request that is alone: it opens the database, or changes it  *)
(* in a way no other may be beside.                                        *)

OnlyAt(th) == \A u \in Threads : u # th => req[u] = Idle

LEMMA AloneRequested ==
  ASSUME TypeInv, NEW th \in Threads, OnlyAt(th), NEW s, Moved(th, s), Sound(s)'
  PROVE  /\ Requested' /\ Taking' /\ req'[th] = s
         /\ \A u \in Threads : u # th => req'[u] = Idle /\ req[u] = Idle
         /\ \A u \in Threads : u # th => req'[u].stage = "idle" /\ req[u].stage = "idle"
<1>1. req'[th] = s /\ \A u \in Threads : u # th => req'[u] = Idle /\ req[u] = Idle
  BY MovedFacts DEF OnlyAt
<1>2. Requested'
  BY RequestedKept DEF OnlyAt, Busy
<1>3. Taking'
  BY <1>1 DEF Taking, Busy
<1>4. Idle.stage = "idle"
  BY DEF Idle
<1> QED
  BY <1>1, <1>2, <1>3, <1>4

LEMMA AloneHere ==
  ASSUME TypeInv, IInv, NEW th \in Threads, Busy(th), handle = None \/ Structural(req[th].op)
  PROVE  OnlyAt(th)
BY Alone DEF IInv, OnlyAt

(* No change of the tables is under way: the sidecar is the registry.      *)
LEMMA QuietSnapshots ==
  ASSUME TypeInv, NEW th \in Threads, OnlyAt(th), NEW s, Moved(th, s), s.stage \notin Saving,
         handle' # None /\ sidecar' # Torn => \A t \in Tables : Sidecar'[t] = reg'[handle'][t]
  PROVE  Snapshots'
<1>1. req'[th] = s /\ \A u \in Threads : u # th => req'[u] = Idle
  BY MovedFacts DEF OnlyAt
<1>2. \A u \in Threads : req'[u].stage \notin Saving
  BY <1>1 DEF Idle, Saving
<1> QED
  BY <1>2 DEF Snapshots, Writing, Saving

LEMMA Quiet ==
  ASSUME TypeInv, IInv, NEW th \in Threads, OnlyAt(th), req[th].stage \notin Saving
  PROVE  /\ handle # None => sidecar # Torn /\ reg[handle] = Sidecar
         /\ sidecar = Torn => handle = None
<1>1. \A u \in Threads : req[u].stage \notin Saving
  BY DEF OnlyAt, Idle, Saving
<1>2. sidecar = Torn => handle = None
  BY <1>1 DEF IInv, Stored, Saving
<1>3. handle # None => \A t \in Tables : Sidecar[t] = reg[handle][t]
  BY <1>1, <1>2 DEF IInv, Snapshots, Unwritten
<1>4. Sidecar \in Registries
  BY EmptyTypes DEF TypeInv, Sidecar
<1>5. handle # None => reg[handle] \in Registries
  BY DEF TypeInv
<1> QED
  BY <1>2, <1>3, <1>4, <1>5 DEF Registries

LEMMA MigratedSame ==
  ASSUME NEW f \in Files, f.blocks = {}
  PROVE  Migrated(f) = f
<1>1. f.rows \in [Tables -> [Ids -> Rows \cup {None}]] /\ f = [rows |-> f.rows, blocks |-> f.blocks]
  BY DEF Files
<1>2. \A t \in Tables : [i \in Ids |-> f.rows[t][i]] = f.rows[t]
  BY <1>1
<1>3. [t \in Tables |-> [i \in Ids |-> f.rows[t][i]]] = f.rows
  BY <1>1, <1>2
<1>4. Migrated(f).rows = [t \in Tables |-> [i \in Ids |-> f.rows[t][i]]] /\ Migrated(f).blocks = {}
  BY DEF Migrated
<1>5. Migrated(f) = [rows |-> Migrated(f).rows, blocks |-> Migrated(f).blocks]
  BY DEF Migrated
<1> QED
  BY <1>1, <1>3, <1>4, <1>5

LEMMA GetThere ==
  ASSUME TypeInv, IInv, NEW th \in Threads, Get(th), handle # None
  PROVE  IInv'
<1> PICK r : r = req[th]
  OBVIOUS
<1>1. Busy(th) /\ r.stage = "get" /\ UNCHANGED <<file, sidecar, memory, requests, history>>
  BY BusyStage DEF Get, Raise, memory, history
<1>2. /\ RightRequest(r) /\ RightPath(r) /\ OwnNumber(r) /\ Opening(r) /\ Dropping(r)
      /\ r.op.kind \in KindsAt(r.stage) /\ r \in Progress
  BY <1>1, SoundFacts DEF IInv, RightRequest
<1>3. r.next \in {"run", "define", "plan", "insert"} /\ r.next \in Stages \ {"idle"}
  BY <1>1, <1>2 DEF RightPath, Stages
<1>4. EntersBy(th, r.next, handle)
  BY DEF Get, Raise, EntersBy
<1>5. PICK s : /\ Moved(th, s) /\ s # Idle /\ s.stage = r.next /\ s.h = handle
               /\ s.op = r.op /\ s.by = r.by /\ s.next = r.next /\ s.make = r.make /\ s.left = r.left
  BY <1>3, <1>4, OpenMoved
<1>6. Ahead(r, s)
  BY <1>1, <1>2, <1>3, <1>5 DEF Ahead, Opening, RightPath, Saving, Inside, Defined
<1>7. RightPath(s)
  BY <1>1, <1>2, <1>3, <1>5 DEF RightPath, Saving
<1>8. OnRows(s)
  BY <1>3, <1>5 DEF OnRows
<1> QED
  BY <1>1, <1>5, <1>6, <1>7, <1>8, GoingStep DEF Saving

LEMMA GetOpens ==
  ASSUME TypeInv, IInv, NEW th \in Threads, Get(th), handle = None, file # None, sidecar # Torn
  PROVE  IInv'
<1> USE DEF IInv
<1> PICK r : r = req[th]
  OBVIOUS
<1>1. Busy(th) /\ r.stage = "get" /\ UNCHANGED <<sidecar, handle, requests>>
  BY BusyStage DEF Get
<1>2. /\ RightRequest(r) /\ RightPath(r) /\ OwnNumber(r) /\ Opening(r) /\ Dropping(r)
      /\ r.op.kind \in KindsAt(r.stage) /\ r \in Progress /\ r.by \in Handles
  BY <1>1, SoundFacts DEF RightRequest
<1>3. OnlyAt(th)
  BY <1>1, AloneHere
<1>5. /\ file' = Migrated(file) /\ reg' = [reg EXCEPT ![r.by] = Sidecar]
      /\ EntersBy(th, "publish", r.by) /\ UNCHANGED <<tables, rows, edited, dead, erased, failed>>
  BY AbsentAssumption DEF Get, Raise, EntersBy, Sidecar, history
<1>6. PICK s : /\ Moved(th, s) /\ s # Idle /\ s.stage = "publish" /\ s.h = r.by
               /\ s.op = r.op /\ s.by = r.by /\ s.next = r.next /\ s.make = r.make /\ s.left = r.left
  BY <1>5, OpenMoved DEF Stages
<1>7. file \in Files /\ file' \in Files /\ file' # None /\ file'.blocks = {}
  BY <1>5, MigratedType, AbsentAssumption DEF TypeInv
<1>8. r.op.kind # "create" /\ r.next \in {"run", "plan"}
  BY <1>1, <1>2 DEF KindsAt, RightPath, Opening
\* what the rows are now
<1>9. \A t \in Tables, i \in Ids :
        IF <<t, i>> \in file.blocks /\ file.rows[t][i] = None
        THEN file'.rows[t][i] # None /\ file'.rows[t][i].table = 1 /\ file'.rows[t][i].by = 1
        ELSE file'.rows[t][i] = file.rows[t][i]
  <2>1. [table |-> 1, by |-> 1, edits |-> {}] # None
    BY Numbered, AbsentAssumption DEF Rows
  <2> QED
    BY <1>5, <2>1 DEF Migrated
<1>10. \A t \in Tables, i \in Ids : <<t, i>> \in file.blocks =>
         file'.rows[t][i] # None /\ (file.rows[t][i] = None => file'.rows[t][i].by = 1)
  BY <1>9
<1>11. \A n, t : (Uses(n, t))' => t \notin Tables \/ Uses(n, t) \/ n = 1
  BY <1>1, <1>7, <1>9 DEF Uses, Sidecar
<1>12. Sound(s)'
  <2>1. RightPath(s)
    BY <1>1, <1>2, <1>6, <1>8 DEF RightPath, Saving
  <2>2. r.by # 1 /\ \A t \in r.left, i \in Ids : file.rows[t][i] # None => file.rows[t][i].by # r.by
    BY <1>2 DEF OwnNumber
  <2>3. \A t \in r.left, i \in Ids : file'.rows[t][i] # None => file'.rows[t][i].by # r.by
    <3> SUFFICES ASSUME NEW t \in r.left, NEW i \in Ids, file'.rows[t][i] # None
                 PROVE  file'.rows[t][i].by # r.by
      OBVIOUS
    <3>1. t \in Tables
      BY <1>2 DEF Progress
    <3>2. CASE <<t, i>> \in file.blocks /\ file.rows[t][i] = None
      BY <1>9, <2>2, <3>1, <3>2
    <3>3. CASE ~(<<t, i>> \in file.blocks /\ file.rows[t][i] = None)
      <4>1. file'.rows[t][i] = file.rows[t][i]
        BY <1>9, <3>1, <3>3
      <4> QED
        BY <2>2, <4>1
    <3> QED
      BY <3>2, <3>3
  <2>4. OwnNumber(s)'
    BY <1>1, <1>2, <1>5, <1>6, <2>3 DEF OwnNumber
  <2>5. reg'[s.h] = Sidecar'
    BY <1>1, <1>2, <1>5, <1>6 DEF TypeInv, Sidecar
  <2>6. Opening(s)'
    BY <1>1, <1>2, <1>5, <1>6, <1>7, <1>8, <2>5 DEF Opening, Inside, Saving
  <2>7. Shape(s)' /\ OnRows(s)'
    BY <1>6 DEF Shape, OnRows, Saving, Defined
  <2>8. Dropping(s)'
    BY <1>2, <1>5, <1>6 DEF Dropping, Saving
  <2> QED
    BY <2>1, <2>4, <2>6, <2>7, <2>8 DEF Sound
<1>13. /\ Requested' /\ Taking' /\ req'[th] = s
       /\ \A u \in Threads : u # th => req'[u].stage = "idle" /\ req[u].stage = "idle"
  BY <1>3, <1>6, <1>12, AloneRequested
<1>14. Stored' /\ Earlier'
  BY <1>1, <1>7 DEF Stored, Earlier
<1>15. Snapshots'
  BY <1>1, <1>3, <1>6, QuietSnapshots DEF Saving
<1>16. file.blocks # {} => dead = {} /\ erased = {} /\ edited = {} /\ file.rows = NoRows
  BY <1>7 DEF Earlier
<1>17. Bounds'
  <2>1. 1 <= requests
    BY DEF TypeInv
  <2>2. \A n \in Creations, t \in Tables : (Uses(n, t))' => n <= requests'
    BY <1>1, <1>11, <2>1 DEF Bounds
  <2> QED
    BY <1>1, <1>5, <2>2 DEF Bounds
<1>19. NoneDead'
  BY <1>1, <1>5 DEF NoneDead, Sidecar
<1>20. RowsRight'
  <2>1. (\A t : <<1, t>> \notin failed) /\ 1 \in 1 .. requests
    <3>1. \A t : <<1, t>>[1] = 1
      OBVIOUS
    <3>2. 1 \notin 2 .. requests
      OBVIOUS
    <3> QED
      BY <3>1, <3>2 DEF Bounds, TypeInv
  <2> SUFFICES ASSUME NEW t \in Tables, NEW i \in Ids, file'.rows[t][i] # None
               PROVE  /\ <<t, file'.rows[t][i].table>> \notin dead
                      /\ <<file'.rows[t][i].by, t>> \notin failed /\ file'.rows[t][i].by \in 1 .. requests
                      /\ \A e \in erased : e[1] = t /\ e[2] = i => e[3] # file'.rows[t][i].by
    BY <1>1, <1>5 DEF RowsRight
  <2>2. CASE file'.rows[t][i] = file.rows[t][i]
    BY <1>7, <2>2 DEF RowsRight
  <2>3. CASE <<t, i>> \in file.blocks /\ file'.rows[t][i].table = 1 /\ file'.rows[t][i].by = 1
    BY <1>16, <2>1, <2>3
  <2> QED
    BY <1>9, <2>2, <2>3
<1>21. TablesSurvive'
  BY <1>1, <1>5 DEF TablesSurvive
<1>22. RowsAreKept'
  <2> SUFFICES ASSUME NEW k \in rows
               PROVE  /\ file'.rows[k[1]][k[2]] # None /\ file'.rows[k[1]][k[2]].by = k[3]
                      /\ \A e \in edited : <<e[1], e[2], e[3]>> = k => e[4] \in file'.rows[k[1]][k[2]].edits
    BY <1>5, <1>7 DEF RowsAreKept
  <2>1. k[1] \in Tables /\ k[2] \in Ids
    BY DEF TypeInv
  <2>2. CASE k[3] = 1 /\ <<k[1], k[2]>> \in file.blocks
    <3>1. file.rows[k[1]][k[2]] = None /\ edited = {}
      BY <1>16, <2>1, <2>2 DEF NoRows
    <3> QED
      BY <1>10, <2>1, <2>2, <3>1
  <2>3. CASE ~(k[3] = 1 /\ <<k[1], k[2]>> \in file.blocks)
    <3>1. /\ file.rows[k[1]][k[2]] # None /\ file.rows[k[1]][k[2]].by = k[3]
          /\ \A e \in edited : <<e[1], e[2], e[3]>> = k => e[4] \in file.rows[k[1]][k[2]].edits
      BY <2>3 DEF RowsAreKept
    <3>2. file'.rows[k[1]][k[2]] = file.rows[k[1]][k[2]]
      BY <1>9, <2>1, <3>1
    <3> QED
      BY <3>1, <3>2
  <2> QED
    BY <2>2, <2>3
<1> QED
  BY <1>13, <1>14, <1>15, <1>17, <1>19, <1>20, <1>21, <1>22

LEMMA GetStep ==
  ASSUME TypeInv, IInv, NEW th \in Threads, Get(th)
  PROVE  IInv'
<1>1. CASE handle = None /\ file = None
  <2>1. Raise(th) /\ UNCHANGED <<requests, crashes>> /\ Busy(th) /\ req[th].stage = "get"
    BY <1>1, BusyStage DEF Get
  <2> QED
    BY <2>1, RaisingStep DEF Saving
\* the process stopped while the sidecar was written: the database does not open
<1>2. CASE handle = None /\ file # None /\ sidecar = Torn
  <2>1. /\ file' = Migrated(file) /\ Done(th) /\ Failed(th) /\ Busy(th) /\ req[th].stage = "get"
        /\ UNCHANGED <<sidecar, handle, reg, requests, tables, rows, edited, dead, erased>>
    BY <1>2, BusyStage DEF Get, Raise
  <2>2. file \in Files /\ file.blocks = {}
    BY <1>2 DEF TypeInv, IInv, Stored
  <2>3. file' = file
    BY <2>1, <2>2, MigratedSame
  <2> QED
    BY <2>1, <2>3, EndingStep DEF Saving
<1> QED
  BY <1>1, <1>2, GetThere, GetOpens

LEMMA ConnectStep ==
  ASSUME TypeInv, IInv, NEW th \in Threads, Connect(th)
  PROVE  IInv'
<1> USE DEF IInv
<1> PICK r : r = req[th]
  OBVIOUS
<1>1. /\ Busy(th) /\ r.stage = "connect"
      /\ UNCHANGED <<sidecar, handle, requests, tables, rows, edited, dead, erased, failed>>
  BY BusyStage DEF Connect, history
<1>2. /\ RightRequest(r) /\ RightPath(r) /\ OwnNumber(r) /\ Opening(r)
      /\ r.op.kind \in KindsAt(r.stage) /\ r \in Progress /\ r.by \in Handles
      /\ r.make \subseteq Tables /\ r.left \subseteq Tables
  BY <1>1, SoundFacts DEF RightRequest, Progress
<1>3. handle = None /\ file = None /\ sidecar = None
  BY <1>1, <1>2 DEF Opening
<1>4. OnlyAt(th)
  BY <1>1, <1>3, AloneHere
<1>5. file' = NewFile /\ reg' = [reg EXCEPT ![r.by] = Empty] /\ EntersBy(th, "publish", r.by)
  BY <1>3 DEF Connect, EntersBy
<1>6. PICK s : /\ Moved(th, s) /\ s # Idle /\ s.stage = "publish" /\ s.h = r.by
               /\ s.op = r.op /\ s.by = r.by /\ s.next = r.next /\ s.make = r.make /\ s.left = r.left
  BY <1>5, OpenMoved DEF Stages
<1>7. file' # None /\ file'.blocks = {} /\ file'.rows = NoRows
  BY <1>5, EmptyTypes, AbsentAssumption DEF NewFile
<1>8. \A t \in Tables : \A i \in Ids : file'.rows[t][i] = None
  BY <1>7 DEF NoRows
<1>9. Sidecar' = Empty /\ Sidecar = Empty /\ \A t \in Tables : Empty[t] = 0
  BY <1>1, <1>3 DEF Sidecar, Empty, NoTable
<1>10. \A n, t : Uses(n, t)' => t \notin Tables \/ n = 0
  BY <1>1, <1>3, <1>8, <1>9 DEF Uses
<1>11. rows = {} /\ \A t \in Tables : tables[t] = NoTable
  BY <1>3, AbsentAssumption DEF RowsAreKept, TablesSurvive
<1>12. r.op.kind \in {"create", "import"} /\ (r.op.kind = "import" => r.next = "define")
  BY <1>1, <1>2 DEF KindsAt, RightPath
<1>13. Sound(s)'
  <2>1. RightPath(s)
    BY <1>1, <1>2, <1>6, <1>12 DEF RightPath, RightRequest, Openings, Saving
  <2>2. OwnNumber(s)'
    BY <1>1, <1>2, <1>6, <1>8 DEF OwnNumber
  <2>3. reg'[s.h] = Sidecar'
    BY <1>2, <1>5, <1>6, <1>9 DEF TypeInv
  <2>4. Opening(s)'
    BY <1>1, <1>2, <1>3, <1>6, <1>7, <1>9, <1>12, <2>3, AbsentAssumption DEF Opening, Inside, Saving, NoTable
  <2>5. Shape(s)' /\ OnRows(s)' /\ Dropping(s)'
    BY <1>6, <1>12 DEF Shape, OnRows, Dropping, Saving, Defined
  <2> QED
    BY <2>1, <2>2, <2>4, <2>5 DEF Sound
<1>14. /\ Requested' /\ Taking' /\ req'[th] = s
       /\ \A u \in Threads : u # th => req'[u].stage = "idle" /\ req[u].stage = "idle"
  BY <1>4, <1>6, <1>13, AloneRequested
<1>15. Stored' /\ Earlier'
  BY <1>1, <1>3, <1>7, AbsentAssumption DEF Stored, Earlier
<1>16. Snapshots'
  BY <1>1, <1>3, <1>4, <1>6, QuietSnapshots DEF Saving
<1>17. Bounds'
  <2>1. 0 <= requests
    BY DEF TypeInv
  <2> QED
    BY <1>1, <1>10, <2>1 DEF Bounds
<1>19. NoneDead'
  BY <1>1, <1>3 DEF NoneDead, Sidecar
<1>20. RowsRight'
  BY <1>8 DEF RowsRight
<1>21. TablesSurvive' /\ RowsAreKept'
  BY <1>1, <1>11 DEF TablesSurvive, RowsAreKept
<1> QED
  BY <1>14, <1>15, <1>16, <1>17, <1>19, <1>20, <1>21

LEMMA PublishStep ==
  ASSUME TypeInv, IInv, NEW th \in Threads, Publish(th)
  PROVE  IInv'
<1> USE DEF IInv
<1> PICK r : r = req[th]
  OBVIOUS
<1>1. /\ Busy(th) /\ r.stage = "publish" /\ handle' = r.h
      /\ UNCHANGED <<file, sidecar, reg, requests, tables, rows, edited, erased, failed>>
  BY BusyStage DEF Publish
<1>2. /\ RightRequest(r) /\ RightPath(r) /\ OwnNumber(r) /\ Opening(r) /\ Dropping(r)
      /\ r.op.kind \in KindsAt(r.stage) /\ r \in Progress /\ r.by \in Handles /\ r.h \in Handles
  BY <1>1, SoundFacts DEF RightRequest
<1>3. /\ handle = None /\ handle' # None /\ file # None /\ file.blocks = {} /\ sidecar # Torn
      /\ reg[r.h] = Sidecar
      /\ r.op.kind = "create" => file.rows = NoRows /\ sidecar = None
      /\ r.op.kind # "create" /\ r.next = "define" => \A t \in r.make : Sidecar[t] = NoTable
  BY <1>1, <1>2, AbsentAssumption DEF Opening
<1>4. OnlyAt(th)
  BY <1>1, <1>3, AloneHere
<1>5. Sidecar' = Sidecar
  BY <1>1 DEF Sidecar
<1>6. \A n : \A t \in Tables : Uses(n, t)' => Uses(n, t)
  BY <1>1, <1>3, <1>5 DEF Uses
<1>7. \E s : Moved(th, s) /\ Sound(s)' /\ s.stage \notin Saving
  <2>1. CASE r.op.kind = "create"
    <3>1. Moved(th, Idle)
      BY <1>1, <2>1 DEF Publish, Done, Moved
    <3> QED
      BY <3>1 DEF Sound, Idle, Saving
  <2>2. CASE r.op.kind # "create"
    <3>1. Goto(th, r.next) /\ dead' = dead
      BY <1>1, <2>2 DEF Publish
    <3>2. r.next \in {"run", "plan", "define"}
      BY <1>1, <1>2, <2>2 DEF RightPath
    <3>3. PICK s : /\ Moved(th, s) /\ s # Idle /\ s.stage = r.next
                   /\ s.op = r.op /\ s.by = r.by /\ s.next = r.next /\ s.h = r.h
                   /\ s.make = r.make /\ s.left = r.left
      BY <3>1, <3>2, StageMoved DEF Stages
    <3>4. RightPath(s)
      BY <1>1, <1>2, <3>2, <3>3 DEF RightPath, Saving
    <3>5. OwnNumber(s)'
      BY <1>1, <1>2, <3>1, <3>3 DEF OwnNumber
    <3>6. Opening(s)'
      BY <1>1, <1>2, <1>3, <2>2, <3>2, <3>3 DEF Opening
    <3>7. Shape(s)' /\ OnRows(s)'
      BY <3>2, <3>3 DEF Shape, OnRows, Saving, Defined
    <3>8. Dropping(s)'
      BY <1>1, <1>2, <3>2, <3>3 DEF Dropping, Saving
    <3>9. Sound(s)'
      BY <3>4, <3>5, <3>6, <3>7, <3>8 DEF Sound
    <3> QED
      BY <3>2, <3>3, <3>9 DEF Saving
  <2> QED
    BY <2>1, <2>2
<1>8. PICK s : Moved(th, s) /\ Sound(s)' /\ s.stage \notin Saving
  BY <1>7
<1>9. /\ Requested' /\ Taking' /\ req'[th] = s
      /\ \A u \in Threads : u # th => req'[u].stage = "idle" /\ req[u].stage = "idle"
  BY <1>4, <1>8, AloneRequested
<1>10. Stored' /\ Earlier'
  BY <1>1, <1>3, <1>5 DEF Stored, Earlier
<1>11. Snapshots'
  BY <1>1, <1>3, <1>4, <1>5, <1>8, QuietSnapshots
<1>12. /\ \A d \in dead' : d[2] \in 1 .. requests
       /\ \A t \in Tables : <<t, reg'[handle'][t]>> \notin dead' /\ <<t, Sidecar'[t]>> \notin dead'
       /\ dead' # dead => file.rows = NoRows
  <2>1. CASE r.op.kind = "create"
    <3>1. dead' = dead \cup Tables \X (1 .. r.by - 1)
      BY <1>1, <2>1 DEF Publish
    <3>2. r.by \in 2 .. requests /\ requests \in Nat
      BY <1>2 DEF OwnNumber, TypeInv
    <3>3. Sidecar = Empty /\ \A t \in Tables : Empty[t] = 0
      BY <1>3, <2>1 DEF Sidecar, Empty, NoTable
    <3>4. \A d \in dead' : d[2] \in 1 .. requests
      <4>1. \A d \in dead : d[2] \in 1 .. requests
        BY DEF Bounds
      <4>2. \A n \in 1 .. r.by - 1 : n \in 1 .. requests
        BY <3>2
      <4> QED
        BY <3>1, <4>1, <4>2
    <3>5. \A t \in Tables : <<t, 0>> \notin dead'
      <4>1. 0 \notin 1 .. requests
        BY <3>2
      <4>2. \A t \in Tables : <<t, 0>>[2] = 0
        OBVIOUS
      <4> QED
        BY <3>4, <4>1, <4>2
    <3> QED
      BY <1>1, <1>3, <1>5, <2>1, <3>3, <3>4, <3>5
  <2>2. CASE r.op.kind # "create"
    <3>1. dead' = dead
      BY <1>1, <2>2 DEF Publish
    <3> QED
      BY <1>1, <1>3, <1>5, <3>1 DEF Bounds, NoneDead
  <2> QED
    BY <2>1, <2>2
<1>13. Bounds'
  BY <1>1, <1>6, <1>12 DEF Bounds
<1>15. NoneDead'
  BY <1>12 DEF NoneDead
<1>16. RowsRight'
  <2>1. CASE dead' = dead
    BY <1>1, <2>1 DEF RowsRight
  <2>2. CASE dead' # dead
    BY <1>1, <1>12, <2>2 DEF RowsRight, NoRows
  <2> QED
    BY <2>1, <2>2
<1>17. RowsAreKept'
  BY <1>1 DEF RowsAreKept
<1>18. TablesSurvive'
  <2> SUFFICES ASSUME NEW t \in Tables, tables[t] # NoTable
               PROVE  reg[r.h][t] = tables[t] /\ sidecar \notin {None, Torn} /\ sidecar[t] = tables[t]
    BY <1>1 DEF TablesSurvive
  <2>1. sidecar \notin {None, Torn} /\ sidecar[t] = tables[t]
    BY <1>3 DEF TablesSurvive
  <2> QED
    BY <1>3, <2>1 DEF Sidecar
<1> QED
  BY <1>9, <1>10, <1>11, <1>13, <1>15, <1>16, <1>17, <1>18

(* Fewer uses of a number keep what was said of them. *)
Fewer == \A n : \A t \in Tables : Uses(n, t)' => Uses(n, t) \/ n = NoTable

LEMMA FewerUses ==
  ASSUME TypeInv, IInv, Fewer, UNCHANGED <<requests, edited, dead, erased, failed>>
  PROVE  Bounds'
<1>1. NoTable <= requests
  BY DEF TypeInv, NoTable
<1> QED
  BY <1>1 DEF IInv, Bounds, Fewer

(* Rows that were there keep what was said of them: some are gone.         *)
FewerRows ==
  file' # None => \A t \in Tables, i \in Ids : file'.rows[t][i] # None => file # None /\ file'.rows[t][i] = file.rows[t][i]

LEMMA FewerOwn ==
  ASSUME NEW r, RightRequest(r), OwnNumber(r), NEW s, s.op = r.op, s.by = r.by, s.left = r.left, FewerRows,
         UNCHANGED <<requests, edited, dead, erased, failed>>
  PROVE  OwnNumber(s)'
<1>1. r.left \subseteq Tables
  BY DEF RightRequest, Progress
<1> QED
  BY <1>1 DEF OwnNumber, FewerRows

LEMMA FewerRight ==
  ASSUME IInv, FewerRows, UNCHANGED <<requests, dead, erased, failed>>
  PROVE  RowsRight'
<1> SUFFICES ASSUME file' # None, NEW t \in Tables, NEW i \in Ids, file'.rows[t][i] # None
             PROVE  /\ <<t, file'.rows[t][i].table>> \notin dead
                    /\ <<file'.rows[t][i].by, t>> \notin failed /\ file'.rows[t][i].by \in 1 .. requests
                    /\ \A e \in erased : e[1] = t /\ e[2] = i => e[3] # file'.rows[t][i].by
  BY DEF RowsRight
<1>1. file # None /\ file'.rows[t][i] = file.rows[t][i]
  BY DEF FewerRows
<1> QED
  BY <1>1 DEF IInv, RowsRight

(* A request that is dropping a table or the database has it to itself.    *)
LEMMA DroppingFacts ==
  ASSUME TypeInv, IInv, NEW th \in Threads, Busy(th), Structural(req[th].op), req[th].stage \in Inside \ Saving
  PROVE  /\ OnlyAt(th) /\ handle # None /\ req[th].h = handle /\ Registry(th) = reg[handle]
         /\ file # None /\ file \in Files /\ file.blocks = {}
         /\ sidecar # Torn /\ reg[handle] = Sidecar /\ handle \in Handles /\ reg[handle] \in Registries
<1>1. OnlyAt(th)
  BY AloneHere
<1>2. handle # None /\ req[th].h = handle
  BY SoundFacts DEF IInv, Opening
<1>3. sidecar # Torn /\ reg[handle] = Sidecar
  BY <1>1, <1>2, Quiet
<1> QED
  BY <1>1, <1>2, <1>3 DEF IInv, Stored, Registry, TypeInv

LEMMA DeleteRowsStep ==
  ASSUME TypeInv, IInv, NEW th \in Threads, DeleteRows(th)
  PROVE  IInv'
<1> USE DEF IInv
<1> PICK r : r = req[th]
  OBVIOUS
<1>1. Busy(th) /\ r.stage = "run" /\ r.op.kind = "drop_table" /\ UNCHANGED <<requests, crashes>>
  BY BusyStage DEF DeleteRows, At
<1>2. /\ RightRequest(r) /\ RightPath(r) /\ OwnNumber(r) /\ Opening(r) /\ Dropping(r) /\ r.op.table \in Tables
  BY <1>1, SoundFacts, StageFacts DEF Name, TableKinds
<1>3. CASE Raise(th)
  BY <1>1, <1>3, RaisingStep DEF Saving
<1>4. CASE ~Raise(th)
  <2>1. /\ OnlyAt(th) /\ handle # None /\ r.h = handle /\ Registry(th) = reg[handle]
        /\ file # None /\ file \in Files /\ file.blocks = {}
        /\ sidecar # Torn /\ reg[handle] = Sidecar /\ reg[handle] \in Registries
    BY <1>1, DroppingFacts DEF Structural, Inside, Saving
  <2>2. PICK n : n = reg[handle][r.op.table]
    OBVIOUS
  <2>3. /\ file' = [file EXCEPT !.rows[r.op.table] = NoRows[r.op.table]]
        /\ Take(th, "forget", n) /\ n # NoTable
        /\ UNCHANGED <<sidecar, handle, reg, tables, rows, edited, dead, erased, failed>>
    BY <1>4, <2>1, <2>2 DEF DeleteRows, Has, Name, memory, history
  <2>4. PICK s : /\ Moved(th, s) /\ s # Idle /\ s.stage = "forget" /\ s.seen = n
                 /\ s.op = r.op /\ s.by = r.by /\ s.next = r.next /\ s.h = r.h
                 /\ s.make = r.make /\ s.left = r.left
    BY <2>3, TakeMoved DEF Stages
  <2>5. NoRows[r.op.table] \in [Ids -> Rows \cup {None}]
    BY <1>2, EmptyTypes
  <2>6. /\ file' \in Files /\ file'.blocks = file.blocks /\ file'.rows[r.op.table] = NoRows[r.op.table]
        /\ \A t \in Tables : t # r.op.table => file'.rows[t] = file.rows[t]
    <3>1. PICK f, t, table : f = file /\ t = r.op.table /\ table = NoRows[r.op.table]
      OBVIOUS
    <3>2. PICK g : g = [f EXCEPT !.rows[t] = table]
      OBVIOUS
    <3>3. f \in Files /\ t \in Tables /\ table \in [Ids -> Rows \cup {None}]
      BY <1>2, <2>1, <2>5, <3>1
    <3>4. g \in Files /\ g.blocks = f.blocks /\ g.rows[t] = table /\ \A u \in Tables : u # t => g.rows[u] = f.rows[u]
      BY <3>2, <3>3 DEF Files
    <3>5. file' = g
      BY <2>3, <3>1, <3>2
    <3> QED
      BY <3>1, <3>4, <3>5
  <2>7. file' # None
    BY <2>6, AbsentAssumption
  <2>8. \A t \in Tables, i \in Ids : file'.rows[t][i] # None => t # r.op.table /\ file'.rows[t][i] = file.rows[t][i]
    BY <1>2, <2>6 DEF NoRows
  <2>9. Fewer /\ FewerRows
    BY <2>1, <2>3, <2>8 DEF Fewer, FewerRows, Uses, Sidecar
  <2>11. n \in 1 .. requests
    <3>1. Uses(n, r.op.table) /\ n \in Creations
      BY <1>2, <2>1, <2>2 DEF Uses, Registries
    <3>2. n <= requests /\ n \in Nat
      BY <1>2, <3>1, Numbered DEF Bounds
    <3>3. requests \in Nat
      BY DEF TypeInv
    <3> QED
      BY <2>3, <3>2, <3>3 DEF NoTable
  <2>12. Sound(s)'
    <3>1. RightPath(s)
      BY <1>1, <1>2, <2>4 DEF RightPath, Saving
    <3>2. OwnNumber(s)'
      BY <1>1, <1>2, <2>3, <2>4, <2>9, FewerOwn
    <3>3. Opening(s)'
      BY <1>1, <2>1, <2>3, <2>4 DEF Opening
    <3>4. Shape(s)' /\ OnRows(s)'
      BY <1>1, <2>4 DEF Shape, OnRows, Saving, Defined
    <3>6. Dropping(s)'
      BY <1>1, <1>2, <2>3, <2>4, <2>6, <2>11 DEF Dropping
    <3> QED
      BY <3>1, <3>2, <3>3, <3>4, <3>6 DEF Sound
  <2>13. /\ Requested' /\ Taking' /\ req'[th] = s
         /\ \A u \in Threads : u # th => req'[u].stage = "idle" /\ req[u].stage = "idle"
    BY <2>1, <2>4, <2>12, AloneRequested
  <2>14. Stored' /\ Earlier'
    BY <2>1, <2>3, <2>6, <2>7 DEF Stored, Earlier
  <2>15. Sidecar' = Sidecar
    BY <2>3 DEF Sidecar
  <2>16. Snapshots'
    BY <2>1, <2>3, <2>4, <2>15, QuietSnapshots DEF Saving
  <2>17. Bounds' /\ RowsRight'
    BY <1>1, <2>3, <2>9, FewerUses, FewerRight
  <2>18. NoneDead'
    BY <2>3, <2>15 DEF NoneDead
  <2>19. TablesSurvive'
    BY <2>1, <2>3 DEF TablesSurvive
  <2>20. RowsAreKept'
    <3> SUFFICES ASSUME NEW k \in rows
                 PROVE  /\ file'.rows[k[1]][k[2]] # None /\ file'.rows[k[1]][k[2]].by = k[3]
                        /\ \A e \in edited : <<e[1], e[2], e[3]>> = k => e[4] \in file'.rows[k[1]][k[2]].edits
      BY <2>3, <2>7 DEF RowsAreKept
    <3>1. k[1] # r.op.table /\ k[1] \in Tables
      BY <1>1, <1>2 DEF Dropping, TypeInv
    <3>2. /\ file.rows[k[1]][k[2]] # None /\ file.rows[k[1]][k[2]].by = k[3]
          /\ \A e \in edited : <<e[1], e[2], e[3]>> = k => e[4] \in file.rows[k[1]][k[2]].edits
      BY <2>1 DEF RowsAreKept
    <3> QED
      BY <2>6, <3>1, <3>2
  <2> QED
    BY <2>13, <2>14, <2>16, <2>17, <2>18, <2>19, <2>20
<1> QED
  BY <1>3, <1>4

LEMMA ForgetStep ==
  ASSUME TypeInv, IInv, NEW th \in Threads, Forget(th)
  PROVE  IInv'
<1> USE DEF IInv
<1> PICK r : r = req[th]
  OBVIOUS
<1>1. /\ Busy(th) /\ r.stage = "forget" /\ r.op.kind = "drop_table"
      /\ UNCHANGED <<file, sidecar, handle, requests, tables, rows, edited, dead, erased, failed>>
  BY BusyStage DEF Forget, At, history
<1>2. /\ RightRequest(r) /\ RightPath(r) /\ OwnNumber(r) /\ Opening(r) /\ Dropping(r) /\ r.op.table \in Tables
  BY <1>1, SoundFacts, StageFacts DEF Name, TableKinds
<1>3. /\ OnlyAt(th) /\ handle # None /\ r.h = handle /\ file # None /\ file.blocks = {}
      /\ sidecar # Torn /\ reg[handle] = Sidecar /\ handle \in Handles /\ reg[handle] \in Registries
  BY <1>1, DroppingFacts DEF Structural, Inside, Saving
<1>4. reg' = [reg EXCEPT ![handle][r.op.table] = NoTable] /\ Goto(th, "dump")
  BY <1>3 DEF Forget, Removed, AfterChange, Name
<1>5. PICK s : /\ Moved(th, s) /\ s # Idle /\ s.stage = "dump" /\ s.seen = r.seen
               /\ s.op = r.op /\ s.by = r.by /\ s.next = r.next /\ s.h = r.h
               /\ s.make = r.make /\ s.left = r.left
  BY <1>4, StageMoved DEF Stages
<1>6. reg'[handle][r.op.table] = NoTable /\ \A t \in Tables : t # r.op.table => reg'[handle][t] = reg[handle][t]
  BY <1>2, <1>3, <1>4 DEF TypeInv, Registries
<1>7. Sidecar' = Sidecar
  BY <1>1 DEF Sidecar
<1>8. Fewer /\ FewerRows
  BY <1>1, <1>2, <1>3, <1>6, <1>7 DEF Fewer, FewerRows, Uses
<1>9. Sound(s)'
  <2>1. RightPath(s)
    BY <1>1, <1>2, <1>5 DEF RightPath
  <2>2. OwnNumber(s)'
    BY <1>1, <1>2, <1>5, <1>8, FewerOwn
  <2>3. Opening(s)'
    BY <1>1, <1>3, <1>5 DEF Opening
  <2>4. Shape(s)'
    BY <1>1, <1>2, <1>5, <1>6 DEF Shape, Changed, Dropping, Saving
  <2>5. Dropping(s)'
    BY <1>1, <1>2, <1>5 DEF Dropping
  <2>6. OnRows(s)'
    BY <1>5 DEF OnRows
  <2> QED
    BY <2>1, <2>2, <2>3, <2>4, <2>5, <2>6 DEF Sound
<1>10. /\ Requested' /\ Taking' /\ req'[th] = s
       /\ \A u \in Threads : u # th => req'[u].stage = "idle" /\ req[u].stage = "idle"
  BY <1>3, <1>5, <1>9, AloneRequested
<1>11. Stored' /\ Earlier'
  BY <1>1, <1>3 DEF Stored, Earlier
<1>12. Snapshots'
  <2>1. \A u \in Threads : ~Writing(u)'
    BY <1>5, <1>10 DEF Writing
  <2>2. Unwritten(r.op.table)'
    BY <1>1, <1>5, <1>10 DEF Unwritten, Saving, Changed
  <2> QED
    BY <1>1, <1>3, <1>6, <1>7, <2>1, <2>2 DEF Snapshots
<1>13. Bounds' /\ RowsRight'
  BY <1>1, <1>8, FewerUses, FewerRight
<1>14. NoneDead'
  <2>1. \A t \in Tables : <<t, NoTable>> \notin dead
    <3>1. \A t \in Tables : <<t, NoTable>>[2] = 0
      BY DEF NoTable
    <3> QED
      BY <3>1 DEF Bounds, TypeInv
  <2> QED
    BY <1>1, <1>2, <1>6, <1>7, <2>1 DEF NoneDead
<1>15. RowsAreKept'
  BY <1>1 DEF RowsAreKept
<1>16. TablesSurvive'
  BY <1>1, <1>2, <1>3, <1>6 DEF TablesSurvive, Dropping
<1> QED
  BY <1>10, <1>11, <1>12, <1>13, <1>14, <1>15, <1>16

LEMMA CloseStep ==
  ASSUME TypeInv, IInv, NEW th \in Threads, Close(th)
  PROVE  IInv'
<1> USE DEF IInv
<1> PICK r : r = req[th]
  OBVIOUS
<1>1. /\ Busy(th) /\ r.stage = "run" /\ r.op.kind = "drop"
      /\ UNCHANGED <<file, sidecar, handle, reg, requests, tables, rows, edited, dead, erased, failed>>
  BY BusyStage DEF Close, At, history
<1>2. RightRequest(r) /\ RightPath(r) /\ OwnNumber(r) /\ Opening(r) /\ Shape(r) /\ Dropping(r)
  BY <1>1, SoundFacts
<1>3. handle # None /\ r.h = handle /\ Registry(th) = reg[handle] /\ reg[handle] \in Registries
  BY <1>1, DroppingFacts DEF Structural, Inside, Saving
<1>4. PICK all : all = reg[handle]
  OBVIOUS
<1>5. PICK s : /\ Moved(th, s) /\ s # Idle /\ s.stage = "unregister" /\ s.seen = all
               /\ s.op = r.op /\ s.by = r.by /\ s.next = r.next /\ s.h = r.h
               /\ s.make = r.make /\ s.left = r.left
  <2>1. Take(th, "unregister", all)
    BY <1>3, <1>4 DEF Close
  <2> QED
    BY <2>1, TakeMoved DEF Stages
<1>6. \A t \in Tables : all[t] <= requests
  <2> SUFFICES ASSUME NEW t \in Tables
               PROVE  all[t] <= requests
    OBVIOUS
  <2>1. Uses(all[t], t) /\ all[t] \in Creations
    BY <1>3, <1>4 DEF Uses, Registries
  <2> QED
    BY <2>1 DEF Bounds
<1>7. Ahead(r, s)
  BY <1>1, <1>3, <1>5 DEF Ahead, Saving, Defined
<1>8. RightPath(s) /\ OnRows(s)
  BY <1>1, <1>2, <1>5, <1>6 DEF RightPath, OnRows
<1>9. Sound(s)
  BY <1>2, <1>7, <1>8, AheadSound
<1>10. Looks(th, s)
  BY <1>1, <1>5 DEF Looks
<1>11. Snapshots'
  BY <1>1, <1>5, PlainSnapshots DEF Saving
<1> QED
  BY <1>1, <1>9, <1>10, <1>11, LookingStep

LEMMA UnregisterStep ==
  ASSUME TypeInv, IInv, NEW th \in Threads, Unregister(th)
  PROVE  IInv'
<1> USE DEF IInv
<1> PICK r : r = req[th]
  OBVIOUS
<1>1. /\ Busy(th) /\ r.stage = "unregister" /\ handle' = None /\ Goto(th, "unlink")
      /\ UNCHANGED <<file, sidecar, reg, requests, tables, rows, edited, dead, erased, failed>>
  BY BusyStage DEF Unregister, history
<1>2. /\ RightRequest(r) /\ RightPath(r) /\ OwnNumber(r) /\ Opening(r) /\ OnRows(r) /\ r.op.kind = "drop"
  BY <1>1, SoundFacts DEF RightRequest, KindsAt
<1>3. /\ OnlyAt(th) /\ handle # None /\ file # None /\ file.blocks = {} /\ sidecar # Torn
  BY <1>1, <1>2, DroppingFacts DEF Structural, Inside, Saving
<1>4. PICK s : /\ Moved(th, s) /\ s # Idle /\ s.stage = "unlink" /\ s.seen = r.seen
               /\ s.op = r.op /\ s.by = r.by /\ s.next = r.next /\ s.h = r.h
               /\ s.make = r.make /\ s.left = r.left
  BY <1>1, StageMoved DEF Stages
<1>5. Sidecar' = Sidecar
  BY <1>1 DEF Sidecar
<1>6. Fewer /\ FewerRows
  BY <1>1, <1>5 DEF Fewer, FewerRows, Uses
<1>7. Sound(s)'
  <2>1. RightPath(s)
    BY <1>1, <1>2, <1>4 DEF RightPath, Saving
  <2>2. OwnNumber(s)'
    BY <1>1, <1>2, <1>4, <1>6, FewerOwn
  <2>3. Opening(s)'
    BY <1>1, <1>2, <1>3, <1>4 DEF Opening, Inside, Saving
  <2>4. Shape(s)' /\ Dropping(s)' /\ OnRows(s)'
    BY <1>1, <1>2, <1>4 DEF Shape, Dropping, OnRows, Saving, Defined
  <2> QED
    BY <2>1, <2>2, <2>3, <2>4 DEF Sound
<1>8. /\ Requested' /\ Taking' /\ req'[th] = s
      /\ \A u \in Threads : u # th => req'[u].stage = "idle" /\ req[u].stage = "idle"
  BY <1>3, <1>4, <1>7, AloneRequested
<1>9. Stored' /\ Earlier'
  BY <1>1, <1>3 DEF Stored, Earlier
<1>10. Snapshots'
  BY <1>1, <1>3, <1>4, QuietSnapshots DEF Saving
<1>11. Bounds' /\ RowsRight'
  BY <1>1, <1>6, FewerUses, FewerRight
<1>12. NoneDead' /\ RowsAreKept'
  BY <1>1, <1>5 DEF NoneDead, RowsAreKept
<1>13. TablesSurvive'
  BY <1>1, <1>3 DEF TablesSurvive
<1> QED
  BY <1>8, <1>9, <1>10, <1>11, <1>12, <1>13

LEMMA UnlinkStep ==
  ASSUME TypeInv, IInv, NEW th \in Threads, Unlink(th)
  PROVE  IInv'
<1> USE DEF IInv
<1> PICK r : r = req[th]
  OBVIOUS
<1>1. /\ Busy(th) /\ r.stage = "unlink" /\ file' = None /\ Goto(th, "unlink_schema")
      /\ UNCHANGED <<sidecar, handle, reg, requests, tables, rows, edited, dead, erased, failed>>
  BY BusyStage DEF Unlink, memory, history
<1>2. /\ RightRequest(r) /\ RightPath(r) /\ OwnNumber(r) /\ Opening(r) /\ OnRows(r) /\ r.op.kind = "drop"
  BY <1>1, SoundFacts DEF RightRequest, KindsAt
<1>3. handle = None /\ rows = {} /\ tables = Empty /\ sidecar # Torn /\ OnlyAt(th)
  BY <1>1, <1>2, AloneHere DEF Opening
<1>4. PICK s : /\ Moved(th, s) /\ s # Idle /\ s.stage = "unlink_schema" /\ s.seen = r.seen
               /\ s.op = r.op /\ s.by = r.by /\ s.next = r.next /\ s.h = r.h
               /\ s.make = r.make /\ s.left = r.left
  BY <1>1, StageMoved DEF Stages
<1>5. Sidecar' = Sidecar
  BY <1>1 DEF Sidecar
<1>6. Fewer /\ FewerRows
  BY <1>1, <1>5 DEF Fewer, FewerRows, Uses
<1>7. Sound(s)'
  <2>1. RightPath(s)
    BY <1>1, <1>2, <1>4 DEF RightPath, Saving
  <2>2. OwnNumber(s)'
    BY <1>1, <1>2, <1>4, <1>6, FewerOwn
  <2>3. Opening(s)'
    BY <1>1, <1>2, <1>3, <1>4 DEF Opening, Inside, Saving
  <2>4. Shape(s)' /\ Dropping(s)' /\ OnRows(s)'
    BY <1>1, <1>2, <1>4 DEF Shape, Dropping, OnRows, Saving, Defined
  <2> QED
    BY <2>1, <2>2, <2>3, <2>4 DEF Sound
<1>8. /\ Requested' /\ Taking' /\ req'[th] = s
      /\ \A u \in Threads : u # th => req'[u].stage = "idle" /\ req[u].stage = "idle"
  BY <1>3, <1>4, <1>7, AloneRequested
<1>9. Stored' /\ Earlier'
  BY <1>1, <1>3, <1>4, <1>8 DEF Stored, Earlier
<1>10. Snapshots'
  BY <1>1, <1>3, <1>4, QuietSnapshots DEF Saving
<1>11. Bounds' /\ RowsRight'
  BY <1>1, <1>6, FewerUses, FewerRight
<1>12. NoneDead' /\ RowsAreKept'
  BY <1>1, <1>3, <1>5 DEF NoneDead, RowsAreKept
<1>13. TablesSurvive'
  BY <1>1, <1>3 DEF TablesSurvive, Empty
<1> QED
  BY <1>8, <1>9, <1>10, <1>11, <1>12, <1>13

LEMMA UnlinkSchemaStep ==
  ASSUME TypeInv, IInv, NEW th \in Threads, UnlinkSchema(th)
  PROVE  IInv'
<1> USE DEF IInv
<1> PICK r : r = req[th]
  OBVIOUS
<1>1. /\ Busy(th) /\ r.stage = "unlink_schema" /\ sidecar' = None /\ Moved(th, Idle)
      /\ dead' = dead \cup {<<t, r.seen[t]>> : t \in {u \in Tables : r.seen[u] # NoTable}}
      /\ UNCHANGED <<file, handle, reg, requests, tables, rows, edited, erased, failed>>
  BY BusyStage DEF UnlinkSchema, Unlinked, Done, Moved, Has, memory
<1>2. RightRequest(r) /\ Opening(r) /\ OnRows(r) /\ r.op.kind = "drop" /\ r.seen \in Registries
  BY <1>1, SoundFacts DEF RightRequest, KindsAt
<1>3. handle = None /\ file = None /\ rows = {} /\ tables = Empty /\ OnlyAt(th)
  BY <1>1, <1>2, AloneHere DEF Opening
<1>4. Sidecar' = Empty /\ \A t \in Tables : Empty[t] = 0
  BY <1>1 DEF Sidecar, Empty, NoTable
<1>5. \A n : \A t \in Tables : Uses(n, t)' => n = 0
  BY <1>1, <1>3, <1>4 DEF Uses
<1>6. /\ Requested' /\ Taking' /\ req'[th] = Idle
      /\ \A u \in Threads : u # th => req'[u].stage = "idle" /\ req[u].stage = "idle"
  BY <1>1, <1>3, AloneRequested DEF Sound
<1>7. Stored' /\ Earlier' /\ RowsRight'
  BY <1>1, <1>3, AbsentAssumption DEF Stored, Earlier, RowsRight
<1>8. Snapshots'
  <2>1. Idle.stage \notin Saving
    BY DEF Idle, Saving
  <2> QED
    BY <1>1, <1>3, <2>1, QuietSnapshots
<1>9. \A d \in dead' : d[2] \in 1 .. requests
  <2>1. \A t \in Tables : r.seen[t] \in Nat /\ r.seen[t] <= requests
    BY <1>1, <1>2, Numbered DEF OnRows, Registries
  <2>2. requests \in Nat
    BY DEF TypeInv
  <2> SUFFICES ASSUME NEW d \in dead', d \notin dead
               PROVE  d[2] \in 1 .. requests
    BY DEF Bounds
  <2>3. PICK t \in Tables : d = <<t, r.seen[t]>> /\ r.seen[t] # 0
    BY <1>1 DEF NoTable
  <2> QED
    BY <2>1, <2>2, <2>3
<1>10. Bounds'
  BY <1>1, <1>5, <1>9 DEF Bounds, TypeInv
<1>11. NoneDead'
  <2>1. \A t \in Tables : <<t, 0>> \notin dead'
    <3>1. \A t \in Tables : <<t, 0>>[2] = 0
      OBVIOUS
    <3> QED
      BY <1>9, <3>1 DEF TypeInv
  <2> QED
    BY <1>1, <1>3, <1>4, <2>1 DEF NoneDead
<1>12. TablesSurvive' /\ RowsAreKept'
  BY <1>1, <1>3, <1>4 DEF TablesSurvive, RowsAreKept, NoTable
<1> QED
  BY <1>6, <1>7, <1>8, <1>10, <1>11, <1>12

-----------------------------------------------------------------------------
(* Steps of a request that changes the tables, beside others which make    *)
(* other tables, or read and write rows.                                   *)

LEMMA TablesBeside ==
  ASSUME NEW q, RightRequest(q), q # Idle, Sound(q), ~Structural(q.op), handle # None,
         UNCHANGED <<file, handle, requests, rows, edited, dead, erased, failed>>,
         \A t \in q.make : reg'[handle][t] = reg[handle][t] /\ tables'[t] = tables[t],
         \A t \in Tables : reg[handle][t] # NoTable => reg'[handle][t] = reg[handle][t],
         q.stage = "write" => sidecar' \in {sidecar, Torn}
  PROVE  Sound(q)'
<1>1. RightPath(q) /\ OwnNumber(q) /\ Opening(q) /\ Shape(q) /\ OnRows(q)
  BY DEF Sound
<1>2. /\ q.stage \notin {"idle", "forget", "unregister", "unlink", "unlink_schema"}
      /\ q.op.kind \notin {"create", "drop", "drop_table"}
  BY SteadyStage
<1>3. q.stage \notin {"publish", "connect"}
  BY <1>1 DEF Opening
<1>4. q.stage \in {"check_ids", "put"} => q.into \in Tables
  BY DEF RightRequest, RightTables, Progress
<1>5. OwnNumber(q)'
  BY <1>1 DEF OwnNumber
<1>6. Opening(q)'
  BY <1>1, <1>2, <1>3 DEF Opening
<1>7. Shape(q)'
  BY <1>1, <1>2 DEF Shape, Changed
<1>8. Dropping(q)' /\ RightPath(q)'
  BY <1>1, <1>2 DEF Dropping, RightPath
<1>9. OnRows(q)'
  BY <1>1, <1>2, <1>4 DEF OnRows
<1> QED
  BY <1>5, <1>6, <1>7, <1>8, <1>9 DEF Sound

LEMMA OthersAround ==
  ASSUME TypeInv, IInv, NEW th \in Threads, Busy(th), NEW r, r = req[th],
         NEW s, Moved(th, s), Sound(s)', s # Idle => s.op = r.op /\ s.by = r.by, handle # None,
         UNCHANGED <<file, handle, requests, rows, edited, erased, failed>>,
         Structural(r.op) \/ dead' = dead,
         Structural(r.op) \/ \A t \in Tables : t \notin r.make => reg'[handle][t] = reg[handle][t] /\ tables'[t] = tables[t],
         Structural(r.op) \/ \A t \in Tables : reg[handle][t] # NoTable => reg'[handle][t] = reg[handle][t],
         \A u \in Threads : u # th /\ req[u].stage = "write" => sidecar' \in {sidecar, Torn}
  PROVE  /\ Requested' /\ Taking' /\ req'[th] = s
         /\ \A u \in Threads : u # th => req'[u] = req[u]
<1> USE DEF IInv
<1>1. req'[th] = s /\ \A u \in Threads : u # th => req'[u] = req[u]
  BY MovedFacts
<1>2. ASSUME NEW u \in Threads, u # th, Busy(u)
      PROVE  \E q : q = req[u] /\ Sound(q)'
  <2> PICK q : q = req[u]
    OBVIOUS
  <2>1. ~Structural(q.op) /\ ~Structural(r.op) /\ \A t \in q.make : t \notin r.make
    BY <1>2, Beside
  <2>2. RightRequest(q) /\ q # Idle /\ Sound(q) /\ q.make \subseteq Tables
    BY <1>2, SoundFacts DEF Requested, Busy, RightRequest, Progress
  <2>3. \A t \in q.make : reg'[handle][t] = reg[handle][t] /\ tables'[t] = tables[t]
    BY <2>1, <2>2
  <2>4. q.stage = "write" => sidecar' \in {sidecar, Torn}
    BY <1>2
  <2>5. Sound(q)'
    BY <2>1, <2>2, <2>3, <2>4, TablesBeside
  <2> QED
    BY <2>5
<1>3. Requested'
  BY <1>2, RequestedKept
<1>4. Taking'
  BY TakingKept
<1> QED
  BY <1>1, <1>3, <1>4

LEMMA DefineStep ==
  ASSUME TypeInv, IInv, NEW th \in Threads, Define(th)
  PROVE  IInv'
<1> USE DEF IInv
<1> PICK r : r = req[th]
  OBVIOUS
<1>1. /\ Busy(th) /\ r.stage = "define" /\ r.op.kind \in {"create_table", "import"}
      /\ UNCHANGED <<file, sidecar, handle, requests, tables, rows, edited, dead, erased, failed>>
  BY BusyStage DEF Define, At, history
<1>2. /\ RightRequest(r) /\ RightPath(r) /\ OwnNumber(r) /\ Opening(r) /\ r.make \subseteq Tables
      /\ r.by \in Creations /\ r.by # NoTable
  BY <1>1, SoundFacts, StageFacts, Numbered DEF RightRequest, Progress, OwnNumber, NoTable
<1>3. /\ handle # None /\ r.h = handle /\ handle \in Handles /\ file # None /\ file.blocks = {}
      /\ reg[handle] \in Registries /\ \A t \in r.make : reg[handle][t] = NoTable
  BY <1>1, <1>2 DEF Opening, Inside, Stored, TypeInv
<1>4. ~Structural(r.op)
  BY <1>1 DEF Structural
<1>5. /\ reg' = [reg EXCEPT ![handle] = [t \in Tables |-> IF t \in r.make THEN r.by ELSE @[t]]]
      /\ Goto(th, "dump")
  BY <1>3 DEF Define, AfterChange
<1>6. PICK s : /\ Moved(th, s) /\ s # Idle /\ s.stage = "dump" /\ s.seen = r.seen
               /\ s.op = r.op /\ s.by = r.by /\ s.next = r.next /\ s.h = r.h
               /\ s.make = r.make /\ s.left = r.left
  BY <1>5, StageMoved DEF Stages
<1>7. /\ \A t \in r.make : reg'[handle][t] = r.by
      /\ \A t \in Tables : t \notin r.make => reg'[handle][t] = reg[handle][t]
  BY <1>2, <1>3, <1>5 DEF TypeInv
<1>8. Sidecar' = Sidecar
  BY <1>1 DEF Sidecar
<1>9. \A n : \A t \in Tables : Uses(n, t)' => Uses(n, t) \/ n = r.by
  BY <1>1, <1>7, <1>8 DEF Uses
<1>10. \A t \in Tables : reg[handle][t] # NoTable => reg'[handle][t] = reg[handle][t]
  BY <1>3, <1>7
<1>13. \A t \in r.make : tables[t] = NoTable
  BY <1>2, <1>3 DEF TablesSurvive
<1>14. Sound(s)'
  <2>1. RightPath(s)
    BY <1>1, <1>2, <1>6 DEF RightPath, Saving
  <2>2. OwnNumber(s)'
    BY <1>1, <1>2, <1>6 DEF OwnNumber
  <2>3. Opening(s)'
    BY <1>1, <1>3, <1>6 DEF Opening
  <2>4. Shape(s)'
    BY <1>1, <1>6, <1>7, <1>13 DEF Shape, Saving, Defined, Changed
  <2>5. Dropping(s)' /\ OnRows(s)'
    BY <1>1, <1>6 DEF Dropping, OnRows
  <2> QED
    BY <2>1, <2>2, <2>3, <2>4, <2>5 DEF Sound
<1>15. Requested' /\ Taking' /\ req'[th] = s /\ \A u \in Threads : u # th => req'[u] = req[u]
  BY <1>1, <1>3, <1>4, <1>6, <1>7, <1>10, <1>14, OthersAround
<1>16. Stored' /\ Earlier'
  <2>1. \A u \in Threads : req[u].stage \in {"write", "unlink_schema"} => req'[u] = req[u]
    BY <1>1, <1>15
  <2> QED
    BY <1>1, <1>3, <2>1 DEF Stored, Earlier
<1>17. Snapshots'
  <2>1. \A t \in Tables : (Unread(t) \/ t \in r.make => Unread(t)') /\ (Unwritten(t) \/ t \in r.make => Unwritten(t)')
    <3>1. Changed(s) = r.make /\ s.stage \in Saving
      BY <1>1, <1>6 DEF Changed, Saving
    <3>2. \A u \in Threads : req[u].stage \in Saving => req'[u] = req[u]
      BY <1>1, <1>15 DEF Saving
    <3> QED
      BY <1>6, <1>15, <3>1, <3>2 DEF Unread, Unwritten, Saving
  <2>2. \A u \in Threads : Writing(u)' => Writing(u) /\ req'[u] = req[u]
    BY <1>6, <1>15 DEF Writing
  <2> SUFFICES /\ \A u \in Threads : Writing(u)' => \A t \in Tables :
                    req[u].dump[t] = reg'[handle][t] \/ (Unread(t)' /\ req[u].dump[t] = NoTable)
               /\ sidecar # Torn => \A t \in Tables : Sidecar[t] = reg'[handle][t] \/ Unwritten(t)'
    BY <1>1, <1>8, <2>2 DEF Snapshots
  <2>3. ASSUME NEW u \in Threads, Writing(u)', NEW t \in Tables
        PROVE  req[u].dump[t] = reg'[handle][t] \/ (Unread(t)' /\ req[u].dump[t] = NoTable)
    <3>1. req[u].dump[t] = reg[handle][t] \/ (Unread(t) /\ req[u].dump[t] = NoTable)
      BY <2>2, <2>3 DEF Snapshots
    <3> QED
      BY <1>3, <1>7, <2>1, <3>1
  <2>4. ASSUME sidecar # Torn, NEW t \in Tables
        PROVE  Sidecar[t] = reg'[handle][t] \/ Unwritten(t)'
    BY <1>3, <1>7, <2>1, <2>4 DEF Snapshots
  <2> QED
    BY <2>3, <2>4
<1>18. Bounds'
  <2>1. r.by <= requests
    BY <1>2 DEF OwnNumber
  <2> QED
    BY <1>1, <1>9, <2>1 DEF Bounds
<1>20. NoneDead'
  <2>1. \A t \in Tables : <<t, r.by>> \notin dead
    BY <1>2 DEF OwnNumber
  <2> QED
    BY <1>1, <1>3, <1>7, <1>8, <2>1 DEF NoneDead
<1>21. RowsRight' /\ RowsAreKept'
  BY <1>1 DEF RowsRight, RowsAreKept
<1>22. TablesSurvive'
  <2>1. \A t \in Tables : tables[t] # NoTable => reg'[handle][t] = tables[t]
    BY <1>3, <1>10 DEF TablesSurvive
  <2>2. InStep'
    BY <1>1, <1>3, <1>15, <1>16, <1>17, <2>1 DEF InStep
  <2> QED
    BY <2>2, Surviving, PTL
<1> QED
  BY <1>15, <1>16, <1>17, <1>18, <1>20, <1>21, <1>22

(* What holds of a request that is writing the sidecar. *)
LEMMA SavingFacts ==
  ASSUME TypeInv, IInv, NEW th \in Threads, NEW r, r = req[th], r.stage \in {"truncate", "write", "acknowledge"}
  PROVE  /\ Busy(th) /\ RightRequest(r) /\ RightPath(r) /\ OwnNumber(r) /\ Opening(r) /\ Shape(r) /\ Dropping(r)
         /\ r.op.kind \in {"create_table", "drop_table", "import"}
         /\ r.op.kind \in {"create_table", "drop_table"} => r.op.table \in Tables
         /\ handle # None /\ r.h = handle /\ handle \in Handles /\ file # None /\ file.blocks = {}
         /\ reg[handle] \in Registries /\ (Structural(r.op) <=> r.op.kind = "drop_table")
<1> USE DEF IInv
<1>1. Busy(th)
  BY BusyStage
<1>2. /\ RightRequest(r) /\ RightPath(r) /\ OwnNumber(r) /\ Opening(r) /\ Shape(r) /\ Dropping(r)
  BY <1>1, SoundFacts
<1>3. r.op.kind \in {"create_table", "drop_table", "import"} /\ (r.stage = "acknowledge" => r.op.kind # "import")
  BY <1>2 DEF RightRequest, KindsAt
<1>4. r.op.kind \in {"create_table", "drop_table"} => r.op.table \in Tables
  BY <1>3, StageFacts DEF Name, TableKinds
<1>5. handle # None /\ r.h = handle
  BY <1>2 DEF Opening, Inside, Saving
<1>6. handle \in Handles /\ file # None /\ file.blocks = {} /\ reg[handle] \in Registries
  BY <1>5 DEF Stored, TypeInv
<1>7. Structural(r.op) <=> r.op.kind = "drop_table"
  BY <1>3 DEF Structural
<1> QED
  BY <1>1, <1>2, <1>3, <1>4, <1>5, <1>6, <1>7

LEMMA TruncateStep ==
  ASSUME TypeInv, IInv, NEW th \in Threads, Truncate(th)
  PROVE  IInv'
<1> USE DEF IInv
<1> PICK r : r = req[th]
  OBVIOUS
<1>1. /\ r.stage = "truncate" /\ sidecar' = Torn /\ Goto(th, "write")
      /\ UNCHANGED <<file, handle, reg, requests, tables, rows, edited, dead, erased, failed>>
  BY DEF Truncate, memory, history
<1>2. /\ Busy(th) /\ RightRequest(r) /\ RightPath(r) /\ OwnNumber(r) /\ Opening(r) /\ Shape(r) /\ Dropping(r)
      /\ handle # None /\ handle \in Handles /\ file # None /\ file.blocks = {} /\ reg[handle] \in Registries
  BY <1>1, SavingFacts
<1>3. PICK s : /\ Moved(th, s) /\ s # Idle /\ s.stage = "write" /\ s.seen = r.seen /\ s.dump = r.dump
               /\ s.op = r.op /\ s.by = r.by /\ s.next = r.next /\ s.h = r.h
               /\ s.make = r.make /\ s.left = r.left
  BY <1>1, StageMoved DEF Stages
<1>4. Sidecar' = Empty /\ \A t \in Tables : Empty[t] = NoTable
  BY <1>1 DEF Sidecar, Empty
<1>5. Fewer /\ FewerRows
  BY <1>1, <1>4 DEF Fewer, FewerRows, Uses
<1>6. Sound(s)'
  <2>1. RightPath(s)
    BY <1>1, <1>2, <1>3 DEF RightPath, Saving
  <2>2. OwnNumber(s)'
    BY <1>1, <1>2, <1>3, <1>5, FewerOwn
  <2>3. Opening(s)'
    BY <1>1, <1>2, <1>3 DEF Opening, Inside, Saving
  <2>4. Shape(s)'
    BY <1>1, <1>2, <1>3 DEF Shape, Saving, Defined, Changed
  <2>5. Dropping(s)' /\ OnRows(s)'
    BY <1>1, <1>2, <1>3 DEF Dropping, OnRows, Saving
  <2> QED
    BY <2>1, <2>2, <2>3, <2>4, <2>5 DEF Sound
<1>7. Requested' /\ Taking' /\ req'[th] = s /\ \A u \in Threads : u # th => req'[u] = req[u]
  BY <1>1, <1>2, <1>3, <1>6, OthersAround
<1>8. Stored' /\ Earlier'
  BY <1>1, <1>2, <1>3, <1>7 DEF Stored, Earlier
<1>9. Snapshots'
  <2>1. \A u \in Threads : Writing(u)' => Writing(u) /\ req'[u].dump = req[u].dump
    BY <1>1, <1>3, <1>7 DEF Writing
  <2>2. \A t \in Tables : Unread(t) => Unread(t)'
    BY <1>1, <1>7 DEF Unread
  <2> QED
    BY <1>1, <2>1, <2>2 DEF Snapshots
<1>10. Bounds' /\ RowsRight'
  BY <1>1, <1>5, FewerUses, FewerRight
<1>11. NoneDead'
  <2>1. \A t \in Tables : <<t, NoTable>> \notin dead
    <3>1. \A t \in Tables : <<t, NoTable>>[2] = 0
      BY DEF NoTable
    <3> QED
      BY <3>1 DEF Bounds, TypeInv
  <2> QED
    BY <1>1, <1>4, <2>1 DEF NoneDead
<1>12. RowsAreKept'
  BY <1>1 DEF RowsAreKept
<1>13. TablesSurvive'
  <2>1. \A t \in Tables : tables[t] # NoTable => reg[handle][t] = tables[t]
    BY <1>2 DEF TablesSurvive
  <2>2. InStep'
    BY <1>1, <1>2, <1>7, <1>8, <1>9, <2>1 DEF InStep
  <2> QED
    BY <2>2, Surviving, PTL
<1> QED
  BY <1>7, <1>8, <1>9, <1>10, <1>11, <1>12, <1>13

LEMMA WriteStep ==
  ASSUME TypeInv, IInv, Windows, NEW th \in Threads, Write(th)
  PROVE  IInv'
<1> USE DEF IInv
<1> PICK r : r = req[th]
  OBVIOUS
<1> PICK stage : stage = IF r.op.kind = "import" THEN "insert" ELSE "acknowledge"
  OBVIOUS
<1>1. /\ r.stage = "write" /\ sidecar' = r.dump /\ Goto(th, stage)
      /\ UNCHANGED <<file, handle, reg, requests, tables, rows, edited, dead, erased, failed>>
  BY DEF Write, memory, history
<1>2. /\ Busy(th) /\ RightRequest(r) /\ RightPath(r) /\ OwnNumber(r) /\ Opening(r) /\ Shape(r) /\ Dropping(r)
      /\ handle # None /\ handle \in Handles /\ file # None /\ file.blocks = {} /\ reg[handle] \in Registries
      /\ r.dump \in Registries
  BY <1>1, SavingFacts DEF RightRequest
<1>3. PICK s : /\ Moved(th, s) /\ s # Idle /\ s.stage = stage /\ s.seen = r.seen /\ s.dump = r.dump
               /\ s.op = r.op /\ s.by = r.by /\ s.next = r.next /\ s.h = r.h
               /\ s.make = r.make /\ s.left = r.left
  BY <1>1, StageMoved DEF Stages
<1>4. sidecar' \notin {None, Torn} /\ Sidecar' = r.dump
  BY <1>1, <1>2, AbsentAssumption DEF Sidecar
<1>5. \A t \in Tables : r.dump[t] = reg[handle][t] \/ (Unread(t) /\ r.dump[t] = NoTable)
  BY <1>1 DEF Snapshots, Writing
<1>6. Fewer /\ FewerRows
  BY <1>1, <1>2, <1>4, <1>5 DEF Fewer, FewerRows, Uses
<1>7. Sound(s)'
  <2>1. RightPath(s)
    BY <1>1, <1>2, <1>3 DEF RightPath, Saving
  <2>2. OwnNumber(s)'
    BY <1>1, <1>2, <1>3, <1>6, FewerOwn
  <2>3. Opening(s)'
    BY <1>1, <1>2, <1>3 DEF Opening, Inside, Saving
  <2>4. Shape(s)'
    BY <1>1, <1>2, <1>3 DEF Shape, Saving, Defined
  <2>5. Dropping(s)' /\ OnRows(s)'
    BY <1>1, <1>2, <1>3 DEF Dropping, OnRows, Saving
  <2> QED
    BY <2>1, <2>2, <2>3, <2>4, <2>5 DEF Sound
<1>8. \A u \in Threads : u # th => req[u].stage \notin {"truncate", "write"}
  BY <1>1 DEF Windows, Writing
<1>9. Requested' /\ Taking' /\ req'[th] = s /\ \A u \in Threads : u # th => req'[u] = req[u]
  BY <1>1, <1>2, <1>3, <1>7, <1>8, OthersAround
<1>10. Stored' /\ Earlier'
  BY <1>1, <1>2, <1>4 DEF Stored, Earlier
<1>11. Snapshots'
  <2>1. \A u \in Threads : ~Writing(u)'
    BY <1>3, <1>8, <1>9 DEF Writing
  <2>2. \A t \in Tables : Unread(t) => Unwritten(t)'
    BY <1>1, <1>9 DEF Unread, Unwritten, Saving
  <2> QED
    BY <1>1, <1>4, <1>5, <2>1, <2>2 DEF Snapshots
<1>12. Bounds' /\ RowsRight'
  BY <1>1, <1>6, FewerUses, FewerRight
<1>13. NoneDead'
  <2>1. \A t \in Tables : <<t, NoTable>> \notin dead
    <3>1. \A t \in Tables : <<t, NoTable>>[2] = 0
      BY DEF NoTable
    <3> QED
      BY <3>1 DEF Bounds, TypeInv
  <2> QED
    BY <1>1, <1>2, <1>4, <1>5, <2>1 DEF NoneDead
<1>14. RowsAreKept'
  BY <1>1 DEF RowsAreKept
<1>15. TablesSurvive'
  <2>1. \A t \in Tables : tables[t] # NoTable => reg[handle][t] = tables[t]
    BY <1>2 DEF TablesSurvive
  <2>2. InStep'
    BY <1>1, <1>2, <1>9, <1>10, <1>11, <2>1 DEF InStep
  <2> QED
    BY <2>2, Surviving, PTL
<1> QED
  BY <1>9, <1>10, <1>11, <1>12, <1>13, <1>14, <1>15

LEMMA AcknowledgeStep ==
  ASSUME TypeInv, IInv, NEW th \in Threads, Acknowledge(th)
  PROVE  IInv'
<1> USE DEF IInv
<1> PICK r : r = req[th]
  OBVIOUS
<1>1. /\ r.stage = "acknowledge" /\ Moved(th, Idle)
      /\ UNCHANGED <<file, sidecar, handle, reg, requests, rows, edited, erased, failed>>
      /\ \/ /\ r.op.kind = "create_table" /\ dead' = dead
            /\ tables' = [t \in Tables |-> IF t \in r.make THEN r.by ELSE tables[t]]
         \/ r.op.kind = "drop_table" /\ dead' = dead \cup {<<r.op.table, r.seen>>} /\ tables' = tables
  BY DEF Acknowledge, Done, Moved, Made, Name, memory
<1>2. /\ Busy(th) /\ RightRequest(r) /\ OwnNumber(r) /\ Opening(r) /\ Shape(r) /\ Dropping(r)
      /\ handle # None /\ handle \in Handles /\ file # None /\ file.blocks = {} /\ reg[handle] \in Registries
      /\ r.op.table \in Tables
      /\ Structural(r.op) <=> r.op.kind = "drop_table"
  BY <1>1, SavingFacts
<1>3. r.op.kind # "drop_table" => \A t \in r.make : reg[handle][t] = r.by
  BY <1>1, <1>2 DEF Shape, Defined
<1>4. Sidecar' = Sidecar
  BY <1>1 DEF Sidecar
<1>5. \A n : \A t \in Tables : Uses(n, t)' => Uses(n, t)
  BY <1>1, <1>4 DEF Uses
<1>6. r.op.kind = "drop_table" => OnlyAt(th) /\ reg[handle] = Sidecar
  BY <1>1, <1>2, AloneHere, Quiet DEF Saving
<1>7. Sound(Idle)'
  BY DEF Sound
<1>8. Structural(r.op) \/ (dead' = dead /\ \A t \in Tables : t \notin r.make => tables'[t] = tables[t])
  BY <1>1, <1>2
<1>9. Requested' /\ Taking' /\ req'[th] = Idle /\ \A u \in Threads : u # th => req'[u] = req[u]
  <2>1. CASE Structural(r.op)
    BY <1>1, <1>2, <1>7, <2>1, OthersAround
  <2>2. CASE ~Structural(r.op)
    BY <1>1, <1>2, <1>7, <1>8, <2>2, OthersAround
  <2> QED
    BY <2>1, <2>2
<1>10. Stored' /\ Earlier'
  <2>1. \A u \in Threads : req[u].stage \in {"write", "unlink_schema"} => req'[u] = req[u]
    BY <1>1, <1>9
  <2> QED
    BY <1>1, <1>2, <2>1 DEF Stored, Earlier
<1>11. Snapshots'
  BY <1>1, PlainSnapshots DEF Saving, Idle
<1>12. r.op.kind = "drop_table" => r.seen \in 1 .. requests /\ file.rows[r.op.table] = NoRows[r.op.table]
  BY <1>1, <1>2 DEF Dropping
<1>13. \A d \in dead' : d[2] \in 1 .. requests
  <2>1. <<r.op.table, r.seen>>[2] = r.seen
    OBVIOUS
  <2> QED
    BY <1>1, <1>12, <2>1 DEF Bounds
<1>14. Bounds'
  BY <1>1, <1>5, <1>13 DEF Bounds
<1>15. NoneDead'
  <2>1. CASE r.op.kind = "create_table"
    BY <1>1, <1>4, <2>1 DEF NoneDead
  <2>2. CASE r.op.kind = "drop_table"
    <3>1. reg[handle][r.op.table] # r.seen
      BY <1>1, <1>2, <1>12, <2>2 DEF Shape, NoTable
    <3> QED
      BY <1>1, <1>4, <1>6, <2>2, <3>1 DEF NoneDead
  <2> QED
    BY <1>1, <2>1, <2>2
<1>16. RowsRight'
  <2> SUFFICES ASSUME NEW t \in Tables, NEW i \in Ids, file.rows[t][i] # None
               PROVE  <<t, file.rows[t][i].table>> \notin dead'
    BY <1>1 DEF RowsRight
  <2>1. <<t, file.rows[t][i].table>> \notin dead
    BY <1>2 DEF RowsRight
  <2>2. r.op.kind = "drop_table" => t # r.op.table
    BY <1>2, <1>12 DEF NoRows
  <2> QED
    BY <1>1, <2>1, <2>2
<1>17. RowsAreKept'
  BY <1>1 DEF RowsAreKept
<1>18. TablesSurvive'
  <2>1. \A t \in Tables : tables'[t] # NoTable => reg[handle][t] = tables'[t]
    BY <1>1, <1>2, <1>3 DEF TablesSurvive
  <2>2. InStep'
    BY <1>1, <1>2, <1>9, <1>10, <1>11, <2>1 DEF InStep
  <2> QED
    BY <2>2, Surviving, PTL
<1> QED
  BY <1>9, <1>10, <1>11, <1>14, <1>15, <1>16, <1>17, <1>18

-----------------------------------------------------------------------------
(* Steps that change rows, beside requests which read and write rows, or   *)
(* make tables.                                                            *)

LEMMA RowsBeside ==
  ASSUME NEW q, q # Idle, Sound(q), handle # None,
         q.stage \notin {"unregister", "unlink", "unlink_schema"},
         q.op.kind \notin {"create", "drop", "drop_table"},
         UNCHANGED <<sidecar, handle, reg, requests, dead, failed>>,
         \A t \in q.left, i \in Ids : file'.rows[t][i] # None => file'.rows[t][i].by # q.by,
         \A e \in erased' \cup edited' : e[3] = q.by => e[1] \notin q.left,
         \A t \in q.make : tables'[t] = tables[t],
         q.stage = "rewrite" => \A m \in q.seen : file'.rows[q.op.table][m[1]] = m[2]
  PROVE  Sound(q)'
<1>1. RightPath(q) /\ OwnNumber(q) /\ Opening(q) /\ Shape(q) /\ OnRows(q)
  BY DEF Sound
<1>2. q.stage \notin {"publish", "connect"}
  BY <1>1 DEF Opening
<1>3. OwnNumber(q)'
  BY <1>1 DEF OwnNumber
<1>4. Opening(q)'
  BY <1>1, <1>2 DEF Opening
<1>5. Shape(q)'
  BY <1>1 DEF Shape, Changed
<1>6. Dropping(q)' /\ RightPath(q)'
  BY <1>1 DEF Dropping, RightPath
<1>7. OnRows(q)'
  BY <1>1 DEF OnRows
<1> QED
  BY <1>3, <1>4, <1>5, <1>6, <1>7 DEF Sound

(* A request that is at a row of a table. *)
LEMMA AtRows ==
  ASSUME TypeInv, IInv, NEW th \in Threads, NEW r, r = req[th], r.stage \in {"put", "erase", "rewrite"}
  PROVE  /\ Busy(th) /\ RightRequest(r) /\ RightPath(r) /\ OwnNumber(r) /\ Opening(r) /\ Shape(r) /\ OnRows(r)
         /\ r.stage = "put" => r.op.kind \in {"insert", "import"} /\ r.into \in r.left
         /\ r.stage = "erase" => r.op.kind = "delete_row" /\ r.op.table \in Tables
         /\ r.stage = "rewrite" => r.op.kind = "update" /\ r.op.table \in Tables
         /\ r.op.ids \subseteq Ids /\ r.left \subseteq Tables /\ r.make \subseteq Tables
         /\ ~Structural(r.op) /\ r.by \in Creations
         /\ handle # None /\ handle \in Handles /\ r.h = handle
         /\ file # None /\ file \in Files /\ file.blocks = {}
         /\ reg[handle] \in Registries /\ Registry(th) = reg[handle]
<1> USE DEF IInv
<1>1. Busy(th)
  BY BusyStage
<1>2. /\ RightRequest(r) /\ RightPath(r) /\ OwnNumber(r) /\ Opening(r) /\ Shape(r) /\ OnRows(r)
      /\ r \in Progress /\ r.by \in Creations /\ RightTables(r)
  BY <1>1, SoundFacts DEF RightRequest, Progress
<1>3. /\ r.stage = "put" => r.op.kind \in {"insert", "import"} /\ r.into \in r.left
      /\ r.stage = "erase" => r.op.kind = "delete_row"
      /\ r.stage = "rewrite" => r.op.kind = "update"
  BY <1>2 DEF RightRequest, KindsAt, RightTables
<1>4. /\ r.op.kind \in {"delete_row", "update"} => r.op.table \in Tables
      /\ r.op.ids \subseteq Ids /\ ~Structural(r.op) /\ r.left \subseteq Tables /\ r.make \subseteq Tables
  BY <1>2, <1>3, StageFacts DEF Name, TableKinds, Structural, Progress
<1>5. handle # None /\ r.h = handle
  BY <1>2 DEF Opening, Inside
<1>6. handle \in Handles /\ file # None /\ file \in Files /\ file.blocks = {} /\ reg[handle] \in Registries
  BY <1>5 DEF Stored, TypeInv
<1>7. Registry(th) = reg[handle]
  BY <1>5 DEF Registry
<1> QED
  BY <1>1, <1>2, <1>3, <1>4, <1>5, <1>6, <1>7

(* What such a step does: to the requests, to the tables it has made, to   *)
(* the rows, and to what is remembered of them.                            *)
RowsChange(th, r, s, f, g) ==
  /\ r = req[th] /\ f = file /\ file' = g /\ Moved(th, s) /\ (s # Idle => s.op = r.op /\ s.by = r.by)
  /\ r.stage \in {"put", "erase", "rewrite"} /\ s.stage \notin Saving
  /\ g \in Files /\ g.blocks = {}
  /\ UNCHANGED <<sidecar, handle, reg, requests, dead, failed>>
TablesOf(r) == \A t \in Tables :
  /\ t \notin r.make => tables'[t] = tables[t]
  /\ tables'[t] # NoTable => reg[handle][t] = tables'[t]
RowsOf(r, f, g) == \A t \in Tables, i \in Ids : g.rows[t][i] # None =>
  \/ f.rows[t][i] # None /\ g.rows[t][i].by = f.rows[t][i].by /\ g.rows[t][i].table = f.rows[t][i].table
  \/ t \in r.left /\ g.rows[t][i].by = r.by /\ g.rows[t][i].table = reg[handle][t]
Touched(r, f, g) == \A t \in Tables, i \in Ids :
  \/ g.rows[t][i] = f.rows[t][i] \/ f.rows[t][i] = None
  \/ r.op.kind \in {"update", "delete_row"} /\ t = r.op.table
There(f, e) == /\ e[1] \in Tables /\ e[2] \in Ids
               /\ f.rows[e[1]][e[2]] # None /\ f.rows[e[1]][e[2]].by = e[3]
Logged(f, g) ==
  /\ \A e \in erased' \cup edited' : e \in erased \cup edited \/ There(f, e)
  /\ \A e \in erased' : e \in erased \/ g.rows[e[1]][e[2]] = None

LEMMA RowsOthers ==
  ASSUME TypeInv, IInv, NEW th \in Threads, NEW r, NEW s, NEW f, NEW g, RowsChange(th, r, s, f, g),
         TablesOf(r), RowsOf(r, f, g), Touched(r, f, g), Logged(f, g),
         NEW u \in Threads, u # th, Busy(u), NEW q, q = req[u]
  PROVE  Sound(q)'
<1> USE DEF IInv
<1>1. /\ r = req[th] /\ f = file /\ file' = g /\ r.stage \in {"put", "erase", "rewrite"}
      /\ UNCHANGED <<sidecar, handle, reg, requests, dead, failed>>
  BY DEF RowsChange
<1>2. Busy(th) /\ handle # None /\ f # None
  BY <1>1, AtRows
<1>3. /\ ~Structural(q.op) /\ q.by # r.by /\ (\A t \in q.make : t \notin r.make)
      /\ q.op.kind = "update" /\ r.op.kind \in {"update", "delete_row"} => q.op.table # r.op.table
  BY <1>1, <1>2, Beside
<1>4. /\ RightRequest(q) /\ q # Idle /\ Sound(q) /\ OwnNumber(q) /\ OnRows(q)
      /\ q.left \subseteq Tables /\ q.make \subseteq Tables
  BY SoundFacts DEF Requested, Busy, RightRequest, Progress
<1>5. \A t \in q.left, i \in Ids : g.rows[t][i] # None => g.rows[t][i].by # q.by
  BY <1>1, <1>2, <1>3, <1>4 DEF RowsOf, OwnNumber
<1>6. \A e \in erased' \cup edited' : e[3] = q.by => e[1] \notin q.left
  <2> SUFFICES ASSUME NEW e \in erased' \cup edited', e[3] = q.by
               PROVE  e[1] \notin q.left
    OBVIOUS
  <2>1. CASE e \in erased \cup edited
    BY <1>4, <2>1 DEF OwnNumber
  <2>2. CASE There(f, e)
    BY <1>1, <1>2, <1>4, <2>2 DEF There, OwnNumber
  <2> QED
    BY <2>1, <2>2 DEF Logged
<1>7. \A t \in q.make : tables'[t] = tables[t]
  BY <1>3, <1>4 DEF TablesOf
<1>8. q.stage = "rewrite" => \A m \in q.seen : g.rows[q.op.table][m[1]] = m[2]
  <2> SUFFICES ASSUME q.stage = "rewrite", NEW m \in q.seen
               PROVE  g.rows[q.op.table][m[1]] = m[2]
    OBVIOUS
  <2>1. q.op.kind = "update" /\ q.op.table \in Tables
    BY AtRows
  <2>2. f.rows[q.op.table][m[1]] = m[2] /\ m \in Ids \X Rows
    BY <1>1, <1>4 DEF OnRows, RightRequest
  <2>3. m[1] \in Ids /\ m[2] # None
    BY <2>2, AbsentAssumption
  <2> QED
    BY <1>3, <2>1, <2>2, <2>3 DEF Touched
<1>9. /\ q.stage \notin {"unregister", "unlink", "unlink_schema"}
      /\ q.op.kind \notin {"create", "drop", "drop_table"}
  BY <1>3, <1>4, SteadyStage
<1> QED
  BY <1>1, <1>2, <1>4, <1>5, <1>6, <1>7, <1>8, <1>9, RowsBeside

LEMMA RowsStep ==
  ASSUME TypeInv, IInv, NEW th \in Threads, NEW r, NEW s, NEW f, NEW g, RowsChange(th, r, s, f, g),
         TablesOf(r), RowsOf(r, f, g), Touched(r, f, g), Logged(f, g), Sound(s)', RowsAreKept'
  PROVE  IInv'
<1> USE DEF IInv
<1>1. /\ r = req[th] /\ f = file /\ file' = g /\ r.stage \in {"put", "erase", "rewrite"} /\ s.stage \notin Saving
      /\ Moved(th, s) /\ (s # Idle => s.op = r.op /\ s.by = r.by) /\ g.blocks = {} /\ g # None
      /\ UNCHANGED <<sidecar, handle, reg, requests, dead, failed>>
  BY AbsentAssumption DEF RowsChange
<1>2. /\ Busy(th) /\ OwnNumber(r) /\ ~Structural(r.op) /\ handle # None /\ f # None /\ reg[handle] \in Registries
  BY <1>1, AtRows
<1>3. req'[th] = s /\ \A u \in Threads : u # th => req'[u] = req[u]
  BY <1>1, MovedFacts
<1>4. Requested'
  <2>1. ASSUME NEW u \in Threads, u # th, Busy(u)
        PROVE  \E q : q = req[u] /\ Sound(q)'
    <3> PICK q : q = req[u]
      OBVIOUS
    <3>1. Sound(q)'
      BY <2>1, RowsOthers
    <3> QED
      BY <3>1
  <2> QED
    BY <1>1, <2>1, RequestedKept
<1>5. Taking'
  BY <1>1, <1>2, TakingKept
<1>6. Stored' /\ Earlier'
  <2>1. \A u \in Threads : req[u].stage \in {"write", "unlink_schema"} => req'[u] = req[u]
    BY <1>1, <1>3
  <2> QED
    BY <1>1, <1>2, <2>1 DEF Stored, Earlier
<1>7. Snapshots'
  BY <1>1, PlainSnapshots DEF Saving
<1>8. Sidecar' = Sidecar
  BY <1>1 DEF Sidecar
<1>9. NoneDead'
  BY <1>1, <1>8 DEF NoneDead
<1>10. \A n : \A t \in Tables : Uses(n, t)' => Uses(n, t)
  <2> SUFFICES ASSUME NEW n, NEW t \in Tables, NEW i \in Ids, g.rows[t][i] # None, g.rows[t][i].table = n
               PROVE  Uses(n, t)
    BY <1>1, <1>2, <1>8 DEF Uses
  <2>1. CASE f.rows[t][i] # None /\ f.rows[t][i].table = n
    BY <1>1, <1>2, <2>1 DEF Uses
  <2>2. CASE reg[handle][t] = n
    BY <1>2, <2>2 DEF Uses
  <2> QED
    BY <2>1, <2>2 DEF RowsOf
<1>11. \A e \in erased' \cup edited' : e[3] <= requests
  <2> SUFFICES ASSUME NEW e \in erased' \cup edited'
               PROVE  e[3] <= requests
    OBVIOUS
  <2>1. CASE e \in erased \cup edited
    BY <2>1 DEF Bounds
  <2>2. CASE There(f, e)
    <3>1. e[3] \in 1 .. requests
      BY <1>1, <1>2, <2>2 DEF There, RowsRight
    <3> QED
      BY <3>1 DEF TypeInv
  <2> QED
    BY <2>1, <2>2 DEF Logged
<1>12. Bounds'
  BY <1>1, <1>10, <1>11 DEF Bounds
<1>13. RowsRight'
  <2> SUFFICES ASSUME NEW t \in Tables, NEW i \in Ids, g.rows[t][i] # None
               PROVE  /\ <<t, g.rows[t][i].table>> \notin dead
                      /\ <<g.rows[t][i].by, t>> \notin failed /\ g.rows[t][i].by \in 1 .. requests
                      /\ \A e \in erased' : e[1] = t /\ e[2] = i => e[3] # g.rows[t][i].by
    BY <1>1 DEF RowsRight
  <2>1. ASSUME NEW e \in erased', e[1] = t, e[2] = i
        PROVE  e \in erased
    BY <2>1 DEF Logged
  <2>2. CASE f.rows[t][i] # None /\ g.rows[t][i].by = f.rows[t][i].by /\ g.rows[t][i].table = f.rows[t][i].table
    <3>1. /\ <<t, f.rows[t][i].table>> \notin dead
          /\ <<f.rows[t][i].by, t>> \notin failed /\ f.rows[t][i].by \in 1 .. requests
          /\ \A e \in erased : e[1] = t /\ e[2] = i => e[3] # f.rows[t][i].by
      BY <1>1, <1>2, <2>2 DEF RowsRight
    <3> QED
      BY <2>1, <2>2, <3>1
  <2>3. CASE t \in r.left /\ g.rows[t][i].by = r.by /\ g.rows[t][i].table = reg[handle][t]
    <3>1. <<t, reg[handle][t]>> \notin dead
      BY <1>2 DEF NoneDead
    <3>2. <<r.by, t>> \notin failed /\ r.by \in 2 .. requests
      BY <1>2 DEF OwnNumber
    <3>3. \A e \in erased : e[3] = r.by => e[1] # t
      BY <1>2, <2>3 DEF OwnNumber
    <3>4. r.by \in 1 .. requests
      BY <3>2
    <3> QED
      BY <2>1, <2>3, <3>1, <3>2, <3>3, <3>4
  <2> QED
    BY <2>2, <2>3 DEF RowsOf
<1>14. TablesSurvive'
  <2>1. \A t \in Tables : tables'[t] # NoTable => reg[handle][t] = tables'[t]
    BY DEF TablesOf
  <2>2. InStep'
    BY <1>1, <1>2, <1>4, <1>6, <1>7, <2>1 DEF InStep
  <2> QED
    BY <2>2, Surviving, PTL
<1> QED
  BY <1>4, <1>5, <1>6, <1>7, <1>9, <1>12, <1>13, <1>14

LEMMA SameTables ==
  ASSUME TypeInv, IInv, NEW r, handle # None, tables' = tables
  PROVE  TablesOf(r)
BY DEF TablesOf, IInv, TablesSurvive

LEMMA EraseStep ==
  ASSUME TypeInv, IInv, NEW th \in Threads, Erase(th)
  PROVE  IInv'
<1> USE DEF IInv
<1> PICK r, f, t : r = req[th] /\ f = file /\ t = r.op.table
  OBVIOUS
<1>1. r.stage = "erase" /\ UNCHANGED <<requests, crashes>>
  BY DEF Erase
<1>2. /\ Busy(th) /\ r.op.kind = "delete_row" /\ t \in Tables /\ r.op.ids \subseteq Ids
      /\ handle # None /\ f # None /\ f \in Files /\ f.blocks = {}
  BY <1>1, AtRows
<1>3. CASE Raise(th)
  BY <1>1, <1>2, <1>3, RaisingStep DEF Saving
<1>4. CASE ~Raise(th)
  <2>1. PICK i \in r.op.ids :
          /\ file' = WithRow(f, t, i, None)
          /\ erased' = IF f.rows[t][i] = None THEN erased ELSE erased \cup {<<t, i, f.rows[t][i].by>>}
          /\ rows' = IF f.rows[t][i] = None THEN rows ELSE rows \ {<<t, i, f.rows[t][i].by>>}
    BY <1>4 DEF Erase, Name, WithRow
  <2>2. Moved(th, Idle) /\ UNCHANGED <<sidecar, handle, reg, requests, tables, edited, dead, failed>>
    BY <1>1, <1>4 DEF Erase, Done, Moved, memory
  <2>3. PICK row, g : row = f.rows[t][i] /\ g = WithRow(f, t, i, None)
    OBVIOUS
  <2>4. i \in Ids
    BY <1>2
  <2>5. /\ file' = g /\ g \in Files /\ g.blocks = f.blocks /\ g.rows[t][i] = None
        /\ \A u \in Tables, j \in Ids : u # t \/ j # i => g.rows[u][j] = f.rows[u][j]
    <3>1. f \in Files /\ t \in Tables /\ i \in Ids /\ None \in Rows \cup {None}
      BY <1>2, <2>4
    <3>2. /\ g \in Files /\ g.blocks = f.blocks /\ g.rows[t][i] = None
          /\ \A u \in Tables, j \in Ids : u # t \/ j # i => g.rows[u][j] = f.rows[u][j]
      BY <2>3, <3>1, OneRow
    <3> QED
      BY <2>1, <2>3, <3>2
  <2>6. RowsChange(th, r, Idle, f, g)
    BY <1>1, <1>2, <2>2, <2>5 DEF RowsChange, Idle, Saving
  <2>7. TablesOf(r)
    BY <1>2, <2>2, SameTables
  <2>8. RowsOf(r, f, g)
    BY <2>5 DEF RowsOf
  <2>9. Touched(r, f, g)
    BY <1>2, <2>5 DEF Touched
  <2>10. Logged(f, g)
    <3>1. row # None => There(f, <<t, i, row.by>>)
      BY <1>2, <2>3, <2>4 DEF There
    <3>2. \A e \in erased' : e \in erased \/ (row # None /\ e = <<t, i, row.by>>)
      BY <2>1, <2>3
    <3> QED
      BY <2>2, <2>5, <3>1, <3>2 DEF Logged
  <2>11. Sound(Idle)'
    BY DEF Sound
  <2>12. RowsAreKept'
    <3> SUFFICES ASSUME NEW k \in rows'
                 PROVE  /\ g.rows[k[1]][k[2]] # None /\ g.rows[k[1]][k[2]].by = k[3]
                        /\ \A e \in edited : <<e[1], e[2], e[3]>> = k => e[4] \in g.rows[k[1]][k[2]].edits
      BY <2>2, <2>5, AbsentAssumption DEF RowsAreKept
    <3>1. k \in rows /\ k \in Tables \X Ids \X Creations
      BY <2>1 DEF TypeInv
    <3>2. /\ f.rows[k[1]][k[2]] # None /\ f.rows[k[1]][k[2]].by = k[3]
          /\ \A e \in edited : <<e[1], e[2], e[3]>> = k => e[4] \in f.rows[k[1]][k[2]].edits
      BY <1>2, <3>1 DEF RowsAreKept
    <3>3. k[1] # t \/ k[2] # i
      BY <2>1, <3>1, <3>2
    <3> QED
      BY <2>5, <3>1, <3>2, <3>3
  <2> QED
    BY <2>6, <2>7, <2>8, <2>9, <2>10, <2>11, <2>12, RowsStep
<1> QED
  BY <1>3, <1>4

LEMMA RewriteStep ==
  ASSUME TypeInv, IInv, NEW th \in Threads, Rewrite(th)
  PROVE  IInv'
<1> USE DEF IInv
<1> PICK r, f, t : r = req[th] /\ f = file /\ t = r.op.table
  OBVIOUS
<1>1. r.stage = "rewrite" /\ UNCHANGED <<requests, crashes>>
  BY DEF Rewrite
<1>2. /\ Busy(th) /\ RightRequest(r) /\ RightPath(r) /\ OwnNumber(r) /\ Opening(r) /\ Shape(r) /\ OnRows(r)
      /\ r.op.kind = "update" /\ t \in Tables /\ r.by \in Creations /\ r.left \subseteq Tables
      /\ handle # None /\ r.h = handle /\ f # None /\ f \in Files /\ f.blocks = {}
  BY <1>1, AtRows
<1>3. CASE Raise(th)
  BY <1>1, <1>2, <1>3, RaisingStep DEF Saving
<1>4. CASE ~Raise(th)
  <2>1. PICK m \in r.seen :
          /\ file' = WithRow(f, t, m[1], Merged(m[2], r.by))
          /\ edited' = edited \cup {<<t, m[1], m[2].by, r.by>>}
          /\ IF r.seen = {m} THEN Done(th) ELSE Take(th, "rewrite", r.seen \ {m})
    BY <1>4 DEF Rewrite, Name, WithRow
  <2>2. UNCHANGED <<sidecar, handle, reg, requests, tables, rows, dead, erased, failed>>
    BY <1>1, <1>4 DEF Rewrite, memory
  <2>3. /\ r.seen \subseteq Ids \X Rows /\ m[1] \in Ids /\ m[2] \in Rows /\ m[2] # None
        /\ \A p \in r.seen : f.rows[t][p[1]] = p[2]
    BY <1>1, <1>2, AbsentAssumption DEF RightRequest, OnRows
  <2>4. PICK i, old, row : i = m[1] /\ old = m[2] /\ row = Merged(m[2], r.by)
    OBVIOUS
  <2>5. /\ row \in Rows /\ row # None /\ row.by = old.by /\ row.table = old.table
        /\ row.edits = old.edits \cup {r.by}
        /\ i \in Ids /\ old # None /\ f.rows[t][i] = old
    BY <1>2, <2>3, <2>4, MergedRow, AbsentAssumption
  <2>6. PICK g : g = WithRow(f, t, i, row)
    OBVIOUS
  <2>7. /\ file' = g /\ g \in Files /\ g.blocks = f.blocks /\ g.rows[t][i] = row
        /\ \A u \in Tables, j \in Ids : u # t \/ j # i => g.rows[u][j] = f.rows[u][j]
    <3>1. f \in Files /\ t \in Tables /\ i \in Ids /\ row \in Rows \cup {None}
      BY <1>2, <2>5
    <3>2. /\ g \in Files /\ g.blocks = f.blocks /\ g.rows[t][i] = row
          /\ \A u \in Tables, j \in Ids : u # t \/ j # i => g.rows[u][j] = f.rows[u][j]
      BY <2>6, <3>1, OneRow
    <3> QED
      BY <2>1, <2>4, <2>6, <3>2
  <2>8. RowsOf(r, f, g)
    BY <2>5, <2>7 DEF RowsOf
  <2>9. Touched(r, f, g)
    BY <1>2, <2>7 DEF Touched
  <2>10. Logged(f, g)
    <3>1. There(f, <<t, i, old.by, r.by>>)
      BY <1>2, <2>5 DEF There
    <3>2. \A e \in edited' : e \in edited \/ e = <<t, i, old.by, r.by>>
      BY <2>1, <2>4
    <3> QED
      BY <2>2, <3>1, <3>2 DEF Logged
  <2>11. PICK s : Moved(th, s) /\ Sound(s)' /\ s.stage \notin Saving /\ (s # Idle => s.op = r.op /\ s.by = r.by)
    <3>1. CASE r.seen = {m}
      <4>1. Moved(th, Idle)
        BY <2>1, <3>1 DEF Done, Moved
      <4> QED
        BY <4>1 DEF Sound, Idle, Saving
    <3>2. CASE r.seen # {m}
      <4> PICK rest : rest = r.seen \ {m}
        OBVIOUS
      <4>1. PICK s : /\ Moved(th, s) /\ s # Idle /\ s.stage = "rewrite" /\ s.seen = rest
                     /\ s.op = r.op /\ s.by = r.by /\ s.next = r.next /\ s.h = r.h
                     /\ s.make = r.make /\ s.left = r.left
        BY <2>1, <3>2, TakeMoved DEF Stages
      <4>2. \A p \in rest : g.rows[t][p[1]] = p[2]
        <5> SUFFICES ASSUME NEW p \in rest
                     PROVE  g.rows[t][p[1]] = p[2]
          OBVIOUS
        <5>1. p \in Ids \X Rows /\ m \in Ids \X Rows /\ p # m /\ f.rows[t][p[1]] = p[2] /\ f.rows[t][m[1]] = m[2]
          BY <2>3
        <5>2. p[1] # m[1]
          BY <5>1
        <5> QED
          BY <1>2, <2>4, <2>7, <5>1, <5>2
      <4>3. Sound(s)
        <5>1. Ahead(r, s)
          BY <1>2, <4>1 DEF Ahead, Saving, Inside, Defined
        <5>2. RightPath(s) /\ OnRows(s)
          BY <1>1, <1>2, <2>3, <4>1 DEF RightPath, OnRows, Saving
        <5>3. Dropping(r)
          BY <1>2 DEF Dropping
        <5> QED
          BY <1>2, <5>1, <5>2, <5>3, AheadSound
      <4>4. \A u \in s.left, j \in Ids : g.rows[u][j] # None => g.rows[u][j].by # s.by
        <5> SUFFICES ASSUME NEW u \in r.left, NEW j \in Ids, g.rows[u][j] # None
                     PROVE  g.rows[u][j].by # r.by
          BY <4>1
        <5>1. f.rows[u][j] # None /\ g.rows[u][j].by = f.rows[u][j].by
          BY <1>2, <2>5, <2>7
        <5> QED
          BY <1>2, <5>1 DEF OwnNumber
      <4>5. \A e \in erased' \cup edited' : e[3] = s.by => e[1] \notin s.left
        <5> SUFFICES ASSUME NEW e \in erased' \cup edited', e[3] = r.by
                     PROVE  e[1] \notin r.left
          BY <4>1
        <5>1. CASE e \in erased \cup edited
          BY <1>2, <5>1 DEF OwnNumber
        <5>2. CASE There(f, e)
          BY <1>2, <5>2 DEF There, OwnNumber
        <5> QED
          BY <2>10, <5>1, <5>2 DEF Logged
      <4>6. /\ s.stage \notin {"unregister", "unlink", "unlink_schema"}
            /\ s.op.kind \notin {"create", "drop", "drop_table"} /\ s.stage \notin Saving
        BY <1>2, <4>1 DEF Saving
      <4>7. Sound(s)'
        BY <1>2, <2>2, <2>7, <4>1, <4>2, <4>3, <4>4, <4>5, <4>6, RowsBeside
      <4> QED
        BY <4>1, <4>6, <4>7
    <3> QED
      BY <3>1, <3>2
  <2>12. RowsChange(th, r, s, f, g)
    BY <1>1, <1>2, <2>2, <2>7, <2>11 DEF RowsChange
  <2>13. TablesOf(r)
    BY <1>2, <2>2, SameTables
  <2>14. RowsAreKept'
    <3> SUFFICES ASSUME NEW k \in rows
                 PROVE  /\ g.rows[k[1]][k[2]] # None /\ g.rows[k[1]][k[2]].by = k[3]
                        /\ \A e \in edited' : <<e[1], e[2], e[3]>> = k => e[4] \in g.rows[k[1]][k[2]].edits
      BY <2>2, <2>7, AbsentAssumption DEF RowsAreKept
    <3>1. k \in Tables \X Ids \X Creations
      BY DEF TypeInv
    <3>2. /\ f.rows[k[1]][k[2]] # None /\ f.rows[k[1]][k[2]].by = k[3]
          /\ \A e \in edited : <<e[1], e[2], e[3]>> = k => e[4] \in f.rows[k[1]][k[2]].edits
      BY <1>2 DEF RowsAreKept
    <3>3. \A e \in edited' : e \in edited \/ (e[1] = t /\ e[2] = i /\ e[4] = r.by)
      BY <2>1, <2>4
    <3>4. CASE k[1] = t /\ k[2] = i
      BY <2>5, <2>7, <3>2, <3>3, <3>4
    <3>5. CASE k[1] # t \/ k[2] # i
      <4>1. g.rows[k[1]][k[2]] = f.rows[k[1]][k[2]]
        BY <2>7, <3>1, <3>5
      <4>2. \A e \in edited' : <<e[1], e[2], e[3]>> = k => e \in edited
        BY <3>3, <3>5
      <4> QED
        BY <3>2, <4>1, <4>2
    <3> QED
      BY <3>4, <3>5
  <2> QED
    BY <2>8, <2>9, <2>10, <2>11, <2>12, <2>13, <2>14, RowsStep
<1> QED
  BY <1>3, <1>4

(* A file in which some rows of a table are one row. *)
WithRows(f, t, ids, row) == [f EXCEPT !.rows[t] = [i \in Ids |-> IF i \in ids THEN row ELSE @[i]]]
Fills(g, f, t, ids, row) ==
  g = WithRows(f, t, ids, row) /\ f \in Files /\ t \in Tables /\ ids \subseteq Ids /\ row \in Rows

LEMMA ManyRows ==
  ASSUME NEW g, NEW f, NEW t, NEW ids, NEW row, Fills(g, f, t, ids, row)
  PROVE  /\ g \in Files /\ g.blocks = f.blocks
         /\ \A s \in Tables, j \in Ids : g.rows[s][j] = IF s = t /\ j \in ids THEN row ELSE f.rows[s][j]
<1>a. g = WithRows(f, t, ids, row) /\ f \in Files /\ t \in Tables /\ ids \subseteq Ids /\ row \in Rows
  BY DEF Fills
<1> DEFINE table == [i \in Ids |-> IF i \in ids THEN row ELSE f.rows[t][i]]
           all == [f.rows EXCEPT ![t] = table]
<1>1. f.rows \in [Tables -> [Ids -> Rows \cup {None}]] /\ f.blocks \in SUBSET (Tables \X Ids)
      /\ f = [rows |-> f.rows, blocks |-> f.blocks]
  BY <1>a DEF Files
<1>2. table \in [Ids -> Rows \cup {None}]
  BY <1>a, <1>1
<1>3. \A j \in Ids : table[j] = IF j \in ids THEN row ELSE f.rows[t][j]
  OBVIOUS
<1>4. g = [f EXCEPT !.rows = all]
  BY <1>a, <1>1 DEF WithRows
<1> HIDE DEF table
<1>5. /\ all \in [Tables -> [Ids -> Rows \cup {None}]]
      /\ all[t] = table /\ \A s \in Tables : s # t => all[s] = f.rows[s]
  BY <1>a, <1>1, <1>2
<1> HIDE DEF all
<1>6. PICK blocks : blocks = f.blocks
  OBVIOUS
<1>7. g = [rows |-> all, blocks |-> blocks] /\ blocks \in SUBSET (Tables \X Ids)
  BY <1>1, <1>4, <1>6
<1>8. [rows |-> all, blocks |-> blocks] \in Files
  BY <1>5, <1>7, FileOf
<1>9. g \in Files /\ g.blocks = blocks /\ g.rows = all
  BY <1>7, <1>8
<1> QED
  BY <1>a, <1>3, <1>5, <1>6, <1>9

(* A batch that fits, with names for what it reads. *)
Filling(th, r, f, t, ids, row, g) ==
  /\ r = req[th] /\ f = file /\ t = r.into /\ ids = r.op.ids /\ r.stage = "put"
  /\ row = Row(th) /\ g = WithRows(f, t, ids, row)
  /\ file' = g /\ UNCHANGED <<sidecar, handle, reg, requests, edited, dead, erased, failed>>
  /\ GoesOn(th) /\ rows' = rows \cup {<<t, i, r.by>> : i \in ids}
  /\ \A i \in ids : f.rows[t][i] = None

LEMMA PutFits ==
  ASSUME TypeInv, IInv, NEW th \in Threads, NEW r, NEW f, NEW t, NEW ids, NEW row, NEW g,
         Filling(th, r, f, t, ids, row, g)
  PROVE  IInv'
<1> USE DEF IInv
<1>a. r = req[th] /\ f = file /\ t = r.into /\ ids = r.op.ids /\ r.stage = "put"
  BY DEF Filling
<1>b. row = Row(th) /\ g = WithRows(f, t, ids, row)
  BY DEF Filling
<1>c. file' = g /\ UNCHANGED <<sidecar, handle, reg, requests, edited, dead, erased, failed>>
  BY DEF Filling
<1>d. GoesOn(th) /\ rows' = rows \cup {<<t, i, r.by>> : i \in ids} /\ \A i \in ids : f.rows[t][i] = None
  BY DEF Filling
<1>1. /\ Busy(th) /\ RightRequest(r) /\ RightPath(r) /\ OwnNumber(r) /\ Opening(r) /\ Shape(r) /\ OnRows(r)
      /\ r.op.kind \in {"insert", "import"} /\ t \in r.left /\ r.left \subseteq Tables /\ r.make \subseteq Tables
      /\ t \in Tables /\ ids \subseteq Ids /\ ~Structural(r.op) /\ r.by \in Creations
      /\ handle # None /\ r.h = handle /\ f # None /\ f \in Files /\ f.blocks = {}
      /\ reg[handle] \in Registries
  BY <1>a, AtRows
<1>2. r.seen = reg[handle][t] /\ r.seen \in Creations
  BY <1>a, <1>1 DEF OnRows, Registries
<1>3. row \in Rows /\ row.table = reg[handle][t] /\ row.by = r.by /\ row # None
  BY <1>a, <1>b, <1>1, <1>2, AbsentAssumption DEF Row, Rows
<1>4. /\ g \in Files /\ g.blocks = f.blocks /\ g # None
      /\ \A i \in ids : g.rows[t][i] = row
      /\ \A u \in Tables, j \in Ids : u # t \/ j \notin ids => g.rows[u][j] = f.rows[u][j]
  <2>1. /\ g \in Files /\ g.blocks = f.blocks
        /\ \A u \in Tables, j \in Ids : g.rows[u][j] = IF u = t /\ j \in ids THEN row ELSE f.rows[u][j]
    <3>1. Fills(g, f, t, ids, row)
      BY <1>b, <1>1, <1>3 DEF Fills
    <3> QED
      BY <3>1, ManyRows
  <2> QED
    BY <1>1, <2>1, AbsentAssumption
<1>5. \A u \in Tables, j \in Ids : f.rows[u][j] # None => g.rows[u][j] = f.rows[u][j]
  BY <1>d, <1>4
<1>6. RowsOf(r, f, g)
  BY <1>1, <1>3, <1>4 DEF RowsOf
<1>7. Touched(r, f, g)
  BY <1>5 DEF Touched
<1>8. Logged(f, g)
  BY <1>c DEF Logged
<1>9. PICK left : left = r.left \ {t}
  OBVIOUS
<1>10. \E s : /\ Moved(th, s) /\ Sound(s)' /\ s.stage \notin Saving
              /\ s # Idle => s.op = r.op /\ s.by = r.by
              /\ TablesOf(r)
  <2>1. CASE left = {}
    <3>1. Moved(th, Idle) /\ Made(th)
      BY <1>a, <1>d, <1>9, <2>1 DEF GoesOn, Done, Moved
    <3>2. TablesOf(r)
      <4>1. \A u \in Tables : tables'[u] = IF u \in r.make THEN r.by ELSE tables[u]
        BY <1>a, <3>1 DEF Made
      <4>2. \A u \in r.make : reg[handle][u] = r.by
        BY <1>a, <1>1 DEF Shape, Defined
      <4> QED
        BY <1>1, <4>1, <4>2 DEF TablesOf, TablesSurvive
    <3> QED
      BY <3>1, <3>2 DEF Sound, Idle, Saving
  <2>2. CASE left # {}
    <3> DEFINE s == [r EXCEPT !.stage = "insert", !.left = left]
    <3>1. /\ s.stage = "insert" /\ s.left = left /\ s.op = r.op /\ s.by = r.by /\ s.next = r.next
          /\ s.h = r.h /\ s.seen = r.seen /\ s.make = r.make
      BY <1>1 DEF RightRequest, Progress
    <3>2. Moved(th, s) /\ tables' = tables
      BY <1>a, <1>d, <1>9, <2>2 DEF GoesOn, Moved, TypeInv
    <3> HIDE DEF s
    <3>3. s # Idle
      BY <3>1 DEF Idle
    <3>4. OwnNumber(s)
      BY <1>1, <1>9, <3>1 DEF OwnNumber
    <3>5. Opening(s)
      BY <1>1, <3>1 DEF Opening
    <3>6. Shape(s)
      BY <1>a, <1>1, <3>1 DEF Shape, Saving, Defined
    <3>7. Dropping(s) /\ RightPath(s) /\ OnRows(s)
      BY <1>a, <1>1, <3>1 DEF Dropping, RightPath, OnRows, Saving
    <3>8. Sound(s)
      BY <3>4, <3>5, <3>6, <3>7 DEF Sound
    <3>9. \A u \in s.left, j \in Ids : g.rows[u][j] # None => g.rows[u][j].by # s.by
      <4> SUFFICES ASSUME NEW u \in r.left, u # t, NEW j \in Ids, g.rows[u][j] # None
                   PROVE  g.rows[u][j].by # r.by
        BY <1>9, <3>1
      <4>1. g.rows[u][j] = f.rows[u][j]
        BY <1>1, <1>4
      <4> QED
        BY <1>a, <1>1, <4>1 DEF OwnNumber
    <3>10. \A e \in erased' \cup edited' : e[3] = s.by => e[1] \notin s.left
      BY <1>c, <3>4 DEF OwnNumber
    <3>11. Sound(s)'
      BY <1>c, <1>1, <3>1, <3>2, <3>3, <3>8, <3>9, <3>10, RowsBeside
    <3>12. TablesOf(r)
      BY <1>1, <3>2, SameTables
    <3> QED
      BY <3>1, <3>2, <3>11, <3>12 DEF Saving
  <2> QED
    BY <2>1, <2>2
<1>11. PICK s : /\ Moved(th, s) /\ Sound(s)' /\ s.stage \notin Saving
                /\ s # Idle => s.op = r.op /\ s.by = r.by
                /\ TablesOf(r)
  BY <1>10
<1>12. RowsChange(th, r, s, f, g)
  BY <1>a, <1>c, <1>1, <1>4, <1>11 DEF RowsChange
<1>13. RowsAreKept'
  <2> SUFFICES ASSUME NEW k \in rows'
               PROVE  /\ g.rows[k[1]][k[2]] # None /\ g.rows[k[1]][k[2]].by = k[3]
                      /\ \A e \in edited : <<e[1], e[2], e[3]>> = k => e[4] \in g.rows[k[1]][k[2]].edits
    BY <1>c, <1>4 DEF RowsAreKept
  <2>1. CASE k \in rows
    <3>1. k[1] \in Tables /\ k[2] \in Ids
      BY <2>1 DEF TypeInv
    <3>2. /\ f.rows[k[1]][k[2]] # None /\ f.rows[k[1]][k[2]].by = k[3]
          /\ \A e \in edited : <<e[1], e[2], e[3]>> = k => e[4] \in f.rows[k[1]][k[2]].edits
      BY <1>a, <1>1, <2>1 DEF RowsAreKept
    <3> QED
      BY <1>5, <3>1, <3>2
  <2>2. CASE k \notin rows
    <3>1. PICK i \in ids : k = <<t, i, r.by>>
      BY <1>d, <2>2
    <3>2. \A e \in edited : <<e[1], e[2], e[3]>> # k
      BY <1>1, <3>1 DEF OwnNumber
    <3> QED
      BY <1>1, <1>3, <1>4, <3>1, <3>2
  <2> QED
    BY <2>1, <2>2
<1> QED
  BY <1>6, <1>7, <1>8, <1>11, <1>12, <1>13, RowsStep

LEMMA PutStep ==
  ASSUME TypeInv, IInv, NEW th \in Threads, Put(th)
  PROVE  IInv'
<1> PICK r, f, t, ids, row : r = req[th] /\ f = file /\ t = r.into /\ ids = r.op.ids /\ row = Row(th)
  OBVIOUS
<1>1. r.stage = "put" /\ UNCHANGED <<requests, crashes>>
  BY DEF Put
<1>2. Busy(th) /\ t \in Tables /\ ids \subseteq Ids /\ f # None /\ f \in Files
  BY <1>1, AtRows
<1>3. CASE Raise(th)
  BY <1>1, <1>2, <1>3, RaisingStep DEF Saving
<1>4. CASE ~Raise(th) /\ Fits(t, ids)
  <2> PICK g : g = WithRows(f, t, ids, row)
    OBVIOUS
  <2>1. \A i \in ids : f.rows[t][i] = None
    BY <1>4 DEF Fits, Taken
  <2>2. file' = g
    BY <1>1, <1>4 DEF Put, WithRows
  <2>3. /\ UNCHANGED memory /\ UNCHANGED <<sidecar, edited, dead, erased, failed>> /\ GoesOn(th)
        /\ rows' = rows \cup {<<t, i, r.by>> : i \in ids}
    BY <1>1, <1>4 DEF Put
  <2>4. Filling(th, r, f, t, ids, row, g)
    BY <1>1, <2>1, <2>2, <2>3 DEF Filling, memory
  <2> QED
    BY <2>4, PutFits
<1>5. CASE ~Raise(th) /\ ~Fits(t, ids)
  <2>1. /\ file' = [f EXCEPT !.rows[t] = f.rows[t]] /\ Done(th) /\ Failed(th)
        /\ UNCHANGED <<sidecar, handle, reg, requests, tables, rows, edited, dead, erased>>
    BY <1>1, <1>5 DEF Put, RolledBack, memory
  <2>2. file' = file
    BY <1>2, <2>1 DEF Files
  <2> QED
    BY <1>1, <1>2, <2>1, <2>2, EndingStep DEF Saving
<1> QED
  BY <1>3, <1>4, <1>5

-----------------------------------------------------------------------------
(* A request begins; the process ends; nothing happens.                    *)

LEMMA BeginOwn ==
  ASSUME TypeInv, IInv, NEW r, RightRequest(r), r.by = requests + 1, requests' = requests + 1,
         UNCHANGED <<file, edited, dead, erased, failed>>
  PROVE  OwnNumber(r)'
<1> USE DEF IInv
<1>1. requests \in Nat /\ 1 <= requests
  BY DEF TypeInv
<1>2. r.by \in 2 .. requests' /\ r.by \notin 1 .. requests
  BY <1>1
<1>3. r.left \subseteq Tables
  BY DEF RightRequest, Progress
<1>4. \A t \in Tables : <<r.by, t>> \notin failed /\ <<t, r.by>> \notin dead
  <2>1. \A t \in Tables : <<r.by, t>>[1] = r.by /\ <<t, r.by>>[2] = r.by
    OBVIOUS
  <2>2. r.by \notin 2 .. requests
    BY <1>1
  <2> QED
    BY <1>2, <2>1, <2>2 DEF Bounds
<1>5. \A e \in erased \cup edited : e[3] # r.by
  <2>1. \A e \in erased \cup edited : e[3] \in Nat /\ e[3] <= requests
    BY Numbered DEF Bounds, TypeInv
  <2> QED
    BY <1>1, <2>1
<1>6. file # None => \A t \in r.left, i \in Ids : file.rows[t][i] # None => file.rows[t][i].by # r.by
  BY <1>2, <1>3 DEF RowsRight
<1> QED
  BY <1>2, <1>4, <1>5, <1>6 DEF OwnNumber

LEMMA BeginStep ==
  ASSUME TypeInv, IInv, NEW th \in Threads, NEW op \in Requests, Begin(th, op), InTurn
  PROVE  IInv'
<1> USE DEF IInv
<1>1. PICK r : /\ RightRequest(r) /\ Moved(th, r)
               /\ r.op = op /\ r.by = requests + 1 /\ r.stage = FirstStage(op) /\ r.next = "run" /\ r.make = {}
  BY BeginRequest DEF Moved
<1>2. /\ req[th] = Idle /\ requests' = requests + 1
      /\ UNCHANGED <<file, sidecar, handle, reg, edited, dead, erased, failed>>
      /\ tables' = CASE op.kind = "drop" -> Empty
                     [] op.kind = "drop_table" -> [tables EXCEPT ![op.table] = NoTable]
                     [] OTHER -> tables
      /\ rows' = { k \in rows : /\ op.kind # "drop"
                                /\ op.kind = "drop_table" => k[1] # op.table
                                /\ op.kind = "delete_row" => <<k[1], k[2]>> \notin {op.table} \X op.ids }
  BY DEF Begin, memory
<1>3. req'[th] = r /\ \A u \in Threads : u # th => req'[u] = req[u]
  BY <1>1, MovedFacts
<1>4. /\ r.stage \in {"exists", "prepare", "get"} /\ r # Idle
      /\ r.stage = "prepare" <=> op.kind = "import"
      /\ r.stage = "exists" <=> op.kind = "create"
  BY <1>1 DEF FirstStage, Idle
<1>5. \A u \in Threads : u # th /\ Busy(u) => handle # None /\ Compatible(op, req[u].op)
  BY <1>1, <1>2, <1>3, <1>4 DEF InTurn, ApartFrom, Busy
<1>6. op \in Ops /\ (op.kind \in TableKinds => op.table \in Tables)
  BY RequestsRight DEF Ops
<1>7. requests \in Nat /\ 1 <= requests /\ requests' \in Nat
  BY <1>2 DEF TypeInv
<1>8. Sidecar' = Sidecar
  BY <1>2 DEF Sidecar
<1>9. \A n : \A t \in Tables : Uses(n, t)' <=> Uses(n, t)
  BY <1>2, <1>8 DEF Uses
<1>10. rows' \subseteq rows /\ \A t \in Tables : tables'[t] # NoTable => tables'[t] = tables[t]
  <2>1. \A t \in Tables : Empty[t] = NoTable
    BY DEF Empty
  <2> QED
    BY <1>2, <2>1 DEF TypeInv, Registries
<1>11. Sound(r)'
  <2>1. RightPath(r)
    BY <1>1, <1>4 DEF RightPath, Saving
  <2>2. OwnNumber(r)'
    BY <1>1, <1>2, BeginOwn
  <2>3. Opening(r)'
    BY <1>1, <1>2, <1>4 DEF Opening, Inside, Saving
  <2>4. Shape(r)' /\ OnRows(r)'
    BY <1>4 DEF Shape, OnRows, Saving, Defined
  <2>5. Dropping(r)'
    BY <1>1, <1>2, <1>4, <1>6 DEF Dropping, Saving, TableKinds, TypeInv, Registries
  <2> QED
    BY <2>1, <2>2, <2>3, <2>4, <2>5 DEF Sound
<1>12. ASSUME NEW u \in Threads, u # th, Busy(u)
       PROVE  /\ \E q : q = req[u] /\ Sound(q)'
              /\ req[u].by # r.by
  <2> PICK q : q = req[u]
    OBVIOUS
  <2>1. ~Structural(op) /\ ~Structural(q.op) /\ handle # None
    BY <1>5, <1>12 DEF Compatible
  <2>2. tables' = tables
    BY <1>2, <2>1 DEF Structural
  <2>3. /\ RightRequest(q) /\ RightPath(q) /\ OwnNumber(q) /\ Opening(q) /\ Shape(q) /\ Dropping(q) /\ OnRows(q)
        /\ q # Idle
    BY <1>12, SoundFacts DEF Busy
  <2>4. /\ q.op.kind \notin {"create", "drop", "drop_table"}
        /\ q.stage \notin {"unregister", "unlink", "unlink_schema"}
    BY <2>1, <2>3, SteadyStage
  <2>5. OwnNumber(q)'
    <3>1. q.by \in 2 .. requests'
      BY <1>2, <1>7, <2>3 DEF OwnNumber
    <3> QED
      BY <1>2, <2>3, <3>1 DEF OwnNumber
  <2>6. Opening(q)' /\ Dropping(q)' /\ RightPath(q)'
    BY <1>2, <1>8, <2>3, <2>4 DEF Opening, Dropping, RightPath
  <2>7. Shape(q)' /\ OnRows(q)'
    BY <1>2, <2>2, <2>3, <2>4 DEF Shape, OnRows, Changed
  <2>8. Sound(q)'
    BY <2>5, <2>6, <2>7 DEF Sound
  <2>9. q.by # r.by
    BY <1>1, <1>7, <2>3 DEF OwnNumber
  <2> QED
    BY <2>8, <2>9
<1>13. Requested'
  BY <1>1, <1>11, <1>12, RequestedKept
<1>14. Taking'
  <2> SUFFICES ASSUME NEW a \in Threads, NEW b \in Threads, a # b, req'[a] # Idle, req'[b] # Idle
               PROVE  handle # None /\ Compatible(req'[a].op, req'[b].op) /\ req'[a].by # req'[b].by
    BY <1>2 DEF Taking, Busy
  <2>1. CASE a = th
    BY <1>1, <1>3, <1>5, <1>12, <2>1 DEF Busy
  <2>2. CASE b = th
    <3>1. handle # None /\ Compatible(op, req[a].op) /\ req[a].by # r.by /\ req'[a] = req[a]
      BY <1>3, <1>5, <1>12, <2>2 DEF Busy
    <3>2. Compatible(req[a].op, op)
      BY <3>1 DEF Compatible
    <3> QED
      BY <1>1, <1>3, <2>2, <3>1, <3>2
  <2>3. CASE a # th /\ b # th
    BY <1>3, <2>3 DEF Taking, Busy
  <2> QED
    BY <2>1, <2>2, <2>3
<1>15. \A u \in Threads : req[u].stage \in {"write", "unlink_schema"} => req'[u] = req[u]
  BY <1>2, <1>3 DEF Idle
<1>16. Stored' /\ Earlier'
  BY <1>2, <1>8, <1>15 DEF Stored, Earlier
<1>17. Snapshots'
  BY <1>1, <1>2, <1>4, PlainSnapshots DEF Saving, Idle
<1>18. Bounds'
  <2>1. (\A d \in dead : d[2] \in 1 .. requests') /\ \A f \in failed : f[1] \in 2 .. requests'
    BY <1>2, <1>7 DEF Bounds
  <2>2. \A e \in erased \cup edited : e[3] <= requests'
    <3>1. \A e \in erased \cup edited : e[3] \in Nat
      BY Numbered DEF TypeInv
    <3> QED
      BY <1>2, <1>7, <3>1 DEF Bounds
  <2>3. \A n \in Creations, t \in Tables : Uses(n, t) => n <= requests'
    BY <1>2, <1>7, Numbered DEF Bounds
  <2> QED
    BY <1>2, <1>9, <2>1, <2>2, <2>3 DEF Bounds
<1>19. NoneDead'
  BY <1>2, <1>8 DEF NoneDead
<1>20. RowsRight'
  <2>1. 1 .. requests \subseteq 1 .. requests'
    BY <1>2, <1>7
  <2> QED
    BY <1>2, <2>1 DEF RowsRight
<1>21. TablesSurvive'
  BY <1>2, <1>10, <1>15 DEF TablesSurvive
<1>22. RowsAreKept'
  BY <1>2, <1>10 DEF RowsAreKept
<1> QED
  BY <1>13, <1>14, <1>16, <1>17, <1>18, <1>19, <1>20, <1>21, <1>22

(* A sidecar that was being written stays emptied: the database refuses to *)
(* open.                                                                   *)
LEMMA CrashStep ==
  ASSUME TypeInv, IInv, Crash, DropsFinish
  PROVE  IInv'
<1> USE DEF IInv
<1>1. /\ \A u \in Threads : req'[u] = Idle
      /\ handle' = None /\ UNCHANGED <<file, sidecar, requests, tables, rows, edited, dead, erased, failed>>
  BY DEF Crash, history
<1>2. \A u \in Threads : req[u].stage # "unlink_schema"
  BY DEF Crash, DropsFinish, TypeInv
<1>3. Sidecar' = Sidecar
  BY <1>1 DEF Sidecar
<1>4. Fewer
  BY <1>1, <1>3 DEF Fewer, Uses
<1>5. Requested' /\ Taking'
  BY <1>1 DEF Requested, Taking, Sound, Busy
<1>6. Snapshots'
  BY <1>1 DEF Snapshots, Writing, Idle
<1>7. Stored' /\ Earlier'
  BY <1>1, <1>2 DEF Stored, Earlier
<1>8. Bounds'
  BY <1>1, <1>4, FewerUses
<1>9. NoneDead' /\ RowsRight' /\ RowsAreKept'
  BY <1>1, <1>3 DEF NoneDead, RowsRight, RowsAreKept
<1>10. TablesSurvive'
  BY <1>1 DEF TablesSurvive
<1> QED
  BY <1>5, <1>6, <1>7, <1>8, <1>9, <1>10

LEMMA StutterStep ==
  ASSUME IInv, UNCHANGED vars
  PROVE  IInv'
<1> USE DEF IInv, vars, memory, history
<1>1. \A n, t : Uses(n, t)' <=> Uses(n, t)
  BY DEF Uses, Sidecar
<1>2. Sidecar' = Sidecar
  BY DEF Sidecar
<1>3. Taking'
  BY DEF Taking, Busy
<1>4. Requested'
  <2> SUFFICES ASSUME NEW th \in Threads
               PROVE  Sound(req[th])'
    BY DEF Requested
  <2>1. PICK r : r = req[th] /\ Sound(r)
    BY DEF Requested
  <2>2. PICK n : r # Idle => n # r.by
    <3>1. r.by # 1 \/ r.by # 2
      OBVIOUS
    <3> QED
      BY <3>1
  <2>3. FailedBy(n, {})
    BY DEF FailedBy
  <2>4. Sound(r)'
    BY <2>1, <2>2, <2>3, LookingSound
  <2> QED
    BY <2>1, <2>4
<1>5. \A t : (Unread(t)' <=> Unread(t)) /\ (Unwritten(t)' <=> Unwritten(t))
  BY DEF Unread, Unwritten
<1>6. Snapshots'
  BY <1>2, <1>5 DEF Snapshots, Writing
<1>7. Stored' /\ NoneDead' /\ Earlier'
  BY <1>2 DEF Stored, NoneDead, Earlier
<1>8. Bounds'
  BY <1>1 DEF Bounds
<1>9. RowsRight' /\ TablesSurvive' /\ RowsAreKept'
  BY DEF RowsRight, TablesSurvive, RowsAreKept
<1> QED
  BY <1>3, <1>4, <1>6, <1>7, <1>8, <1>9

LEMMA CareInit == Init => IInv /\ Windows
<1> SUFFICES ASSUME Init PROVE IInv /\ Windows
  OBVIOUS
<1>1. /\ handle = None /\ dead = {} /\ erased = {} /\ edited = {} /\ failed = {} /\ requests = 1
      /\ \A th \in Threads : req[th] = Idle
      /\ tables = IF sidecar = None THEN Empty ELSE sidecar
      /\ rows = IF file = None THEN {} ELSE {<<b[1], b[2], 1>> : b \in file.blocks}
  BY DEF Init
<1>2. \A t \in Tables : Empty[t] = 0
  BY DEF Empty, NoTable
<1>3. \/ file = None /\ sidecar = None
      \/ /\ file # None /\ file.rows = NoRows /\ sidecar \notin {None, Torn}
         /\ \E t \in Tables, i \in Ids : /\ file.blocks = {<<t, i>>} /\ sidecar[t] = 1
                                         /\ \A s \in Tables : s # t => sidecar[s] = 0
  <2>1. CASE file = None /\ sidecar = None
    BY <2>1
  <2>2. ASSUME NEW t \in Tables, NEW i \in Ids,
               file = [rows |-> NoRows, blocks |-> {<<t, i>>}], sidecar = [Empty EXCEPT ![t] = 1]
        PROVE  /\ file # None /\ file.rows = NoRows /\ sidecar \notin {None, Torn}
               /\ file.blocks = {<<t, i>>} /\ sidecar[t] = 1
               /\ \A s \in Tables : s # t => sidecar[s] = 0
    <3>1. file \in Files /\ sidecar \in Registries
      BY <2>2, EmptyTypes, Numbered DEF Files, Registries
    <3>2. sidecar[t] = 1 /\ \A s \in Tables : s # t => sidecar[s] = 0
      BY <1>2, <2>2, EmptyTypes DEF Registries
    <3> QED
      BY <2>2, <3>1, <3>2, AbsentAssumption
  <2> QED
    BY <2>1, <2>2 DEF Init
<1>4. file # None => \A t \in Tables, i \in Ids : file.rows[t][i] = None
  BY <1>3 DEF NoRows
<1>5. \A n : \A t \in Tables : Uses(n, t) => n \in {0, 1}
  <2> SUFFICES ASSUME NEW n, NEW t \in Tables, Uses(n, t)
               PROVE  n \in {0, 1}
    OBVIOUS
  <2>1. Sidecar[t] = n
    BY <1>1, <1>4 DEF Uses
  <2> QED
    BY <1>2, <1>3, <2>1 DEF Sidecar
<1>6. Taking /\ Requested /\ Windows /\ Snapshots
  BY <1>1 DEF Taking, Requested, Windows, Snapshots, Writing, Busy, Sound, Idle
<1>7. Stored /\ Earlier
  BY <1>1, <1>3, AbsentAssumption DEF Stored, Earlier
<1>8. Bounds
  BY <1>1, <1>5 DEF Bounds
<1>9. NoneDead
  BY <1>1 DEF NoneDead
<1>10. RowsRight
  BY <1>4 DEF RowsRight
<1>11. TablesSurvive
  <2> SUFFICES ASSUME NEW t \in Tables, tables[t] # NoTable
               PROVE  sidecar \notin {None, Torn} /\ sidecar[t] = tables[t]
    BY <1>1 DEF TablesSurvive
  <2>1. sidecar # None /\ tables = sidecar
    BY <1>1, <1>2 DEF NoTable
  <2> QED
    BY <1>3, <2>1
<1>12. RowsAreKept
  <2> SUFFICES ASSUME NEW k \in rows
               PROVE  file # None /\ k[3] = 1 /\ <<k[1], k[2]>> \in file.blocks
    BY DEF RowsAreKept
  <2>1. file # None
    BY <1>1
  <2>2. PICK b \in file.blocks : k = <<b[1], b[2], 1>>
    BY <1>1, <2>1
  <2>3. PICK t \in Tables, i \in Ids : file.blocks = {<<t, i>>}
    BY <1>3, <2>1
  <2>4. b = <<t, i>> /\ <<t, i>>[1] = t /\ <<t, i>>[2] = i
    BY <2>2, <2>3
  <2>5. k = <<t, i, 1>>
    BY <2>2, <2>4
  <2>6. k[1] = t /\ k[2] = i /\ k[3] = 1
    BY <2>5
  <2> QED
    BY <2>1, <2>3, <2>6
<1> QED
  BY <1>6, <1>7, <1>8, <1>9, <1>10, <1>11, <1>12 DEF IInv

(* The steps that CareSpec allows. *)
CareNext == Next /\ InTurn /\ SnapshotsInTurn /\ DropsFinish

LEMMA WindowsStep ==
  ASSUME Windows, [CareNext]_vars
  PROVE  Windows'
<1>1. CASE SnapshotsInTurn
  BY <1>1 DEF SnapshotsInTurn, Windows
<1>2. CASE UNCHANGED vars
  BY <1>2 DEF Windows, Writing, vars
<1> QED
  BY <1>1, <1>2 DEF CareNext

LEMMA CareStep ==
  ASSUME TypeInv, IInv, Windows, [CareNext]_vars
  PROVE  IInv'
<1>0. Windows'
  BY WindowsStep
<1>1. ASSUME NEW th \in Threads, NEW op \in Requests, Begin(th, op), InTurn
      PROVE  IInv'
  BY <1>1, BeginStep
<1>2. ASSUME NEW th \in Threads, Step(th)
      PROVE  IInv'
  <2>1. CASE \/ CheckFree(th) \/ CreateTable(th) \/ Validate(th) \/ CheckIds(th) \/ FindRow(th) \/ Match(th)
             \/ Prepare(th) \/ Plan(th)
    BY <2>1, LookingActions
  <2>2. CASE Get(th) \/ Connect(th) \/ Publish(th)
    BY <2>2, GetStep, ConnectStep, PublishStep
  <2>3. CASE Define(th) \/ DeleteRows(th) \/ Forget(th) \/ Truncate(th) \/ Acknowledge(th)
    BY <2>3, DefineStep, DeleteRowsStep, ForgetStep, TruncateStep, AcknowledgeStep
  <2>4. CASE Dump(th) \/ Write(th)
    BY <1>0, <2>4, DumpStep, WriteStep
  <2>5. CASE Put(th) \/ Erase(th) \/ Rewrite(th)
    BY <2>5, PutStep, EraseStep, RewriteStep
  <2>6. CASE Close(th) \/ Unregister(th) \/ Unlink(th) \/ UnlinkSchema(th)
    BY <2>6, CloseStep, UnregisterStep, UnlinkStep, UnlinkSchemaStep
  <2> QED
    BY <1>2, <2>1, <2>2, <2>3, <2>4, <2>5, <2>6 DEF Step
<1>3. CASE Crash /\ DropsFinish
  BY <1>3, CrashStep
<1>4. CASE UNCHANGED vars
  BY <1>4, StutterStep
<1> QED
  BY <1>1, <1>2, <1>3, <1>4 DEF Next, CareNext

(* Whatever requests keep to CareSpec, the files, the registry and the     *)
(* progress of every request stay in step: what the theorems below rest on.*)
THEOREM Inductive == CareSpec => [](TypeInv /\ IInv /\ Windows)
<1>1. Init => TypeInv /\ IInv /\ Windows
  BY TypeInit, CareInit
<1>2. TypeInv /\ IInv /\ Windows /\ [CareNext]_vars => (TypeInv /\ IInv /\ Windows)'
  <2>1. [CareNext]_vars => [Next]_vars
    BY DEF CareNext
  <2> QED
    BY <2>1, TypeStep, CareStep, WindowsStep
<1> QED
  BY <1>1, <1>2, PTL DEF CareSpec, CareNext

(* A table whose creation was acknowledged is in the registry that serves  *)
(* the database and in the sidecar, or in what is about to be written over *)
(* it; where the process stopped between the two the database refuses to   *)
(* open (persist_schema, get).  Any number of requests may make tables     *)
(* beside each other, as long as no two are writing the sidecar at once.   *)
THEOREM CareTablesSurvive == CareSpec => []TablesSurvive
<1>1. IInv => TablesSurvive
  BY DEF IInv
<1> QED
  BY <1>1, Inductive, PTL

(* A row that was committed stays under its id, with the values of every   *)
(* update written to it, until its deletion is asked for                   *)
(* (record_insert_many, update, the migration of blocks into rows, delete  *)
(* of other rows and tables); an update is apart from another one, and     *)
(* from a deletion of rows, of the same table.                             *)
THEOREM CareRowsAreKept == CareSpec => []RowsAreKept
<1>1. IInv => RowsAreKept
  BY DEF IInv
<1> QED
  BY <1>1, Inductive, PTL

(* What was acknowledged as gone does not come back: a dropped table, the  *)
(* tables of a database made under a name used before, their rows, or a    *)
(* deleted row; the process does not stop between a database's two unlinks.*)
THEOREM CareGoneStaysGone == CareSpec => []GoneStaysGone
<1>1. TypeInv /\ IInv => GoneStaysGone
  <2> SUFFICES ASSUME TypeInv, IInv PROVE GoneStaysGone
    OBVIOUS
  <2> USE DEF IInv
  <2>1. KnownTables \in {IF handle # None THEN reg[handle] ELSE Sidecar, Empty}
    BY DEF KnownTables, Sidecar
  <2>2. \A t \in Tables : <<t, Empty[t]>> \notin dead
    <3>1. \A t \in Tables : <<t, Empty[t]>>[2] = 0
      BY DEF Empty, NoTable
    <3>2. 0 \notin 1 .. requests
      BY DEF TypeInv
    <3> QED
      BY <3>1, <3>2 DEF Bounds
  <2>3. \A t \in Tables : <<t, KnownTables[t]>> \notin dead
    BY <2>1, <2>2 DEF NoneDead
  <2>4. file # None => \A t \in Tables, i \in Ids : file.rows[t][i] # None => <<t, file.rows[t][i].table>> \notin dead
    BY DEF RowsRight
  <2>5. file # None => \A e \in erased : file.rows[e[1]][e[2]] # None => file.rows[e[1]][e[2]].by # e[3]
    <3>1. \A e \in erased : e[1] \in Tables /\ e[2] \in Ids
      BY DEF TypeInv
    <3> QED
      BY <3>1 DEF RowsRight
  <2> QED
    BY <2>3, <2>4, <2>5 DEF GoneStaysGone
<1> QED
  BY <1>1, Inductive, PTL

(* A request that raised left no row of a batch it did not commit, however *)
(* many tables it wrote to before (create_many, and an import's loop over  *)
(* its tables).                                                            *)
THEOREM CareNothingHalfWritten == CareSpec => []NothingHalfWritten
<1>1. IInv => NothingHalfWritten
  BY DEF IInv, RowsRight, NothingHalfWritten
<1> QED
  BY <1>1, Inductive, PTL
=============================================================================
