----------------------------- MODULE Databases -----------------------------
(***************************************************************************)
(* One named database: what DatabaseManager keeps of it in memory and in   *)
(* two files, and the requests that change it, its tables or its rows.     *)
(* Endpoints run in a thread pool and the manager takes no lock; a DuckDB  *)
(* statement or transaction is one step, because DuckDBStore locks it.     *)
(*                                                                         *)
(* A table is the number of the request that made it, so a table created   *)
(* again is told apart from the one dropped before; its columns are left   *)
(* out.  A row is the table it was meant for, the request that wrote it    *)
(* and the updates whose values it has.                                    *)
(* Definitions marked "Fault" are the bugs the properties are tried        *)
(* against; nothing in the specification uses them.                        *)
(***************************************************************************)
EXTENDS Integers, FiniteSets

CONSTANTS
  Threads,      \* requests that run at the same time
  Tables, Ids,  \* names of tables and of records
  Kinds,        \* the requests explored
  MaxRequests,  \* bound: requests explored
  MaxCrashes,   \* bound: times the process ends
  Torn,         \* a file that was emptied to be written
  None          \* absent

AllKinds == {"create", "drop", "create_table", "drop_table", "insert",
             "delete_row", "update", "import"}

ASSUME KindsAssumption == Kinds \subseteq AllKinds
ASSUME BoundAssumption == MaxRequests \in Nat \ {0} /\ MaxCrashes \in Nat

VARIABLES
  file,      \* <name>.duckdb: [rows, blocks], or None; blocks are records
             \* an earlier version left as blocks
  sidecar,   \* <name>.schema.json: its tables, Torn, or None
  handle,    \* _handles[name]: a registry's number, or None
  reg,       \* reg[h]: the SchemaRegistry of handle h
  closed,    \* handles whose connection is closed
  req,       \* the request of each thread
  requests,  \* requests begun; a request's number
  crashes,
  tables,    \* history: the tables whose creation was acknowledged
  rows,      \* history: the rows committed and not asked to be deleted
  edited,    \* history: the updates of a row that were written
  dead,      \* history: tables whose loss was acknowledged
  erased,    \* history: rows whose deletion was acknowledged
  failed     \* history: a request that raised and a table it had not yet
             \* written its rows to

memory == <<handle, reg, closed>>
history == <<tables, rows, edited, dead, erased, failed>>
vars == <<file, sidecar, memory, req, requests, crashes, history>>

NoTable == 0
Creations == 0 .. MaxRequests           \* a creation is numbered by its request
Handles == 1 .. MaxRequests             \* a handle is numbered by who built it
Rows == [table : Creations, by : Creations, edits : SUBSET Creations]
Registries == [Tables -> Creations]
Files == [rows : [Tables -> [Ids -> Rows \cup {None}]], blocks : SUBSET (Tables \X Ids)]

ASSUME AbsentAssumption ==
  /\ Torn # None /\ None \notin Files \cup Handles \cup Rows
  /\ {None, Torn} \cap Registries = {}

Empty == [t \in Tables |-> NoTable]     \* SchemaRegistry()
NoRows == [t \in Tables |-> [i \in Ids |-> None]]
Has(registry, t) == registry[t] # NoTable

(* A request is about one table, or, an import, about one or more.         *)
Op(kind, t, ts, ids, how) == [kind |-> kind, table |-> t, tables |-> ts, ids |-> ids, how |-> how]
Whole(kind) == Op(kind, None, {}, {}, None)
Single(kind, t, ids) == Op(kind, t, {t}, ids, None)
Idle == [op |-> Whole("nothing"), stage |-> "idle", next |-> "idle", by |-> 0, h |-> None,
         seen |-> None, dump |-> None, make |-> {}, left |-> {}, into |-> None]

(* How an import meets its tables: it brings their structure and must not  *)
(* meet one (new), may meet some (if_missing), or has rows only (rows).    *)
Requests ==
  { op \in
      {Whole("create"), Whole("drop")}
      \cup {Single(kind, t, {}) : kind \in {"create_table", "drop_table", "update"}, t \in Tables}
      \cup {Single(kind, t, one) : kind \in {"insert", "delete_row"}, t \in Tables, one \in {{i} : i \in Ids}}
      \cup {Op("import", None, ts, Ids, how) :
              how \in {"new", "if_missing", "rows"}, ts \in (SUBSET Tables) \ {{}}} :
    op.kind \in Kinds }

(* A database that was never there, or one of an earlier version: a table, *)
(* and a record of it that is still a block.                               *)
Init ==
  /\ \/ file = None /\ sidecar = None
     \/ \E t \in Tables, i \in Ids :
          /\ file = [rows |-> NoRows, blocks |-> {<<t, i>>}]
          /\ sidecar = [Empty EXCEPT ![t] = 1]
  /\ handle = None
  /\ reg = [h \in Handles |-> Empty]
  /\ closed = {}
  /\ req = [th \in Threads |-> Idle]
  /\ requests = 1                       \* number 1 is who made what is there
  /\ crashes = 0
  /\ tables = IF sidecar = None THEN Empty ELSE sidecar
  /\ rows = IF file = None THEN {} ELSE {<<b[1], b[2], 1>> : b \in file.blocks}
  /\ edited = {} /\ dead = {} /\ erased = {} /\ failed = {}

-----------------------------------------------------------------------------
(* A request's progress.  The first field of a request after its operation *)
(* is the stage it is at; each action below is one stage.                  *)

At(th, kinds, stage) == req[th].op.kind \in kinds /\ req[th].stage = stage
Name(th) == req[th].op.table
Registry(th) == reg[req[th].h]
Goto(th, stage) == req' = [req EXCEPT ![th].stage = stage]
Take(th, stage, what) == req' = [req EXCEPT ![th].stage = stage, ![th].seen = what]
Done(th) == req' = [req EXCEPT ![th] = Idle]

(* The request ends in an error, and what it did is not taken back: an     *)
(* import leaves the tables whose rows are in already.                     *)
Failed(th) == failed' = failed \cup {req[th].by} \X req[th].left
Raise(th) ==
  /\ Done(th)
  /\ Failed(th)
  /\ UNCHANGED <<file, sidecar, memory, tables, rows, edited, dead, erased>>

Begin(th, op) ==
  /\ req[th] = Idle
  /\ requests < MaxRequests
  /\ requests' = requests + 1
  /\ req' = [req EXCEPT ![th] = [Idle EXCEPT !.op = op, !.by = requests', !.next = "run",
                                   !.left = IF op.kind \in {"insert", "import"} THEN op.tables ELSE {},
                                   !.stage = CASE op.kind = "create" -> "exists"
                                               [] op.kind = "import" -> "prepare"
                                               [] OTHER -> "get"]]
  \* what the caller asks to lose is no longer promised to be kept
  /\ tables' = CASE op.kind = "drop" -> Empty
                 [] op.kind = "drop_table" -> [tables EXCEPT ![op.table] = NoTable]
                 [] OTHER -> tables
  /\ rows' = { r \in rows : /\ op.kind # "drop"
                            /\ op.kind = "drop_table" => r[1] # op.table
                            /\ op.kind = "delete_row" => <<r[1], r[2]>> \notin {op.table} \X op.ids }
  /\ UNCHANGED <<file, sidecar, memory, crashes, edited, dead, erased, failed>>

-----------------------------------------------------------------------------
(* Opening a database: DatabaseManager.exists, create and get.             *)

Exists == handle # None \/ file # None
NewFile == [rows |-> NoRows, blocks |-> {}]

(* DuckDBStore.init_schema: records that are still blocks become rows,     *)
(* unless there is such a row already, and the blocks go; one transaction. *)
Migrated(f) ==
  [rows |-> [t \in Tables |-> [i \in Ids |->
               IF <<t, i>> \in f.blocks /\ f.rows[t][i] = None
               THEN [table |-> 1, by |-> 1, edits |-> {}] ELSE f.rows[t][i]]],
   blocks |-> {}]

(* get: the handle that is there, or one built from the files. *)
Get(th) ==
  /\ req[th].stage = "get"
  /\ \/ /\ handle # None
        /\ req' = [req EXCEPT ![th].stage = req[th].next, ![th].h = handle]
        /\ UNCHANGED <<file, sidecar, memory, history>>
     \/ handle = None /\ file = None /\ Raise(th)
     \/ /\ handle = None /\ file # None
        /\ file' = Migrated(file)
        /\ \/ /\ sidecar = Torn
              /\ Done(th)
              /\ Failed(th)
              /\ UNCHANGED <<reg, tables, rows, edited, dead, erased>>
           \/ /\ sidecar # Torn
              /\ reg' = [reg EXCEPT ![req[th].by] = IF sidecar = None THEN Empty ELSE sidecar]
              /\ req' = [req EXCEPT ![th].stage = "publish", ![th].h = req[th].by]
              /\ UNCHANGED history
        /\ UNCHANGED <<sidecar, handle, closed>>
  /\ UNCHANGED <<requests, crashes>>

(* create: the check, the new file, and the handle for all to see. *)
CheckFree(th) ==
  /\ req[th].stage = "exists"
  /\ \/ Exists /\ Raise(th)
     \/ ~Exists /\ Goto(th, "connect") /\ UNCHANGED <<file, sidecar, memory, history>>
  /\ UNCHANGED <<requests, crashes>>

Connect(th) ==
  /\ req[th].stage = "connect"
  /\ file' = IF file = None THEN NewFile ELSE Migrated(file)
  /\ reg' = [reg EXCEPT ![req[th].by] = Empty]
  /\ req' = [req EXCEPT ![th].stage = "publish", ![th].h = req[th].by]
  /\ UNCHANGED <<sidecar, handle, closed, requests, crashes, history>>

Publish(th) ==
  /\ req[th].stage = "publish"
  /\ handle' = req[th].h
  /\ \/ /\ req[th].op.kind = "create"
        /\ Done(th)
        \* a new database starts empty: nothing made before is in it
        /\ dead' = dead \cup Tables \X (1 .. req[th].by - 1)
     \/ /\ req[th].op.kind # "create"
        /\ Goto(th, req[th].next)
        /\ UNCHANGED dead
  /\ UNCHANGED <<file, sidecar, reg, closed, requests, crashes, tables, rows, edited, erased, failed>>

-----------------------------------------------------------------------------
(* Tables: a change of the registry, and its snapshot.                     *)

CreateTable(th) ==
  /\ At(th, {"create_table"}, "run")
  /\ \/ Has(Registry(th), Name(th)) /\ Raise(th)
     \/ /\ ~Has(Registry(th), Name(th))
        /\ req' = [req EXCEPT ![th].stage = "define", ![th].make = req[th].op.tables]
        /\ UNCHANGED <<file, sidecar, memory, history>>
  /\ UNCHANGED <<requests, crashes>>

(* persist_schema looks the handle up again, writes out what that registry *)
(* holds, and opening the file to write empties it.                        *)

(* Fault: the caller forgets to persist. *)
Unpersisted == "acknowledge"
AfterChange == "dump"

Define(th) ==
  /\ At(th, {"create_table", "import"}, "define")
  /\ reg' = [reg EXCEPT ![req[th].h] = [t \in Tables |-> IF t \in req[th].make THEN req[th].by ELSE @[t]]]
  /\ Goto(th, AfterChange)
  /\ UNCHANGED <<file, sidecar, handle, closed, requests, crashes, history>>

(* A connection that was closed raises; so does one whose file is gone.    *)
Connected(th) == req[th].h \notin closed /\ file # None

DeleteRows(th) ==
  /\ At(th, {"drop_table"}, "run")
  /\ LET found == Has(Registry(th), Name(th)) /\ Connected(th) IN
     \/ ~found /\ Raise(th)
     \/ /\ found
        /\ file' = [file EXCEPT !.rows[Name(th)] = NoRows[Name(th)]]
        /\ Take(th, "forget", Registry(th)[Name(th)])
        /\ UNCHANGED <<sidecar, memory, history>>
  /\ UNCHANGED <<requests, crashes>>

(* Fault: the name stays, with nothing under it. *)
KeptAsNone == None
Removed == NoTable

Forget(th) ==
  /\ At(th, {"drop_table"}, "forget")
  /\ reg' = [reg EXCEPT ![req[th].h][Name(th)] = Removed]
  /\ Goto(th, AfterChange)
  /\ UNCHANGED <<file, sidecar, handle, closed, requests, crashes, history>>

Dump(th) ==
  /\ req[th].stage = "dump"
  /\ req' = IF handle = None THEN [req EXCEPT ![th].stage = "get", ![th].next = "dump"]
            ELSE [req EXCEPT ![th].stage = "truncate", ![th].dump = reg[handle]]
  /\ UNCHANGED <<file, sidecar, memory, requests, crashes, history>>

Truncate(th) ==
  /\ req[th].stage = "truncate"
  /\ sidecar' = Torn
  /\ Goto(th, "write")
  /\ UNCHANGED <<file, memory, requests, crashes, history>>

Write(th) ==
  /\ req[th].stage = "write"
  /\ sidecar' = req[th].dump
  /\ Goto(th, IF req[th].op.kind = "import" THEN "insert" ELSE "acknowledge")
  /\ UNCHANGED <<file, memory, requests, crashes, history>>

Made(th) == tables' = [t \in Tables |-> IF t \in req[th].make THEN req[th].by ELSE tables[t]]

Acknowledge(th) ==
  /\ req[th].stage = "acknowledge"
  /\ Done(th)
  /\ \/ req[th].op.kind = "create_table" /\ Made(th) /\ UNCHANGED dead
     \/ /\ req[th].op.kind = "drop_table"
        /\ dead' = dead \cup {<<Name(th), req[th].seen>>}
        /\ UNCHANGED tables
  /\ UNCHANGED <<file, sidecar, memory, requests, crashes, rows, edited, erased, failed>>

-----------------------------------------------------------------------------
(* Rows: MDCDataEngine over the records table.  An insert writes one       *)
(* batch, an import one for each of its tables, each in a transaction of   *)
(* its own.                                                                *)

Row(th) == [table |-> req[th].seen, by |-> req[th].by, edits |-> {}]
Taken(t, ids) == \E i \in ids : file.rows[t][i] # None

(* Validated against the registry; then, for ids that are given, a look    *)
(* whether they are there.                                                 *)
Validate(th) ==
  /\ At(th, {"insert"}, "run") \/ At(th, {"import"}, "insert")
  /\ \E t \in req[th].left :
       \/ (~Has(Registry(th), t) \/ ~Connected(th)) /\ Raise(th)
       \/ /\ Has(Registry(th), t) /\ Connected(th)
          /\ req' = [req EXCEPT ![th].stage = "check_ids", ![th].into = t,
                                ![th].seen = Registry(th)[t]]
          /\ UNCHANGED <<file, sidecar, memory, history>>
  /\ UNCHANGED <<requests, crashes>>

CheckIds(th) ==
  /\ req[th].stage = "check_ids"
  /\ LET free == Connected(th) /\ ~Taken(req[th].into, req[th].op.ids) IN
     \/ ~free /\ Raise(th)
     \/ free /\ Goto(th, "put") /\ UNCHANGED <<file, sidecar, memory, history>>
  /\ UNCHANGED <<requests, crashes>>

(* record_insert_many: one transaction, and the primary key decides.       *)

(* Fault: ON CONFLICT DO UPDATE for a row that is to be new. *)
Replacing(t, ids) == TRUE
Fits(t, ids) == ~Taken(t, ids)

(* Fault: no transaction around the rows of a batch. *)
KeepsSome(table, ids, row) ==
  [i \in Ids |-> IF i \in ids /\ table[i] = None THEN row ELSE table[i]]
RolledBack(table, ids, row) == table

(* The batch is in: the next table's, or the request is done. *)
GoesOn(th) ==
  LET left == req[th].left \ {req[th].into} IN
  \/ left = {} /\ Done(th) /\ Made(th)
  \/ /\ left # {}
     /\ req' = [req EXCEPT ![th].stage = "insert", ![th].left = left]
     /\ UNCHANGED tables

Put(th) ==
  /\ req[th].stage = "put"
  /\ LET t == req[th].into
         ids == req[th].op.ids IN
     \/ ~Connected(th) /\ Raise(th)
     \/ /\ Connected(th) /\ Fits(t, ids)
        /\ file' = [file EXCEPT !.rows[t] = [i \in Ids |-> IF i \in ids THEN Row(th) ELSE @[i]]]
        /\ GoesOn(th)
        /\ rows' = rows \cup {<<t, i, req[th].by>> : i \in ids}
        /\ UNCHANGED <<sidecar, memory, edited, dead, erased, failed>>
     \/ /\ Connected(th) /\ ~Fits(t, ids)
        /\ file' = [file EXCEPT !.rows[t] = RolledBack(@, ids, Row(th))]
        /\ Done(th)
        /\ Failed(th)
        /\ UNCHANGED <<sidecar, memory, tables, rows, edited, dead, erased>>
  /\ UNCHANGED <<requests, crashes>>

FindRow(th) ==
  /\ At(th, {"delete_row"}, "run")
  /\ LET found == Has(Registry(th), Name(th)) /\ Connected(th) /\ Taken(Name(th), req[th].op.ids) IN
     \/ ~found /\ Raise(th)
     \/ found /\ Goto(th, "erase") /\ UNCHANGED <<file, sidecar, memory, history>>
  /\ UNCHANGED <<requests, crashes>>

Erase(th) ==
  /\ req[th].stage = "erase"
  /\ \/ ~Connected(th) /\ Raise(th)
     \/ /\ Connected(th)
        /\ \E i \in req[th].op.ids :
             LET row == file.rows[Name(th)][i] IN
             /\ file' = [file EXCEPT !.rows[Name(th)][i] = None]
             /\ erased' = IF row = None THEN erased ELSE erased \cup {<<Name(th), i, row.by>>}
             /\ rows' = IF row = None THEN rows ELSE rows \ {<<Name(th), i, row.by>>}
        /\ Done(th)
        /\ UNCHANGED <<sidecar, memory, tables, edited, dead, failed>>
  /\ UNCHANGED <<requests, crashes>>

(* update reads the matching records, here all, and writes each back whole, *)
(* with its values in it.                                                  *)

(* Fault: only its own values are written. *)
Unmerged(row, by) == [row EXCEPT !.edits = {by}]
Merged(row, by) == [row EXCEPT !.edits = @ \cup {by}]

Match(th) ==
  /\ At(th, {"update"}, "run")
  /\ LET found == Has(Registry(th), Name(th)) /\ Connected(th) /\ Taken(Name(th), Ids) IN
     \/ ~found /\ Raise(th)
     \/ /\ found
        /\ Take(th, "rewrite", {<<i, file.rows[Name(th)][i]>> :
                                  i \in {j \in Ids : file.rows[Name(th)][j] # None}})
        /\ UNCHANGED <<file, sidecar, memory, history>>
  /\ UNCHANGED <<requests, crashes>>

Rewrite(th) ==
  /\ req[th].stage = "rewrite"
  /\ \/ ~Connected(th) /\ Raise(th)
     \/ /\ Connected(th)
        /\ \E m \in req[th].seen :
             /\ file' = [file EXCEPT !.rows[Name(th)][m[1]] = Merged(m[2], req[th].by)]
             /\ edited' = edited \cup {<<Name(th), m[1], m[2].by, req[th].by>>}
             /\ IF req[th].seen = {m} THEN Done(th) ELSE Take(th, "rewrite", req[th].seen \ {m})
        /\ UNCHANGED <<sidecar, memory, tables, rows, dead, erased, failed>>
  /\ UNCHANGED <<requests, crashes>>

-----------------------------------------------------------------------------
(* Import: prepare_import checks against what is there, and apply does not *)
(* check again; what it remembers is whether the database has to be made,  *)
(* and which tables.                                                       *)

Prepare(th) ==
  /\ req[th].stage = "prepare"
  /\ LET how == req[th].op.how IN
     \/ ~Exists /\ how = "rows" /\ Raise(th)
     \/ /\ ~Exists /\ how # "rows"
        /\ req' = [req EXCEPT ![th].stage = "exists", ![th].next = "define",
                              ![th].make = req[th].op.tables]
        /\ UNCHANGED <<file, sidecar, memory, history>>
     \/ /\ Exists
        /\ req' = [req EXCEPT ![th].stage = "get", ![th].next = "plan"]
        /\ UNCHANGED <<file, sidecar, memory, history>>
  /\ UNCHANGED <<requests, crashes>>

Plan(th) ==
  /\ req[th].stage = "plan"
  /\ LET how == req[th].op.how
         there == {t \in req[th].op.tables : Has(Registry(th), t)}
         missing == req[th].op.tables \ there
         conflict == \/ there # {} /\ how = "new"
                     \/ missing # {} /\ how = "rows"
                     \/ \E t \in there : Taken(t, req[th].op.ids) IN
     \/ (~Connected(th) \/ conflict) /\ Raise(th)
     \/ /\ Connected(th) /\ ~conflict
        /\ req' = [req EXCEPT ![th].stage = "get", ![th].make = missing,
                              ![th].next = IF missing = {} THEN "insert" ELSE "define"]
        /\ UNCHANGED <<file, sidecar, memory, history>>
  /\ UNCHANGED <<requests, crashes>>

-----------------------------------------------------------------------------
(* drop: close, forget, unlink the data and then the schema.               *)

Close(th) ==
  /\ At(th, {"drop"}, "run")
  /\ closed' = closed \cup {req[th].h}
  /\ Take(th, "unregister", Registry(th))
  /\ UNCHANGED <<file, sidecar, handle, reg, requests, crashes, history>>

Unregister(th) ==
  /\ req[th].stage = "unregister"
  /\ handle' = None
  /\ Goto(th, "unlink")
  /\ UNCHANGED <<file, sidecar, reg, closed, requests, crashes, history>>

Unlink(th) ==
  /\ req[th].stage = "unlink"
  /\ file' = None
  /\ Goto(th, "unlink_schema")
  /\ UNCHANGED <<sidecar, memory, requests, crashes, history>>

(* Fault: only the data is unlinked. *)
SchemaLeft(s) == s
Unlinked(s) == None

UnlinkSchema(th) ==
  /\ req[th].stage = "unlink_schema"
  /\ sidecar' = Unlinked(sidecar)
  /\ Done(th)
  /\ dead' = dead \cup {<<t, req[th].seen[t]>> : t \in {u \in Tables : Has(req[th].seen, u)}}
  /\ UNCHANGED <<file, memory, requests, crashes, tables, rows, edited, erased, failed>>

(* The process ends: what it held in memory is gone. *)
Crash ==
  /\ crashes < MaxCrashes
  /\ crashes' = crashes + 1
  /\ req' = [th \in Threads |-> Idle]
  /\ handle' = None
  /\ reg' = [h \in Handles |-> Empty]
  /\ closed' = {}
  /\ UNCHANGED <<file, sidecar, requests, history>>

-----------------------------------------------------------------------------
Step(th) ==
  \/ Get(th) \/ CheckFree(th) \/ Connect(th) \/ Publish(th)
  \/ CreateTable(th) \/ Define(th) \/ DeleteRows(th) \/ Forget(th)
  \/ Dump(th) \/ Truncate(th) \/ Write(th) \/ Acknowledge(th)
  \/ Validate(th) \/ CheckIds(th) \/ Put(th) \/ FindRow(th) \/ Erase(th)
  \/ Match(th) \/ Rewrite(th) \/ Prepare(th) \/ Plan(th)
  \/ Close(th) \/ Unregister(th) \/ Unlink(th) \/ UnlinkSchema(th)

Next ==
  \/ \E th \in Threads, op \in Requests : Begin(th, op)
  \/ \E th \in Threads : Step(th)
  \/ Crash

Spec == Init /\ [][Next]_vars

(***************************************************************************)
(* What a deployment has to see to, since nothing in the code does.        *)
(***************************************************************************)

(* Which requests may run beside each other; until one has opened the      *)
(* database, none.                                                         *)
Structural(op) == op.kind \in {"create", "drop", "drop_table"}
Shaping(op) == op.kind = "create_table" \/ (op.kind = "import" /\ op.how # "rows")
Compatible(a, b) ==
  /\ ~Structural(a) /\ ~Structural(b)
  /\ Shaping(a) /\ Shaping(b) => a.tables \cap b.tables = {}
  /\ "update" \in {a.kind, b.kind} /\ {a.kind, b.kind} \subseteq {"update", "delete_row"} =>
       a.table # b.table
ApartFrom(op) ==
  \A th \in Threads : req[th] # Idle => handle # None /\ Compatible(op, req[th].op)
InTurn ==
  \A th \in Threads :
    (req[th] = Idle /\ req'[th] # Idle) => ApartFrom(req'[th].op)

(* No two requests are writing the sidecar at once: one that has read the  *)
(* registry has written it out before the next one reads it.               *)
Writing(th) == req[th].stage \in {"truncate", "write"}
SnapshotsInTurn == \A th, u \in Threads : th # u /\ Writing(th)' => ~Writing(u)'

(* The process is not stopped between the unlinks of a database. *)
DropsFinish == crashes' # crashes => \A th \in Threads : req[th].stage # "unlink_schema"

CareSpec == Init /\ [][Next /\ InTurn /\ SnapshotsInTurn /\ DropsFinish]_vars

-----------------------------------------------------------------------------
(* Every variable has its type. *)
TypeOK ==
  /\ file = None \/ file \in Files
  /\ sidecar \in {None, Torn} \cup Registries
  /\ handle \in Handles \cup {None}
  /\ reg \in [Handles -> Registries]
  /\ closed \subseteq Handles
  /\ requests \in 1 .. MaxRequests /\ crashes \in 0 .. MaxCrashes
  /\ \A th \in Threads : req[th].h \in Handles \cup {None}

(* A table whose creation was acknowledged is in the registry that serves  *)
(* the database, or will be after a restart: it is in the sidecar, also    *)
(* when others made tables beside it, or in what is being written over it, *)
(* or else the process stopped in the middle of that, and the database     *)
(* refuses to open instead of forgetting it (persist_schema, get).         *)
TablesSurvive ==
  \A t \in Tables : tables[t] # NoTable =>
    /\ handle # None => reg[handle][t] = tables[t]
    /\ \/ sidecar \notin {None, Torn} /\ sidecar[t] = tables[t]
       \/ sidecar = Torn /\ \E th \in Threads : req[th].stage = "write" /\ req[th].dump[t] = tables[t]
       \/ sidecar = Torn /\ handle = None

(* A row that was committed stays, under its id, until its deletion is     *)
(* asked for, and keeps the values every update wrote to it: not replaced  *)
(* by a request that raced for the id, not written over by what another    *)
(* request had read, not lost where blocks become rows (record_insert_many,*)
(* update, the migration).                                                 *)
RowsAreKept ==
  \A r \in rows :
    /\ file # None
    /\ \/ r[3] = 1 /\ <<r[1], r[2]>> \in file.blocks
       \/ LET row == file.rows[r[1]][r[2]] IN
          row # None /\ row.by = r[3] /\ \A e \in edited : <<e[1], e[2], e[3]>> = r => e[4] \in row.edits

(* What was acknowledged as gone does not come back: not a dropped table,  *)
(* not the tables of a database made under a name used before, not their   *)
(* rows in a table made anew, not a deleted row.                           *)
KnownTables ==
  IF handle # None THEN reg[handle]
  ELSE IF file = None \/ sidecar \in {None, Torn} THEN Empty ELSE sidecar
GoneStaysGone ==
  /\ \A t \in Tables :
       /\ <<t, KnownTables[t]>> \notin dead
       /\ Has(KnownTables, t) /\ file # None =>
            \A i \in Ids : file.rows[t][i] # None => <<t, file.rows[t][i].table>> \notin dead
  /\ file # None =>
       \A r \in erased : file.rows[r[1]][r[2]] # None => file.rows[r[1]][r[2]].by # r[3]

(* A request that raised left no row of a batch it did not commit, also    *)
(* where it had passed every check and another took an id meanwhile        *)
(* (create_many: if any is taken, none is written).  An import has a batch *)
(* for each table: those before the one that failed are in, and stay.      *)
NothingHalfWritten ==
  file # None => \A t \in Tables, i \in Ids :
    file.rows[t][i] # None => <<file.rows[t][i].by, t>> \notin failed
=============================================================================
