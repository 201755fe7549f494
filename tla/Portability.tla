----------------------------- MODULE Portability -----------------------------
(***************************************************************************)
(* Databases that are exported, and files that are imported: tables and    *)
(* rows made through REST, any export of them, files people write, and     *)
(* imports of all these into other databases or back into the same one     *)
(* (portability.apply, schema.registry, the routes of api.app).            *)
(*                                                                         *)
(* An import is one step here.  What a concurrent change or a crash does   *)
(* between what was prepared and what is written is the subject of         *)
(* Databases; here the question is what of a database comes back.          *)
(***************************************************************************)
EXTENDS Formats, FiniteSets

CONSTANTS
  TableNames,  \* names of tables
  Layouts,     \* per table, the lists of columns it may be created with
  Says,        \* per datatype, the texts a person enters in such a column
  Drafts,      \* files a person writes
  Asks,        \* what is asked for in chat: sequences of words
  Ids,         \* record ids
  MaxSize,     \* bound: tables and rows of the database that is exported
  MaxRows,     \* bound: rows of a database, and of a table in a file
  MaxFiles     \* bound: how many files there ever are

ASSUME PortabilityAssumption == {MaxSize, MaxRows, MaxFiles} \subseteq Nat /\ None \notin Ids
ASSUME NamesAssumption == IsFiniteSet(TableNames) /\ \A name \in TableNames : None \notin Layouts[name]

(* "shop" is the one that is filled and exported, "diagram" the database   *)
(* that an ER diagram is imported into, after the name of the file.        *)
Databases == {"shop", "copy", "diagram", "default"}

VARIABLES
  dbs,     \* the databases: None, or a function from tables to [fields, rows]
  file,    \* the last file there is, or None
  source,  \* what it was exported from, or None
  taken,   \* the databases that imported it
  files,   \* how many files there were
  last     \* what was asked last, of what database, and the reply

vars == <<dbs, file, source, taken, files, last>>

Empty == [table \in {} |-> None]

(* The tables of a database, or one of them: in an order of their names.   *)
Tables(db, only) ==
  Map(LAMBDA name : [name |-> name, fields |-> db[name].fields, rows |-> db[name].rows],
      SetToSeq({name \in DOMAIN db : only \in {None, name}}))
Only(S) == CHOOSE x \in S : TRUE
Type(fields, name) == Only({f.datatype : f \in {g \in ToSet(fields) : g.name = name}})
IdsOf(rows) == {rows[i].id : i \in DOMAIN rows}
Total(db) == MapThenSumSet(LAMBDA name : Len(db[name].rows), DOMAIN db)
Size == Cardinality(DOMAIN dbs["shop"]) + Total(dbs["shop"])
Fresh(used) == Only(Ids \ used)

(* A new id for every row: none in use, and none of those the rows say.    *)
NewIds(rows, used) == {ids \in [DOMAIN rows -> Ids \ (used \cup IdsOf(rows))] : IsInjective(ids)}

Said(what, db, reply) == [what |-> what, db |-> db, reply |-> reply]

-----------------------------------------------------------------------------
(* Fault: the value is checked and stored as it came. *)
AsItCame(value, datatype) == {value}

(* The schema registry: what a column makes of a value, by a cast, which   *)
(* cuts a fraction off and counts a truth value.  The set is empty when it *)
(* raises.                                                                 *)

Cut == Whole @@ ("7.5" :> "7")
AsNumber == [integer |-> [true |-> "1", false |-> "0"], decimal |-> [true |-> "1.0", false |-> "0.0"]]
Coerced(value, datatype) ==
  IF value = None \/ value.type = datatype THEN {value}
  ELSE CASE datatype = "string"  -> {Value("string", value.text)}
         [] datatype = "boolean" -> {Value("boolean", IF value.text = "" THEN "false" ELSE "true")}
         [] datatype = "integer" /\ value.type = "decimal" ->
              {Value("integer", Cut[t]) : t \in {value.text} \cap DOMAIN Cut}
         [] datatype \in {"integer", "decimal"} /\ value.type = "boolean" ->
              {Value(datatype, AsNumber[datatype][value.text])}
         [] OTHER                -> Meant(datatype, value.text)

(* A full record: every column known, every value coerced, every required  *)
(* column there - with a value or with an explicit null.                   *)
ValidateRecord(values, fields) ==
  IF /\ \A c \in DOMAIN values : /\ c \in ToSet(Names(fields))
                                 /\ Coerced(values[c], Type(fields, c)) # {}
     /\ \A f \in ToSet(fields) : f.required => f.name \in DOMAIN values
  THEN {[c \in DOMAIN values |-> Only(Coerced(values[c], Type(fields, c)))]}
  ELSE {}

-----------------------------------------------------------------------------
(* Tables and rows, through REST: values come as text.                     *)

CreateTable(name, fields) ==
  /\ name \notin DOMAIN dbs["shop"]
  /\ Size < MaxSize
  /\ dbs' = [dbs EXCEPT !["shop"] =
                [n \in DOMAIN @ \cup {name} |-> IF n = name THEN [fields |-> fields, rows |-> <<>>] ELSE @[n]]]
  /\ last' = Said("create", "shop", "done")
  /\ UNCHANGED <<file, source, taken, files>>

InsertRow(name, values) ==
  /\ Size < MaxSize /\ Ids \ IdsOf(dbs["shop"][name].rows) # {}
  /\ \E validated \in ValidateRecord(values, dbs["shop"][name].fields) :
       dbs' = [dbs EXCEPT !["shop"][name].rows =
                 Append(@, [id |-> Fresh(IdsOf(@)), values |-> validated])]
  /\ last' = Said("insert", "shop", "done")
  /\ UNCHANGED <<file, source, taken, files>>

(* What a person may enter in some of the columns. *)
Entries(fields) ==
  LET Texts(name) == {Value("string", t) : t \in Says[Type(fields, name)]}
  IN UNION {{values \in [names -> UNION {Texts(n) : n \in names}] :
               \A n \in names : values[n] \in Texts(n)} : names \in SUBSET ToSet(Names(fields))}

-----------------------------------------------------------------------------
(* Files.                                                                  *)

File(kind, database, body) == [kind |-> kind, database |-> database, body |-> body]

(* One table of CSV is a file, more are an archive; neither an archive nor *)
(* a spreadsheet is ever read.                                             *)
ExportDatabase(db, options, table) ==
  LET tables == Tables(dbs[db], table)
      f == options.format
  IN CASE f = "dnadb"                 -> File("native", db, Native(tables, options.scope))
       [] f = "sql"                   -> File("sql", db, Sql(tables, options.scope))
       [] f = "md"                    -> File("markdown", db, Markdown(tables))
       [] f = "er"                    -> File("mermaid", None, Mermaid(tables))
       [] f = "csv" /\ table # None   -> File("csv", None, Csv(tables[1]))
       [] OTHER                       -> File("unread", None, <<>>)

Have(f, from) ==
  /\ files < MaxFiles
  /\ files' = files + 1
  /\ file' = f
  /\ source' = from
  /\ taken' = {}

Exported(format, scope, table) ==
  /\ table \in {None} \cup DOMAIN dbs["shop"]
  /\ \E options \in ResolveExportOptions(format, scope) :
       Have(ExportDatabase("shop", options, table),
            [scope |-> options.scope, tables |-> Tables(dbs["shop"], table)])
  /\ UNCHANGED dbs

Export(format, scope, table) ==
  Exported(format, scope, table) /\ last' = Said("export", "shop", "done")

(* In chat the reply is a link, made of the format and the scope it was    *)
(* resolved to; the page opens it, and the route resolves them again.      *)
ExportInChat(words) ==
  /\ DOMAIN dbs["shop"] # {}
  /\ \E asked \in ResolveExportOptions(ExportAsked(words).format, ExportAsked(words).scope) :
       Exported(asked.format, asked.scope, None)
  /\ last' = Said("chat", "shop", "done")

Draft(f) ==
  /\ Have(f, None)
  /\ last' = Said("draft", "shop", "done")
  /\ UNCHANGED dbs

-----------------------------------------------------------------------------
(* Imports.                                                                *)

ReadImport(f) ==
  CASE f.kind = "native"   -> ReadNative(f.body)
    [] f.kind = "sql"      -> ReadSql(f.body)
    [] f.kind = "markdown" -> ReadMarkdown(f.body)
    [] f.kind = "mermaid"  -> ReadMermaid(f.body)
    [] f.kind = "csv"      -> ReadCsv(f.body)
    [] f.kind = "prompt"   -> ParseDesignPrompt(f.body)
    [] OTHER               -> {}

ResolveDatabaseName(f, explicit, session) ==
  CASE explicit # None                                       -> explicit
    [] f.kind = "csv" \/ (f.kind = "prompt" /\ f.database = None) -> session
    [] f.database # None                                     -> f.database
    [] OTHER                                                 -> "diagram"

(* The registry as it will be: with the tables the plan creates. *)
Scratch(plan) ==
  [name \in {plan[i].name : i \in {j \in DOMAIN plan : plan[j].columns # None}} |->
     Only({plan[i].columns : i \in {j \in DOMAIN plan : plan[j].name = name /\ plan[j].columns # None}})]
Fields(plan, db, name) == IF name \in DOMAIN db THEN db[name].fields ELSE Scratch(plan)[name]

Cleaned(values, fields) == [c \in DOMAIN values |-> Only(NormalizeValue(values[c], Type(fields, c)))]
Problem(values, fields) ==
  \/ \E c \in DOMAIN values : \/ c \notin ToSet(Names(fields))
                              \/ NormalizeValue(values[c], Type(fields, c)) = {}
  \/ ValidateRecord(Cleaned(values, fields), fields) = {}

Repeats(rows) == \E i, j \in DOMAIN rows : i < j /\ rows[i].id # None /\ rows[i].id = rows[j].id
Taken(spec, db) == spec.name \in DOMAIN db /\ IdsOf(spec.rows) \cap IdsOf(db[spec.name].rows) # {}

(* Faults: ids in use are not looked for; nor is a table of the name.      *)
OnlyTables(spec, db) == spec.columns # None /\ ~spec.optional /\ spec.name \in DOMAIN db
OnlyIds(spec, db) == Repeats(spec.rows) \/ Taken(spec, db)

TwiceDefined(plan) == \E i, j \in DOMAIN plan : i < j /\ plan[i].name = plan[j].name
Conflicts(spec, db) ==
  \/ spec.columns # None /\ ~spec.optional /\ spec.name \in DOMAIN db
  \/ Repeats(spec.rows)
  \/ Taken(spec, db)
Homeless(spec, db) == spec.columns = None /\ spec.name \notin DOMAIN db

PrepareImport(plan, db) ==
  /\ ~TwiceDefined(plan)
  /\ \A i \in DOMAIN plan :
       /\ ~Homeless(plan[i], db)
       /\ ~Conflicts(plan[i], db)
       /\ \A k \in DOMAIN plan[i].rows :
            ~Problem(plan[i].rows[k].values, Fields(plan, db, plan[i].name))

(* The rows of a table go in together or not at all.                       *)
CreateMany(table, rows) ==
  LET Valid(row) == ValidateRecord(row.values, table.fields)
      new == Only(NewIds(rows, IdsOf(table.rows)))
      Record(k) == [id     |-> IF rows[k].id # None THEN rows[k].id ELSE new[k],
                    values |-> Only(Valid(rows[k]))]
  IN IF \/ \E i \in DOMAIN rows : Valid(rows[i]) = {}
        \/ Repeats(rows)
        \/ IdsOf(rows) \cap IdsOf(table.rows) # {}
     THEN {}
     ELSE {[fields |-> table.fields, rows |-> table.rows \o [k \in DOMAIN rows |-> Record(k)]]}

(* The tables first, then the rows of one table after another, no table    *)
(* twice.  The first failure stops it and leaves what is written by then.  *)
Apply(plan, db) ==
  LET create == {plan[i].name : i \in {j \in DOMAIN plan : plan[j].columns # None /\ ~(plan[j].optional /\ plan[j].name \in DOMAIN db)}}
      made == [name \in DOMAIN db \cup create |->
                 IF name \in create THEN [fields |-> Scratch(plan)[name], rows |-> <<>>] ELSE db[name]]
      Clean(spec) == Map(LAMBDA row : [id |-> row.id, values |-> Cleaned(row.values, made[spec.name].fields)], spec.rows)
      Filled(i) == CreateMany(made[plan[i].name], Clean(plan[i]))
      brings == {i \in DOMAIN plan : plan[i].rows # <<>>}
      fails == {i \in brings : Filled(i) = {}}
      written == {i \in brings : \A j \in fails : i < j}
      Rows(name) == UNION {Filled(i) : i \in {j \in written : plan[j].name = name}}
  IN [db     |-> [name \in DOMAIN made |-> IF Rows(name) = {} THEN made[name] ELSE Only(Rows(name))],
      failed |-> fails # {}]

(* Bounds of an import, beside the databases there are: no tables but      *)
(* those of TableNames, no more rows in a table of the file than MaxRows,  *)
(* and no ids but those of Ids, of which enough are left for the rows that *)
(* say none.                                                               *)
RowsWithin(rows, used) ==
  /\ \E n \in 0 .. MaxRows : DOMAIN rows = 1 .. n
  /\ IdsOf(rows) \subseteq Ids \cup {None}
  /\ NewIds(rows, used) # {}
Within(plan, db) ==
  \A i \in DOMAIN plan :
    /\ plan[i].name \in TableNames
    /\ RowsWithin(plan[i].rows, IF plan[i].name \in DOMAIN db THEN IdsOf(db[plan[i].name].rows) ELSE {})

(* The structure is brought over first: an export of it and the import of  *)
(* that file, in one step.                                                 *)
BringStructure ==
  /\ dbs["copy"] = None
  /\ \E plan \in ReadNative(Native(Tables(dbs["shop"], None), "schema")) :
       dbs' = [dbs EXCEPT !["copy"] = Apply(plan, Empty).db]
  /\ last' = Said("structure", "copy", "done")
  /\ UNCHANGED <<file, source, taken, files>>

(* So is, before any export, what a person wrote for the database that is  *)
(* exported.                                                               *)
BringDraft(f) ==
  /\ file = None
  /\ \E plan \in ReadImport(f) :
       /\ PrepareImport(plan, dbs["shop"])
       /\ Within(plan, dbs["shop"])
       /\ dbs' = [dbs EXCEPT !["shop"] = Apply(plan, @).db]
  /\ Size' <= MaxSize
  /\ last' = Said("draft", "shop", "done")
  /\ UNCHANGED <<file, source, taken, files>>

Import(explicit, session) ==
  /\ file # None
  /\ LET target == ResolveDatabaseName(file, explicit, session)
         db == IF dbs[target] = None THEN Empty ELSE dbs[target]
         plans == {plan \in ReadImport(file) : PrepareImport(plan, db)}
     IN /\ target \in Databases
        /\ IF plans = {}
           THEN last' = Said("import", target, "refused") /\ UNCHANGED <<dbs, taken>>
           ELSE LET plan == Only(plans)
                    result == Apply(plan, db)
                IN /\ Within(plan, db) /\ Total(result.db) <= MaxRows
                   /\ dbs' = [dbs EXCEPT ![target] = result.db]
                   /\ taken' = taken \cup {target}
                   /\ last' = Said("import", target, IF result.failed THEN "failed" ELSE "done")
  /\ UNCHANGED <<file, source, files>>

-----------------------------------------------------------------------------
Init ==
  /\ dbs = [db \in Databases |-> IF db \in {"shop", "default"} THEN Empty ELSE None]
  /\ file = None
  /\ source = None
  /\ taken = {}
  /\ files = 0
  /\ last = Said("create", "default", "done")

Next ==
  \/ \E name \in TableNames : \E fields \in Layouts[name] : CreateTable(name, fields)
  \/ \E name \in DOMAIN dbs["shop"] : \E values \in Entries(dbs["shop"][name].fields) : InsertRow(name, values)
  \/ \E format \in {None, "json", "excel"} \cup DOMAIN FORMATS, scope \in {None, "schema", "data", "all"}, table \in {None} \cup TableNames :
       Export(format, scope, table)
  \/ \E words \in Asks : ExportInChat(words)
  \/ \E f \in Drafts : Draft(f)
  \/ BringStructure
  \/ \E f \in Drafts : BringDraft(f)
  \/ \E explicit \in {None, "copy"}, session \in {"default", "shop"} : Import(explicit, session)

Spec == Init /\ [][Next]_vars

-----------------------------------------------------------------------------
(* What holds.                                                             *)

(* Every row fits the table it is in, however it came there: a value of    *)
(* the column's type or null in columns of the table, the required ones    *)
(* among them, and an id of its own.                                       *)
Fitting(table) ==
  \A i \in DOMAIN table.rows :
    LET values == table.rows[i].values IN
    /\ table.rows[i].id \in Ids
    /\ \A j \in DOMAIN table.rows : table.rows[i].id = table.rows[j].id => i = j
    /\ \A c \in DOMAIN values : /\ c \in ToSet(Names(table.fields))
                                /\ values[c] # None => values[c].type = Type(table.fields, c)
    /\ \A f \in ToSet(table.fields) : f.required => f.name \in DOMAIN values
TypeOK ==
  /\ DOMAIN dbs = Databases
  /\ \A db \in Databases : dbs[db] # None => \A name \in DOMAIN dbs[db] : Fitting(dbs[db][name])
  /\ files \in 0..MaxFiles /\ taken \subseteq Databases

(* What an export can carry: names that are lower case identifiers, tables *)
(* that have columns, and at least one of them.                            *)
Tidy(tables) ==
  /\ tables # <<>>
  /\ \A t \in ToSet(tables) : /\ t.name.style = "plain"
                              /\ t.fields # <<>>
                              /\ \A f \in ToSet(t.fields) : f.name.style = "plain"
(* And what a script can: a decimal that is a number, and no null in a     *)
(* required column.                                                        *)
InSql(tables) ==
  \A t \in ToSet(tables) : \A i \in DOMAIN t.rows : \A f \in ToSet(t.fields) :
    LET value == At(t.rows[i], f.name)
    IN (value = None => ~f.required) /\ (value # None => Readable(SqlLiteral(value)))

Asked(what) == last'.what = what
Before(db) == IF dbs[db] = None THEN Empty ELSE dbs[db]
SameRows(rows, others, fields) ==
  /\ Len(rows) = Len(others)
  /\ \A i \in DOMAIN rows : /\ rows[i].id = others[i].id
                            /\ \A f \in ToSet(fields) : At(rows[i], f.name) = At(others[i], f.name)

(* An export comes back: imported where none of its tables is, a backup, a *)
(* script, a document or a diagram is accepted and makes the same tables,  *)
(* columns, types and required columns; and what carries rows makes the    *)
(* same rows under the same ids, a null and a value that is not there      *)
(* being one.  An export of data alone comes back where the tables are as  *)
(* they were and empty.                                                    *)
ComesBack ==
  LET before == Before(last'.db)
      after == dbs'[last'.db]
      IsNew(t) == source.scope # "data" /\ t.name \notin DOMAIN before
      IsAsWas(t) == /\ source.scope = "data" /\ t.name \in DOMAIN before
                    /\ before[t.name] = [fields |-> t.fields, rows |-> <<>>]
  IN \A t \in ToSet(source.tables) :
       \/ \E u \in ToSet(source.tables) : ~IsNew(u) /\ ~IsAsWas(u)
       \/ source.scope = "data" /\ \A u \in ToSet(source.tables) : u.rows = <<>>
       \/ /\ last'.reply = "done"
          /\ t.name \in DOMAIN after
          /\ after[t.name].fields = t.fields
          /\ IF source.scope = "schema" THEN after[t.name].rows = <<>>
             ELSE SameRows(t.rows, after[t.name].rows, t.fields)
ExportsComeBack ==
  [][Asked("import") /\ source # None /\ file.kind \in {"native", "sql", "markdown", "mermaid"}
       /\ Tidy(source.tables) /\ (file.kind = "sql" => InSql(source.tables))
     => ComesBack]_vars

(* Of these the backup, whatever its texts are: no name, type, null or     *)
(* number of it is lost, if a date is the one that its text says.          *)
Dated(tables) ==
  \A t \in ToSet(tables) : \A i \in DOMAIN t.rows : \A c \in DOMAIN t.rows[i].values :
    LET value == t.rows[i].values[c]
    IN value # None /\ value.type = "datetime"
       => NormalizeValue(Value("string", value.text), "datetime") = {value}
BackupsComeBack ==
  [][Asked("import") /\ source # None /\ file.kind = "native"
       /\ Tidy(source.tables) /\ Dated(source.tables) => ComesBack]_vars

(* What types inferred from a CSV leave: every row under its id, every     *)
(* value that is not text with its type - text, too, if it does not look   *)
(* like anything else.  Only nan and the infinities, which the column takes *)
(* and the inference does not, make a column of decimals one of text.      *)
TypedColumnsSurviveCsv ==
  [][Asked("import") /\ source # None /\ file.kind = "csv" /\ last'.reply = "done" /\ Tidy(source.tables)
     => LET was == source.tables[1]
            is == dbs'[last'.db][was.name]
        IN /\ [i \in DOMAIN was.rows |-> was.rows[i].id] = [i \in DOMAIN is.rows |-> is.rows[i].id]
           /\ \A f \in ToSet(was.fields), i \in DOMAIN was.rows :
                LET value == At(was.rows[i], f.name)
                IN \/ value = None
                   \/ f.datatype = "string"
                   \/ \E j \in DOMAIN was.rows, t \in NoDigits : At(was.rows[j], f.name) = Value("decimal", t)
                   \/ At(is.rows[i], f.name) = value]_vars

(* An import never overwrites: every table and row that was there is there *)
(* as it was.                                                              *)
ImportsOnlyAdd ==
  [][Asked("import") =>
       \A db \in Databases : dbs[db] # None =>
         \A name \in DOMAIN dbs[db] :
           /\ name \in DOMAIN dbs'[db]
           /\ dbs'[db][name].fields = dbs[db][name].fields
           /\ IsPrefix(dbs[db][name].rows, dbs'[db][name].rows)]_vars

(* What was prepared is written: the engine finds nothing wrong with what  *)
(* passed all the checks, so no import stops half-way.                     *)
NeverHalf == last.reply # "failed"

(* The same export imported a second time changes nothing: it is refused,  *)
(* or it had no rows to bring.                                             *)
TwiceIsOnce ==
  [][Asked("import") /\ source # None /\ last'.db \in taken => dbs' = dbs]_vars

(* What writers.py and the README say of a CSV: a text that looks like a   *)
(* formula is guarded on export and restored on import, so the round trip  *)
(* is lossless.                                                            *)
GuardedCellsAreRestored ==
  [][Asked("import") /\ source # None /\ file.kind = "csv" /\ last'.reply = "done" /\ Tidy(source.tables)
     => LET was == source.tables[1]
            is == dbs'[last'.db][was.name]
        IN \A f \in ToSet(was.fields), i \in DOMAIN was.rows :
             LET value == At(was.rows[i], f.name)
             IN value # None /\ f.datatype = "string" /\ value.text \in Runs
                => At(is.rows[i], f.name).text = value.text]_vars
=============================================================================
