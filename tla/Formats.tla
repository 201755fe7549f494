------------------------------- MODULE Formats -------------------------------
(***************************************************************************)
(* The files a database is written to and read from (portability.writers,  *)
(* portability.readers, portability.design).  A file is what it says: the  *)
(* cells of a CSV, the statements of a script, the sections of a document, *)
(* the entities of a diagram.  How they are laid out in characters is left *)
(* out; what becomes of names, types and values on the way is all here.    *)
(*                                                                         *)
(* What a reader answers is a set: the one plan it read, or none when it   *)
(* raises ImportFormatError.                                               *)
(***************************************************************************)
EXTENDS Integers, SequencesExt

CONSTANT None

-----------------------------------------------------------------------------
(* Names.  A table or a column may be made with any name; three styles are *)
(* told apart: "plain" (a lower case identifier), "upper" (an identifier   *)
(* with capitals) and "spaced" (with a space in it).  "second" is the name *)
(* a reader gives the second of two that became the same.                  *)

Name(stem, style) == [stem |-> stem, style |-> style]
RECORD_ID == Name("record_id", "plain")

SafeIdentifier(name) == [name EXCEPT !.style = "plain"]
Unused(name, used) ==
  IF SafeIdentifier(name) \in used THEN [name EXCEPT !.style = "second"] ELSE SafeIdentifier(name)
IsValidIdentifier(name) == name.style # "spaced"

(* The names of a list, each one made safe and, but for record_id, unused. *)
Renamed(names) ==
  FoldLeft(LAMBDA done, name : Append(done, IF SafeIdentifier(name) = RECORD_ID THEN RECORD_ID
                                            ELSE Unused(name, ToSet(done))), <<>>, names)

(* The column that names a row of another table: <singular of it>_id.      *)
Keys == [orders |-> "order_id", lines |-> "line_id"]
EndsInId(name) == name.stem \in {Keys[table] : table \in DOMAIN Keys}
References(column, table) ==
  /\ table.stem \in DOMAIN Keys /\ column.stem = Keys[table.stem]
  /\ column.style = table.style /\ column.style # "spaced"

-----------------------------------------------------------------------------
(* Values: a type and the text str() gives.                                *)

DATATYPES == {"string", "decimal", "integer", "boolean", "datetime"}
Value(type, text) == [type |-> type, text |-> text]
Column(name, datatype, required) == [name |-> name, datatype |-> datatype, required |-> required]

(* The texts that mean a number, a truth value or a date, and how the      *)
(* value they mean is written back.                                        *)
Integers == ("7" :> "7") @@ ("+7" :> "7") @@ ("007" :> "7") @@ ("-7" :> "-7")
Decimals == ("7" :> "7.0") @@ ("+7" :> "7.0") @@ ("007" :> "7.0") @@ ("-7" :> "-7.0")
            @@ ("7.0" :> "7.0") @@ ("-7.0" :> "-7.0") @@ ("7.5" :> "7.5")
            @@ ("nan" :> "nan") @@ ("inf" :> "inf") @@ ("-inf" :> "-inf")
NoDigits == {"nan", "inf", "-inf"}
Whole == ("7.0" :> "7") @@ ("-7.0" :> "-7")
Booleans == ("true" :> "true") @@ ("false" :> "false")
Dates == ("2024-05-01" :> "2024-05-01T00:00:00") @@ ("2024-05-01T00:00:00" :> "2024-05-01T00:00:00")
Meaning == [integer |-> Integers, decimal |-> Decimals, boolean |-> Booleans, datetime |-> Dates]
Meant(datatype, text) ==
  {Value(datatype, Meaning[datatype][t]) : t \in {text} \cap DOMAIN Meaning[datatype]}

(* A reader or a column takes a value: the set of what it becomes, empty   *)
(* when it is refused.                                                     *)
NormalizeValue(value, datatype) ==
  IF value = None \/ value.type = datatype THEN {value}
  ELSE CASE datatype = "string"                            -> {Value("string", value.text)}
         [] datatype # "string" /\ value.type = "boolean"  -> {}
         [] datatype = "integer" /\ value.type = "decimal" ->
              {Value("integer", Whole[t]) : t \in {value.text} \cap DOMAIN Whole}
         [] OTHER                                          -> Meant(datatype, value.text)

-----------------------------------------------------------------------------
(* What can be exported (resolve_export_options).                          *)

FORMATS ==
  [dnadb |-> [default |-> "all",    allowed |-> {"schema", "data", "all"}],
   sql   |-> [default |-> "all",    allowed |-> {"schema", "data", "all"}],
   xlsx  |-> [default |-> "all",    allowed |-> {"schema", "data", "all"}],
   csv   |-> [default |-> "data",   allowed |-> {"data", "all"}],
   md    |-> [default |-> "schema", allowed |-> {"schema"}],
   er    |-> [default |-> "schema", allowed |-> {"schema"}]]
FORMAT_ALIASES ==
  [xls |-> "xlsx", excel |-> "xlsx", json |-> "dnadb", markdown |-> "md", erd |-> "er",
   mermaid |-> "er", script |-> "sql"]
Word(format) ==
  CASE format = None -> "dnadb"
    [] format \in DOMAIN FORMAT_ALIASES -> FORMAT_ALIASES[format]
    [] OTHER -> format
ResolveExportOptions(format, scope) ==
  {[format |-> f, scope |-> IF f = "csv" /\ s = "all" THEN "data" ELSE s] :
     f \in {Word(format)} \cap DOMAIN FORMATS,
     s \in {IF scope # None THEN scope ELSE FORMATS[Word(format)].default}}
    \cap [format : DOMAIN FORMATS, scope : FORMATS[Word(format)].allowed]

(* What the words of "export ..." ask for (nlp.db_command).                *)
FormatWords ==
  [csv |-> "csv", sql |-> "sql", spreadsheet |-> "xlsx", markdown |-> "md", diagram |-> "er",
   backup |-> "dnadb", dump |-> "dnadb"]
ExportAsked(words) ==
  LET named      == SelectSeq(words, LAMBDA w : w \in DOMAIN FormatWords)
      structure  == {"schema", "structure", "design", "ddl"} \cap ToSet(words) # {}
      data       == {"data", "rows", "records"} \cap ToSet(words) # {}
      everything == \/ {"everything", "all", "backup", "dump"} \cap ToSet(words) # {}
                    \/ \E i \in 1..Len(words) - 1 : words[i] = "with" /\ words[i + 1] \in {"data", "rows", "records"}
  IN [format |-> CASE named # <<>>                -> FormatWords[named[1]]
                   [] "design" \in ToSet(words)   -> "md"
                   [] OTHER                       -> None,
      scope  |-> CASE everything \/ (structure /\ data) -> "all"
                   [] structure                         -> "schema"
                   [] data                              -> "data"
                   [] OTHER                             -> None]

-----------------------------------------------------------------------------
(* Writers.  "tables" is a sequence of [name, fields, rows]; a row is      *)
(* [id, values], its values a function of the columns it has a value for.  *)

At(row, column) == IF column \in DOMAIN row.values THEN row.values[column] ELSE None
Names(fields) == [i \in DOMAIN fields |-> fields[i].name]
Map(op(_), seq) == [i \in DOMAIN seq |-> op(seq[i])]

(* Fault: rows are written without their ids. *)
WithoutIds(tables, scope) ==
  Map(LAMBDA t : [name    |-> t.name,
                  columns |-> IF scope = "data" THEN None ELSE t.fields,
                  rows    |-> IF scope = "schema" THEN <<>> ELSE Map(LAMBDA r : [r EXCEPT !.id = None], t.rows)],
      tables)

Native(tables, scope) ==
  Map(LAMBDA t : [name    |-> t.name,
                  columns |-> IF scope = "data" THEN None ELSE t.fields,
                  rows    |-> IF scope = "schema" THEN <<>> ELSE t.rows], tables)

(* A cell that a spreadsheet would run starts with = + - or @.             *)
Runs == {"=sum", "+7", "-7"}
Quoted(text) == "'" \o text
GuardCell(text) == IF text \in Runs THEN Quoted(text) ELSE text
CsvCell(value) ==
  CASE value = None -> ""
    [] value.type \in {"string", "datetime"} -> GuardCell(value.text)
    [] OTHER -> value.text
Csv(table) ==
  [name   |-> table.name,
   header |-> <<RECORD_ID>> \o Names(table.fields),
   lines  |-> Map(LAMBDA row : <<row.id>> \o Map(LAMBDA f : CsvCell(At(row, f.name)), table.fields), table.rows)]

SQL_TYPES ==
  [string |-> "VARCHAR", decimal |-> "DOUBLE PRECISION", integer |-> "BIGINT",
   boolean |-> "BOOLEAN", datetime |-> "TIMESTAMP"]
SqlLiteral(value) ==
  IF value # None /\ value.type = "datetime" THEN Value("string", value.text) ELSE value
Create(table) ==
  [kind |-> "CREATE", name |-> table.name, optional |-> FALSE, keys |-> {},
   columns |-> <<[name |-> RECORD_ID, type |-> "VARCHAR", required |-> TRUE]>>
               \o Map(LAMBDA f : [name |-> f.name, type |-> SQL_TYPES[f.datatype], required |-> f.required], table.fields)]
Insert(table) ==
  [kind |-> "INSERT", name |-> table.name, columns |-> <<RECORD_ID>> \o Names(table.fields),
   rows |-> Map(LAMBDA row : <<Value("string", row.id)>>
                             \o Map(LAMBDA f : SqlLiteral(At(row, f.name)), table.fields), table.rows)]
Sql(tables, scope) ==
  (IF scope = "data" THEN <<>> ELSE Map(Create, tables))
  \o (IF scope = "schema" THEN <<>> ELSE Map(Insert, SelectSeq(tables, LAMBDA t : t.rows # <<>>)))

(* No foreign keys are stored: they are told from the names.               *)
Relationships(tables) ==
  FlattenSeq(FlattenSeq(
    Map(LAMBDA child : Map(LAMBDA f :
          Map(LAMBDA parent : [left |-> child.name, leftMany |-> TRUE, right |-> parent.name,
                               rightMany |-> FALSE, label |-> f.name],
              SelectSeq(tables, LAMBDA parent : References(f.name, parent.name) /\ parent # child)),
          child.fields), tables)))
Attribute(name) == IF name.style = "spaced" THEN SafeIdentifier(name) ELSE name
Mermaid(tables) ==
  [entities  |-> Map(LAMBDA t : [name |-> t.name,
                                 columns |-> Map(LAMBDA f : [name |-> Attribute(f.name), type |-> f.datatype,
                                                             required |-> f.required], t.fields)], tables),
   relations |-> Relationships(tables)]
Markdown(tables) ==
  [sections |-> Map(LAMBDA t : [name |-> t.name,
                                columns |-> Map(LAMBDA f : [name |-> f.name, type |-> f.datatype,
                                                            required |-> f.required], t.fields)], tables),
   diagram  |-> Mermaid(tables)]

-----------------------------------------------------------------------------
(* Readers.  A plan is a sequence of [name, columns, rows, optional]; with *)
(* columns None the file has rows for the table and not its structure.     *)

TableSpec(name, columns, rows, optional) ==
  [name |-> name, columns |-> columns, rows |-> rows, optional |-> optional]

UnguardCell(text) ==
  IF \E t \in Runs : text = Quoted(t) THEN CHOOSE t \in Runs : text = Quoted(t) ELSE text

(* 007, nan and inf are neither an integer nor a decimal here, though a    *)
(* column of that type takes them.                                         *)
Looks(datatype) == DOMAIN Meaning[datatype] \ ({"007"} \cup NoDigits)
(* Fault: the wider number is tried first. *)
DecimalFirst(texts) ==
  LET present == texts \ {""}
  IN CASE present = {} -> "string"
       [] present \subseteq Looks("decimal") -> "decimal"
       [] present \subseteq Looks("boolean") -> "boolean"
       [] present \subseteq Looks("datetime") -> "datetime"
       [] OTHER -> "string"

InferType(texts) ==
  LET present == texts \ {""}
      All(datatype) == present \subseteq Looks(datatype)
  IN CASE present = {}    -> "string"
       [] All("integer")  -> "integer"
       [] All("decimal")  -> "decimal"
       [] All("boolean")  -> "boolean"
       [] All("datetime") -> "datetime"
       [] OTHER           -> "string"

CsvValue(text, datatype) ==
  IF datatype \in {"string", "datetime"} THEN Value("string", text)
  ELSE Value(datatype, Meaning[datatype][text])

ReadCsv(csv) ==
  LET names   == Renamed(csv.header)
      width   == Len(names)
      filled  == SelectSeq(csv.lines, LAMBDA line : ToSet(line) \ {""} # {})
      lines   == Map(LAMBDA line : [i \in 1..width |-> IF i <= Len(line) THEN UnguardCell(line[i]) ELSE ""], filled)
      types   == [i \in 1..width |-> InferType({lines[k][i] : k \in DOMAIN lines})]
      columns == SelectSeq([i \in 1..width |-> Column(names[i], types[i], FALSE)], LAMBDA c : c.name # RECORD_ID)
      Index(name) == CHOOSE i \in 1..width : names[i] = name
      Row(line) ==
        [id     |-> IF RECORD_ID \in ToSet(names) /\ line[Index(RECORD_ID)] # ""
                    THEN line[Index(RECORD_ID)] ELSE None,
         values |-> [name \in {c.name : c \in {d \in ToSet(columns) : line[Index(d.name)] # ""}}
                       |-> CsvValue(line[Index(name)], types[Index(name)])]]
  IN IF columns = <<>> \/ \E i \in DOMAIN filled : Len(filled[i]) > width THEN {}
     ELSE {<<TableSpec(SafeIdentifier(csv.name), columns, Map(Row, lines), FALSE)>>}

(* Fault: a type of two words is not known. *)
OneWord(type) ==
  CASE type \in DATATYPES -> type
    [] type \in {"INT", "BIGINT", "SERIAL"} -> "integer"
    [] type \in {"NUMERIC", "REAL"} -> "decimal"
    [] type \in {"BOOLEAN", "BIT"} -> "boolean"
    [] type \in {"TIMESTAMP", "DATE"} -> "datetime"
    [] OTHER -> "string"

(* The words for a type, in a script, a document or a diagram.             *)
SqlTypeToDatatype(type) ==
  CASE type \in DATATYPES -> type
    [] type \in {"INT", "BIGINT", "SERIAL"} -> "integer"
    [] type \in {"NUMERIC", "DOUBLE PRECISION", "REAL"} -> "decimal"
    [] type \in {"BOOLEAN", "BIT"} -> "boolean"
    [] type \in {"TIMESTAMP", "DATE"} -> "datetime"
    [] OTHER -> "string"

(* A script is read into a function from table names to what is known of   *)
(* them; "order" is every column declared, record_id included.             *)
SqlCreateTable(tables, st) ==
  LET own     == SelectSeq(st.columns, LAMBDA c : SafeIdentifier(c.name) # RECORD_ID)
      order   == Renamed(Names(st.columns))
      names   == SelectSeq(order, LAMBDA n : n # RECORD_ID)
      columns == [i \in DOMAIN own |->
                    Column(names[i], SqlTypeToDatatype(own[i].type), own[i].required \/ names[i] \in st.keys)]
      spec    == TableSpec(SafeIdentifier(st.name), columns, <<>>, st.optional)
  IN IF columns = <<>> THEN {} ELSE {(spec.name :> [spec |-> spec, order |-> order]) @@ tables}

(* What the grammar of values does not know is refused: a bare nan or inf. *)
Readable(literal) == literal = None \/ literal.type = "string" \/ literal.text \notin NoDigits
SqlInsert(tables, st) ==
  LET name  == SafeIdentifier(st.name)
      known == name \in DOMAIN tables
      table == IF known THEN tables[name] ELSE [spec |-> TableSpec(name, None, <<>>, FALSE), order |-> <<>>]
      columns == IF st.columns = None THEN table.order ELSE Map(SafeIdentifier, st.columns)
      Present(cells) == {columns[i] : i \in {j \in DOMAIN columns : cells[j] # None}}
      Cell(cells, c) == cells[Max({j \in DOMAIN columns : columns[j] = c /\ cells[j] # None})]
      Row(cells) ==
        [id     |-> IF RECORD_ID \in Present(cells) THEN Cell(cells, RECORD_ID).text ELSE None,
         values |-> [c \in Present(cells) \ {RECORD_ID} |-> Cell(cells, c)]]
  IN IF \/ st.columns = None /\ ~known
        \/ \E i \in DOMAIN st.rows : \/ Len(st.rows[i]) # Len(columns)
                                     \/ \E j \in DOMAIN st.rows[i] : ~Readable(st.rows[i][j])
     THEN {}
     ELSE {(name :> [table EXCEPT !.spec.rows = @ \o Map(Row, st.rows)]) @@ tables}

(* Statements are read in order; the others are skipped, not carried out.  *)
ReadSql(statements) ==
  LET Statement(before, st) ==
        UNION {CASE st.kind = "CREATE" -> SqlCreateTable(tables, st)
                 [] st.kind = "INSERT" -> SqlInsert(tables, st)
                 [] OTHER              -> {tables} : tables \in before}
      Nothing == [name \in {} |-> None]
  IN {Map(LAMBDA name : tables[name].spec, SetToSeq(DOMAIN tables)) :
        tables \in {t \in FoldLeft(Statement, {Nothing}, statements) : DOMAIN t # {}}}

(* The entities of one name are one table; an attribute is read once.      *)
ReadMermaid(diagram) ==
  LET entities == Map(LAMBDA e : [e EXCEPT !.name = SafeIdentifier(e.name)], diagram.entities)
      names == FoldLeft(LAMBDA done, e : IF e.name \in ToSet(done) THEN done ELSE Append(done, e.name), <<>>, entities)
      Add(columns, c) == IF c.name \in ToSet(Names(columns)) THEN columns ELSE Append(columns, c)
      Attributes(name) ==
        FoldLeft(Add, <<>>,
          Map(LAMBDA a : Column(SafeIdentifier(a.name), SqlTypeToDatatype(a.type), a.required),
              SelectSeq(FlattenSeq(Map(LAMBDA e : e.columns, SelectSeq(entities, LAMBDA e : e.name = name))),
                        LAMBDA a : SafeIdentifier(a.name) # RECORD_ID)))
      Relate(tables, r) ==
        LET left   == SafeIdentifier(r.left)
            right  == SafeIdentifier(r.right)
            parent == IF r.leftMany THEN right ELSE left
            child  == IF r.leftMany THEN left ELSE right
            field  == IF r.label # None /\ EndsInId(r.label) THEN SafeIdentifier(r.label)
                      ELSE Name(Keys[parent.stem], "plain")
        IN IF {left, right} \subseteq DOMAIN tables /\ ~(r.leftMany /\ r.rightMany)
           THEN [tables EXCEPT ![child] = Add(@, Column(field, "string", FALSE))]
           ELSE tables
      tables == FoldLeft(Relate, [name \in ToSet(names) |-> Attributes(name)], diagram.relations)
      specs  == Map(LAMBDA name : TableSpec(name, tables[name], <<>>, FALSE),
                    SelectSeq(names, LAMBDA name : tables[name] # <<>>))
  IN IF specs = <<>> THEN {} ELSE {specs}

(* A heading is read up to the first space: a table with one in its name   *)
(* is no heading, and what is under it is passed over.                     *)
ReadMarkdown(document) ==
  LET sections == SelectSeq(document.sections, LAMBDA s : s.name.style # "spaced")
      Fields(s) == SelectSeq(s.columns, LAMBDA c : c.name # RECORD_ID)
      Columns(s) == LET names == Renamed(Names(Fields(s)))
                    IN [i \in DOMAIN names |->
                          Column(names[i], SqlTypeToDatatype(Fields(s)[i].type), Fields(s)[i].required)]
  IN CASE sections = <<>> /\ document.diagram # None -> ReadMermaid(document.diagram)
       [] sections = <<>> \/ \E i \in DOMAIN sections : Fields(sections[i]) = <<>> -> {}
       [] OTHER -> {Map(LAMBDA s : TableSpec(SafeIdentifier(s.name), Columns(s), <<>>, FALSE), sections)}

(* "create database shop with orders(note, price decimal)": the grammar of *)
(* a design in a chat message.  A column with no type is given the one its *)
(* name suggests, and a second table of a name, or column, is left out.    *)
GuessType(name) ==
  CASE name.stem = "paid"  -> "boolean"
    [] name.stem = "due"   -> "datetime"
    [] name.stem = "price" -> "decimal"
    [] name.stem = "qty"   -> "integer"
    [] OTHER               -> "string"
ParseDesignPrompt(prompt) ==
  LET First(columns, c) == IF c.name \in ToSet(Names(columns)) \cup {RECORD_ID} THEN columns ELSE Append(columns, c)
      Field(c) == LET name == SafeIdentifier(c.name)
                  IN Column(name, IF c.type = None THEN GuessType(name) ELSE SqlTypeToDatatype(c.type), c.required)
      Table(specs, t) ==
        LET columns == FoldLeft(First, <<>>, Map(Field, t.columns))
        IN IF columns = <<>> THEN specs
           ELSE Append(specs, TableSpec(SafeIdentifier(t.name), columns, <<>>, FALSE))
      Once(seen, t) == IF SafeIdentifier(t.name) \in {SafeIdentifier(x.name) : x \in ToSet(seen)}
                       THEN seen ELSE Append(seen, t)
      specs == FoldLeft(Table, <<>>, FoldLeft(Once, <<>>, prompt))
  IN IF specs = <<>> THEN {} ELSE {specs}

ReadNative(body) ==
  IF \/ body = <<>>
     \/ \E i \in DOMAIN body : \/ ~IsValidIdentifier(body[i].name)
                               \/ /\ body[i].columns # None
                                  /\ \E j \in DOMAIN body[i].columns : ~IsValidIdentifier(body[i].columns[j].name)
  THEN {}
  ELSE {Map(LAMBDA t : TableSpec(t.name, t.columns,
                            Map(LAMBDA row : [id |-> row.id, values |-> Map(SqlLiteral, row.values)], t.rows), FALSE), body)}
=============================================================================
