-------------------------- MODULE PortabilityProofs --------------------------
(***************************************************************************)
(* Theorems about Portability, for any tables, columns, texts, files and   *)
(* bounds, and whatever the readers make of a file: what passes the checks *)
(* of an import is written, what is written fits its table, and what was   *)
(* there before stays.                                                     *)
(***************************************************************************)
EXTENDS Portability, TLAPS, SequenceTheorems, FiniteSetTheorems

-----------------------------------------------------------------------------
(* What Apply makes of a plan, its parts as operators.                     *)

Created(plan, db) ==
  {plan[i].name : i \in {j \in DOMAIN plan :
     plan[j].columns # None /\ ~(plan[j].optional /\ plan[j].name \in DOMAIN db)}}
Made(plan, db) ==
  [name \in DOMAIN db \cup Created(plan, db) |->
     IF name \in Created(plan, db) THEN [fields |-> Scratch(plan)[name], rows |-> <<>>] ELSE db[name]]
Clean(rows, fields) == Map(LAMBDA row : [id |-> row.id, values |-> Cleaned(row.values, fields)], rows)
Fails(plan, db, i) ==
  /\ plan[i].rows # <<>>
  /\ CreateMany(Made(plan, db)[plan[i].name],
                Clean(plan[i].rows, Made(plan, db)[plan[i].name].fields)) = {}

LEMMA ApplyFails ==
  ASSUME NEW plan, NEW db
  PROVE  Apply(plan, db).failed <=> \E i \in DOMAIN plan : Fails(plan, db, i)
BY DEF Apply, Fails, Made, Created, Clean

(* Cleaned rows are as many, under the same ids.                           *)
LEMMA CleanRows ==
  ASSUME NEW rows, NEW fields
  PROVE  /\ DOMAIN Clean(rows, fields) = DOMAIN rows
         /\ \A k \in DOMAIN rows : /\ Clean(rows, fields)[k].id = rows[k].id
                                   /\ Clean(rows, fields)[k].values = Cleaned(rows[k].values, fields)
         /\ IdsOf(Clean(rows, fields)) = IdsOf(rows)
         /\ Repeats(Clean(rows, fields)) <=> Repeats(rows)
<1>1. /\ DOMAIN Clean(rows, fields) = DOMAIN rows
      /\ \A k \in DOMAIN rows :
           Clean(rows, fields)[k] = [id |-> rows[k].id, values |-> Cleaned(rows[k].values, fields)]
  BY DEF Clean, Map
<1>2. \A k \in DOMAIN rows : /\ Clean(rows, fields)[k].id = rows[k].id
                             /\ Clean(rows, fields)[k].values = Cleaned(rows[k].values, fields)
  BY <1>1
<1>3. IdsOf(Clean(rows, fields)) = IdsOf(rows)
  BY <1>1, <1>2 DEF IdsOf
<1>4. Repeats(Clean(rows, fields)) <=> Repeats(rows)
  BY <1>1, <1>2 DEF Repeats
<1> QED
  BY <1>1, <1>2, <1>3, <1>4

(* The table a prepared spec is for: it has the columns the rows were      *)
(* checked against, and none of their ids.                                 *)
LEMMA PreparedTable ==
  ASSUME NEW plan, NEW db, PrepareImport(plan, db), NEW i \in DOMAIN plan
  PROVE  LET name == plan[i].name
             table == Made(plan, db)[name]
         IN /\ table.fields = Fields(plan, db, name)
            /\ IdsOf(plan[i].rows) \cap IdsOf(table.rows) = {}
<1> DEFINE name == plan[i].name
           table == Made(plan, db)[name]
<1>1. \A j \in DOMAIN plan : ~Homeless(plan[j], db) /\ ~Conflicts(plan[j], db)
  BY DEF PrepareImport
<1>2. CASE name \in DOMAIN db
  <2>1. name \notin Created(plan, db)
    BY <1>1, <1>2 DEF Created, Conflicts
  <2>2. table = db[name]
    BY <1>2, <2>1 DEF Made
  <2> QED
    BY <1>1, <1>2, <2>2 DEF Fields, Conflicts, Taken
<1>3. CASE name \notin DOMAIN db
  <2>1. name \in Created(plan, db)
    BY <1>1, <1>3 DEF Created, Homeless
  <2>2. table = [fields |-> Scratch(plan)[name], rows |-> <<>>]
    BY <2>1 DEF Made
  <2>3. IdsOf(<<>>) = {}
    BY DEF IdsOf
  <2> QED
    BY <1>3, <2>2, <2>3 DEF Fields
<1> QED
  BY <1>2, <1>3

(* What was prepared, the engine writes: every row it is given fits the    *)
(* table, under an id of its own.                                          *)
LEMMA PreparedIsWritten ==
  ASSUME NEW plan, NEW db, PrepareImport(plan, db)
  PROVE  ~Apply(plan, db).failed
<1> SUFFICES ASSUME NEW i \in DOMAIN plan, Fails(plan, db, i)
             PROVE  FALSE
  BY ApplyFails
<1> PICK name, rows, table, fields, clean :
      /\ name = plan[i].name /\ rows = plan[i].rows
      /\ table = Made(plan, db)[name] /\ fields = table.fields
      /\ clean = Clean(rows, fields)
  OBVIOUS
<1>1. fields = Fields(plan, db, name) /\ IdsOf(rows) \cap IdsOf(table.rows) = {}
  BY PreparedTable
<1>2. /\ DOMAIN clean = DOMAIN rows /\ IdsOf(clean) = IdsOf(rows)
      /\ \A k \in DOMAIN rows : clean[k].values = Cleaned(rows[k].values, fields)
      /\ Repeats(clean) <=> Repeats(rows)
  BY CleanRows
<1>3. ~Repeats(rows) /\ \A k \in DOMAIN rows : ~Problem(rows[k].values, fields)
  BY <1>1 DEF PrepareImport, Conflicts
<1>4. \A k \in DOMAIN clean : ValidateRecord(clean[k].values, fields) # {}
  BY <1>2, <1>3 DEF Problem
<1>5. CreateMany(table, clean) = {}
  BY DEF Fails
<1> QED
  BY <1>1, <1>2, <1>3, <1>4, <1>5 DEF CreateMany

-----------------------------------------------------------------------------
(* No import stops half-way, whatever the file says and whatever was in    *)
(* the database: an import writes all of its plan or is refused before it  *)
(* writes anything.                                                        *)
THEOREM NothingHalfImported == Spec => []NeverHalf
<1>1. Init => NeverHalf
  BY DEF Init, NeverHalf, Said
<1>2. NeverHalf /\ [Next]_vars => NeverHalf'
  <2> SUFFICES ASSUME NeverHalf, [Next]_vars
               PROVE  NeverHalf'
    OBVIOUS
  <2>1. ASSUME NEW name, NEW fields, CreateTable(name, fields)
        PROVE  NeverHalf'
    BY <2>1 DEF CreateTable, NeverHalf, Said
  <2>2. ASSUME NEW name, NEW values, InsertRow(name, values)
        PROVE  NeverHalf'
    BY <2>2 DEF InsertRow, NeverHalf, Said
  <2>3. ASSUME NEW format, NEW scope, NEW table, Export(format, scope, table)
        PROVE  NeverHalf'
    BY <2>3 DEF Export, NeverHalf, Said
  <2>4. ASSUME NEW words, ExportInChat(words)
        PROVE  NeverHalf'
    BY <2>4 DEF ExportInChat, NeverHalf, Said
  <2>5. ASSUME NEW f, Draft(f)
        PROVE  NeverHalf'
    BY <2>5 DEF Draft, NeverHalf, Said
  <2>6. CASE BringStructure
    BY <2>6 DEF BringStructure, NeverHalf, Said
  <2>61. ASSUME NEW f, BringDraft(f)
         PROVE  NeverHalf'
    BY <2>61 DEF BringDraft, NeverHalf, Said
  <2>7. ASSUME NEW explicit, NEW session, Import(explicit, session)
        PROVE  NeverHalf'
    <3> DEFINE target == ResolveDatabaseName(file, explicit, session)
               db == IF dbs[target] = None THEN Empty ELSE dbs[target]
               plans == {plan \in ReadImport(file) : PrepareImport(plan, db)}
    <3>1. CASE plans = {}
      <4>1. last' = Said("import", target, "refused")
        BY <2>7, <3>1 DEF Import
      <4> QED
        BY <4>1 DEF NeverHalf, Said
    <3>2. CASE plans # {}
      <4>1. PrepareImport(Only(plans), db)
        <5>1. Only(plans) \in plans
          BY <3>2 DEF Only
        <5> QED
          BY <5>1
      <4>2. ~Apply(Only(plans), db).failed
        BY <4>1, PreparedIsWritten
      <4>3. last' = Said("import", target, IF Apply(Only(plans), db).failed THEN "failed" ELSE "done")
        BY <2>7, <3>2 DEF Import
      <4> QED
        BY <4>2, <4>3 DEF NeverHalf, Said
    <3> QED
      BY <3>1, <3>2
  <2>8. CASE UNCHANGED vars
    BY <2>8 DEF vars, NeverHalf
  <2> QED
    BY <2>1, <2>2, <2>3, <2>4, <2>5, <2>6, <2>61, <2>7, <2>8 DEF Next
<1> QED
  BY <1>1, <1>2, PTL DEF Spec

-----------------------------------------------------------------------------
(* What the databases keep between the steps: beside the types, that rows  *)
(* are a list, and that "shop", which the actions fill, is there.          *)

Listed(rows) == rows \in Seq(ToSet(rows))
Fit(values, fields) ==
  /\ \A c \in DOMAIN values : /\ c \in ToSet(Names(fields))
                              /\ values[c] # None => values[c].type = Type(fields, c)
  /\ \A f \in ToSet(fields) : f.required => f.name \in DOMAIN values
AllFit(rows, fields) ==
  \A i \in DOMAIN rows : /\ rows[i].id \in Ids
                         /\ \A j \in DOMAIN rows : rows[i].id = rows[j].id => i = j
                         /\ Fit(rows[i].values, fields)
Typed(table) ==
  /\ table = [fields |-> table.fields, rows |-> table.rows]
  /\ table.fields # None
  /\ Listed(table.rows)
  /\ Fitting(table)
Addable(more, table) ==
  \A k \in DOMAIN more : /\ more[k].id \in Ids \ IdsOf(table.rows)
                         /\ \A l \in DOMAIN more : more[k].id = more[l].id => k = l
                         /\ Fit(more[k].values, table.fields)
Sound(db) == \A name \in DOMAIN db : Typed(db[name])
Adds(before, after) ==
  \A name \in DOMAIN before : /\ name \in DOMAIN after
                              /\ after[name].fields = before[name].fields
                              /\ IsPrefix(before[name].rows, after[name].rows)
Inv ==
  /\ dbs = [db \in Databases |-> dbs[db]]
  /\ \A db \in Databases : db = "shop" \/ dbs[db] # None => Sound(dbs[db])
  /\ files \in 0..MaxFiles /\ taken \subseteq Databases

LEMMA FittingIs ==
  ASSUME NEW table
  PROVE  Fitting(table) <=> AllFit(table.rows, table.fields)
BY DEF Fitting, AllFit, Fit

(* What is chosen from a set that is not empty is in it.                   *)
LEMMA OnlyIn ==
  ASSUME NEW S, S # {}
  PROVE  Only(S) \in S
BY DEF Only

-----------------------------------------------------------------------------
(* Lists of rows.                                                          *)

(* Of a list, the positions are 1 to its length.                           *)
LEMMA ListedIs ==
  ASSUME NEW rows, Listed(rows)
  PROVE  /\ Len(rows) \in Nat
         /\ DOMAIN rows = 1 .. Len(rows)
         /\ IsPrefix(rows, rows)
<1>1. rows \in Seq(ToSet(rows))
  BY DEF Listed
<1>2. Len(rows) \in Nat /\ DOMAIN rows = 1 .. Len(rows)
  BY <1>1, LenProperties
<1>3. Len(rows) <= Len(rows)
  BY <1>2
<1> QED
  BY <1>2, <1>3 DEF IsPrefix

LEMMA NoRowsListed == Listed(<<>>) /\ DOMAIN <<>> = {}
BY EmptySeq DEF Listed

(* What is numbered 1 to n is a list.                                      *)
LEMMA NumberedListed ==
  ASSUME NEW rows, NEW n \in Nat, rows = [k \in 1 .. n |-> rows[k]]
  PROVE  Listed(rows) /\ Len(rows) = n
<1>1. rows \in [1 .. n -> ToSet(rows)]
  <2>1. DOMAIN rows = 1 .. n
    OBVIOUS
  <2>2. \A k \in 1 .. n : rows[k] \in ToSet(rows)
    BY <2>1 DEF ToSet
  <2> QED
    BY <2>2
<1>2. rows \in Seq(ToSet(rows))
  BY <1>1, SeqDef
<1> QED
  BY <1>1, <1>2, LenProperties DEF Listed

(* A list that is extended keeps its rows, and only gains the new ones.    *)
LEMMA ExtendedList ==
  ASSUME NEW rows, NEW more, Listed(rows), Listed(more)
  PROVE  /\ Listed(rows \o more)
         /\ DOMAIN (rows \o more) = 1 .. Len(rows) + Len(more)
         /\ \A i \in DOMAIN rows : (rows \o more)[i] = rows[i]
         /\ \A i \in DOMAIN (rows \o more) :
              i \notin DOMAIN rows => /\ i - Len(rows) \in DOMAIN more
                                      /\ (rows \o more)[i] = more[i - Len(rows)]
         /\ IsPrefix(rows, rows \o more)
<1> PICK S : S = ToSet(rows) \cup ToSet(more)
  OBVIOUS
<1> PICK all : all = rows \o more
  OBVIOUS
<1>1. rows \in Seq(S) /\ more \in Seq(S)
  <2>1. rows \in Seq(ToSet(rows)) /\ more \in Seq(ToSet(more))
    BY DEF Listed
  <2>2. ToSet(rows) \subseteq S /\ ToSet(more) \subseteq S
    OBVIOUS
  <2> QED
    BY <2>1, <2>2, SeqMonotonic
<1>2. /\ all \in Seq(S) /\ Len(all) = Len(rows) + Len(more)
      /\ \A i \in 1 .. Len(rows) + Len(more) :
           all[i] = IF i <= Len(rows) THEN rows[i] ELSE more[i - Len(rows)]
  BY <1>1, ConcatProperties
<1>3. /\ Len(rows) \in Nat /\ DOMAIN rows = 1 .. Len(rows)
      /\ Len(more) \in Nat /\ DOMAIN more = 1 .. Len(more)
  BY ListedIs
<1>4. DOMAIN all = 1 .. Len(rows) + Len(more) /\ all = [k \in 1 .. Len(all) |-> all[k]]
  BY <1>2, LenProperties
<1>5. Listed(all)
  <2>1. Len(all) \in Nat
    BY <1>2, <1>3
  <2> QED
    BY <1>4, <2>1, NumberedListed
<1>6. \A i \in DOMAIN rows : all[i] = rows[i]
  BY <1>2, <1>3
<1>7. \A i \in DOMAIN all : i \notin DOMAIN rows => i - Len(rows) \in DOMAIN more /\ all[i] = more[i - Len(rows)]
  BY <1>2, <1>3, <1>4
<1>8. IsPrefix(rows, all)
  <2>1. SubSeq(all, 1, Len(rows)) = rows
    BY <1>1, SubSeqOfConcat1
  <2>2. SubSeq(rows, 1, Len(rows)) = rows
    BY <1>1, SubSeqFull
  <2>3. Len(rows) <= Len(all)
    BY <1>2, <1>3
  <2> QED
    BY <2>1, <2>2, <2>3 DEF IsPrefix
<1> QED
  BY <1>4, <1>5, <1>6, <1>7, <1>8

(* A table stays one of rows that fit it when rows are added that do, each *)
(* under an id that is neither in the table nor another's.                 *)
LEMMA TableGrows ==
  ASSUME NEW table, NEW more, Typed(table), Listed(more), Addable(more, table)
  PROVE  Typed([fields |-> table.fields, rows |-> table.rows \o more])
<1> PICK rows, fields, all, new :
      /\ rows = table.rows /\ fields = table.fields /\ all = rows \o more
      /\ new = [fields |-> fields, rows |-> all]
  OBVIOUS
<1>1. Listed(rows) /\ Fitting(table)
  BY DEF Typed
<1>2. /\ Listed(all)
      /\ \A i \in DOMAIN rows : all[i] = rows[i]
      /\ \A i \in DOMAIN all :
           i \notin DOMAIN rows => i - Len(rows) \in DOMAIN more /\ all[i] = more[i - Len(rows)]
      /\ DOMAIN rows \subseteq Nat /\ Len(rows) \in Nat /\ DOMAIN all \subseteq Int
  BY <1>1, ExtendedList, ListedIs
<1>3. \A i \in DOMAIN rows : /\ rows[i].id \in Ids /\ rows[i].id \in IdsOf(rows)
                             /\ \A j \in DOMAIN rows : rows[i].id = rows[j].id => i = j
                             /\ Fit(rows[i].values, fields)
  BY <1>1, FittingIs DEF AllFit, IdsOf
<1> USE DEF Addable
<1>4. ASSUME NEW i \in DOMAIN all
      PROVE  /\ all[i].id \in Ids
             /\ \A j \in DOMAIN all : all[i].id = all[j].id => i = j
             /\ Fit(all[i].values, fields)
  <2>1. CASE i \in DOMAIN rows
    <3>1. \A j \in DOMAIN all : all[i].id = all[j].id => i = j
      BY <1>2, <1>3, <2>1
    <3> QED
      BY <1>2, <1>3, <2>1, <3>1
  <2>2. CASE i \notin DOMAIN rows
    <3>1. i - Len(rows) \in DOMAIN more /\ all[i] = more[i - Len(rows)]
      BY <1>2, <2>2
    <3>2. ASSUME NEW j \in DOMAIN all, all[i].id = all[j].id
          PROVE  i = j
      <4>1. CASE j \in DOMAIN rows
        BY <1>2, <1>3, <3>1, <3>2, <4>1
      <4>2. CASE j \notin DOMAIN rows
        <5>1. j - Len(rows) \in DOMAIN more /\ all[j] = more[j - Len(rows)]
          BY <1>2, <4>2
        <5>2. i - Len(rows) = j - Len(rows)
          BY <3>1, <3>2, <5>1
        <5> QED
          BY <1>2, <5>2
      <4> QED
        BY <4>1, <4>2
    <3> QED
      BY <3>1, <3>2
  <2> QED
    BY <2>1, <2>2
<1> HIDE DEF Addable
<1>5. new.rows = all /\ new.fields = fields
  OBVIOUS
<1>6. Fitting(new)
  <2>1. AllFit(all, fields)
    BY <1>4 DEF AllFit
  <2> QED
    BY <1>5, <2>1, FittingIs
<1>7. new = [fields |-> new.fields, rows |-> new.rows] /\ Listed(new.rows)
  BY <1>2, <1>5
<1> QED
  BY <1>6, <1>7 DEF Typed

-----------------------------------------------------------------------------
(* What a column makes of a value is null or has the column's type.        *)
LEMMA CoercedHasType ==
  ASSUME NEW value, NEW datatype, NEW v \in Coerced(value, datatype), v # None
  PROVE  v.type = datatype
<1>1. \A type, text : Value(type, text).type = type
  BY DEF Value
<1>2. CASE value = None \/ value.type = datatype
  BY <1>2 DEF Coerced
<1>3. CASE ~(value = None \/ value.type = datatype)
  <2>1. CASE datatype = "string"
    BY <1>1, <1>3, <2>1 DEF Coerced
  <2>2. CASE datatype = "boolean"
    BY <1>1, <1>3, <2>2 DEF Coerced
  <2>3. CASE datatype # "string" /\ datatype # "boolean"
    BY <1>1, <1>3, <2>3 DEF Coerced, Meant
  <2> QED
    BY <2>1, <2>2, <2>3
<1> QED
  BY <1>2, <1>3

(* A record that was validated fits the columns.                           *)
LEMMA ValidatedFits ==
  ASSUME NEW values, NEW fields, NEW validated \in ValidateRecord(values, fields)
  PROVE  Fit(validated, fields)
<1>1. /\ \A c \in DOMAIN values : /\ c \in ToSet(Names(fields))
                                  /\ Coerced(values[c], Type(fields, c)) # {}
      /\ \A f \in ToSet(fields) : f.required => f.name \in DOMAIN values
      /\ validated = [c \in DOMAIN values |-> Only(Coerced(values[c], Type(fields, c)))]
  BY Zenon DEF ValidateRecord
<1>2. DOMAIN validated = DOMAIN values
  BY <1>1
<1>3. ASSUME NEW c \in DOMAIN validated, validated[c] # None
      PROVE  validated[c].type = Type(fields, c)
  <2>1. validated[c] \in Coerced(values[c], Type(fields, c))
    BY <1>1, <1>2, OnlyIn
  <2> QED
    BY <1>3, <2>1, CoercedHasType
<1> QED
  BY <1>1, <1>2, <1>3 DEF Fit

-----------------------------------------------------------------------------
(* The engine writes rows into a table.                                    *)

(* The table that create_many leaves: its columns, its rows, and after     *)
(* them rows that fit, under ids of their own.                             *)
LEMMA ManyCreated ==
  ASSUME NEW table, NEW rows, Typed(table), RowsWithin(rows, IdsOf(table.rows)),
         NEW filled \in CreateMany(table, rows)
  PROVE  /\ Typed(filled)
         /\ filled.fields = table.fields
         /\ IsPrefix(table.rows, filled.rows)
<1> PICK fields, old, new, more, n :
      /\ fields = table.fields /\ old = table.rows
      /\ new = Only(NewIds(rows, IdsOf(old)))
      /\ n \in 0 .. MaxRows /\ DOMAIN rows = 1 .. n
      /\ more = [k \in DOMAIN rows |->
                   [id     |-> IF rows[k].id # None THEN rows[k].id ELSE new[k],
                    values |-> Only(ValidateRecord(rows[k].values, fields))]]
  BY DEF RowsWithin
<1>1. /\ \A k \in DOMAIN rows : ValidateRecord(rows[k].values, fields) # {}
      /\ ~Repeats(rows)
      /\ IdsOf(rows) \cap IdsOf(old) = {}
      /\ filled = [fields |-> fields, rows |-> old \o more]
  BY DEF CreateMany
<1>2. /\ new \in [DOMAIN rows -> Ids \ (IdsOf(old) \cup IdsOf(rows))]
      /\ \A k, l \in DOMAIN rows : new[k] = new[l] => k = l
  <2>1. new \in NewIds(rows, IdsOf(old))
    BY OnlyIn DEF RowsWithin
  <2>2. new \in [DOMAIN rows -> Ids \ (IdsOf(old) \cup IdsOf(rows))] /\ IsInjective(new)
    BY <2>1 DEF NewIds
  <2> QED
    BY <2>2 DEF IsInjective
<1>3. Listed(more)
  <2>1. n \in Nat /\ more = [k \in 1 .. n |-> more[k]]
    BY PortabilityAssumption
  <2> QED
    BY <2>1, NumberedListed
<1>4. \A k \in DOMAIN more : /\ more[k].id = IF rows[k].id # None THEN rows[k].id ELSE new[k]
                             /\ more[k].values = Only(ValidateRecord(rows[k].values, fields))
  OBVIOUS
<1>5. DOMAIN more = DOMAIN rows
  OBVIOUS
<1>6. ASSUME NEW k \in DOMAIN more
      PROVE  more[k].id \in Ids \ IdsOf(old)
  <2>1. rows[k].id \in IdsOf(rows)
    BY <1>5 DEF IdsOf
  <2>2. rows[k].id # None => rows[k].id \in Ids
    BY <2>1 DEF RowsWithin
  <2>3. new[k] \in Ids \ IdsOf(old)
    BY <1>2, <1>5
  <2> QED
    BY <1>1, <1>4, <2>1, <2>2, <2>3
<1>7. ASSUME NEW k \in DOMAIN more, NEW l \in DOMAIN more, more[k].id = more[l].id
      PROVE  k = l
  <2>1. rows[k].id \in IdsOf(rows) /\ rows[l].id \in IdsOf(rows)
    BY <1>5 DEF IdsOf
  <2>2. new[k] \notin IdsOf(rows) /\ new[l] \notin IdsOf(rows)
    BY <1>2, <1>5
  <2>3. CASE rows[k].id # None /\ rows[l].id # None
    <3>1. rows[k].id = rows[l].id
      BY <1>4, <1>7, <2>3
    <3>2. k \in Int /\ l \in Int /\ ~(k < l) /\ ~(l < k)
      BY <1>1, <1>5, <2>3, <3>1 DEF Repeats
    <3> QED
      BY <3>2
  <2>4. CASE rows[k].id = None /\ rows[l].id = None
    BY <1>2, <1>4, <1>5, <1>7, <2>4
  <2>5. CASE (rows[k].id = None) # (rows[l].id = None)
    BY <1>4, <1>7, <2>1, <2>2, <2>5
  <2> QED
    BY <2>3, <2>4, <2>5
<1>8. ASSUME NEW k \in DOMAIN more
      PROVE  Fit(more[k].values, fields)
  <2>1. more[k].values \in ValidateRecord(rows[k].values, fields)
    BY <1>1, <1>4, <1>5, OnlyIn
  <2> QED
    BY <2>1, ValidatedFits
<1>9. Typed(filled)
  <2>1. Addable(more, table)
    BY <1>6, <1>7, <1>8 DEF Addable
  <2>2. Typed([fields |-> table.fields, rows |-> table.rows \o more])
    BY <1>3, <2>1, TableGrows
  <2> QED
    BY <1>1, <2>2
<1>10. IsPrefix(old, old \o more)
  <2>1. Listed(old)
    BY DEF Typed
  <2> QED
    BY <1>3, <2>1, ExtendedList
<1> QED
  BY <1>1, <1>9, <1>10

-----------------------------------------------------------------------------
(* What an import that passed the checks leaves.                           *)

(* What create_many makes of the table of a spec.                          *)
Filled(plan, db, i) ==
  CreateMany(Made(plan, db)[plan[i].name],
             Clean(plan[i].rows, Made(plan, db)[plan[i].name].fields))

(* A table of the result is one that was there, or made, or filled.        *)
LEMMA ApplyGives ==
  ASSUME NEW plan, NEW db
  PROVE  /\ DOMAIN Apply(plan, db).db = DOMAIN db \cup Created(plan, db)
         /\ \A name \in DOMAIN db \cup Created(plan, db) :
              \/ Apply(plan, db).db[name] = Made(plan, db)[name]
              \/ \E i \in DOMAIN plan : /\ plan[i].name = name /\ plan[i].rows # <<>>
                                        /\ Apply(plan, db).db[name] \in Filled(plan, db, i)
<1> DEFINE brings == {i \in DOMAIN plan : plan[i].rows # <<>>}
           fails == {i \in brings : Filled(plan, db, i) = {}}
           written == {i \in brings : \A j \in fails : i < j}
           Rows(name) == UNION {Filled(plan, db, i) : i \in {j \in written : plan[j].name = name}}
           result == [name \in DOMAIN db \cup Created(plan, db) |->
                        IF Rows(name) = {} THEN Made(plan, db)[name] ELSE Only(Rows(name))]
<1>1. Apply(plan, db).db = result
  BY DEF Apply, Made, Created, Clean, Filled
<1>2. ASSUME NEW name \in DOMAIN db \cup Created(plan, db), Rows(name) # {}
      PROVE  \E i \in DOMAIN plan : /\ plan[i].name = name /\ plan[i].rows # <<>>
                                    /\ result[name] \in Filled(plan, db, i)
  <2>1. result[name] \in Rows(name)
    BY <1>2, OnlyIn
  <2> QED
    BY <2>1
<1> QED
  BY <1>1, <1>2

(* The same table, whether a row is cleaned or not: as many, as named.     *)
LEMMA CleanWithin ==
  ASSUME NEW rows, NEW fields, NEW used, RowsWithin(rows, used)
  PROVE  RowsWithin(Clean(rows, fields), used)
<1>1. DOMAIN Clean(rows, fields) = DOMAIN rows /\ IdsOf(Clean(rows, fields)) = IdsOf(rows)
  BY CleanRows
<1> QED
  BY <1>1 DEF RowsWithin, NewIds

(* The columns of a table that a plan makes are those the plan says.       *)
LEMMA ScratchColumns ==
  ASSUME NEW plan, NEW i \in DOMAIN plan, plan[i].columns # None
  PROVE  \E j \in DOMAIN plan : /\ plan[j].name = plan[i].name /\ plan[j].columns # None
                                /\ Scratch(plan)[plan[i].name] = plan[j].columns
<1> PICK name : name = plan[i].name
  OBVIOUS
<1> DEFINE said == {plan[j].columns : j \in {k \in DOMAIN plan : plan[k].name = name /\ plan[k].columns # None}}
<1>1. said # {}
  OBVIOUS
<1>2. Scratch(plan)[name] = Only(said)
  BY DEF Scratch
<1>3. Only(said) \in said
  BY <1>1, OnlyIn
<1> QED
  BY <1>2, <1>3

(* A table the plan makes, and one that was there, fits before it is       *)
(* filled.                                                                 *)
LEMMA MadeTyped ==
  ASSUME NEW plan, NEW db, Sound(db), NEW name \in DOMAIN db \cup Created(plan, db)
  PROVE  /\ Typed(Made(plan, db)[name])
         /\ name \in Created(plan, db) => IdsOf(Made(plan, db)[name].rows) = {}
         /\ name \notin Created(plan, db) => Made(plan, db)[name] = db[name]
<1>1. CASE name \in Created(plan, db)
  <2> PICK table : table = [fields |-> Scratch(plan)[name], rows |-> <<>>]
    OBVIOUS
  <2>1. Made(plan, db)[name] = table
    BY <1>1 DEF Made
  <2>2. table.rows = <<>> /\ table = [fields |-> table.fields, rows |-> table.rows]
    OBVIOUS
  <2>3. Fitting(table)
    BY <2>2, NoRowsListed, FittingIs DEF AllFit
  <2>4. IdsOf(table.rows) = {}
    BY <2>2, NoRowsListed DEF IdsOf
  <2>5. table.fields # None
    <3>1. \E i \in DOMAIN plan : plan[i].name = name /\ plan[i].columns # None
      BY <1>1 DEF Created
    <3> QED
      BY <2>2, <3>1, ScratchColumns
  <2> QED
    BY <1>1, <2>1, <2>2, <2>3, <2>4, <2>5, NoRowsListed DEF Typed
<1>2. CASE name \notin Created(plan, db)
  <2>1. Made(plan, db)[name] = db[name] /\ name \in DOMAIN db
    BY <1>2 DEF Made
  <2> QED
    BY <1>2, <2>1 DEF Sound
<1> QED
  BY <1>1, <1>2

(* Every table of the result fits.                                         *)
LEMMA AppliedSound ==
  ASSUME NEW plan, NEW db, Sound(db), PrepareImport(plan, db), Within(plan, db)
  PROVE  Sound(Apply(plan, db).db) /\ Adds(db, Apply(plan, db).db)
<1> PICK result : result = Apply(plan, db).db
  OBVIOUS
<1>1. DOMAIN result = DOMAIN db \cup Created(plan, db)
  BY ApplyGives
<1>2. \A name \in DOMAIN db : name \notin Created(plan, db)
  BY DEF PrepareImport, Conflicts, Created
<1>3. ASSUME NEW name \in DOMAIN result
      PROVE  /\ Typed(result[name])
             /\ result[name].fields = Made(plan, db)[name].fields
             /\ IsPrefix(Made(plan, db)[name].rows, result[name].rows)
  <2> PICK table : table = Made(plan, db)[name]
    OBVIOUS
  <2>1. Typed(table) /\ (name \in Created(plan, db) => IdsOf(table.rows) = {})
        /\ (name \notin Created(plan, db) => table = db[name])
    BY <1>1, <1>3, MadeTyped
  <2>2. CASE result[name] = table
    <3>1. IsPrefix(table.rows, table.rows)
      BY <2>1, ListedIs DEF Typed
    <3> QED
      BY <2>1, <2>2, <3>1
  <2>3. ASSUME NEW i \in DOMAIN plan, plan[i].name = name, result[name] \in Filled(plan, db, i)
        PROVE  /\ Typed(result[name])
               /\ result[name].fields = table.fields
               /\ IsPrefix(table.rows, result[name].rows)
    <3> PICK rows, clean : rows = plan[i].rows /\ clean = Clean(rows, table.fields)
      OBVIOUS
    <3>1. RowsWithin(rows, IdsOf(table.rows))
      BY <1>1, <1>2, <1>3, <2>1, <2>3 DEF Within
    <3>2. RowsWithin(clean, IdsOf(table.rows))
      BY <3>1, CleanWithin
    <3>3. result[name] \in CreateMany(table, clean)
      BY <2>3 DEF Filled
    <3> QED
      BY <2>1, <3>2, <3>3, ManyCreated
  <2>4. result[name] = table \/ \E i \in DOMAIN plan : plan[i].name = name /\ result[name] \in Filled(plan, db, i)
    BY <1>1, <1>3, ApplyGives
  <2> QED
    BY <2>2, <2>3, <2>4
<1>4. ASSUME NEW name \in DOMAIN db
      PROVE  Made(plan, db)[name] = db[name] /\ name \in DOMAIN result
  BY <1>1, <1>2 DEF Made
<1> QED
  BY <1>3, <1>4 DEF Sound, Adds

(* The structure alone makes tables without rows.                          *)
LEMMA NothingMapped ==
  ASSUME NEW op(_)
  PROVE  Map(op, <<>>) = <<>>
<1> PICK s : s = Map(op, <<>>)
  OBVIOUS
<1>1. DOMAIN <<>> = 1 .. 0
  OBVIOUS
<1>2. s = [k \in 1 .. 0 |-> s[k]]
  BY <1>1 DEF Map
<1>3. Listed(s) /\ Len(s) = 0
  BY <1>2, NumberedListed
<1>4. s \in Seq(ToSet(s))
  BY <1>3 DEF Listed
<1> QED
  BY <1>3, <1>4, EmptySeq

LEMMA StructureHasNoRows ==
  ASSUME NEW tables, NEW plan \in ReadNative(Native(tables, "schema")), NEW i \in DOMAIN plan
  PROVE  plan[i].rows = <<>>
<1> PICK body : body = Native(tables, "schema")
  OBVIOUS
<1>1. ASSUME NEW j \in DOMAIN body
      PROVE  body[j].rows = <<>>
  BY DEF Native, Map
<1>2. /\ DOMAIN plan = DOMAIN body
      /\ \A j \in DOMAIN body :
           plan[j].rows = Map(LAMBDA row : [id |-> row.id, values |-> Map(SqlLiteral, row.values)], body[j].rows)
  BY DEF ReadNative, Map, TableSpec
<1>3. plan[i].rows = Map(LAMBDA row : [id |-> row.id, values |-> Map(SqlLiteral, row.values)], <<>>)
  BY <1>1, <1>2
<1> QED
  BY <1>3, NothingMapped

LEMMA StructureSound ==
  ASSUME NEW plan, \A i \in DOMAIN plan : plan[i].rows = <<>>
  PROVE  Sound(Apply(plan, Empty).db)
<1>1. Sound(Empty) /\ DOMAIN Empty = {}
  BY DEF Sound, Empty
<1>2. ASSUME NEW name \in Created(plan, Empty)
      PROVE  Typed(Apply(plan, Empty).db[name])
  <2>1. Typed(Made(plan, Empty)[name])
    BY <1>1, MadeTyped
  <2>2. Apply(plan, Empty).db[name] = Made(plan, Empty)[name]
    BY ApplyGives
  <2> QED
    BY <2>1, <2>2
<1>3. DOMAIN Apply(plan, Empty).db = Created(plan, Empty)
  <2>1. DOMAIN Apply(plan, Empty).db = DOMAIN Empty \cup Created(plan, Empty)
    BY ApplyGives
  <2> QED
    BY <1>1, <2>1
<1> QED
  BY <1>2, <1>3 DEF Sound

-----------------------------------------------------------------------------
(* The tables stay sound: one step after another.                          *)

LEMMA InvInit ==
  ASSUME Init
  PROVE  Inv
<1>1. Sound(Empty)
  BY DEF Sound, Empty
<1>2. 0 \in 0 .. MaxFiles
  BY PortabilityAssumption
<1> QED
  BY <1>1, <1>2 DEF Init, Inv, Databases

(* A table is added to a database, and a table given other rows.           *)
WithTable(db, name, fields) ==
  [n \in DOMAIN db \cup {name} |-> IF n = name THEN [fields |-> fields, rows |-> <<>>] ELSE db[n]]
WithRows(table, more) == [table EXCEPT !.rows = more]

LEMMA TypedFields ==
  ASSUME NEW db, NEW name, NEW fields, Sound(db), fields # None
  PROVE  Sound(WithTable(db, name, fields))
<1> PICK table, new : /\ table = [fields |-> fields, rows |-> <<>>]
                      /\ new = WithTable(db, name, fields)
  OBVIOUS
<1>1. Typed(table)
  <2>1. table.rows = <<>> /\ table = [fields |-> table.fields, rows |-> table.rows]
    OBVIOUS
  <2> QED
    BY <2>1, NoRowsListed, FittingIs DEF AllFit, Typed
<1>2. DOMAIN new = DOMAIN db \cup {name} /\ \A n \in DOMAIN new : new[n] = IF n = name THEN table ELSE db[n]
  BY DEF WithTable
<1> QED
  BY <1>1, <1>2 DEF Sound

LEMMA RowsPut ==
  ASSUME NEW table, NEW fields, NEW rows, NEW more, table = [fields |-> fields, rows |-> rows]
  PROVE  WithRows(table, more) = [fields |-> fields, rows |-> more]
BY DEF WithRows

LEMMA TypedRow ==
  ASSUME NEW table, NEW values, NEW validated \in ValidateRecord(values, table.fields),
         Typed(table), Ids \ IdsOf(table.rows) # {}
  PROVE  Typed([table EXCEPT !.rows = Append(@, [id |-> Fresh(IdsOf(@)), values |-> validated])])
<1> PICK rows, fields, row :
      /\ rows = table.rows /\ fields = table.fields
      /\ row = [id |-> Fresh(IdsOf(rows)), values |-> validated]
  OBVIOUS
<1>1. Listed(rows) /\ table = [fields |-> fields, rows |-> rows]
  BY DEF Typed
<1>2. <<row>> = [k \in 1 .. 1 |-> <<row>>[k]] /\ DOMAIN <<row>> = {1} /\ <<row>>[1] = row
  OBVIOUS
<1>3. Listed(<<row>>)
  BY <1>2, NumberedListed
<1>4. row.id \in Ids \ IdsOf(rows) /\ Fit(row.values, fields)
  <2>1. Fresh(IdsOf(rows)) \in Ids \ IdsOf(rows)
    BY OnlyIn DEF Fresh
  <2> QED
    BY <2>1, ValidatedFits
<1>5. Addable(<<row>>, table)
  BY <1>2, <1>4 DEF Addable
<1>6. Typed([fields |-> fields, rows |-> rows \o <<row>>])
  BY <1>3, <1>5, TableGrows
<1>7. Append(rows, row) = rows \o <<row>>
  <2>1. rows \in Seq(ToSet(rows) \cup {row}) /\ row \in ToSet(rows) \cup {row}
    <3>1. rows \in Seq(ToSet(rows)) /\ ToSet(rows) \subseteq ToSet(rows) \cup {row}
      BY <1>1 DEF Listed
    <3> QED
      BY <3>1, SeqMonotonic
  <2> QED
    BY <2>1, AppendIsConcat
<1>8. [table EXCEPT !.rows = Append(@, [id |-> Fresh(IdsOf(@)), values |-> validated])]
        = [fields |-> fields, rows |-> Append(rows, row)]
  <2> PICK more : more = Append(rows, row)
    OBVIOUS
  <2>1. WithRows(table, more) = [fields |-> fields, rows |-> more]
    <3>1. table = [fields |-> fields, rows |-> rows]
      BY <1>1
    <3> QED
      BY ONLY <3>1, RowsPut
  <2>2. Append(table.rows, [id |-> Fresh(IdsOf(table.rows)), values |-> validated]) = more
    OBVIOUS
  <2> QED
    BY <2>1, <2>2 DEF WithRows
<1> QED
  BY <1>6, <1>7, <1>8

(* An import, whatever the file says: of the databases only the one it is  *)
(* for changes, and of that the tables and rows there were are there.      *)
LEMMA ImportSound ==
  ASSUME NEW explicit, NEW session, Inv, Import(explicit, session)
  PROVE  /\ Inv'
         /\ \A db \in Databases : dbs[db] # None => Adds(dbs[db], dbs'[db])
<1> DEFINE target == ResolveDatabaseName(file, explicit, session)
           before == IF dbs[target] = None THEN Empty ELSE dbs[target]
           plans == {plan \in ReadImport(file) : PrepareImport(plan, before)}
<1>1. target \in Databases
  BY DEF Import
<1>2. \A db \in Databases : dbs[db] # None => Sound(dbs[db]) /\ Adds(dbs[db], dbs[db])
  BY ListedIs DEF Inv, Sound, Typed, Adds
<1>3. CASE plans = {}
  <2>1. UNCHANGED <<dbs, taken, files>>
    BY <1>3 DEF Import
  <2> QED
    BY <1>2, <2>1 DEF Inv
<1>4. CASE plans # {}
  <2> PICK plan, db, result : plan = Only(plans) /\ db = before /\ result = Apply(plan, db).db
    OBVIOUS
  <2>1. PrepareImport(plan, db)
    <3>1. plan \in plans
      BY <1>4, OnlyIn
    <3> QED
      BY <3>1
  <2>2. /\ Within(plan, db)
        /\ dbs' = [dbs EXCEPT ![target] = result]
        /\ taken' = taken \cup {target}
        /\ UNCHANGED files
    BY <1>4 DEF Import
  <2>3. Sound(db)
    <3>1. Sound(Empty)
      BY DEF Sound, Empty
    <3> QED
      BY <1>1, <1>2, <3>1
  <2>4. Sound(result) /\ Adds(db, result)
    BY <2>1, <2>2, <2>3, AppliedSound
  <2>5. \A other \in Databases : dbs'[other] = IF other = target THEN result ELSE dbs[other]
    BY <2>2 DEF Inv
  <2>6. Inv'
    BY <1>1, <2>2, <2>4, <2>5 DEF Inv
  <2>7. ASSUME NEW other \in Databases, dbs[other] # None
        PROVE  Adds(dbs[other], dbs'[other])
    BY <1>2, <2>4, <2>5, <2>7
  <2> QED
    BY <2>6, <2>7
<1> QED
  BY <1>3, <1>4

LEMMA InvNext ==
  ASSUME Inv, [Next]_vars
  PROVE  Inv'
<1>1. ASSUME NEW name \in TableNames, NEW fields \in Layouts[name], CreateTable(name, fields)
      PROVE  Inv'
  <2> PICK shop : shop = WithTable(dbs["shop"], name, fields)
    OBVIOUS
  <2>1. dbs' = [dbs EXCEPT !["shop"] = shop] /\ UNCHANGED <<files, taken>>
    BY <1>1 DEF CreateTable, WithTable
  <2>2. Sound(shop)
    BY TypedFields, NamesAssumption DEF Inv, Databases
  <2> QED
    BY <2>1, <2>2 DEF Inv, Databases
<1>2. ASSUME NEW name \in DOMAIN dbs["shop"], NEW values, InsertRow(name, values)
      PROVE  Inv'
  <2> PICK table, shop : table = dbs["shop"][name] /\ shop = dbs["shop"]
    OBVIOUS
  <2>1. Sound(shop)
    BY DEF Inv, Databases
  <2>2. PICK validated \in ValidateRecord(values, table.fields) :
          dbs' = [dbs EXCEPT !["shop"][name].rows =
                    Append(@, [id |-> Fresh(IdsOf(@)), values |-> validated])]
    BY <1>2 DEF InsertRow
  <2> PICK new : new = [table EXCEPT !.rows = Append(@, [id |-> Fresh(IdsOf(@)), values |-> validated])]
    OBVIOUS
  <2>3. dbs' = [dbs EXCEPT !["shop"] = [shop EXCEPT ![name] = new]] /\ UNCHANGED <<files, taken>>
    BY <1>2, <2>2 DEF InsertRow
  <2>4. Typed(new)
    <3>1. Typed(table) /\ Ids \ IdsOf(table.rows) # {}
      BY <1>2, <2>1 DEF Sound, InsertRow
    <3> QED
      BY <3>1, TypedRow
  <2>5. Sound([shop EXCEPT ![name] = new])
    BY <1>2, <2>1, <2>4 DEF Sound
  <2> QED
    BY <2>3, <2>5 DEF Inv, Databases
<1>3. ASSUME NEW format, NEW scope, NEW table, Exported(format, scope, table)
      PROVE  Inv'
  <2>1. files < MaxFiles /\ files' = files + 1 /\ taken' = {} /\ UNCHANGED dbs
    BY <1>3 DEF Exported, Have
  <2>2. files' \in 0 .. MaxFiles
    BY <2>1, PortabilityAssumption DEF Inv
  <2> QED
    BY <2>1, <2>2 DEF Inv
<1>4. ASSUME NEW f, Draft(f)
      PROVE  Inv'
  <2>1. files < MaxFiles /\ files' = files + 1 /\ taken' = {} /\ UNCHANGED dbs
    BY <1>4 DEF Draft, Have
  <2>2. files' \in 0 .. MaxFiles
    BY <2>1, PortabilityAssumption DEF Inv
  <2> QED
    BY <2>1, <2>2 DEF Inv
<1>5. CASE BringStructure
  <2>1. PICK plan \in ReadNative(Native(Tables(dbs["shop"], None), "schema")) :
          dbs' = [dbs EXCEPT !["copy"] = Apply(plan, Empty).db]
    BY <1>5 DEF BringStructure
  <2>2. Sound(Apply(plan, Empty).db)
    BY StructureHasNoRows, StructureSound
  <2>3. UNCHANGED <<files, taken>>
    BY <1>5 DEF BringStructure
  <2> QED
    BY <2>1, <2>2, <2>3 DEF Inv, Databases
<1>51. ASSUME NEW f, BringDraft(f)
       PROVE  Inv'
  <2>1. PICK shop, plan : /\ shop = dbs["shop"] /\ PrepareImport(plan, shop) /\ Within(plan, shop)
                          /\ dbs' = [dbs EXCEPT !["shop"] = Apply(plan, shop).db]
    BY <1>51 DEF BringDraft
  <2>2. Sound(shop)
    BY <2>1 DEF Inv, Databases
  <2>3. Sound(Apply(plan, shop).db)
    BY <2>1, <2>2, AppliedSound
  <2>4. UNCHANGED <<files, taken>>
    BY <1>51 DEF BringDraft
  <2> QED
    BY <2>1, <2>3, <2>4 DEF Inv, Databases
<1>6. ASSUME NEW explicit, NEW session, Import(explicit, session)
      PROVE  Inv'
  BY <1>6, ImportSound
<1>7. CASE UNCHANGED vars
  BY <1>7 DEF vars, Inv
<1>8. CASE Next
  <2>1. ASSUME NEW words, ExportInChat(words)
        PROVE  Inv'
    BY <1>3, <2>1 DEF ExportInChat
  <2>2. ASSUME NEW format, NEW scope, NEW table, Export(format, scope, table)
        PROVE  Inv'
    BY <1>3, <2>2 DEF Export
  <2> QED
    BY <1>1, <1>2, <1>4, <1>5, <1>51, <1>6, <1>8, <2>1, <2>2 DEF Next
<1> QED
  BY <1>7, <1>8

(* Whatever is entered, exported and imported: every row of every database *)
(* fits the columns of its table, under an id no other row of it has.      *)
THEOREM RowsFit == Spec => []TypeOK
<1>1. Inv => TypeOK
  BY DEF Inv, TypeOK, Sound, Typed
<1> QED
  BY <1>1, InvInit, InvNext, PTL DEF Spec

(* The reply to anything but an import does not say that it is one.        *)
LEMMA OthersAsk ==
  ASSUME Next, ~\E explicit, session : Import(explicit, session)
  PROVE  last'.what # "import"
<1>1. ASSUME NEW name, NEW fields, CreateTable(name, fields)
      PROVE  last'.what # "import"
  BY <1>1 DEF CreateTable, Said
<1>2. ASSUME NEW name, NEW values, InsertRow(name, values)
      PROVE  last'.what # "import"
  BY <1>2 DEF InsertRow, Said
<1>3. ASSUME NEW format, NEW scope, NEW table, Export(format, scope, table)
      PROVE  last'.what # "import"
  BY <1>3 DEF Export, Said
<1>4. ASSUME NEW words, ExportInChat(words)
      PROVE  last'.what # "import"
  BY <1>4 DEF ExportInChat, Said
<1>5. ASSUME NEW f, Draft(f)
      PROVE  last'.what # "import"
  BY <1>5 DEF Draft, Said
<1>6. ASSUME BringStructure
      PROVE  last'.what # "import"
  BY <1>6 DEF BringStructure, Said
<1>7. ASSUME NEW f, BringDraft(f)
      PROVE  last'.what # "import"
  BY <1>7 DEF BringDraft, Said
<1> QED
  BY <1>1, <1>2, <1>3, <1>4, <1>5, <1>6, <1>7 DEF Next

(* No import takes anything away: what was in a database before it is      *)
(* there after it, table by table, column by column and row by row.        *)
THEOREM NothingLostByImport == Spec => ImportsOnlyAdd
<1>1. ASSUME Inv, [Next]_vars
      PROVE  [Asked("import") => \A db \in Databases : dbs[db] # None => Adds(dbs[db], dbs'[db])]_vars
  <2>1. CASE UNCHANGED vars
    BY <2>1
  <2>2. CASE \E explicit, session : Import(explicit, session)
    BY <1>1, <2>2, ImportSound
  <2>3. CASE Next /\ ~\E explicit, session : Import(explicit, session)
    BY <2>3, OthersAsk DEF Asked
  <2> QED
    BY <1>1, <2>1, <2>2, <2>3
<1> QED
  BY <1>1, InvInit, InvNext, PTL DEF Spec, ImportsOnlyAdd, Adds

-----------------------------------------------------------------------------
(* A backup, from a database to the file and back.                         *)

(* What was exported: tables, each named once, with rows that fit.         *)
Recorded(tables) ==
  /\ Listed(tables)
  /\ \A i \in DOMAIN tables : /\ \A j \in DOMAIN tables : tables[i].name = tables[j].name => i = j
                              /\ Typed([fields |-> tables[i].fields, rows |-> tables[i].rows])

(* The backup there is says what was exported, however long ago.           *)
Kept ==
  /\ DOMAIN dbs["shop"] \subseteq TableNames
  /\ source # None /\ file.kind = "native" => /\ Recorded(source.tables)
                                              /\ file.body = Native(source.tables, source.scope)

(* A finite set is listed without a repetition.                            *)
LEMMA NamesListed ==
  ASSUME NEW S, IsFiniteSet(S)
  PROVE  /\ Listed(SetToSeq(S))
         /\ \A i, j \in DOMAIN SetToSeq(S) : SetToSeq(S)[i] = SetToSeq(S)[j] => i = j
         /\ \A i \in DOMAIN SetToSeq(S) : SetToSeq(S)[i] \in S
<1> PICK n, f : n = Cardinality(S) /\ f = SetToSeq(S)
  OBVIOUS
<1>1. n \in Nat /\ Bijection(1 .. n, S) # {}
  BY FS_CardinalityType DEF ExistsBijection
<1>2. \E g \in [1 .. n -> S] : IsInjective(g)
  BY <1>1 DEF Bijection, Injection
<1>3. f \in [1 .. n -> S] /\ IsInjective(f)
  BY <1>2 DEF SetToSeq
<1>4. Listed(f)
  <2>1. f = [k \in 1 .. n |-> f[k]]
    BY <1>3
  <2> QED
    BY <1>1, <2>1, NumberedListed
<1> QED
  BY <1>3, <1>4 DEF IsInjective

LEMMA TablesRecorded ==
  ASSUME NEW db, NEW only, Sound(db), IsFiniteSet(DOMAIN db)
  PROVE  /\ Recorded(Tables(db, only))
         /\ \A i \in DOMAIN Tables(db, only) : Tables(db, only)[i].name \in DOMAIN db
<1> PICK S, names, tables : /\ S = {name \in DOMAIN db : only \in {None, name}}
                            /\ names = SetToSeq(S)
                            /\ tables = Tables(db, only)
  OBVIOUS
<1>1. S \subseteq DOMAIN db /\ IsFiniteSet(S)
  BY FS_Subset
<1>2. /\ Listed(names)
      /\ \A i, j \in DOMAIN names : names[i] = names[j] => i = j
      /\ \A i \in DOMAIN names : names[i] \in DOMAIN db
  BY <1>1, NamesListed
<1>3. /\ DOMAIN tables = DOMAIN names /\ tables = [k \in DOMAIN names |-> tables[k]]
      /\ \A i \in DOMAIN names :
           tables[i] = [name |-> names[i], fields |-> db[names[i]].fields, rows |-> db[names[i]].rows]
  BY DEF Tables, Map
<1>4. Listed(tables)
  BY <1>2, <1>3, ListedIs, NumberedListed
<1>5. ASSUME NEW i \in DOMAIN tables
      PROVE  /\ tables[i].name = names[i]
             /\ tables[i].fields = db[names[i]].fields
             /\ tables[i].rows = db[names[i]].rows
  <2> PICK name, fields, rows : name = names[i] /\ fields = db[name].fields /\ rows = db[name].rows
    OBVIOUS
  <2>1. tables[i] = [name |-> name, fields |-> fields, rows |-> rows]
    BY <1>3
  <2> QED
    BY <2>1
<1>6. ASSUME NEW i \in DOMAIN tables
      PROVE  Typed([fields |-> tables[i].fields, rows |-> tables[i].rows])
  <2> PICK table : table = db[names[i]]
    OBVIOUS
  <2>1. Typed(table)
    BY <1>2, <1>3 DEF Sound
  <2>2. [fields |-> tables[i].fields, rows |-> tables[i].rows] = table
    BY <1>5, <2>1 DEF Typed
  <2> QED
    BY <2>1, <2>2
<1>7. \A i, j \in DOMAIN tables : tables[i].name = tables[j].name => i = j
  BY <1>2, <1>3, <1>5
<1>8. Recorded(tables)
  BY <1>4, <1>6, <1>7 DEF Recorded
<1>9. \A i \in DOMAIN tables : tables[i].name \in DOMAIN db
  BY <1>2, <1>3, <1>5
<1> QED
  BY <1>8, <1>9

LEMMA ExportKept ==
  ASSUME NEW format, NEW scope, NEW table, Inv, Kept, Exported(format, scope, table)
  PROVE  Kept'
<1>1. Sound(dbs["shop"]) /\ IsFiniteSet(DOMAIN dbs["shop"])
  BY NamesAssumption, FS_Subset DEF Inv, Databases, Kept
<1> PICK tables : tables = Tables(dbs["shop"], table)
  OBVIOUS
<1>2. PICK options : /\ file' = ExportDatabase("shop", options, table)
                     /\ source' = [scope |-> options.scope, tables |-> tables]
  BY DEF Exported, Have
<1>3. UNCHANGED dbs
  BY DEF Exported
<1>4. ASSUME file'.kind = "native"
      PROVE  file'.body = Native(tables, options.scope)
  <2> PICK f : f = options.format
    OBVIOUS
  <2>1. CASE f = "dnadb"
    BY <1>2, <2>1 DEF ExportDatabase, File
  <2>2. CASE f # "dnadb"
    BY <1>2, <1>4, <2>2 DEF ExportDatabase, File
  <2> QED
    BY <2>1, <2>2
<1>5. Recorded(tables)
  BY <1>1, TablesRecorded
<1>6. source'.tables = tables /\ source'.scope = options.scope
  BY <1>2
<1> QED
  BY <1>3, <1>4, <1>5, <1>6 DEF Kept

LEMMA KeptNext ==
  ASSUME Inv, Kept, [Next]_vars
  PROVE  Kept'
<1>1. ASSUME NEW name \in TableNames, NEW fields, CreateTable(name, fields)
      PROVE  Kept'
  <2>1. dbs'["shop"] = WithTable(dbs["shop"], name, fields) /\ UNCHANGED <<file, source>>
    BY <1>1 DEF CreateTable, WithTable, Inv, Databases
  <2>2. DOMAIN dbs'["shop"] = DOMAIN dbs["shop"] \cup {name}
    BY <2>1 DEF WithTable
  <2> QED
    BY <1>1, <2>1, <2>2 DEF Kept
<1>2. ASSUME NEW name \in DOMAIN dbs["shop"], NEW values, InsertRow(name, values)
      PROVE  Kept'
  <2>1. PICK row : dbs' = [dbs EXCEPT !["shop"][name].rows = Append(@, row)]
    BY <1>2 DEF InsertRow
  <2>2. DOMAIN dbs'["shop"] = DOMAIN dbs["shop"] /\ UNCHANGED <<file, source>>
    BY <1>2, <2>1 DEF InsertRow, Inv, Databases
  <2> QED
    BY <2>2 DEF Kept
<1>3. ASSUME NEW f, Draft(f)
      PROVE  Kept'
  BY <1>3 DEF Draft, Have, Kept
<1>4. CASE BringStructure
  <2>1. dbs'["shop"] = dbs["shop"] /\ UNCHANGED <<file, source>>
    BY <1>4 DEF BringStructure, Inv, Databases
  <2> QED
    BY <2>1 DEF Kept
<1>41. ASSUME NEW f, BringDraft(f)
       PROVE  Kept'
  <2>1. PICK shop, plan, result : /\ shop = dbs["shop"] /\ Within(plan, shop) /\ result = Apply(plan, shop).db
                                  /\ dbs' = [dbs EXCEPT !["shop"] = result]
    BY <1>41 DEF BringDraft
  <2>2. DOMAIN result = DOMAIN shop \cup Created(plan, shop)
    BY <2>1, ApplyGives
  <2>3. Created(plan, shop) \subseteq TableNames
    BY <2>1 DEF Within, Created
  <2>4. dbs'["shop"] = result /\ UNCHANGED <<file, source>>
    BY <1>41, <2>1 DEF BringDraft, Inv, Databases
  <2> QED
    BY <2>1, <2>2, <2>3, <2>4 DEF Kept
<1>5. ASSUME NEW explicit, NEW session, Import(explicit, session)
      PROVE  Kept'
  <2> DEFINE target == ResolveDatabaseName(file, explicit, session)
             before == IF dbs[target] = None THEN Empty ELSE dbs[target]
             plans == {plan \in ReadImport(file) : PrepareImport(plan, before)}
  <2>1. UNCHANGED <<file, source>>
    BY <1>5 DEF Import
  <2>2. CASE plans = {}
    BY <1>5, <2>1, <2>2 DEF Import, Kept
  <2>3. CASE plans # {}
    <3> PICK plan, db, result : plan = Only(plans) /\ db = before /\ result = Apply(plan, db).db
      OBVIOUS
    <3>1. Within(plan, db) /\ dbs' = [dbs EXCEPT ![target] = result]
      BY <1>5, <2>3 DEF Import
    <3>2. DOMAIN result = DOMAIN db \cup Created(plan, db)
      BY ApplyGives
    <3>3. Created(plan, db) \subseteq TableNames
      BY <3>1 DEF Within, Created
    <3>4. target = "shop" => DOMAIN db \subseteq TableNames
      BY DEF Kept, Empty
    <3>5. dbs'["shop"] = IF target = "shop" THEN result ELSE dbs["shop"]
      BY <3>1 DEF Inv, Databases
    <3>6. DOMAIN dbs'["shop"] \subseteq TableNames
      BY <3>2, <3>3, <3>4, <3>5 DEF Kept
    <3> QED
      BY <2>1, <3>6 DEF Kept
  <2> QED
    BY <2>2, <2>3
<1>6. CASE UNCHANGED vars
  BY <1>6 DEF vars, Kept
<1>7. CASE Next
  <2>1. ASSUME NEW words, ExportInChat(words)
        PROVE  Kept'
    BY <2>1, ExportKept DEF ExportInChat
  <2>2. ASSUME NEW format, NEW scope, NEW table, Export(format, scope, table)
        PROVE  Kept'
    BY <2>2, ExportKept DEF Export
  <2> QED
    BY <1>1, <1>2, <1>3, <1>4, <1>41, <1>5, <1>7, <2>1, <2>2 DEF Next
<1> QED
  BY <1>6, <1>7

(* What a row of a backup is when it is read.                              *)
Carried(rows) == Map(LAMBDA row : [id |-> row.id, values |-> Map(SqlLiteral, row.values)], rows)
Plain(values) == [c \in DOMAIN values |-> values[c]]
DatedRow(values) ==
  \A c \in DOMAIN values :
    values[c] # None /\ values[c].type = "datetime"
      => NormalizeValue(Value("string", values[c].text), "datetime") = {values[c]}

(* A value of the column's type is read back as it was.                    *)
LEMMA ValueBack ==
  ASSUME NEW value, NEW datatype, value # None => value.type = datatype,
         value # None /\ value.type = "datetime"
           => NormalizeValue(Value("string", value.text), "datetime") = {value}
  PROVE  /\ NormalizeValue(SqlLiteral(value), datatype) = {value}
         /\ Coerced(value, datatype) = {value}
<1>1. Coerced(value, datatype) = {value}
  BY DEF Coerced
<1>2. CASE value # None /\ value.type = "datetime"
  <2>1. SqlLiteral(value) = Value("string", value.text)
    BY <1>2, Zenon DEF SqlLiteral
  <2>2. datatype = "datetime"
    BY <1>2
  <2>3. NormalizeValue(Value("string", value.text), "datetime") = {value}
    BY <1>2
  <2> QED
    BY <1>1, <2>1, <2>2, <2>3
<1>3. CASE ~(value # None /\ value.type = "datetime")
  <2>1. SqlLiteral(value) = value
    BY <1>3, Zenon DEF SqlLiteral
  <2>2. NormalizeValue(value, datatype) = {value}
    <3>1. value = None \/ value.type = datatype
      OBVIOUS
    <3> QED
      BY <3>1, Zenon DEF NormalizeValue
  <2> QED
    BY <1>1, <2>1, <2>2
<1> QED
  BY <1>1, <1>2, <1>3

(* A row that fits its columns is read back as it was: no check of an      *)
(* import finds anything in it, and no cast changes it.                    *)
LEMMA RowBack ==
  ASSUME NEW values, NEW fields, Fit(values, fields), DatedRow(values)
  PROVE  /\ Cleaned(Map(SqlLiteral, values), fields) = Plain(values)
         /\ ~Problem(Map(SqlLiteral, values), fields)
         /\ ValidateRecord(Plain(values), fields) = {Plain(values)}
<1> PICK read, plain : read = Map(SqlLiteral, values) /\ plain = Plain(values)
  OBVIOUS
<1>1. DOMAIN read = DOMAIN values /\ \A c \in DOMAIN values : read[c] = SqlLiteral(values[c])
  BY DEF Map
<1>2. DOMAIN plain = DOMAIN values /\ \A c \in DOMAIN values : plain[c] = values[c]
  BY DEF Plain
<1>3. ASSUME NEW c \in DOMAIN values
      PROVE  /\ NormalizeValue(read[c], Type(fields, c)) = {values[c]}
             /\ Coerced(plain[c], Type(fields, c)) = {values[c]}
  <2> PICK value, datatype : value = values[c] /\ datatype = Type(fields, c)
    OBVIOUS
  <2>1. value # None => value.type = datatype
    BY DEF Fit
  <2>2. value # None /\ value.type = "datetime"
          => NormalizeValue(Value("string", value.text), "datetime") = {value}
    BY DEF DatedRow
  <2>3. NormalizeValue(SqlLiteral(value), datatype) = {value} /\ Coerced(value, datatype) = {value}
    BY <2>1, <2>2, ValueBack
  <2> QED
    BY <1>1, <1>2, <2>3
<1>4. \A x : Only({x}) = x
  BY DEF Only
<1>5. Cleaned(read, fields) = plain
  <2>1. \A c \in DOMAIN values : Only(NormalizeValue(read[c], Type(fields, c))) = values[c]
    BY <1>3, <1>4
  <2> QED
    BY <1>1, <2>1 DEF Cleaned, Plain
<1>6. ValidateRecord(plain, fields) = {plain}
  <2>1. \A c \in DOMAIN plain : c \in ToSet(Names(fields)) /\ Coerced(plain[c], Type(fields, c)) # {}
    BY <1>2, <1>3 DEF Fit
  <2>2. \A f \in ToSet(fields) : f.required => f.name \in DOMAIN plain
    BY <1>2 DEF Fit
  <2>3. [c \in DOMAIN plain |-> Only(Coerced(plain[c], Type(fields, c)))] = plain
    <3>1. \A c \in DOMAIN values : Only(Coerced(plain[c], Type(fields, c))) = values[c]
      BY <1>3, <1>4
    <3> QED
      BY <1>2, <3>1 DEF Plain
  <2> QED
    BY <2>1, <2>2, <2>3 DEF ValidateRecord
<1>7. ~Problem(read, fields)
  BY <1>1, <1>3, <1>5, <1>6 DEF Problem, Fit
<1> QED
  BY <1>5, <1>6, <1>7

(* The plan of a backup: the tables that were exported, in their order.    *)
Backup(plan, tables, scope) ==
  /\ DOMAIN plan = DOMAIN tables
  /\ \A i \in DOMAIN tables :
       /\ plan[i].name = tables[i].name
       /\ plan[i].columns = IF scope = "data" THEN None ELSE tables[i].fields
       /\ plan[i].rows = IF scope = "schema" THEN <<>> ELSE Carried(tables[i].rows)
       /\ plan[i].optional = FALSE

LEMMA BackupRead ==
  ASSUME NEW tables, NEW scope, Listed(tables), Tidy(tables)
  PROVE  \E plan : ReadNative(Native(tables, scope)) = {plan} /\ Backup(plan, tables, scope)
<1> PICK body, plan :
      /\ body = Native(tables, scope)
      /\ plan = Map(LAMBDA t : TableSpec(t.name, t.columns, Carried(t.rows), FALSE), body)
  OBVIOUS
<1>1. /\ DOMAIN body = DOMAIN tables
      /\ \A i \in DOMAIN tables :
           body[i] = [name    |-> tables[i].name,
                      columns |-> IF scope = "data" THEN None ELSE tables[i].fields,
                      rows    |-> IF scope = "schema" THEN <<>> ELSE tables[i].rows]
  BY DEF Native, Map
<1>2. /\ DOMAIN plan = DOMAIN tables
      /\ \A i \in DOMAIN tables : plan[i] = TableSpec(body[i].name, body[i].columns, Carried(body[i].rows), FALSE)
  BY <1>1 DEF Map
<1>3. ASSUME NEW i \in DOMAIN tables
      PROVE  /\ body[i].name = tables[i].name
             /\ body[i].columns = IF scope = "data" THEN None ELSE tables[i].fields
             /\ body[i].rows = IF scope = "schema" THEN <<>> ELSE tables[i].rows
             /\ plan[i].name = body[i].name
             /\ plan[i].columns = body[i].columns
             /\ plan[i].rows = Carried(body[i].rows)
             /\ plan[i].optional = FALSE
  <2>1. PICK name, columns, rows :
          /\ name = tables[i].name
          /\ columns = IF scope = "data" THEN None ELSE tables[i].fields
          /\ rows = IF scope = "schema" THEN <<>> ELSE tables[i].rows
    OBVIOUS
  <2>2. body[i] = [name |-> name, columns |-> columns, rows |-> rows]
    BY <1>1, <2>1
  <2>3. body[i].name = name /\ body[i].columns = columns /\ body[i].rows = rows
    BY <2>2
  <2>4. PICK n, c, r : n = body[i].name /\ c = body[i].columns /\ r = Carried(body[i].rows)
    OBVIOUS
  <2>5. plan[i] = [name |-> n, columns |-> c, rows |-> r, optional |-> FALSE]
    BY <1>2, <2>4 DEF TableSpec
  <2>6. plan[i].name = n /\ plan[i].columns = c /\ plan[i].rows = r /\ plan[i].optional = FALSE
    BY <2>5
  <2> QED
    BY <2>1, <2>3, <2>4, <2>6
<1>4. Carried(<<>>) = <<>>
  BY NothingMapped DEF Carried
<1>5. Backup(plan, tables, scope)
  <2>1. DOMAIN plan = DOMAIN tables
    BY <1>2
  <2>2. ASSUME NEW i \in DOMAIN tables
        PROVE  /\ plan[i].name = tables[i].name
               /\ plan[i].columns = IF scope = "data" THEN None ELSE tables[i].fields
               /\ plan[i].rows = IF scope = "schema" THEN <<>> ELSE Carried(tables[i].rows)
               /\ plan[i].optional = FALSE
    <3>1. plan[i].rows = IF scope = "schema" THEN <<>> ELSE Carried(tables[i].rows)
      BY <1>3, <1>4
    <3> QED
      BY ONLY <1>3, <3>1, i \in DOMAIN tables
  <2> QED
    BY ONLY <2>1, <2>2 DEF Backup
<1>6. body # <<>>
  <2> SUFFICES ASSUME body = <<>>
               PROVE  FALSE
    OBVIOUS
  <2>1. DOMAIN tables = {}
    BY <1>1, NoRowsListed
  <2>2. tables \in Seq(ToSet(tables)) /\ Len(tables) = 0
    BY <2>1, ListedIs DEF Listed
  <2> QED
    BY <2>2, EmptySeq DEF Tidy
<1>7. \A i \in DOMAIN body : /\ IsValidIdentifier(body[i].name)
                             /\ body[i].columns # None =>
                                  \A j \in DOMAIN body[i].columns : IsValidIdentifier(body[i].columns[j].name)
  <2> SUFFICES ASSUME NEW i \in DOMAIN tables
               PROVE  /\ IsValidIdentifier(tables[i].name)
                      /\ \A j \in DOMAIN tables[i].fields : IsValidIdentifier(tables[i].fields[j].name)
    BY <1>1, <1>3
  <2>1. tables[i] \in ToSet(tables)
    BY DEF ToSet
  <2>2. \A j \in DOMAIN tables[i].fields : tables[i].fields[j] \in ToSet(tables[i].fields)
    BY DEF ToSet
  <2> QED
    BY <2>1, <2>2 DEF Tidy, IsValidIdentifier
<1>8. ReadNative(body) = {plan}
  BY <1>6, <1>7 DEF ReadNative, Carried
<1> QED
  BY <1>5, <1>8

(* A database that a backup can be brought into: it has none of the        *)
(* tables, or, if the backup is of rows alone, all of them and no row.     *)
Awaits(db, tables, scope) ==
  \A i \in DOMAIN tables :
    IF scope = "data"
    THEN /\ tables[i].name \in DOMAIN db
         /\ db[tables[i].name] = [fields |-> tables[i].fields, rows |-> <<>>]
    ELSE tables[i].name \notin DOMAIN db

LEMMA BackupPrepared ==
  ASSUME NEW plan, NEW tables, NEW scope, NEW db, Recorded(tables), Dated(tables),
         Backup(plan, tables, scope), Awaits(db, tables, scope)
  PROVE  /\ PrepareImport(plan, db)
         /\ \A i \in DOMAIN tables :
              /\ Fields(plan, db, tables[i].name) = tables[i].fields
              /\ Made(plan, db)[tables[i].name] = [fields |-> tables[i].fields, rows |-> <<>>]
<1>1. DOMAIN plan = DOMAIN tables /\ DOMAIN tables \subseteq Int
  BY ListedIs DEF Backup, Recorded
<1>2. \A i, j \in DOMAIN plan : plan[i].name = plan[j].name => i = j
  BY <1>1 DEF Backup, Recorded
<1>3. ~TwiceDefined(plan)
  BY <1>1, <1>2 DEF TwiceDefined
<1>4. ASSUME NEW i \in DOMAIN tables
      PROVE  /\ ~Homeless(plan[i], db) /\ ~Conflicts(plan[i], db)
             /\ Fields(plan, db, tables[i].name) = tables[i].fields
             /\ Made(plan, db)[tables[i].name] = [fields |-> tables[i].fields, rows |-> <<>>]
             /\ \A k \in DOMAIN plan[i].rows : ~Problem(plan[i].rows[k].values, tables[i].fields)
  <2> PICK name, fields, rows, spec :
        /\ name = tables[i].name /\ fields = tables[i].fields /\ rows = tables[i].rows
        /\ spec = plan[i]
    OBVIOUS
  <2>1. /\ spec.name = name
        /\ spec.columns = IF scope = "data" THEN None ELSE fields
        /\ spec.rows = IF scope = "schema" THEN <<>> ELSE Carried(rows)
        /\ spec.optional = FALSE
    BY DEF Backup
  <2>2. AllFit(rows, fields) /\ fields # None /\ Listed(rows)
    <3> PICK table : table = [fields |-> fields, rows |-> rows]
      OBVIOUS
    <3>1. Typed(table) /\ table.fields = fields /\ table.rows = rows
      BY DEF Recorded
    <3> QED
      BY <3>1, FittingIs DEF Typed
  <2>3. IF scope = "data" THEN name \in DOMAIN db /\ db[name] = [fields |-> fields, rows |-> <<>>]
                          ELSE name \notin DOMAIN db
    BY DEF Awaits
  <2>4. /\ DOMAIN Carried(rows) = DOMAIN rows
        /\ \A k \in DOMAIN rows : /\ Carried(rows)[k].id = rows[k].id
                                  /\ Carried(rows)[k].values = Map(SqlLiteral, rows[k].values)
    BY DEF Carried, Map
  <2>5. ~Repeats(spec.rows)
    <3>1. ~Repeats(<<>>)
      BY NoRowsListed DEF Repeats
    <3>2. ~Repeats(Carried(rows))
      <4>1. DOMAIN rows \subseteq Int
        BY <2>2, ListedIs
      <4> QED
        BY <2>2, <2>4, <4>1 DEF Repeats, AllFit
    <3> QED
      BY <2>1, <3>1, <3>2
  <2>6. ~Taken(spec, db)
    <3>1. IdsOf(<<>>) = {}
      BY NoRowsListed DEF IdsOf
    <3>2. scope = "data" => db[name].rows = <<>>
      BY <2>3
    <3> QED
      BY <2>1, <2>3, <3>1, <3>2 DEF Taken
  <2>7. ~Homeless(spec, db) /\ ~Conflicts(spec, db)
    BY <2>1, <2>2, <2>3, <2>5, <2>6 DEF Homeless, Conflicts
  <2>8. scope # "data" => Scratch(plan)[name] = fields /\ name \in Created(plan, db)
    <3> SUFFICES ASSUME scope # "data"
                 PROVE  Scratch(plan)[name] = fields /\ name \in Created(plan, db)
      OBVIOUS
    <3>1. i \in DOMAIN plan /\ plan[i].columns # None /\ plan[i].columns = fields /\ plan[i].name = name
      BY <1>1, <2>1, <2>2
    <3>2. PICK j \in DOMAIN plan : plan[j].name = plan[i].name /\ Scratch(plan)[plan[i].name] = plan[j].columns
      BY <3>1, ScratchColumns
    <3>3. j = i
      BY <1>2, <3>1, <3>2
    <3>4. name \in Created(plan, db)
      BY <2>1, <3>1 DEF Created
    <3> QED
      BY <3>1, <3>2, <3>3, <3>4
  <2>9. scope = "data" => name \notin Created(plan, db)
    BY <1>1 DEF Created, Backup
  <2>10. Fields(plan, db, name) = fields /\ Made(plan, db)[name] = [fields |-> fields, rows |-> <<>>]
    <3>1. CASE scope = "data"
      <4>1. db[name].fields = fields
        BY <2>3, <3>1
      <4> QED
        BY <2>3, <2>9, <3>1, <4>1 DEF Fields, Made
    <3>2. CASE scope # "data"
      BY <2>3, <2>8, <3>2 DEF Fields, Made
    <3> QED
      BY <3>1, <3>2
  <2>11. ASSUME NEW k \in DOMAIN spec.rows
         PROVE  ~Problem(spec.rows[k].values, fields)
    <3>1. spec.rows = Carried(rows) /\ k \in DOMAIN rows
      BY <2>1, <2>4, NoRowsListed
    <3>2. Fit(rows[k].values, fields)
      BY <2>2, <3>1 DEF AllFit
    <3>3. DatedRow(rows[k].values)
      <4>1. tables[i] \in ToSet(tables)
        BY DEF ToSet
      <4> QED
        BY <3>1, <4>1 DEF Dated, DatedRow
    <3> QED
      BY <2>4, <3>1, <3>2, <3>3, RowBack
  <2> QED
    BY <2>7, <2>10, <2>11
<1>5. PrepareImport(plan, db)
  <2>1. ASSUME NEW i \in DOMAIN plan
        PROVE  /\ ~Homeless(plan[i], db) /\ ~Conflicts(plan[i], db)
               /\ \A k \in DOMAIN plan[i].rows :
                    ~Problem(plan[i].rows[k].values, Fields(plan, db, plan[i].name))
    <3>1. i \in DOMAIN tables /\ plan[i].name = tables[i].name
      BY <1>1 DEF Backup
    <3>2. Fields(plan, db, plan[i].name) = tables[i].fields
      BY <1>4, <3>1
    <3> QED
      BY <1>4, <3>1, <3>2
  <2> QED
    BY <1>3, <2>1 DEF PrepareImport
<1> QED
  BY <1>4, <1>5

(* A table a prepared plan names is filled with the rows it says for it.   *)
LEMMA FilledOnce ==
  ASSUME NEW plan, NEW db, PrepareImport(plan, db), DOMAIN plan \subseteq Int, NEW i \in DOMAIN plan
  PROVE  LET name == plan[i].name
             after == Apply(plan, db).db
         IN /\ name \in DOMAIN after
            /\ plan[i].rows = <<>> => after[name] = Made(plan, db)[name]
            /\ plan[i].rows # <<>> => after[name] \in Filled(plan, db, i)
<1> DEFINE brings == {j \in DOMAIN plan : plan[j].rows # <<>>}
           fails == {j \in brings : Filled(plan, db, j) = {}}
           written == {j \in brings : \A k \in fails : j < k}
           Rows(name) == UNION {Filled(plan, db, j) : j \in {k \in written : plan[k].name = name}}
           result == [name \in DOMAIN db \cup Created(plan, db) |->
                        IF Rows(name) = {} THEN Made(plan, db)[name] ELSE Only(Rows(name))]
<1> PICK name : name = plan[i].name
  OBVIOUS
<1>1. Apply(plan, db).db = result
  BY DEF Apply, Made, Created, Clean, Filled
<1>2. fails = {}
  <2>1. \A j \in DOMAIN plan : ~Fails(plan, db, j)
    BY PreparedIsWritten, ApplyFails
  <2> QED
    BY <2>1 DEF Fails, Filled
<1>3. written = brings
  BY <1>2
<1>4. \A j \in DOMAIN plan : plan[j].name = name => j = i
  <2>1. ~TwiceDefined(plan)
    BY DEF PrepareImport
  <2>2. ASSUME NEW j \in DOMAIN plan, plan[j].name = name
        PROVE  j = i
    <3>1. ~(j < i) /\ ~(i < j) /\ i \in Int /\ j \in Int
      BY <2>1, <2>2 DEF TwiceDefined
    <3> QED
      BY <3>1
  <2> QED
    BY <2>2
<1>5. name \in DOMAIN db \cup Created(plan, db)
  BY DEF PrepareImport, Homeless, Created
<1>6. Rows(name) = IF plan[i].rows = <<>> THEN {} ELSE Filled(plan, db, i)
  BY <1>3, <1>4
<1>7. result[name] = IF Rows(name) = {} THEN Made(plan, db)[name] ELSE Only(Rows(name))
  BY <1>5
<1>8. CASE plan[i].rows = <<>>
  BY <1>1, <1>5, <1>6, <1>7, <1>8
<1>9. CASE plan[i].rows # <<>>
  <2>1. Rows(name) = Filled(plan, db, i) /\ i \in brings
    BY <1>6, <1>9
  <2>2. Filled(plan, db, i) # {}
    BY <1>2, <2>1
  <2>3. Only(Filled(plan, db, i)) \in Filled(plan, db, i)
    BY <2>2, OnlyIn
  <2>4. result[name] = Only(Filled(plan, db, i))
    <3> HIDE DEF Rows, result
    <3> QED
      BY <1>7, <2>1, <2>2
  <2> QED
    BY <1>1, <1>5, <1>9, <2>3, <2>4
<1> QED
  BY <1>8, <1>9

(* The rows of a backup are written as they were exported.                 *)
LEMMA RowsBack ==
  ASSUME NEW rows, NEW fields, NEW table, Listed(rows), AllFit(rows, fields),
         \A k \in DOMAIN rows : DatedRow(rows[k].values),
         table = [fields |-> fields, rows |-> <<>>],
         NEW filled \in CreateMany(table, Clean(Carried(rows), fields))
  PROVE  filled.fields = fields /\ SameRows(rows, filled.rows, fields)
<1> PICK clean, new, more :
      /\ clean = Clean(Carried(rows), fields)
      /\ new = Only(NewIds(clean, IdsOf(table.rows)))
      /\ more = [k \in DOMAIN clean |->
                   [id     |-> IF clean[k].id # None THEN clean[k].id ELSE new[k],
                    values |-> Only(ValidateRecord(clean[k].values, fields))]]
  OBVIOUS
<1>1. /\ DOMAIN clean = DOMAIN rows
      /\ \A k \in DOMAIN rows : clean[k].id = rows[k].id /\ clean[k].values = Plain(rows[k].values)
  <2>1. /\ DOMAIN Carried(rows) = DOMAIN rows
        /\ \A k \in DOMAIN rows : /\ Carried(rows)[k].id = rows[k].id
                                  /\ Carried(rows)[k].values = Map(SqlLiteral, rows[k].values)
    BY DEF Carried, Map
  <2>2. \A k \in DOMAIN rows : Cleaned(Map(SqlLiteral, rows[k].values), fields) = Plain(rows[k].values)
    BY RowBack DEF AllFit
  <2> QED
    BY <2>1, <2>2, CleanRows
<1>2. table.fields = fields /\ table.rows = <<>>
  OBVIOUS
<1>3. filled = [fields |-> fields, rows |-> <<>> \o more]
  BY <1>2 DEF CreateMany
<1>4. DOMAIN more = DOMAIN rows
  BY <1>1
<1>5. ASSUME NEW k \in DOMAIN rows
      PROVE  more[k].id = rows[k].id /\ more[k].values = Plain(rows[k].values)
  <2>1. rows[k].id \in Ids /\ Fit(rows[k].values, fields)
    BY DEF AllFit
  <2>2. ValidateRecord(Plain(rows[k].values), fields) = {Plain(rows[k].values)}
    BY <2>1, RowBack
  <2>3. \A x : Only({x}) = x
    BY DEF Only
  <2>4. /\ more[k].id = IF clean[k].id # None THEN clean[k].id ELSE new[k]
        /\ more[k].values = Only(ValidateRecord(clean[k].values, fields))
    BY <1>1
  <2>5. more[k].id = rows[k].id
    BY <1>1, <2>1, <2>4, PortabilityAssumption
  <2>6. more[k].values = Only({Plain(rows[k].values)})
    BY <1>1, <2>2, <2>4
  <2> QED
    BY <2>3, <2>5, <2>6
<1>6. Listed(more) /\ Len(more) = Len(rows)
  <2>1. Len(rows) \in Nat /\ DOMAIN rows = 1 .. Len(rows)
    BY ListedIs
  <2>2. more = [k \in 1 .. Len(rows) |-> more[k]]
    BY <1>4, <2>1
  <2> QED
    BY <2>1, <2>2, NumberedListed
<1>7. filled.fields = fields /\ filled.rows = more
  <2>1. more \in Seq(ToSet(more))
    BY <1>6 DEF Listed
  <2>2. <<>> \o more = more
    BY <2>1, ConcatEmptySeq
  <2> QED
    BY <1>3, <2>2
<1>8. ASSUME NEW k \in DOMAIN rows, NEW c
      PROVE  At(more[k], c) = At(rows[k], c)
  <2> PICK values, others : values = rows[k].values /\ others = more[k].values
    OBVIOUS
  <2>1. others = [d \in DOMAIN values |-> values[d]]
    BY <1>5 DEF Plain
  <2>2. DOMAIN others = DOMAIN values /\ \A d \in DOMAIN values : others[d] = values[d]
    BY ONLY <2>1
  <2> QED
    BY <2>2 DEF At
<1>9. SameRows(rows, more, fields)
  BY <1>5, <1>6, <1>8 DEF SameRows
<1> QED
  BY <1>7, <1>9

(* What a backup makes of a table in a database that awaits it.            *)
Returned(t, after, scope) ==
  /\ t.name \in DOMAIN after
  /\ after[t.name].fields = t.fields
  /\ IF scope = "schema" THEN after[t.name].rows = <<>>
     ELSE SameRows(t.rows, after[t.name].rows, t.fields)

LEMMA BackupApplied ==
  ASSUME NEW plan, NEW tables, NEW scope, NEW db, Recorded(tables), Dated(tables),
         Backup(plan, tables, scope), Awaits(db, tables, scope), NEW i \in DOMAIN tables
  PROVE  Returned(tables[i], Apply(plan, db).db, scope)
<1> PICK name, fields, rows, table, after :
      /\ name = tables[i].name /\ fields = tables[i].fields /\ rows = tables[i].rows
      /\ table = [fields |-> fields, rows |-> <<>>]
      /\ after = Apply(plan, db).db
  OBVIOUS
<1>1. PrepareImport(plan, db) /\ Made(plan, db)[name] = table
  BY BackupPrepared
<1>2. i \in DOMAIN plan /\ DOMAIN plan \subseteq Int
  BY ListedIs DEF Backup, Recorded
<1>3. /\ plan[i].name = name
      /\ plan[i].rows = IF scope = "schema" THEN <<>> ELSE Carried(rows)
  BY DEF Backup
<1>4. /\ name \in DOMAIN after
      /\ plan[i].rows = <<>> => after[name] = table
      /\ plan[i].rows # <<>> => after[name] \in Filled(plan, db, i)
  BY <1>1, <1>2, <1>3, FilledOnce
<1>5. table.fields = fields /\ table.rows = <<>>
  OBVIOUS
<1>6. Listed(rows) /\ AllFit(rows, fields) /\ \A k \in DOMAIN rows : DatedRow(rows[k].values)
  <2> PICK exported : exported = [fields |-> fields, rows |-> rows]
    OBVIOUS
  <2>1. Typed(exported) /\ exported.fields = fields /\ exported.rows = rows
    BY DEF Recorded
  <2>2. tables[i] \in ToSet(tables)
    BY DEF ToSet
  <2>3. \A k \in DOMAIN rows : DatedRow(rows[k].values)
    BY <2>2 DEF Dated, DatedRow
  <2> QED
    BY <2>1, <2>3, FittingIs DEF Typed
<1>7. CASE plan[i].rows = <<>>
  <2>1. scope # "schema" => SameRows(rows, <<>>, fields)
    <3> SUFFICES ASSUME scope # "schema"
                 PROVE  SameRows(rows, <<>>, fields)
      OBVIOUS
    <3>1. Carried(rows) = <<>>
      BY <1>3, <1>7
    <3>2. DOMAIN Carried(rows) = DOMAIN rows
      BY DEF Carried, Map
    <3>3. DOMAIN rows = {}
      BY <3>1, <3>2, NoRowsListed
    <3>4. Len(rows) \in Nat /\ DOMAIN rows = 1 .. Len(rows)
      BY <1>6, ListedIs
    <3>5. Len(rows) = 0
      BY ONLY <3>3, <3>4
    <3> QED
      BY <3>3, <3>5 DEF SameRows
  <2> QED
    BY <1>4, <1>5, <1>7, <2>1 DEF Returned
<1>8. CASE plan[i].rows # <<>>
  <2>1. scope # "schema" /\ plan[i].rows = Carried(rows)
    BY <1>3, <1>8
  <2>2. Filled(plan, db, i) = CreateMany(table, Clean(Carried(rows), fields))
    BY <1>1, <1>3, <1>5, <2>1 DEF Filled
  <2>3. after[name].fields = fields /\ SameRows(rows, after[name].rows, fields)
    BY <1>4, <1>6, <1>8, <2>2, RowsBack
  <2> QED
    BY <1>4, <2>1, <2>3 DEF Returned
<1> QED
  BY <1>7, <1>8

LEMMA ImportComesBack ==
  ASSUME NEW explicit, NEW session, Inv, Kept, Import(explicit, session),
         source # None, file.kind = "native", Tidy(source.tables), Dated(source.tables)
  PROVE  ComesBack
<1> DEFINE target == ResolveDatabaseName(file, explicit, session)
           before == IF dbs[target] = None THEN Empty ELSE dbs[target]
           plans == {plan \in ReadImport(file) : PrepareImport(plan, before)}
<1> PICK tables, scope, db : tables = source.tables /\ scope = source.scope /\ db = before
  OBVIOUS
<1>1. target \in Databases /\ last'.db = target
  BY DEF Import, Said
<1>2. Before(last'.db) = db
  BY <1>1 DEF Before
<1>3. CASE Awaits(db, tables, scope)
  <2>1. Recorded(tables) /\ file.body = Native(tables, scope)
    BY DEF Kept
  <2>2. PICK plan : ReadNative(Native(tables, scope)) = {plan} /\ Backup(plan, tables, scope)
    BY <2>1, BackupRead DEF Recorded
  <2>3. ReadImport(file) = {plan}
    BY <2>1, <2>2 DEF ReadImport
  <2>4. PrepareImport(plan, db)
    BY <1>3, <2>1, <2>2, BackupPrepared
  <2>5. plans = {plan}
    BY <2>3, <2>4
  <2>6. Only(plans) = plan /\ plans # {}
    BY <2>5 DEF Only
  <2>7. /\ dbs' = [dbs EXCEPT ![target] = Apply(plan, db).db]
        /\ last' = Said("import", target, IF Apply(plan, db).failed THEN "failed" ELSE "done")
    BY <2>6 DEF Import
  <2>8. ~Apply(plan, db).failed
    BY <2>4, PreparedIsWritten
  <2>9. last'.reply = "done" /\ dbs'[last'.db] = Apply(plan, db).db
    BY <1>1, <2>7, <2>8 DEF Said, Inv
  <2>10. \A i \in DOMAIN tables : Returned(tables[i], dbs'[last'.db], scope)
    BY <1>3, <2>1, <2>2, <2>9, BackupApplied
  <2>11. \A t \in ToSet(tables) : Returned(t, dbs'[last'.db], scope)
    BY <2>10 DEF ToSet
  <2> QED
    BY <2>9, <2>11 DEF ComesBack, Returned
<1>4. CASE ~Awaits(db, tables, scope)
  <2>1. PICK i \in DOMAIN tables :
          ~(IF scope = "data"
            THEN /\ tables[i].name \in DOMAIN db
                 /\ db[tables[i].name] = [fields |-> tables[i].fields, rows |-> <<>>]
            ELSE tables[i].name \notin DOMAIN db)
    BY <1>4 DEF Awaits
  <2>2. tables[i] \in ToSet(tables)
    BY DEF ToSet
  <2> QED
    BY <1>2, <2>1, <2>2 DEF ComesBack
<1> QED
  BY <1>3, <1>4

(* A backup of any tables, imported where none of them is, makes the same  *)
(* tables, columns, types and rows under the same ids; one of the rows     *)
(* alone fills the tables it came from, and neither is ever refused.       *)
THEOREM BackupsReturn == Spec => BackupsComeBack
<1> DEFINE Backs == Asked("import") /\ source # None /\ file.kind = "native"
                      /\ Tidy(source.tables) /\ Dated(source.tables) => ComesBack
<1>1. Init => Kept
  BY DEF Init, Kept, Empty, Databases
<1>2. ASSUME Inv, Kept, [Next]_vars
      PROVE  [Backs]_vars
  <2>1. CASE UNCHANGED vars
    BY <2>1
  <2>2. CASE \E explicit, session : Import(explicit, session)
    BY <1>2, <2>2, ImportComesBack
  <2>3. CASE Next /\ ~\E explicit, session : Import(explicit, session)
    BY <2>3, OthersAsk DEF Asked
  <2> QED
    BY <1>2, <2>1, <2>2, <2>3
<1> QED
  BY <1>1, <1>2, InvInit, InvNext, KeptNext, PTL DEF Spec, BackupsComeBack
=============================================================================
