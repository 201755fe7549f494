------------------------ MODULE ConversationProofs ------------------------
(***************************************************************************)
(* Theorems about Conversation, for any databases, fronts and bounds.      *)
(***************************************************************************)
EXTENDS Conversation, FiniteSetTheorems, WellFoundedInduction, TLAPS

-----------------------------------------------------------------------------
(* What a reader takes a message for fits the message.                     *)

LEMMA LeastIsIn ==
  ASSUME NEW I \in SUBSET Nat, I # {}
  PROVE  Min(I) \in I
<1> DEFINE Less == {ss \in Nat \X Nat : ss[1] < ss[2]}
<1>1. IsWellFoundedOn(Less, Nat)
  BY NatLessThanWellFounded, Zenon DEF OpToRel
<1> HIDE DEF Less
<1>2. PICK x \in I : \A y \in I : ~ (<<y, x>> \in Less)
  BY <1>1, WFMin
<1>3. ASSUME NEW y \in I, y < x
      PROVE  FALSE
  <2>1. <<y, x>> \in Less
    BY <1>3 DEF Less
  <2> QED
    BY <1>2, <2>1
<1>4. \A y \in I : x =< y
  BY <1>3
<1> QED
  BY <1>4 DEF Min

LEMMA FirstFitFits ==
  ASSUME NEW patterns, Len(patterns) \in Nat, NEW m, FirstFit(patterns, m) # None
  PROVE  \E i \in 1..Len(patterns) :
            Fits(patterns[i], m) /\ FirstFit(patterns, m) = patterns[i].intent
<1> DEFINE I == {i \in 1..Len(patterns) : Fits(patterns[i], m)}
<1>1. I # {}
  BY DEF FirstFit, SelectInSeq
<1>2. I \in SUBSET Nat
  OBVIOUS
<1>3. Min(I) \in I
  BY <1>1, <1>2, LeastIsIn
<1>4. FirstFit(patterns, m) = patterns[Min(I)].intent
  BY <1>1, <1>3 DEF FirstFit, SelectInSeq
<1> QED
  BY <1>3, <1>4

(* The messages that a command about databases takes its names from.       *)
Says(m) ==
  LET intent == DatabaseIntent(m) IN
  /\ intent \in {"CREATE_DATABASE", "USE_DATABASE", "DROP_DATABASE"} => m.about = "database"
  /\ intent = "DROP_TABLE" => m.about = "table"
  /\ intent = "DROP_STREAM" => m.about = "stream"
  /\ intent = "DELETE_ROW" => m.about = "row"

LEMMA DatabaseIntentFits ==
  ASSUME NEW m, DatabaseIntent(m) # None
  PROVE  Says(m)
<1>1. PICK i \in 1..Len(DatabasePatterns) :
         /\ Fits(DatabasePatterns[i], m)
         /\ DatabaseIntent(m) = DatabasePatterns[i].intent
  <2>1. Len(DatabasePatterns) \in Nat
    BY DEF DatabasePatterns, TablePatterns, DropPatterns, StreamPatterns, Pattern
  <2> QED
    BY <2>1, FirstFitFits DEF DatabaseIntent
<1> QED
  BY <1>1 DEF Says, Fits, DatabasePatterns, TablePatterns, DropPatterns, StreamPatterns, Pattern

-----------------------------------------------------------------------------
(* What exists hangs together: everything is in a database, every row in a *)
(* table.                                                                  *)

HasIn(T, kind, on) == \E thing \in T : thing.kind = kind /\ thing.on = on
ExistsIn(T, db) == db = Default \/ HasIn(T, "database", db)
Closed(T) ==
  /\ T \subseteq AllThings
  /\ \A thing \in T : ExistsIn(T, thing.on)
  /\ \A row \in T : row.kind = "row" => HasIn(T, "table", row.on)

LEMMA ThingType ==
  ASSUME NEW kind \in Kinds, NEW on \in Databases, NEW by
  PROVE  /\ kind # "table" \/ by \in {"session", "others"} => Thing(kind, on, by) \in AllThings
         /\ Thing(kind, on, by).kind = kind /\ Thing(kind, on, by).on = on
<1>1. ASSUME kind # "table"
      PROVE  Thing(kind, on, by) = Thing(kind, on, "others")
  BY <1>1 DEF Thing
<1> QED
  BY <1>1 DEF Thing, AllThings

LEMMA AllThingsType ==
  ASSUME NEW thing \in AllThings
  PROVE  thing.kind \in Kinds /\ thing.on \in Databases
BY DEF AllThings, Thing

(* One more thing, in a database that exists. *)
LEMMA OneMore ==
  ASSUME NEW T, Closed(T), NEW x \in AllThings,
         x.kind = "database" \/ ExistsIn(T, x.on),
         x.kind = "row" => HasIn(T, "table", x.on)
  PROVE  /\ Closed(T \cup {x})
         /\ \A db : ExistsIn(T, db) => ExistsIn(T \cup {x}, db)
BY DEF Closed, ExistsIn, HasIn

LEMMA WithTableClosed ==
  ASSUME Closed(things), NEW on \in Databases, Exists(on)
  PROVE  /\ Closed(WithTable(on))
         /\ \A db : Exists(db) => ExistsIn(WithTable(on), db)
<1>1. /\ Thing("table", on, "session") \in AllThings
      /\ Thing("table", on, "session").kind = "table"
      /\ Thing("table", on, "session").on = on
  BY ThingType DEF Kinds
<1>2. \A db : Exists(db) => ExistsIn(WithTable(on), db)
  BY DEF Exists, Has, ExistsIn, HasIn, WithTable
<1>3. WithTable(on) \subseteq AllThings
  BY <1>1 DEF WithTable, Closed
<1>4. \A thing \in WithTable(on) : ExistsIn(WithTable(on), thing.on)
  BY <1>1, <1>2 DEF WithTable, Closed, Exists, ExistsIn, Has, HasIn
<1>5. \A row \in WithTable(on) : row.kind = "row" => HasIn(WithTable(on), "table", row.on)
  BY <1>1 DEF WithTable, Closed, HasIn
<1> QED
  BY <1>2, <1>3, <1>4, <1>5 DEF Closed

LEMMA ImportedClosed ==
  ASSUME Closed(things), NEW on \in Databases
  PROVE  /\ Closed(Imported(on))
         /\ ExistsIn(Imported(on), on)
         /\ \A db : Exists(db) => ExistsIn(Imported(on), db)
<1>1. CASE Exists(on)
  BY <1>1, WithTableClosed DEF Imported
<1>2. CASE ~Exists(on)
  <2> DEFINE new == Thing("database", on, None)
             table == Thing("table", on, "session")
  <2>1. new \in AllThings /\ new.kind = "database" /\ new.on = on
    BY ThingType DEF Kinds
  <2>2. table \in AllThings /\ table.kind = "table" /\ table.on = on
    BY ThingType DEF Kinds
  <2>3. Imported(on) = {thing \in things : ~(thing.kind = "table" /\ thing.on = on)} \cup {table, new}
    BY <1>2 DEF Imported, WithTable
  <2> HIDE DEF new, table
  <2>4. \A db : Exists(db) => ExistsIn(Imported(on), db)
    BY <2>3 DEF Exists, Has, ExistsIn, HasIn
  <2>5. ExistsIn(Imported(on), on)
    BY <2>1, <2>3 DEF ExistsIn, HasIn
  <2>6. Imported(on) \subseteq AllThings
    BY <2>1, <2>2, <2>3 DEF Closed
  <2>7. \A thing \in Imported(on) : ExistsIn(Imported(on), thing.on)
    BY <2>1, <2>2, <2>3, <2>4, <2>5 DEF Closed, Exists, ExistsIn, Has, HasIn
  <2>8. \A row \in Imported(on) : row.kind = "row" => HasIn(Imported(on), "table", row.on)
    BY <2>1, <2>2, <2>3 DEF Closed, HasIn
  <2> QED
    BY <2>4, <2>5, <2>6, <2>7, <2>8 DEF Closed
<1> QED
  BY <1>1, <1>2

(* A deletion leaves nothing without its database or its table. *)
LEMMA RestClosed ==
  ASSUME Closed(things), NEW kind, NEW on
  PROVE  /\ Closed(things \ Covers(Question(kind, on)))
         /\ \A db : Exists(db) /\ ~(kind = "database" /\ db = on)
                      => ExistsIn(things \ Covers(Question(kind, on)), db)
<1> DEFINE rest == things \ Covers(Question(kind, on))
<1>1. \A thing : thing \in rest <=>
         /\ thing \in things
         /\ ~(/\ thing.on = on
              /\ \/ kind = "database" \/ thing.kind = kind
                 \/ kind = "table" /\ thing.kind = "row")
  BY DEF Covers, Question
<1> HIDE DEF rest
<1>2. \A db : Exists(db) /\ ~(kind = "database" /\ db = on) => ExistsIn(rest, db)
  BY <1>1 DEF Exists, Has, ExistsIn, HasIn
<1>3. \A thing \in rest : ExistsIn(rest, thing.on)
  BY <1>1, <1>2 DEF Closed, Exists, Has, ExistsIn, HasIn
<1>4. \A row \in rest : row.kind = "row" => HasIn(rest, "table", row.on)
  BY <1>1 DEF Closed, HasIn
<1>5. Closed(rest)
  BY <1>1, <1>3, <1>4 DEF Closed
<1> QED
  BY <1>2, <1>5 DEF rest

-----------------------------------------------------------------------------
(* Sessions.  Tidy holds of one between any two turns, Settled of one with *)
(* no question waiting.                                                    *)

Sessions ==
  [current : Databases, last : Databases \cup {None}, pdelete : Databases \cup {None},
   design : Databases \cup {None}, drop : [kind : Drops, on : Databases] \cup {None},
   confirm : {"abc", "delete", None}, which : BOOLEAN]
Asks == [kind : Kinds \cup {"design"}, on : Databases] \cup {None}

Tidy(s) ==
  /\ s \in Sessions
  /\ s.last \in {None, s.current} /\ s.pdelete \in {None, s.current}
  /\ s.confirm # None => ~s.which
  /\ s.drop # None /\ s.drop.kind = "database" => s.drop.on # Default
Settled(s) == s.design = None /\ s.drop = None /\ s.pdelete = None

(* At most one question waits, and it is the one in the last reply. *)
OneAsked(s, question) ==
  /\ s.design = None \/ s.drop = None
  /\ s.pdelete = None \/ (s.design = None /\ s.drop = None)
  /\ s.drop # None => question = s.drop
  /\ s.design # None => question = Question("design", s.design)
  /\ question # None /\ question.kind \in Drops => s.drop = question

(* What every handler leaves, of a session that works where it can; and    *)
(* that it destroys nothing but objects and merchants.                     *)
Good(o) ==
  /\ Tidy(o.session) /\ o.asked \in Asks
  /\ Closed(o.things) /\ ExistsIn(o.things, o.session.current)
  /\ \E a, b : o.things \subseteq things \cup {a, b}
Spares(o) == \A thing \in things \ o.things : thing.kind \notin Drops
Proper(s, o) ==
  /\ Good(o) /\ Spares(o)
  /\ Settled(s) => OneAsked(o.session, o.asked)
Ready(s) == Tidy(s) /\ Closed(things) /\ Exists(s.current)

LEMMA SaidProper ==
  ASSUME NEW s, Closed(things), Tidy(s), Exists(s.current)
  PROVE  Good(Said(s)) /\ Spares(Said(s)) /\ (Settled(s) => OneAsked(s, None))
         /\ Said(s).session = s /\ Said(s).things = things /\ Said(s).asked = None
<1>1. Said(s).session = s /\ Said(s).things = things /\ Said(s).asked = None
  BY DEF Said, Outcome
<1>2. Good(Said(s)) /\ Spares(Said(s))
  BY <1>1 DEF Good, Spares, Asks, Exists, ExistsIn, Has, HasIn
<1>3. Settled(s) => OneAsked(s, None)
  BY DEF Settled, OneAsked
<1> QED
  BY <1>1, <1>2, <1>3

LEMMA SwitchTidy ==
  ASSUME NEW s, Tidy(s), NEW db \in Databases
  PROVE  /\ Tidy(SwitchTo(s, db)) /\ SwitchTo(s, db).current = db
         /\ SwitchTo(s, db).design = s.design /\ SwitchTo(s, db).drop = s.drop
         /\ SwitchTo(s, db).pdelete = None
         /\ Settled(s) => Settled(SwitchTo(s, db))
BY DEF SwitchTo, Tidy, Sessions, Settled

(* Settling one thing at a time. *)
LEMMA DoneTidy ==
  ASSUME NEW s, Tidy(s)
  PROVE  /\ Tidy([s EXCEPT !.design = None]) /\ Tidy([s EXCEPT !.drop = None])
         /\ Tidy([s EXCEPT !.pdelete = None]) /\ Tidy([s EXCEPT !.confirm = None])
         /\ Tidy(Quiet(s))
BY DEF Tidy, Sessions, Quiet

-----------------------------------------------------------------------------
(* The handlers.                                                           *)

LEMMA MessageType ==
  ASSUME NEW m \in Messages
  PROVE  /\ m.on \in Names \cup {None}
         /\ m.about \in {"database", "object"} => m.name \in Databases
         /\ m.about = "reply" => m.name \in Replies
         /\ m.about \in {"merchant", "merchants", "text"} /\ m.verb \in {"delete", "remove"}
              => m.name = "abc"
BY DEF Messages, Message, Reply, Databases

LEMMA CreateDatabaseProper ==
  ASSUME NEW s, Ready(s), NEW m, m.name \in Databases, NEW role
  PROVE  Proper(s, CreateDatabase(s, m, role))
<1> DEFINE new == Thing("database", m.name, None)
           o == Outcome(SwitchTo(s, m.name), things \cup {new}, None)
<1>1. new \in AllThings /\ new.kind = "database" /\ new.on = m.name
  BY ThingType DEF Kinds
<1>2. Tidy(SwitchTo(s, m.name)) /\ SwitchTo(s, m.name).current = m.name
      /\ (Settled(s) => Settled(SwitchTo(s, m.name)))
  BY SwitchTidy DEF Ready
<1>3. o.session = SwitchTo(s, m.name) /\ o.things = things \cup {new} /\ o.asked = None
  BY DEF Outcome
<1> HIDE DEF new, o
<1>4. Closed(things \cup {new}) /\ ExistsIn(things \cup {new}, m.name)
  BY <1>1, OneMore DEF Ready, ExistsIn, HasIn
<1>5. Good(o)
  BY <1>2, <1>3, <1>4 DEF Good, Asks
<1>6. Spares(o) /\ (Settled(s) => OneAsked(o.session, o.asked))
  BY <1>2, <1>3 DEF Spares, OneAsked, Settled
<1>7. Proper(s, o)
  BY <1>5, <1>6 DEF Proper
<1>8. Proper(s, Said(s))
  BY SaidProper DEF Ready, Proper
<1> QED
  BY <1>7, <1>8 DEF CreateDatabase, o, new

LEMMA UseDatabaseProper ==
  ASSUME NEW s, Ready(s), NEW m, m.name \in Databases
  PROVE  Proper(s, UseDatabase(s, m))
<1>1. ASSUME Exists(m.name)
      PROVE  Proper(s, Said(SwitchTo(s, m.name)))
  <2>1. /\ Tidy(SwitchTo(s, m.name)) /\ SwitchTo(s, m.name).current = m.name
        /\ Settled(s) => Settled(SwitchTo(s, m.name))
    BY SwitchTidy DEF Ready
  <2> QED
    BY <1>1, <2>1, SaidProper DEF Ready, Proper
<1>2. Proper(s, Said(s))
  BY SaidProper DEF Ready, Proper
<1> QED
  BY <1>1, <1>2 DEF UseDatabase

(* A handler that keeps the session and adds one thing. *)
LEMMA AddsProper ==
  ASSUME NEW s, Ready(s), NEW t \in Sessions, Tidy(t), t.current = s.current,
         Settled(s) => Settled(t),
         NEW x \in AllThings, ExistsIn(things, x.on), x.kind = "row" => Has("table", x.on)
  PROVE  Proper(s, Outcome(t, things \cup {x}, None))
<1> DEFINE o == Outcome(t, things \cup {x}, None)
<1>1. o.session = t /\ o.things = things \cup {x} /\ o.asked = None
  BY DEF Outcome
<1> HIDE DEF o
<1>2. Closed(things \cup {x}) /\ ExistsIn(things \cup {x}, s.current)
  BY OneMore DEF Ready, Exists, ExistsIn, Has, HasIn
<1>3. Good(o)
  BY <1>1, <1>2 DEF Good, Asks
<1>4. Spares(o) /\ (Settled(s) => OneAsked(o.session, o.asked))
  BY <1>1 DEF Spares, OneAsked, Settled
<1> QED
  BY <1>3, <1>4 DEF Proper, o

LEMMA CreateTableProper ==
  ASSUME NEW s, Ready(s), NEW role
  PROVE  Proper(s, CreateTable(s, role))
<1> DEFINE o == Outcome(s, WithTable(s.current), None)
<1>1. o.session = s /\ o.things = WithTable(s.current) /\ o.asked = None
  BY DEF Outcome
<1>2. ASSUME ~Has("table", s.current)
      PROVE  Proper(s, o)
  <2>1. s.current \in Databases
    BY DEF Ready, Tidy, Sessions
  <2>2. Closed(WithTable(s.current)) /\ ExistsIn(WithTable(s.current), s.current)
    BY <2>1, WithTableClosed DEF Ready
  <2>3. things \subseteq WithTable(s.current)
    BY <1>2 DEF WithTable, Has
  <2>4. Good(o)
    <3>1. WithTable(s.current) \subseteq things \cup {Thing("table", s.current, "session")}
      BY DEF WithTable
    <3> HIDE DEF o
    <3> QED
      BY <1>1, <2>2, <3>1 DEF Good, Asks, Ready
  <2> HIDE DEF o
  <2>5. Spares(o) /\ (Settled(s) => OneAsked(o.session, o.asked))
    BY <1>1, <2>3 DEF Spares, OneAsked, Settled
  <2> QED
    BY <2>4, <2>5 DEF Proper
<1>3. Proper(s, Said(s))
  BY SaidProper DEF Ready, Proper
<1> QED
  BY <1>2, <1>3 DEF CreateTable

LEMMA InsertProper ==
  ASSUME NEW s, Ready(s)
  PROVE  Proper(s, Insert(s))
<1> DEFINE x == Thing("row", s.current, None)
<1>1. s.current \in Databases
  BY DEF Ready, Tidy, Sessions
<1>2. x \in AllThings /\ x.kind = "row" /\ x.on = s.current
  BY <1>1, ThingType DEF Kinds
<1> HIDE DEF x
<1>3. ASSUME Has("table", s.current)
      PROVE  Proper(s, Outcome(s, things \cup {x}, None))
  BY <1>2, <1>3, AddsProper DEF Ready, Tidy, Exists, ExistsIn, Has, HasIn
<1>4. Proper(s, Said(s))
  BY SaidProper DEF Ready, Proper
<1> QED
  BY <1>3, <1>4 DEF Insert, x

LEMMA CreateStreamProper ==
  ASSUME NEW s, Ready(s)
  PROVE  Proper(s, CreateStream(s))
<1> DEFINE x == Thing("stream", s.current, None)
<1>1. s.current \in Databases
  BY DEF Ready, Tidy, Sessions
<1>2. x \in AllThings /\ x.kind = "stream" /\ x.on = s.current
  BY <1>1, ThingType DEF Kinds
<1> HIDE DEF x
<1>3. Proper(s, Outcome(s, things \cup {x}, None))
  BY <1>2, AddsProper DEF Ready, Tidy, Exists, ExistsIn, Has, HasIn
<1> QED
  BY <1>3 DEF CreateStream, x

(* A handler that only asks: it leaves everything as it is. *)
LEMMA AsksProper ==
  ASSUME NEW s, Ready(s), NEW t, Tidy(t), t.current = s.current, NEW question \in Asks,
         Settled(s) => OneAsked(t, question)
  PROVE  Proper(s, Outcome(t, things, question))
BY DEF Proper, Good, Spares, Outcome, Ready, Exists, ExistsIn, Has, HasIn

LEMMA DesignSchemaProper ==
  ASSUME NEW s, Ready(s), NEW m \in Messages, NEW role
  PROVE  Proper(s, DesignSchema(s, m, role))
<1> DEFINE on == PlannedFor(m, s.current)
           t == [s EXCEPT !.design = on]
<1>1. on \in Databases
  BY MessageType DEF PlannedFor, Ready, Tidy, Sessions, Databases
<1>2. Tidy(t) /\ t.current = s.current /\ t.design = on /\ t.drop = s.drop /\ t.pdelete = s.pdelete
  BY <1>1 DEF Ready, Tidy, Sessions
<1>3. Question("design", on) \in Asks /\ Question("design", on).kind = "design"
  BY <1>1 DEF Question, Asks
<1> HIDE DEF on, t
<1>4. Settled(s) => OneAsked(t, Question("design", on))
  BY <1>2, <1>3 DEF Settled, OneAsked, Drops
<1>5. Proper(s, Outcome(t, things, Question("design", on)))
  BY <1>2, <1>3, <1>4, AsksProper
<1>6. Proper(s, Said(s))
  BY SaidProper DEF Ready, Proper
<1> QED
  BY <1>5, <1>6 DEF DesignSchema, on, t

LEMMA DropProper ==
  ASSUME NEW s, Ready(s), NEW m \in Messages, m.about \in Drops, NEW role
  PROVE  Proper(s, Drop(s, m, role))
<1> DEFINE on == IF m.about = "database" THEN m.name ELSE IF m.on # None THEN m.on ELSE s.current
           question == Question(m.about, on)
           t == [s EXCEPT !.drop = question]
<1>1. on \in Databases
  BY MessageType DEF Ready, Tidy, Sessions, Databases
<1>2. /\ question \in [kind : Drops, on : Databases] /\ question \in Asks
      /\ question.kind = m.about /\ question.on = on
  BY <1>1 DEF Question, Asks, Drops, Kinds
<1>3. ASSUME ~(m.about = "database" /\ on = Default)
      PROVE  Proper(s, Outcome(t, things, question))
  <2> HIDE DEF on, question
  <2>1. Tidy(t) /\ t.current = s.current /\ t.design = s.design /\ t.drop = question /\ t.pdelete = s.pdelete
    BY <1>2, <1>3 DEF Ready, Tidy, Sessions
  <2> HIDE DEF t
  <2>2. Settled(s) => OneAsked(t, question)
    BY <1>2, <2>1 DEF Settled, OneAsked
  <2> QED
    BY <1>2, <2>1, <2>2, AsksProper
<1>4. Proper(s, Said(s))
  BY SaidProper DEF Ready, Proper
<1> QED
  BY <1>3, <1>4 DEF Drop

LEMMA DatabaseCommandProper ==
  ASSUME NEW s, Ready(s), NEW m \in Messages, DatabaseIntent(m) # None, NEW role
  PROVE  Proper(s, HandleDatabaseCommand(s, m, role))
<1> DEFINE intent == DatabaseIntent(m)
<1>1. Says(m)
  BY DatabaseIntentFits
<1>2. intent \in {"CREATE_DATABASE", "USE_DATABASE"} => m.name \in Databases
  BY <1>1, MessageType DEF Says
<1>3. intent \in {"DROP_DATABASE", "DROP_TABLE", "DROP_STREAM", "DELETE_ROW"} => m.about \in Drops
  BY <1>1 DEF Says, Drops
<1>4. /\ intent = "CREATE_DATABASE" => Proper(s, CreateDatabase(s, m, role))
      /\ intent = "USE_DATABASE" => Proper(s, UseDatabase(s, m))
  BY <1>2, CreateDatabaseProper, UseDatabaseProper
<1>5. /\ Proper(s, CreateTable(s, role)) /\ Proper(s, Insert(s)) /\ Proper(s, CreateStream(s))
      /\ Proper(s, DesignSchema(s, m, role))
  BY CreateTableProper, InsertProper, CreateStreamProper, DesignSchemaProper
<1>6. intent \in {"DROP_DATABASE", "DROP_TABLE", "DROP_STREAM", "DELETE_ROW"} => Proper(s, Drop(s, m, role))
  BY <1>3, DropProper
<1>7. Proper(s, Said(s))
  BY SaidProper DEF Ready, Proper
<1> HIDE DEF intent
<1> QED
  BY <1>4, <1>5, <1>6, <1>7 DEF HandleDatabaseCommand, intent

LEMMA StoreProper ==
  ASSUME NEW s, Ready(s)
  PROVE  Proper(s, Store(s))
<1> DEFINE x == Thing("object", s.current, None)
           t == [s EXCEPT !.last = s.current]
<1>1. s.current \in Databases
  BY DEF Ready, Tidy, Sessions
<1>2. x \in AllThings /\ x.kind = "object" /\ x.on = s.current
  BY <1>1, ThingType DEF Kinds
<1>3. Tidy(t) /\ t.current = s.current /\ (Settled(s) => Settled(t))
  BY DEF Ready, Tidy, Sessions, Settled
<1>4. t \in Sessions
  BY <1>3 DEF Tidy
<1> HIDE DEF x, t
<1>5. Proper(s, Outcome(t, things \cup {x}, None))
  BY <1>2, <1>3, <1>4, AddsProper DEF Ready, Exists, ExistsIn, Has, HasIn
<1>6. Proper(s, Said(s))
  BY SaidProper DEF Ready, Proper
<1> QED
  BY <1>5, <1>6 DEF Store, x, t

LEMMA StorageCommandProper ==
  ASSUME NEW s, Ready(s), NEW m
  PROVE  Proper(s, HandleStorageCommand(s, m))
<1> DEFINE ref == Referent(m, s.last)
<1>1. Proper(s, Store(s))
  BY StoreProper
<1>2. Proper(s, Said(s))
  BY SaidProper DEF Ready, Proper
<1>3. s.current \in Databases
  BY DEF Ready, Tidy, Sessions
<1>4. ASSUME Found(s, ref)
      PROVE  Proper(s, Said([s EXCEPT !.last = ref]))
  <2> DEFINE t == [s EXCEPT !.last = ref]
  <2>1. Tidy(t) /\ t.current = s.current /\ (Settled(s) => Settled(t))
    BY <1>4 DEF Found, Ready, Tidy, Sessions, Settled
  <2> HIDE DEF t
  <2>2. Proper(s, Said(t))
    BY <2>1, SaidProper DEF Ready, Proper
  <2> QED
    BY <2>2 DEF t
<1>5. ASSUME Found(s, ref)
      PROVE  Proper(s, Outcome([s EXCEPT !.pdelete = ref], things, Question("object", ref)))
  <2> DEFINE t == [s EXCEPT !.pdelete = ref]
             question == Question("object", ref)
  <2>1. Tidy(t) /\ t.current = s.current /\ t.design = s.design /\ t.drop = s.drop
    BY <1>5 DEF Found, Ready, Tidy, Sessions
  <2>2. question \in Asks /\ question.kind = "object"
    BY <1>3, <1>5 DEF Found, Question, Asks, Kinds
  <2> HIDE DEF t, question
  <2>3. Settled(s) => OneAsked(t, question)
    BY <2>1, <2>2 DEF Settled, OneAsked, Drops
  <2>4. Proper(s, Outcome(t, things, question))
    BY <2>1, <2>2, <2>3, AsksProper
  <2> QED
    BY <2>4 DEF t, question
<1> QED
  BY <1>1, <1>2, <1>4, <1>5 DEF HandleStorageCommand

(* A handler that deletes what is no table, row, stream or database. *)
LEMMA TakesProper ==
  ASSUME NEW s, Ready(s), NEW t, Tidy(t), t.current = s.current, Settled(s) => Settled(t),
         NEW kind \in {"object", "merchant"}, NEW on
  PROVE  Proper(s, Outcome(t, things \ Covers(Question(kind, on)), None))
<1> DEFINE rest == things \ Covers(Question(kind, on))
           o == Outcome(t, rest, None)
<1>1. o.session = t /\ o.things = rest /\ o.asked = None
  BY DEF Outcome
<1>2. Closed(rest) /\ ExistsIn(rest, t.current)
  BY RestClosed DEF Ready
<1>3. \A thing \in things \ rest : thing.kind = kind
  BY DEF Covers, Question
<1>4. rest \subseteq things
  OBVIOUS
<1> HIDE DEF rest, o
<1>5. Good(o)
  BY <1>1, <1>2, <1>4 DEF Good, Asks
<1>6. Spares(o) /\ (Settled(s) => OneAsked(o.session, o.asked))
  BY <1>1, <1>3 DEF Spares, Drops, OneAsked, Settled
<1> QED
  BY <1>5, <1>6 DEF Proper, o, rest

(* The answer to "delete this object?": whatever it is, the question is    *)
(* answered.                                                               *)
Answered(s) == [s EXCEPT !.pdelete = None]

LEMMA AnsweredReady ==
  ASSUME NEW s, Ready(s)
  PROVE  /\ Ready(Answered(s)) /\ Answered(s).current = s.current
         /\ s.design = None /\ s.drop = None => Settled(Answered(s))
         /\ s.pdelete = None => Answered(s) = s
BY DEF Answered, Ready, Tidy, Sessions, Settled

LEMMA ResolveDeleteProper ==
  ASSUME NEW s, Ready(s), NEW word
  PROVE  Proper(Answered(s), ResolveDelete(s, word))
<1> DEFINE done == Answered(s)
           t == [done EXCEPT !.last = IF @ = s.pdelete THEN None ELSE @]
           on == s.pdelete
<1>1. Ready(done)
  BY AnsweredReady
<1>2. Proper(done, Said(done))
  BY <1>1, SaidProper DEF Ready, Proper
<1>3. Tidy(t) /\ t.current = done.current /\ (Settled(done) => Settled(t))
  BY <1>1 DEF Ready, Tidy, Sessions, Settled
<1> HIDE DEF t, done, on
<1>4. Proper(done, Outcome(t, things \ Covers(Question("object", on)), None))
  BY <1>1, <1>3, TakesProper
<1> QED
  BY <1>2, <1>4 DEF ResolveDelete, Answered, t, done, on

LEMMA ResolveConfirmationProper ==
  ASSUME NEW s, Ready(s), NEW word
  PROVE  Proper(s, ResolveConfirmation(s, word))
<1> DEFINE done == [s EXCEPT !.confirm = None]
<1>1. Tidy(done) /\ done.current = s.current /\ (Settled(s) => Settled(done))
  BY DEF Ready, Tidy, Sessions, Settled
<1> HIDE DEF done
<1>2. Proper(s, Said(done))
  BY <1>1, SaidProper DEF Ready, Proper
<1>3. Proper(s, Outcome(done, things \ Covers(TheMerchant), None))
  BY <1>1, TakesProper DEF TheMerchant
<1> QED
  BY <1>2, <1>3 DEF ResolveConfirmation, done

LEMMA MerchantIntentFits ==
  ASSUME NEW m \in Messages, MerchantIntent(m) = "DELETE"
  PROVE  m.name \in {"abc", "delete"}
<1>1. CASE m.about = "reply"
  BY <1>1 DEF MerchantIntent, BareIntent
<1>2. CASE m.about # "reply"
  <2>1. FirstFit(Intents, m) # None /\ FirstFit(Intents, m) = "DELETE"
    BY <1>2 DEF MerchantIntent
  <2>2. PICK i \in 1..Len(Intents) : Fits(Intents[i], m) /\ Intents[i].intent = "DELETE"
    <3>1. Len(Intents) \in Nat
      BY DEF Intents
    <3> QED
      BY <2>1, <3>1, FirstFitFits
  <2>3. m.verb \in {"delete", "remove"} /\ m.about \in {"merchant", "merchants", "text", "reply"}
    BY <2>2 DEF Intents, Pattern, Fits
  <2> QED
    BY <1>2, <2>3, MessageType
<1> QED
  BY <1>1, <1>2

LEMMA MerchantsProper ==
  ASSUME NEW s, Ready(s), NEW m \in Messages, NEW word
  PROVE  Proper(s, Merchants(s, m, word))
<1>1. Proper(s, ResolveConfirmation(s, word)) /\ Proper(s, Said(s))
  BY ResolveConfirmationProper, SaidProper DEF Ready, Proper
<1>2. ASSUME s.confirm = None, NEW waits \in BOOLEAN
      PROVE  Proper(s, Said([s EXCEPT !.which = waits]))
  <2> DEFINE t == [s EXCEPT !.which = waits]
  <2>1. Tidy(t) /\ t.current = s.current /\ (Settled(s) => Settled(t))
    BY <1>2 DEF Ready, Tidy, Sessions, Settled
  <2> HIDE DEF t
  <2>2. Proper(s, Said(t))
    BY <2>1, SaidProper DEF Ready, Proper
  <2> QED
    BY <2>2 DEF t
<1>3. Proper(s, Outcome(s, things \cup {Thing("merchant", Default, None)}, None))
  <2>1. /\ Thing("merchant", Default, None) \in AllThings
        /\ Thing("merchant", Default, None).kind = "merchant"
        /\ Thing("merchant", Default, None).on = Default
    BY ThingType DEF Kinds, Databases
  <2> QED
    BY <2>1, AddsProper DEF Ready, Tidy, ExistsIn
<1>4. ASSUME MerchantIntent(m) = "DELETE", ~s.which
      PROVE  Proper(s, Outcome([s EXCEPT !.confirm = m.name], things, TheMerchant))
  <2> DEFINE t == [s EXCEPT !.confirm = m.name]
  <2>1. m.name \in {"abc", "delete"}
    BY <1>4, MerchantIntentFits
  <2>2. /\ Tidy(t) /\ t.current = s.current
        /\ t.design = s.design /\ t.drop = s.drop /\ t.pdelete = s.pdelete
    BY <1>4, <2>1 DEF Ready, Tidy, Sessions
  <2>3. TheMerchant \in Asks /\ TheMerchant.kind = "merchant"
    BY DEF TheMerchant, Question, Asks, Kinds, Databases
  <2> HIDE DEF t
  <2>4. Proper(s, Outcome(t, things, TheMerchant))
    BY <2>2, <2>3, AsksProper DEF Settled, OneAsked, Drops
  <2> QED
    BY <2>4 DEF t
<1>5. s.which \in BOOLEAN
  BY DEF Ready, Tidy, Sessions
<1>6. CASE s.confirm # None
  BY <1>1, <1>6 DEF Merchants
<1>7. CASE s.confirm = None /\ s.which
  <2>1. Proper(s, ContinueClarification(s, word))
    BY <1>2, <1>7 DEF ContinueClarification
  <2> QED
    BY <1>7, <2>1 DEF Merchants
<1>8. CASE s.confirm = None /\ ~s.which
  <2>1. Ambiguous(Fields(m)) \in BOOLEAN
    BY DEF Ambiguous
  <2>2. Proper(s, Said([s EXCEPT !.which = Ambiguous(Fields(m))]))
    BY <1>2, <1>8, <2>1
  <2> QED
    BY <1>1, <1>3, <1>4, <1>8, <2>2 DEF Merchants
<1> QED
  BY <1>5, <1>6, <1>7, <1>8

(* Every part of a turn. *)
LEMMA ProcessTurnProper ==
  ASSUME NEW s, Ready(s), NEW m \in Messages, NEW role
  PROVE  Proper(Answered(s), ProcessTurn(s, m, role))
<1>1. CASE s.pdelete # None
  BY <1>1, ResolveDeleteProper DEF ProcessTurn
<1>2. CASE s.pdelete = None
  <2>1. DatabaseIntent(m) # None => Proper(s, HandleDatabaseCommand(s, m, role))
    BY DatabaseCommandProper
  <2>2. Proper(s, HandleStorageCommand(s, m)) /\ Proper(s, Merchants(s, m, Word(m)))
    BY StorageCommandProper, MerchantsProper
  <2>3. Answered(s) = s
    BY <1>2, AnsweredReady
  <2> QED
    BY <1>2, <2>1, <2>2, <2>3 DEF ProcessTurn
<1> QED
  BY <1>1, <1>2

-----------------------------------------------------------------------------
(* A whole turn of the chat.  Right says of what it destroys that the      *)
(* question of the last reply was about it and answered rightly, Honoured  *)
(* that such an answer does destroy it.                                    *)

Right(o, question, word, role) ==
  \A thing \in things \ o.things : thing.kind \in Drops =>
    /\ question # None /\ thing \in Covers(question)
    /\ RightWord(question, word)
    /\ Allowed(role, Needed(question.kind))
Honoured(o, question, word, role) ==
  (/\ question # None /\ question.kind \in Drops
   /\ RightWord(question, word)
   /\ Allowed(role, Needed(question.kind))) => Covers(question) \cap o.things = {}
Asked(o) == Good(o) /\ OneAsked(o.session, o.asked)

LEMMA ApplyDesignRight ==
  ASSUME NEW s, Ready(s), NEW question, OneAsked(s, question), s.design # None, NEW role
  PROVE  Asked(ApplyDesign(s, role)) /\ Spares(ApplyDesign(s, role))
<1> DEFINE on == s.design
           done == [s EXCEPT !.design = None]
           home == IF Exists(on) THEN done ELSE SwitchTo(done, on)
           o == Outcome(home, Imported(on), None)
<1>1. on \in Databases /\ s.current \in Databases
  BY DEF Ready, Tidy, Sessions
<1>2. Tidy(done) /\ Settled(done) /\ done.current = s.current
  BY DoneTidy DEF Ready, Tidy, Sessions, OneAsked, Settled
<1>3. Proper(done, Said(done))
  BY <1>2, SaidProper DEF Ready, Proper
<1>4. ASSUME Prepared(on)
      PROVE  Good(o) /\ Spares(o) /\ OneAsked(o.session, o.asked)
  <2>1. o.session = home /\ o.things = Imported(on) /\ o.asked = None
    BY DEF Outcome
  <2> HIDE DEF o, done
  <2>2. Tidy(home) /\ Settled(home) /\ home.current = IF Exists(on) THEN s.current ELSE on
    BY <1>1, <1>2, SwitchTidy
  <2> HIDE DEF home, on
  <2>3. Closed(Imported(on)) /\ ExistsIn(Imported(on), home.current)
    BY <1>1, <2>2, ImportedClosed DEF Ready
  <2>4. things \subseteq Imported(on)
    BY <1>4 DEF Prepared, Imported, WithTable, Has
  <2>5. Imported(on) \subseteq things \cup {Thing("table", on, "session"), Thing("database", on, None)}
    BY DEF Imported, WithTable
  <2>6. Good(o)
    BY <2>1, <2>2, <2>3, <2>5 DEF Good, Asks
  <2> QED
    BY <2>1, <2>2, <2>4, <2>6 DEF Spares, Settled, OneAsked
<1> HIDE DEF o
<1>5. Asked(Said(done)) /\ Spares(Said(done))
  BY <1>2, <1>3 DEF Proper, Asked
<1> QED
  BY <1>4, <1>5 DEF ApplyDesign, Asked, o, home

(* What a proposed deletion covers is there as long as its head is. *)
LEMMA NothingToDrop ==
  ASSUME Closed(things), NEW kind \in Drops, NEW on, kind = "database" => on # Default, ~Has(kind, on)
  PROVE  Covers(Question(kind, on)) = {}
BY DEF Closed, Drops, Covers, Question, Has, ExistsIn, HasIn

LEMMA ApplyDropRight ==
  ASSUME NEW s, Ready(s), NEW question, OneAsked(s, question), s.drop # None, NEW role
  PROVE  /\ Asked(ApplyDrop(s, role))
         /\ things \ ApplyDrop(s, role).things \subseteq Covers(question)
         /\ ~Allowed(role, Needed(question.kind)) => ApplyDrop(s, role).things = things
         /\ Allowed(role, Needed(question.kind)) => Covers(question) \cap ApplyDrop(s, role).things = {}
<1> DEFINE on == s.drop.on
           kind == s.drop.kind
           done == [s EXCEPT !.drop = None]
           home == IF kind = "database" /\ s.current = on THEN SwitchTo(done, Default) ELSE done
           rest == things \ Covers(s.drop)
           o == Outcome(home, rest, None)
<1>1. /\ on \in Databases /\ kind \in Drops /\ s.current \in Databases
      /\ kind = "database" => on # Default
      /\ s.drop = Question(kind, on) /\ question = s.drop
  BY DEF Ready, Tidy, Sessions, OneAsked, Question
<1>2. Tidy(done) /\ Settled(done) /\ done.current = s.current
  BY DoneTidy DEF Ready, Tidy, Sessions, OneAsked, Settled
<1>3. Asked(Said(done)) /\ Said(done).things = things
  <2>1. Good(Said(done)) /\ OneAsked(done, None) /\ Said(done).session = done
        /\ Said(done).things = things /\ Said(done).asked = None
    BY <1>2, SaidProper DEF Ready
  <2> QED
    BY <2>1 DEF Asked
<1>4. Asked(o) /\ o.things = rest
  <2>1. o.session = home /\ o.things = rest /\ o.asked = None
    BY DEF Outcome
  <2>2. Tidy(home) /\ Settled(home)
        /\ home.current = IF kind = "database" /\ s.current = on THEN Default ELSE s.current
    BY <1>1, <1>2, SwitchTidy DEF Databases
  <2>3. Closed(rest)
    BY <1>1, RestClosed DEF Ready
  <2>4. ExistsIn(rest, home.current)
    <3>1. CASE kind = "database" /\ s.current = on
      BY <2>2, <3>1 DEF ExistsIn
    <3>2. CASE ~(kind = "database" /\ s.current = on)
      BY <1>1, <2>2, <3>2, RestClosed DEF Ready
    <3> QED
      BY <3>1, <3>2
  <2>5. rest \subseteq things
    OBVIOUS
  <2> HIDE DEF home, rest, o
  <2>6. Good(o)
    BY <2>1, <2>2, <2>3, <2>4, <2>5 DEF Good, Asks
  <2> QED
    BY <2>1, <2>2, <2>6 DEF Asked, Settled, OneAsked
<1>5. ~Has(kind, on) => Covers(question) = {}
  BY <1>1, NothingToDrop DEF Ready
<1>6. ApplyDrop(s, role) = IF Allowed(role, Needed(kind)) /\ Has(kind, on) THEN o ELSE Said(done)
  BY DEF ApplyDrop
<1>7. CASE Allowed(role, Needed(kind)) /\ Has(kind, on)
  <2>1. ApplyDrop(s, role) = o
    BY <1>6, <1>7
  <2>2. o.things = things \ Covers(question)
    BY <1>1, <1>4
  <2> HIDE DEF o
  <2> QED
    BY <1>1, <1>4, <1>7, <2>1, <2>2
<1>8. CASE ~(Allowed(role, Needed(kind)) /\ Has(kind, on))
  <2>1. ApplyDrop(s, role) = Said(done)
    BY <1>6, <1>8
  <2> HIDE DEF done
  <2> QED
    BY <1>1, <1>3, <1>5, <1>8, <2>1
<1> QED
  BY <1>7, <1>8

LEMMA RepliedRight ==
  ASSUME NEW s, Ready(s), NEW question, OneAsked(s, question), NEW m \in Messages, NEW role
  PROVE  /\ Asked(Replied(s, m, role))
         /\ Right(Replied(s, m, role), question, Word(m), role)
         /\ Honoured(Replied(s, m, role), question, Word(m), role)
<1> DEFINE word == Word(m)
           quiet == Quiet(s)
<1>1. /\ question # None /\ question.kind \in Drops => s.drop = question
      /\ s.drop # None => question = s.drop /\ s.design = None
      /\ s.design # None => question.kind = "design"
  BY DEF OneAsked, Question
<1>2. s.drop # None => (Confirmed(s, word) <=> RightWord(question, word))
  BY <1>1 DEF Confirmed, RightWord
<1>3. Ready(quiet) /\ Settled(Answered(quiet))
  <2>1. Tidy(quiet) /\ quiet.current = s.current /\ quiet.design = None /\ quiet.drop = None
    BY DoneTidy DEF Quiet, Ready, Tidy, Sessions
  <2> HIDE DEF quiet
  <2> QED
    BY <2>1, AnsweredReady DEF Ready
<1> HIDE DEF quiet
<1>4. CASE s.design # None /\ word \in YesWords
  <2>1. Replied(s, m, role) = ApplyDesign(s, role)
    BY <1>4 DEF Replied
  <2>2. Asked(ApplyDesign(s, role)) /\ Spares(ApplyDesign(s, role))
    BY <1>4, ApplyDesignRight
  <2> QED
    BY <1>1, <1>4, <2>1, <2>2 DEF Spares, Right, Honoured
<1>5. CASE s.design = None /\ s.drop # None /\ Confirmed(s, word)
  <2>1. Replied(s, m, role) = ApplyDrop(s, role)
    BY <1>5 DEF Replied
  <2>2. /\ Asked(ApplyDrop(s, role))
        /\ things \ ApplyDrop(s, role).things \subseteq Covers(question)
        /\ ~Allowed(role, Needed(question.kind)) => ApplyDrop(s, role).things = things
        /\ Allowed(role, Needed(question.kind)) => Covers(question) \cap ApplyDrop(s, role).things = {}
    BY <1>5, ApplyDropRight
  <2> QED
    BY <1>1, <1>2, <1>5, <2>1, <2>2 DEF Right, Honoured
<1>6. CASE ~(s.design # None /\ word \in YesWords) /\ ~(s.design = None /\ s.drop # None /\ Confirmed(s, word))
  <2> DEFINE o == Replied(s, m, role)
  <2>1. o = Said(quiet) \/ o = ProcessTurn(quiet, m, role)
    BY <1>6 DEF Replied, quiet
  <2>2. Asked(ProcessTurn(quiet, m, role)) /\ Spares(ProcessTurn(quiet, m, role))
    BY <1>3, ProcessTurnProper DEF Proper, Asked
  <2>3. Asked(Said(quiet)) /\ Spares(Said(quiet))
    <3>1. /\ Good(Said(quiet)) /\ Spares(Said(quiet))
          /\ Said(quiet).session = quiet /\ Said(quiet).asked = None
      BY <1>3, SaidProper DEF Ready
    <3>2. OneAsked(quiet, None)
      BY DEF quiet, Quiet, OneAsked, Ready, Tidy, Sessions
    <3> QED
      BY <3>1, <3>2 DEF Asked
  <2>4. Asked(o) /\ Spares(o)
    BY <2>1, <2>2, <2>3
  <2> HIDE DEF o
  <2>5. Right(o, question, word, role)
    BY <2>4 DEF Spares, Right
  <2>6. Honoured(o, question, word, role)
    BY <1>1, <1>2, <1>6 DEF Honoured
  <2> QED
    BY <2>4, <2>5, <2>6 DEF o
<1> QED
  BY <1>4, <1>5, <1>6

(* What the session is in when the turn begins. *)
LEMMA OpenedReady ==
  ASSUME Closed(things), Tidy(session), NEW question, OneAsked(session, question)
  PROVE  Ready(Opened) /\ OneAsked(Opened, question)
<1>1. /\ Tidy(SwitchTo(session, Default)) /\ SwitchTo(session, Default).current = Default
      /\ SwitchTo(session, Default).design = session.design
      /\ SwitchTo(session, Default).drop = session.drop
      /\ SwitchTo(session, Default).pdelete = None
  BY SwitchTidy DEF Databases
<1> QED
  BY <1>1 DEF Opened, Ready, Exists, OneAsked

LEMMA FreshTidy ==
  Tidy(Fresh) /\ Fresh.current = Default /\ Settled(Fresh)
BY DefaultAssumption DEF Fresh, Tidy, Sessions, Settled, Databases

LEMMA HandledRight ==
  ASSUME NEW question, Closed(things), Tidy(session), OneAsked(session, question), NEW m \in Messages, NEW role
  PROVE  /\ Asked(Handled(m, role))
         /\ Right(Handled(m, role), question, Word(m), role)
         /\ "cancel" \notin Names => Honoured(Handled(m, role), question, Word(m), role)
<1> DEFINE s == Opened
           word == Word(m)
           o == Handled(m, role)
<1>1. Ready(s) /\ OneAsked(s, question)
  BY OpenedReady
<1> HIDE DEF s
<1>2. ASSUME NEW t, Tidy(t), Settled(t), Exists(t.current)
      PROVE  Asked(Said(t)) /\ Spares(Said(t))
  BY <1>1, <1>2, SaidProper DEF Asked, Ready
<1>3. Asked(Said(Fresh)) /\ Spares(Said(Fresh))
  BY <1>2, FreshTidy DEF Exists
<1>4. Asked(Said(Cancelled(s))) /\ Spares(Said(Cancelled(s)))
  <2>1. Tidy(Cancelled(s)) /\ Settled(Cancelled(s)) /\ Cancelled(s).current = s.current
    BY <1>1 DEF Cancelled, Quiet, Ready, Tidy, Sessions, Settled
  <2> QED
    BY <1>1, <1>2, <2>1 DEF Ready
<1>5. Asked(Said(Quiet(s))) /\ Spares(Said(Quiet(s)))
  <2>1. Tidy(Quiet(s)) /\ Quiet(s).current = s.current /\ OneAsked(Quiet(s), None)
    BY <1>1, DoneTidy DEF Quiet, Ready, Tidy, Sessions, OneAsked
  <2>2. Good(Said(Quiet(s))) /\ Spares(Said(Quiet(s)))
        /\ Said(Quiet(s)).session = Quiet(s) /\ Said(Quiet(s)).asked = None
    BY <1>1, <2>1, SaidProper DEF Ready
  <2> QED
    BY <2>1, <2>2 DEF Asked
<1>6. ASSUME word \in {"", "/reset", "cancel"}, "cancel" \notin Names
      PROVE  Honoured(o, question, word, role)
  <2>1. ASSUME question # None, question.kind \in Drops
        PROVE  ~RightWord(question, word)
    <3>1. s.drop = question /\ s.drop \in [kind : Drops, on : Databases]
      BY <1>1, <2>1 DEF OneAsked, Ready, Tidy, Sessions
    <3>2. question.kind = "database" => question.on \in Names
      BY <1>1, <2>1, <3>1 DEF Ready, Tidy, Databases
    <3> QED
      BY <1>6, <3>2, NamesAssumption DEF RightWord, DeleteYes
  <2> QED
    BY <2>1 DEF Honoured
<1>7. ASSUME word \in {"", "/reset", "cancel"}
      PROVE  Asked(o) /\ Spares(o)
  BY <1>3, <1>4, <1>5, <1>7 DEF Handled, s
<1>8. CASE word \in {"", "/reset", "cancel"}
  <2>1. Right(o, question, word, role)
    BY <1>7, <1>8 DEF Spares, Right
  <2> QED
    BY <1>6, <1>7, <1>8, <2>1
<1>9. CASE word \notin {"", "/reset", "cancel"}
  <2>1. o = Replied(s, m, role)
    BY <1>9 DEF Handled, s
  <2> QED
    BY <1>1, <2>1, RepliedRight
<1> QED
  BY <1>8, <1>9

(* The command line: no question is ever about a table. *)
LEMMA ShellHandledGood ==
  ASSUME Ready(session), NEW m \in Messages
  PROVE  Good(ShellHandled(m)) /\ Spares(ShellHandled(m))
<1>1. Good(Said(session)) /\ Spares(Said(session))
  BY SaidProper DEF Ready
<1>2. Good(Said(Fresh)) /\ Spares(Said(Fresh))
  BY FreshTidy, SaidProper DEF Ready, Exists
<1>3. Good(ProcessTurn(session, m, None)) /\ Spares(ProcessTurn(session, m, None))
  BY ProcessTurnProper DEF Proper
<1> QED
  BY <1>1, <1>2, <1>3 DEF ShellHandled

-----------------------------------------------------------------------------
(* The inductive invariant: what exists hangs together, the session is     *)
(* tidy; on the command line it is always in a database that exists, in    *)
(* the chat the question that waits is the one in the reply to the last    *)
(* message.                                                                *)

IInv ==
  /\ TypeOK
  /\ Closed(things)
  /\ Tidy(session)
  /\ front = "shell" => Exists(session.current)
  /\ front = "chat" => OneAsked(session, Waiting)
  /\ asked # None => behind = None

Words == Replies \cup {"delete it", "other"}

LEMMA WordType ==
  ASSUME NEW m \in Messages
  PROVE  Word(m) \in Words
BY MessageType DEF Word, Words

(* The bookkeeping of a step that makes at most two things. *)
LEMMA CountedType ==
  ASSUME made \in 0..MaxMade, NEW a, NEW b, things' \subseteq things \cup {a, b}, Counted
  PROVE  made' \in 0..MaxMade
<1>1. IsFiniteSet({a, b})
  <2>1. IsFiniteSet({} \cup {a})
    BY FS_EmptySet, FS_AddElement
  <2>2. IsFiniteSet(({} \cup {a}) \cup {b})
    BY <2>1, FS_AddElement
  <2>3. {a, b} = ({} \cup {a}) \cup {b}
    OBVIOUS
  <2> QED
    BY <2>2, <2>3
<1>2. Cardinality(New) \in Nat
  BY <1>1, FS_Subset, FS_CardinalityType DEF New
<1> QED
  BY <1>2, BoundAssumption DEF Counted

(* A turn, whatever handler it went to. *)
LEMMA TurnKeeps ==
  ASSUME IInv, NEW o, Good(o), front = "chat" => OneAsked(o.session, o.asked),
         NEW word \in Words, NEW role \in Roles \cup {None}, Turned(o, word, role)
  PROVE  IInv' /\ Exists(session.current)'
<1>1. /\ things' = o.things /\ session' = o.session /\ asked' = o.asked /\ front' = front
      /\ Counted /\ behind' = None
      /\ answer' = IF Waiting = None THEN None ELSE [word |-> word, role |-> role]
  BY DEF Turned
<1>2. PICK a, b : things' \subseteq things \cup {a, b}
  BY <1>1 DEF Good
<1>3. made' \in 0..MaxMade
  BY <1>1, <1>2, CountedType DEF IInv, TypeOK
<1>4. Closed(things)' /\ Tidy(session)' /\ Exists(session.current)'
  BY <1>1 DEF Good, Closed, Tidy, Exists, Has, ExistsIn, HasIn
<1>5. (front = "chat" => OneAsked(session, Waiting))' /\ (asked # None => behind = None)'
  BY <1>1 DEF OneAsked, Waiting
<1>6. answer' \in [word : Words, role : Roles \cup {None}] \cup {None, Elsewhere}
  BY <1>1
<1>7. TypeOK'
  BY <1>1, <1>3, <1>4, <1>6 DEF IInv, TypeOK, Good, Tidy, Sessions, Asks, Closed, Words
<1> QED
  BY <1>4, <1>5, <1>7 DEF IInv

LEMMA ChatKeeps ==
  ASSUME IInv, NEW m \in Messages, NEW role \in Roles, Chat(m, role)
  PROVE  /\ IInv' /\ Exists(session.current)'
         /\ \E o : /\ Turned(o, Word(m), role)
                   /\ Right(o, Waiting, Word(m), role)
                   /\ "cancel" \notin Names => Honoured(o, Waiting, Word(m), role)
<1>1. PICK o : o = Handled(m, role)
  OBVIOUS
<1>2. Turned(o, Word(m), role) /\ front = "chat"
  BY <1>1 DEF Chat
<1>3. /\ Asked(o)
      /\ Right(o, Waiting, Word(m), role)
      /\ "cancel" \notin Names => Honoured(o, Waiting, Word(m), role)
  BY <1>1, <1>2, HandledRight DEF IInv
<1>4. IInv' /\ Exists(session.current)'
  BY <1>2, <1>3, WordType, TurnKeeps DEF Asked
<1> QED
  BY <1>2, <1>3, <1>4

LEMMA ShellKeeps ==
  ASSUME IInv, NEW m \in Messages, Shell(m)
  PROVE  IInv' /\ Exists(session.current)' /\ \A thing \in Lost : thing.kind \notin Drops
<1>1. PICK o : o = ShellHandled(m)
  OBVIOUS
<1>2. Turned(o, Word(m), None) /\ front = "shell"
  BY <1>1 DEF Shell
<1>3. Good(o) /\ Spares(o)
  BY <1>1, <1>2, ShellHandledGood DEF IInv, Ready
<1>4. IInv' /\ Exists(session.current)'
  BY <1>2, <1>3, WordType, TurnKeeps
<1>5. \A thing \in Lost : thing.kind \notin Drops
  BY <1>2, <1>3 DEF Turned, Spares, Lost
<1> QED
  BY <1>4, <1>5

LEMMA AttachKeeps ==
  ASSUME IInv, NEW on \in Databases, NEW role \in Roles, Attach(on, role)
  PROVE  /\ IInv' /\ things \subseteq things'
         /\ Exists(session.current)'
            \/ (session' = session /\ New # {} /\ \A thing \in New : thing.on # session.current)
<1>1. /\ Prepared(on) /\ things' = Imported(on)
      /\ session' = IF Exists(on) THEN session ELSE SwitchTo(session, on)
      /\ answer' = None /\ Counted /\ front = "chat" /\ front' = front
      /\ asked' = None /\ behind' = Waiting
  BY DEF Attach
<1>2. Closed(things') /\ ExistsIn(things', on) /\ (\A db : Exists(db) => ExistsIn(things', db))
  BY <1>1, ImportedClosed DEF IInv
<1>3. things' \subseteq things \cup {Thing("table", on, "session"), Thing("database", on, None)}
  BY <1>1 DEF Imported, WithTable
<1>4. things \subseteq things' /\ Thing("table", on, "session") \in New
  <2>1. Thing("table", on, "session").kind = "table" /\ Thing("table", on, "session").on = on
    BY DEF Thing
  <2> QED
    BY <1>1, <2>1 DEF Imported, WithTable, Prepared, Has, New
<1>5. made' \in 0..MaxMade
  BY <1>1, <1>3, CountedType DEF IInv, TypeOK
<1>6. /\ Tidy(session') /\ session'.design = session.design /\ session'.drop = session.drop
      /\ session'.pdelete \in {None, session.pdelete}
  BY <1>1, SwitchTidy DEF IInv
<1>7. OneAsked(session', Waiting') /\ Waiting \in Asks
  BY <1>1, <1>6 DEF IInv, TypeOK, OneAsked, Waiting, Asks
<1>8. TypeOK'
  BY <1>1, <1>2, <1>5, <1>6, <1>7 DEF IInv, TypeOK, Tidy, Sessions, Closed, Asks
<1>9. IInv'
  BY <1>1, <1>2, <1>6, <1>7, <1>8 DEF IInv, Closed, Tidy, OneAsked
<1>10. Exists(session.current)'
       \/ (session' = session /\ New # {} /\ \A thing \in New : thing.on # session.current)
  <2>1. CASE Exists(on) /\ on = session.current
    BY <1>1, <1>2, <2>1 DEF Exists, Has, ExistsIn, HasIn
  <2>2. CASE Exists(on) /\ on # session.current
    <3>1. \A thing \in New : thing.on = on
      BY <1>3 DEF New, Thing
    <3> QED
      BY <1>1, <1>4, <2>2, <3>1
  <2>3. CASE ~Exists(on)
    <3>1. session'.current = on
      BY <1>1, <2>3, SwitchTidy DEF IInv
    <3> QED
      BY <1>2, <3>1 DEF Exists, Has, ExistsIn, HasIn
  <2> QED
    BY <2>1, <2>2, <2>3
<1> QED
  BY <1>4, <1>9, <1>10

LEMMA OthersKeep ==
  ASSUME IInv, NEW kind \in Kinds, NEW on \in Databases, Others(kind, on)
  PROVE  IInv' /\ answer' = Elsewhere
<1>1. /\ OthersMake(kind, on) \/ OthersRemove(kind, on)
      /\ answer' = Elsewhere /\ Counted /\ front = "chat"
      /\ front' = front /\ session' = session /\ asked' = asked /\ behind' = behind
  BY DEF Others
<1>2. Closed(things') /\ \E a, b : things' \subseteq things \cup {a, b}
  <2>1. CASE OthersMake(kind, on)
    <3> DEFINE x == Thing(kind, on, "others")
    <3>1. x \in AllThings /\ x.kind = kind /\ x.on = on
      BY ThingType
    <3> HIDE DEF x
    <3>2. things' = things \cup {x}
      BY <2>1 DEF OthersMake, x
    <3>3. Closed(things \cup {x})
      BY <2>1, <3>1, OneMore DEF IInv, OthersMake, Exists, ExistsIn, Has, HasIn
    <3> QED
      BY <3>2, <3>3
  <2>2. CASE OthersRemove(kind, on)
    BY <2>2, RestClosed DEF IInv, OthersRemove
  <2> QED
    BY <1>1, <2>1, <2>2
<1>3. made' \in 0..MaxMade
  BY <1>1, <1>2, CountedType DEF IInv, TypeOK
<1>4. TypeOK'
  BY <1>1, <1>2, <1>3 DEF IInv, TypeOK, Closed
<1>5. Closed(things)' /\ Tidy(session)' /\ (front = "chat" => OneAsked(session, Waiting))'
  BY <1>1, <1>2 DEF IInv, Closed, Tidy, OneAsked, Waiting
<1> QED
  BY <1>1, <1>4, <1>5 DEF IInv

LEMMA InitIInv == Init => IInv
<1> SUFFICES ASSUME Init PROVE IInv
  OBVIOUS
<1>1. Tidy(session) /\ Settled(session) /\ session.current = Default
  BY FreshTidy DEF Init
<1>2. TypeOK
  BY <1>1, BoundAssumption DEF Init, TypeOK, Tidy, Sessions
<1>3. Closed(things) /\ Exists(session.current)
  BY <1>1 DEF Init, Closed, Exists
<1> QED
  BY <1>1, <1>2, <1>3 DEF IInv, Init, Settled, OneAsked, Waiting

LEMMA NextIInv == IInv /\ [Next]_vars => IInv'
<1> SUFFICES ASSUME IInv, [Next]_vars PROVE IInv'
  OBVIOUS
<1>1. ASSUME NEW m \in Messages, NEW role \in Roles, Chat(m, role)
      PROVE  IInv'
  BY <1>1, ChatKeeps
<1>2. ASSUME NEW m \in Messages, Shell(m)
      PROVE  IInv'
  BY <1>2, ShellKeeps
<1>3. ASSUME NEW on \in Databases, NEW role \in Roles, Attach(on, role)
      PROVE  IInv'
  BY <1>3, AttachKeeps
<1>4. ASSUME NEW kind \in Kinds, NEW on \in Databases, Others(kind, on)
      PROVE  IInv'
  BY <1>4, OthersKeep
<1>5. CASE UNCHANGED vars
  <2>1. /\ front' = front /\ things' = things /\ made' = made
        /\ session' = session /\ asked' = asked /\ behind' = behind /\ answer' = answer
    BY <1>5 DEF vars
  <2>2. TypeOK'
    <3> DEFINE Session == session \in [current : Databases, last : Databases \cup {None},
                 pdelete : Databases \cup {None}, design : Databases \cup {None},
                 drop : [kind : Drops, on : Databases] \cup {None},
                 confirm : {"abc", "delete", None}, which : BOOLEAN]
               Things == /\ front \in Fronts /\ things \subseteq AllThings
                          /\ made \in 0..MaxMade
               Talk == /\ {asked, behind} \subseteq [kind : Kinds \cup {"design"}, on : Databases] \cup {None}
                          /\ answer \in [word : Replies \cup {"delete it", "other"}, role : Roles \cup {None}]
                                        \cup {None, Elsewhere}
    <3>1. Session /\ Things /\ Talk
      BY DEF IInv, TypeOK
    <3>2. Session'
      BY <2>1, <3>1
    <3>3. Things'
      BY <2>1, <3>1
    <3>4. Talk'
      BY <2>1, <3>1
    <3> QED
      BY <3>2, <3>3, <3>4 DEF TypeOK
  <2>3. Closed(things)' /\ Tidy(session)' /\ (front = "chat" => OneAsked(session, Waiting))'
    BY <2>1 DEF IInv, Closed, Tidy, OneAsked, Waiting
  <2>4. (front = "shell" => Exists(session.current))'
    BY <2>1 DEF IInv, Exists, Has
  <2>5. (asked # None => behind = None)'
    BY <2>1 DEF IInv
  <2> QED
    BY <2>2, <2>3, <2>4, <2>5 DEF IInv
<1> QED
  BY <1>1, <1>2, <1>3, <1>4, <1>5 DEF Next

(* The inductive invariant holds: at every point of a session and of the  *)
(* other sessions beside it.                                               *)
THEOREM Inductive == Spec => []IInv
<1> QED
  BY InitIInv, NextIInv, PTL DEF Spec

-----------------------------------------------------------------------------
(* The properties.                                                         *)

(* Every variable of a session keeps its type: also the names a command    *)
(* takes from a message are those of databases.                            *)
THEOREM TypeCorrect == Spec => []TypeOK
<1>1. IInv => TypeOK
  BY DEF IInv
<1> QED
  BY <1>1, Inductive, PTL

(* A proposal waits no longer than until the next message: a yes finds the *)
(* question of the last reply, or the one before an attachment's reply.    *)
THEOREM QuestionsAreFresh == Spec => []QuestionsDoNotLinger
<1>1. IInv => QuestionsDoNotLinger
  BY DEF IInv, OneAsked, Waiting, QuestionsDoNotLinger
<1> QED
  BY <1>1, Inductive, PTL

(* No two questions wait at once.                                          *)
THEOREM OneAtATime == Spec => []OneQuestion
<1>1. ASSUME IInv PROVE OneQuestion
  <2>1. session.confirm # None => ~session.which
    BY <1>1 DEF IInv, Tidy
  <2>2. ASSUME front = "chat"
        PROVE  Cardinality({field \in {"design", "drop", "pdelete"} : session[field] # None}) <= 1
    <3> DEFINE waiting == {field \in {"design", "drop", "pdelete"} : session[field] # None}
    <3>1. \E x : waiting \subseteq {x}
      <4>1. /\ session.design = None \/ session.drop = None
            /\ session.pdelete = None \/ (session.design = None /\ session.drop = None)
        BY <1>1, <2>2 DEF IInv, OneAsked
      <4>2. waiting \subseteq {"design"} \/ waiting \subseteq {"drop"} \/ waiting \subseteq {"pdelete"}
        BY <4>1
      <4> QED
        BY <4>2
    <3>2. PICK x : waiting \subseteq {x}
      BY <3>1
    <3> HIDE DEF waiting
    <3>3. waiting = {} \/ waiting = {x}
      BY <3>2
    <3>4. Cardinality(waiting) <= 1
      BY <3>3, FS_EmptySet, FS_Singleton
    <3> QED
      BY <3>4 DEF waiting
  <2> QED
    BY <2>1, <2>2 DEF OneQuestion
<1> QED
  BY <1>1, Inductive, PTL

(* "It" and a pending deletion are about the current database.             *)
THEOREM ReferencesLocal == Spec => []ReferencesAreLocal
<1>1. IInv => ReferencesAreLocal
  BY DEF IInv, Tidy, ReferencesAreLocal
<1> QED
  BY <1>1, Inductive, PTL

(* Nothing with rows in it is lost to a session but by the right answer to *)
(* the question in the reply to its last message; files may have been      *)
(* attached in between.                                                    *)
THEOREM OnlyConfirmedDrops == Spec => DropsAreConfirmed
<1> DEFINE Confirms ==
      \A thing \in Lost : (answer' # Elsewhere /\ thing.kind \in Drops) =>
        /\ Waiting # None /\ thing \in Covers(Waiting)
        /\ RightWord(Waiting, answer'.word)
        /\ Allowed(answer'.role, Needed(Waiting.kind))
<1>1. ASSUME IInv, Next PROVE Confirms
  <2>1. ASSUME NEW m \in Messages, NEW role \in Roles, Chat(m, role)
        PROVE  Confirms
    <3>1. PICK o : Turned(o, Word(m), role) /\ Right(o, Waiting, Word(m), role)
      BY <1>1, <2>1, ChatKeeps
    <3>2. things' = o.things /\ (Waiting # None => answer'.word = Word(m) /\ answer'.role = role)
      BY <3>1 DEF Turned
    <3> QED
      BY <3>1, <3>2 DEF Right, Lost
  <2>2. ASSUME NEW m \in Messages, Shell(m)
        PROVE  Confirms
    BY <1>1, <2>2, ShellKeeps
  <2>3. ASSUME NEW on \in Databases, NEW role \in Roles, Attach(on, role)
        PROVE  Confirms
    BY <1>1, <2>3, AttachKeeps DEF Lost
  <2>4. ASSUME NEW kind \in Kinds, NEW on \in Databases, Others(kind, on)
        PROVE  Confirms
    BY <1>1, <2>4, OthersKeep
  <2> QED
    BY <1>1, <2>1, <2>2, <2>3, <2>4 DEF Next
<1>2. IInv /\ [Next]_vars => [Confirms]_vars
  BY <1>1
<1> QED
  BY <1>2, Inductive, PTL DEF Spec, DropsAreConfirmed

(* And the right answer does delete.  A database that is called "cancel"   *)
(* has a name that is no answer: it drops every question.                  *)
THEOREM YesDeletes == ASSUME "cancel" \notin Names PROVE Spec => YesIsHonoured
<1> DEFINE Deletes ==
      (/\ front = "chat"
       /\ answer' \notin {None, Elsewhere}
       /\ Waiting # None /\ Waiting.kind \in Drops
       /\ RightWord(Waiting, answer'.word)
       /\ Allowed(answer'.role, Needed(Waiting.kind))) => Covers(Waiting) \cap things' = {}
<1>1. ASSUME IInv, Next PROVE Deletes
  <2>1. ASSUME NEW m \in Messages, NEW role \in Roles, Chat(m, role)
        PROVE  Deletes
    <3>1. PICK o : Turned(o, Word(m), role) /\ Honoured(o, Waiting, Word(m), role)
      BY <1>1, <2>1, ChatKeeps
    <3>2. things' = o.things /\ (Waiting # None => answer'.word = Word(m) /\ answer'.role = role)
      BY <3>1 DEF Turned
    <3> QED
      BY <3>1, <3>2 DEF Honoured
  <2>2. ASSUME NEW m \in Messages, Shell(m)
        PROVE  front = "shell"
    BY <2>2 DEF Shell
  <2>3. ASSUME NEW on \in Databases, NEW role \in Roles, Attach(on, role)
        PROVE  answer' = None
    BY <2>3 DEF Attach
  <2>4. ASSUME NEW kind \in Kinds, NEW on \in Databases, Others(kind, on)
        PROVE  answer' = Elsewhere
    BY <2>4 DEF Others
  <2> QED
    BY <1>1, <2>1, <2>2, <2>3, <2>4 DEF Next
<1>2. IInv /\ [Next]_vars => [Deletes]_vars
  BY <1>1
<1> QED
  BY <1>2, Inductive, PTL DEF Spec, YesIsHonoured

(* No turn leaves a session in a database that is gone.                    *)
THEOREM AlwaysSomewhere == Spec => WorksSomewhere
<1> DEFINE Works ==
      answer' # Elsewhere =>
        \/ Exists(session.current)'
        \/ session' = session /\ New # {} /\ \A thing \in New : thing.on # session.current
<1>1. ASSUME IInv, Next PROVE Works
  BY <1>1, ChatKeeps, ShellKeeps, AttachKeeps, OthersKeep DEF Next
<1>2. IInv /\ [Next]_vars => [Works]_vars
  BY <1>1
<1> QED
  BY <1>2, Inductive, PTL DEF Spec, WorksSomewhere
=============================================================================
