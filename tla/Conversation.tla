---------------------------- MODULE Conversation ----------------------------
(***************************************************************************)
(* One chat session and everyone else: what a message does to the session, *)
(* to the databases and to the merchants (conversation.interpreter,        *)
(* conversation.db_interpreter, cql.interpreter, api.chat; cli.shell for   *)
(* the command line).  Sessions share nothing but the databases, so the    *)
(* other sessions and the REST clients are one actor, "others".            *)
(*                                                                         *)
(* A turn is one step: what two requests do to each other inside a turn is *)
(* the subject of Databases.  Things have one name per kind and database:  *)
(* a table t, a row in it, a stream, an object.                            *)
(***************************************************************************)
EXTENDS Language, FiniteSets

CONSTANTS
  Default,   \* the database that always exists
  Names,     \* names of other databases
  Fronts,    \* what the session talks through: "chat", "shell"
  Elsewhere, \* "answer" after a step of the others
  MaxMade    \* bound: how many things are ever created

ASSUME DefaultAssumption == Default \notin Names /\ None \notin Names \cup {Default}

(* A name of a database is a letter and then letters, digits, - and _.     *)
ASSUME NamesAssumption == Names \cap {"", "/reset"} = {}

ASSUME BoundAssumption == MaxMade \in Nat

Databases == {Default} \cup Names
Roles == {"editor", "db_admin"}

VARIABLES
  front,     \* "chat": the HTTP chat; "shell": the command line
  things,    \* what exists
  made,      \* how many things were created
  session,   \* StorageConversationState and the merchants ConversationState
  asked,     \* the question in the reply shown last
  behind,    \* the question before that, if only attachments were answered since
  answer     \* what was said to the question, and by whom

vars == <<front, things, made, session, asked, behind, answer>>

-----------------------------------------------------------------------------
(* What exists.  Of a table it matters who made it.                        *)

Thing(kind, on, by) == [kind |-> kind, on |-> on, by |-> IF kind = "table" THEN by ELSE None]
Kinds == {"database", "table", "row", "stream", "object", "merchant"}
AllThings == {Thing(kind, on, by) : kind \in Kinds, on \in Databases, by \in {"session", "others"}}

Has(kind, on) == \E thing \in things : thing.kind = kind /\ thing.on = on
Exists(db) == db = Default \/ Has("database", db)

(* What a deletion takes with it. *)
Question(kind, on) == [kind |-> kind, on |-> on]
Covers(question) ==
  {thing \in things : /\ thing.on = question.on
                      /\ \/ question.kind = "database"
                         \/ thing.kind = question.kind
                         \/ question.kind = "table" /\ thing.kind = "row"}

Lost == things \ things'
New == things' \ things

(* The bookkeeping of every step. *)
Counted ==
  /\ made' = made + Cardinality(New)
  /\ made' <= MaxMade

-----------------------------------------------------------------------------
(* The session.  An object is known by the database it is in: "last" is    *)
(* the one "it" means, "pdelete" the one a yes deletes; "design" is the    *)
(* database a proposed design is for, "drop" the deletion proposed;        *)
(* "confirm" the merchant a yes deletes, "which" says that the merchants   *)
(* conversation waits for one of several fields.                           *)

Fresh == [current |-> Default, last |-> None, pdelete |-> None, design |-> None,
          drop |-> None, confirm |-> None, which |-> FALSE]

(* Fault: the switch forgets what "it" was about, or where it goes. *)
SwitchKeepsIt(s, db) == [s EXCEPT !.current = db]
SwitchToNowhere(s, db) == [s EXCEPT !.current = None, !.last = None, !.pdelete = None]

SwitchTo(s, db) == [s EXCEPT !.current = db, !.last = None, !.pdelete = None]

ROLE_PERMISSIONS ==
  [role \in Roles |-> {"read", "write", "create_table"}
                      \cup (IF role = "db_admin" THEN {"create_database", "drop"} ELSE {})]
(* The command line has no role, and no limits. *)
Allowed(role, permissions) == role = None \/ permissions \subseteq ROLE_PERMISSIONS[role]

(* What a handler leaves: the session, what exists, and its question.      *)
Outcome(s, after, question) == [session |-> s, things |-> after, asked |-> question]
Said(s) == Outcome(s, things, None)

-----------------------------------------------------------------------------
(* Commands about databases (conversation.db_interpreter).                 *)

CreateDatabase(s, m, role) ==
  IF Allowed(role, {"create_database"}) /\ ~Exists(m.name)
  THEN Outcome(SwitchTo(s, m.name), things \cup {Thing("database", m.name, None)}, None)
  ELSE Said(s)

UseDatabase(s, m) == IF Exists(m.name) THEN Said(SwitchTo(s, m.name)) ELSE Said(s)

(* create_collection puts a table in the place of the one that is there.   *)
WithTable(on) ==
  {thing \in things : ~(thing.kind = "table" /\ thing.on = on)} \cup {Thing("table", on, "session")}

CreateTable(s, role) ==
  IF Allowed(role, {"create_table"}) /\ ~Has("table", s.current)
  THEN Outcome(s, WithTable(s.current), None)
  ELSE Said(s)

Insert(s) ==
  IF Has("table", s.current) THEN Outcome(s, things \cup {Thing("row", s.current, None)}, None)
  ELSE Said(s)

CreateStream(s) == Outcome(s, things \cup {Thing("stream", s.current, None)}, None)

(* Fault: a table that is there is no conflict. *)
Unchecked(on) == TRUE

(* prepare_import: the database is created if it is not there, a table     *)
(* that is there is a conflict.                                            *)
Prepared(on) == ~Has("table", on)
Required(on) == {"create_table"} \cup (IF Exists(on) THEN {} ELSE {"create_database"})
Imported(on) ==
  WithTable(on) \cup (IF Exists(on) THEN {} ELSE {Thing("database", on, None)})

DesignSchema(s, m, role) ==
  LET on == PlannedFor(m, s.current) IN
  IF Prepared(on) /\ Allowed(role, Required(on))
  THEN Outcome([s EXCEPT !.design = on], things, Question("design", on))
  ELSE Said(s)

(* The yes: validated again, the databases may have changed since. *)
ApplyDesign(s, role) ==
  LET on == s.design
      done == [s EXCEPT !.design = None] IN
  IF Prepared(on) /\ Allowed(role, Required(on))
  THEN Outcome(IF Exists(on) THEN done ELSE SwitchTo(done, on), Imported(on), None)
  ELSE Said(done)

Needed(kind) == {IF kind = "row" THEN "write" ELSE "drop"}
Protected(on, name) == on = Default /\ name = "merchants"

Drop(s, m, role) ==
  LET kind == m.about
      on == IF kind = "database" THEN m.name ELSE IF m.on # None THEN m.on ELSE s.current
      question == Question(kind, on)
      refused == \/ ~Allowed(role, Needed(kind))
                 \/ ~Exists(on)
                 \/ kind = "database" /\ on = Default
                 \/ kind = "table" /\ Protected(on, m.name)
                 \/ ~Has(kind, on)
  IN IF refused THEN Said(s)
     ELSE Outcome([s EXCEPT !.drop = question], things, question)

(* The confirmation.  What is gone by now is reported, and nothing else.   *)
ApplyDrop(s, role) ==
  LET on == s.drop.on
      done == [s EXCEPT !.drop = None]
      home == IF s.drop.kind = "database" /\ s.current = on THEN SwitchTo(done, Default) ELSE done
  IN IF Allowed(role, Needed(s.drop.kind)) /\ Has(s.drop.kind, on)
     THEN Outcome(home, things \ Covers(s.drop), None)
     ELSE Said(done)

HandleDatabaseCommand(s, m, role) ==
  LET intent == DatabaseIntent(m) IN
  CASE intent = "CREATE_DATABASE" -> CreateDatabase(s, m, role)
    [] intent = "USE_DATABASE"    -> UseDatabase(s, m)
    [] intent = "CREATE_TABLE"    -> CreateTable(s, role)
    [] intent = "INSERT"          -> Insert(s)
    [] intent = "STREAM_CREATE"   -> CreateStream(s)
    [] intent = "DESIGN_SCHEMA"   -> DesignSchema(s, m, role)
    [] intent \in {"DROP_DATABASE", "DROP_TABLE", "DROP_STREAM", "DELETE_ROW"} -> Drop(s, m, role)
    [] OTHER -> Said(s)   \* these only read, or append to a stream

-----------------------------------------------------------------------------
(* Commands about objects (conversation.interpreter).                      *)

(* Only the command line may have files read.  A replacement makes the     *)
(* object where the current database has none of that id.                  *)
Store(s) ==
  IF front = "shell" THEN Outcome([s EXCEPT !.last = s.current], things \cup {Thing("object", s.current, None)}, None)
  ELSE Said(s)

(* An object is found in the index of the current database only. *)
Found(s, ref) == ref = s.current /\ Has("object", ref)

HandleStorageCommand(s, m) ==
  LET intent == StorageIntent(m)
      ref == Referent(m, s.last) IN
  IF intent = "STORE" \/ (intent = "UPDATE" /\ ref # None) THEN Store(s)
  ELSE IF intent \in {"SEARCH", "UPDATE"} \/ ~Found(s, ref) THEN Said(s)
  ELSE IF intent = "DELETE" THEN Outcome([s EXCEPT !.pdelete = ref], things, Question("object", ref))
  ELSE Said([s EXCEPT !.last = ref])

ConfirmWords == {"yes", "confirm"}
ResolveDelete(s, word) ==
  LET done == [s EXCEPT !.pdelete = None] IN
  IF word \in ConfirmWords /\ Found(s, s.pdelete)
  THEN Outcome([done EXCEPT !.last = IF @ = s.pdelete THEN None ELSE @],
               things \ Covers(Question("object", s.pdelete)), None)
  ELSE Said(done)

-----------------------------------------------------------------------------
(* The merchants conversation (cql.interpreter), always about the default  *)
(* database.  A merchant is a record of a table nobody can drop.           *)

TheMerchant == Question("merchant", Default)

ResolveConfirmation(s, word) ==
  LET done == [s EXCEPT !.confirm = None] IN
  IF word \in ConfirmWords /\ s.confirm = "abc" THEN Outcome(done, things \ Covers(TheMerchant), None)
  ELSE Said(done)

(* An answer that names no option leaves the question waiting. *)
ContinueClarification(s, word) == Said([s EXCEPT !.which = word # "1"])

Merchants(s, m, word) ==
  LET intent == MerchantIntent(m) IN
  CASE s.confirm # None -> ResolveConfirmation(s, word)
    [] s.confirm = None /\ s.which -> ContinueClarification(s, word)
    [] OTHER ->
         CASE intent = "CREATE" /\ m.name = "abc" -> Outcome(s, things \cup {Thing("merchant", Default, None)}, None)
           [] intent = "DELETE" -> Outcome([s EXCEPT !.confirm = m.name], things, TheMerchant)
           [] intent \in {"UPDATE", "FETCH"} -> Said([s EXCEPT !.which = Ambiguous(Fields(m))])
           [] OTHER -> Said(s)

-----------------------------------------------------------------------------
(* The turn: each part may take the message, in this order.                *)

Word(m) == IF m.about = "reply" THEN m.name
           ELSE IF m.verb = "delete" /\ m.about = "pronoun" THEN "delete it" ELSE "other"

(* Fault: a command is taken before the answer to a question. *)
CommandsFirst(s, m, role) ==
  CASE DatabaseIntent(m) # None -> HandleDatabaseCommand(s, m, role)
    [] OTHER -> IF s.pdelete # None THEN ResolveDelete(s, Word(m)) ELSE HandleStorageCommand(s, m)

ProcessTurn(s, m, role) ==
  CASE s.pdelete # None -> ResolveDelete(s, Word(m))
    [] s.pdelete = None /\ DatabaseIntent(m) # None -> HandleDatabaseCommand(s, m, role)
    [] s.pdelete = None /\ DatabaseIntent(m) = None /\ StorageIntent(m) # None -> HandleStorageCommand(s, m)
    [] OTHER -> Merchants(s, m, Word(m))

YesWords == {"yes", "confirm"}
NoWords == {"no"}
DeleteYes == {"yes", "confirm", "delete", "delete it"}

(* Fault: a database too is deleted by a yes, and by nothing else. *)
YesToAll(s, word) == word \in DeleteYes

(* A whole database is deleted by its name only. *)
Confirmed(s, word) ==
  IF s.drop.kind = "database" THEN word = s.drop.on ELSE word \in DeleteYes

(* Fault: another message leaves the questions waiting. *)
KeepsQuestions(s) == s

(* Both questions are dropped, and the message is read as a new request. *)
Quiet(s) == [s EXCEPT !.design = None, !.drop = None]

Replied(s, m, role) ==
  LET word == Word(m) IN
  IF s.design # None /\ word \in YesWords THEN ApplyDesign(s, role)
  ELSE IF s.design = None /\ s.drop # None /\ Confirmed(s, word) THEN ApplyDrop(s, role)
  ELSE IF s # Quiet(s) /\ word \in NoWords THEN Said(Quiet(s))
  ELSE ProcessTurn(Quiet(s), m, role)

Cancelled(s) == [Quiet(s) EXCEPT !.pdelete = None, !.confirm = None, !.which = FALSE]

(* Fault: the session stays in a database that is gone. *)
StaysThere == session

(* A database dropped by another session: back to the default one. *)
Opened == IF Exists(session.current) THEN session ELSE SwitchTo(session, Default)

Handled(m, role) ==
  LET word == Word(m) IN
  CASE word = "" -> Said(Quiet(Opened))
    [] word = "/reset" -> Said(Fresh)
    [] word = "cancel" -> Said(Cancelled(Opened))
    [] OTHER -> Replied(Opened, m, role)

(* The command line: no role, no confirmations of its own, and "cancel" is *)
(* a message like any other.                                               *)
ShellHandled(m) ==
  CASE Word(m) = "" -> Said(session)
    [] Word(m) = "/reset" -> Said(Fresh)
    [] OTHER -> ProcessTurn(session, m, None)

(* The question of the reply to the last message. *)
Waiting == IF asked # None THEN asked ELSE behind

Turned(outcome, word, role) ==
  /\ things' = outcome.things
  /\ session' = outcome.session
  /\ asked' = outcome.asked
  /\ behind' = None
  /\ answer' = IF Waiting = None THEN None ELSE [word |-> word, role |-> role]
  /\ Counted
  /\ UNCHANGED front

-----------------------------------------------------------------------------
(* What is said: one message for each kind the turn tells apart.           *)

Replies == {"", "/reset", "cancel", "yes", "no", "delete", "1"} \cup Names
Messages ==
       {Message(verb, "database", name, None) : verb \in {"create", "use", "drop"}, name \in Databases}
  \cup {Message("create", "table", "t", None), Message("insert", "row", "t", None),
        Message("create", "stream", "s", None), Message("list", "tables", None, None),
        Message("drop", "stream", "s", None), Message("drop", "table", "merchants", None)}
  \cup {Message("design", "design", None, on) : on \in Names \cup {None}}
  \cup {Message("delete", about, "t", on) : about \in {"table", "row"}, on \in Names \cup {None}}
  \cup {Message(verb, "object", on, None) : verb \in {"inspect", "delete", "replace"}, on \in Databases}
  \cup {Message("store", "path", None, None), Message("update", "pronoun", None, None),
        Message("archive", "pronoun", None, None), Message("delete", "pronoun", None, None)}
  \cup {Message(verb, "merchant", "abc", None) : verb \in {"create", "delete"}}
  \cup {Message("change", "merchant", "balance", None), Message("show", "merchants", None, None)}
  \cup {Reply(word) : word \in Replies}

Chat(m, role) == front = "chat" /\ Turned(Handled(m, role), Word(m), role)
Shell(m) == front = "shell" /\ Turned(ShellHandled(m), Word(m), None)

(* The paperclip: a table for the current database, or a file that names   *)
(* its own.  A database it creates becomes the current one.  The page      *)
(* shows the reply; a proposed deletion or design still waits behind it.   *)
Attach(on, role) ==
  /\ front = "chat"
  /\ Prepared(on) /\ Allowed(role, Required(on))
  /\ things' = Imported(on)
  /\ session' = IF Exists(on) THEN session ELSE SwitchTo(session, on)
  /\ asked' = None /\ behind' = Waiting
  /\ answer' = None
  /\ Counted
  /\ UNCHANGED front

(* Everyone else, through their own sessions and the REST interface.       *)
OthersMake(kind, on) ==
  /\ IF kind = "database" THEN on # Default ELSE Exists(on)
  /\ kind = "merchant" => on = Default
  /\ kind = "row" => Has("table", on)
  /\ ~Has(kind, on)
  /\ things' = things \cup {Thing(kind, on, "others")}

OthersRemove(kind, on) ==
  /\ Has(kind, on)
  /\ things' = things \ Covers(Question(kind, on))

Others(kind, on) ==
  /\ front = "chat"
  /\ OthersMake(kind, on) \/ OthersRemove(kind, on)
  /\ Counted
  /\ answer' = Elsewhere
  /\ UNCHANGED <<front, session, asked, behind>>

Init ==
  /\ front \in Fronts
  /\ things = {} /\ made = 0
  /\ session = Fresh
  /\ asked = None /\ behind = None /\ answer = None

Next ==
  \/ \E m \in Messages, role \in Roles : Chat(m, role)
  \/ \E m \in Messages : Shell(m)
  \/ \E on \in Databases, role \in Roles : Attach(on, role)
  \/ \E kind \in Kinds, on \in Databases : Others(kind, on)

Spec == Init /\ [][Next]_vars

-----------------------------------------------------------------------------
(* Properties.                                                             *)

Drops == {"database", "table", "row", "stream"}

(* Every variable has its type. *)
TypeOK ==
  /\ front \in Fronts
  /\ things \subseteq AllThings
  /\ made \in 0..MaxMade
  /\ session \in [current : Databases, last : Databases \cup {None}, pdelete : Databases \cup {None},
                  design : Databases \cup {None}, drop : [kind : Drops, on : Databases] \cup {None},
                  confirm : {"abc", "delete", None}, which : BOOLEAN]
  /\ {asked, behind} \subseteq [kind : Kinds \cup {"design"}, on : Databases] \cup {None}
  /\ answer \in [word : Replies \cup {"delete it", "other"}, role : Roles \cup {None}] \cup {None, Elsewhere}

(* What the session destroys is what the reply to its last message asked   *)
(* about, and the answer was the right word from somebody who may: no      *)
(* table is lost to a create, an import, or a yes meant for something      *)
(* else.  Only the reply to an attachment may have been shown in between.  *)
RightWord(question, word) ==
  IF question.kind = "database" THEN word = question.on ELSE word \in DeleteYes
DropsAreConfirmed ==
  [][\A thing \in Lost : (answer' # Elsewhere /\ thing.kind \in Drops) =>
       /\ Waiting # None /\ thing \in Covers(Waiting)
       /\ RightWord(Waiting, answer'.word)
       /\ Allowed(answer'.role, Needed(Waiting.kind))]_vars

(* The right word, from somebody who may, to a question about a deletion   *)
(* does delete, whatever was attached or others did in between.            *)
YesIsHonoured ==
  [][(/\ front = "chat"
      /\ answer' \notin {None, Elsewhere}
      /\ Waiting # None /\ Waiting.kind \in Drops
      /\ RightWord(Waiting, answer'.word)
      /\ Allowed(answer'.role, Needed(Waiting.kind))) => Covers(Waiting) \cap things' = {}]_vars

(* A proposed deletion or design is what the reply shown last asked about, *)
(* or what the one before it did if nothing but attachments were answered  *)
(* since (these do not drop it, not even when they switch the database):   *)
(* after any message an older one cannot be confirmed by a yes.            *)
QuestionsDoNotLinger ==
  front = "chat" =>
    /\ session.drop # None => session.drop \in {asked, behind}
    /\ session.design # None => Question("design", session.design) \in {asked, behind}
    /\ asked # None => behind = None

(* One question at a time: no yes can answer two.                          *)
OneQuestion ==
  /\ front = "chat" => Cardinality({field \in {"design", "drop", "pdelete"} : session[field] # None}) <= 1
  /\ session.confirm # None => ~session.which

(* After a turn the session is in a database that exists; only a file for  *)
(* another database leaves it where it was, and puts nothing there.        *)
WorksSomewhere ==
  [][answer' # Elsewhere =>
       \/ Exists(session.current)'
       \/ session' = session /\ New # {} /\ \A thing \in New : thing.on # session.current]_vars

(* "It" and a pending deletion are about an object of the current          *)
(* database: after a switch they mean nothing.                             *)
ReferencesAreLocal ==
  /\ session.last \in {None, session.current}
  /\ session.pdelete \in {None, session.current}
=============================================================================
