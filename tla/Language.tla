------------------------------ MODULE Language ------------------------------
(***************************************************************************)
(* What a message is taken for.  Three readers are tried in turn: the      *)
(* commands about databases (nlp.db_command), those about stored objects   *)
(* (nlp.command), and the merchants conversation (mce, cql), which always  *)
(* finds something.  A reader is a list of sentence patterns, the first    *)
(* that fits decides; a pattern is kept here as the verbs it starts with   *)
(* and what the sentence is about, and a message as its verb, what it is   *)
(* about, and the names in it.                                             *)
(***************************************************************************)
EXTENDS SequencesExt

CONSTANT None   \* absent

(* A message; "on" is a database it names.  A reply is a bare word.        *)
Message(verb, about, name, on) == [verb |-> verb, about |-> about, name |-> name, on |-> on]
Reply(word) == Message("say", "reply", word, None)

Pattern(verbs, about, intent) == [verbs |-> verbs, about |-> about, intent |-> intent]
Fits(pattern, m) == m.verb \in pattern.verbs /\ m.about \in pattern.about
FirstFit(patterns, m) ==
  LET fit(pattern) == Fits(pattern, m)
      first == SelectInSeq(patterns, fit)
  IN IF first = 0 THEN None ELSE patterns[first].intent

-----------------------------------------------------------------------------
(* nlp.db_command: every pattern needs the word database, table, row or    *)
(* stream; find takes anything, and a design is what no pattern claims.    *)

Removing == {"drop", "delete", "remove"}
TablePatterns == <<
  Pattern({"create"}, {"database"}, "CREATE_DATABASE"),
  Pattern({"use"}, {"database"}, "USE_DATABASE"),
  Pattern({"list", "show"}, {"databases"}, "LIST_DATABASES"),
  Pattern({"describe", "list"}, {"tables"}, "DESCRIBE_DATABASE"),
  Pattern({"create"}, {"table"}, "CREATE_TABLE"),
  Pattern({"describe"}, {"table"}, "DESCRIBE_TABLE"),
  Pattern({"show", "list", "query"}, {"rows"}, "SHOW_DATA"),
  Pattern({"insert"}, {"row"}, "INSERT") >>
DropPatterns == <<
  Pattern(Removing, {"database"}, "DROP_DATABASE"),
  Pattern(Removing, {"table"}, "DROP_TABLE"),
  Pattern(Removing, {"stream"}, "DROP_STREAM"),
  Pattern(Removing \ {"drop"}, {"row"}, "DELETE_ROW") >>
StreamPatterns == <<
  Pattern({"list", "show"}, {"streams"}, "STREAM_LIST"),
  Pattern({"show", "get"}, {"history"}, "STREAM_HISTORY"),
  Pattern({"show", "get"}, {"stream"}, "STREAM_SHOW"),
  Pattern({"create"}, {"stream"}, "STREAM_CREATE"),
  Pattern({"update", "change"}, {"stream"}, "STREAM_UPDATE") >>
DatabasePatterns ==
  TablePatterns \o << Pattern({"find"}, {"text", "merchants", "object"}, "FIND") >>
  \o DropPatterns \o StreamPatterns
  \o << Pattern({"export"}, {"nothing"}, "TRANSFER_HELP"),
        Pattern({"export"}, {"database", "table"}, "EXPORT"),
        Pattern({"create", "design"}, {"design"}, "DESIGN_SCHEMA") >>

DatabaseIntent(m) == FirstFit(DatabasePatterns, m)

(* A prompt or a diagram that names a database is for that one, any other  *)
(* for the database the session is in.                                     *)
PlannedFor(m, current) == IF m.on # None THEN m.on ELSE current

-----------------------------------------------------------------------------
(* nlp.command: a pattern that takes an object refuses what is neither an  *)
(* id nor a pronoun, and a list what is no type of object; then the next   *)
(* pattern is tried, and in the end the merchants conversation.            *)

References == {"object", "pronoun"}
StoragePatterns == <<
  Pattern({"store"}, {"path"}, "STORE"),
  Pattern({"retrieve", "read"}, References, "RETRIEVE"),
  Pattern({"archive"}, References, "ARCHIVE"),
  Pattern({"restore"}, References, "RESTORE"),
  Pattern({"optimize", "compress"}, References, "OPTIMIZE"),
  Pattern({"move"}, References, "MOVE"),
  Pattern({"replace", "update"}, References, "UPDATE"),
  Pattern({"delete"}, References, "DELETE"),
  Pattern({"search"}, {"text"}, "SEARCH"),
  Pattern({"list", "show"}, {"objects", "tier", "type"}, "SEARCH"),
  Pattern({"describe", "explain"}, References, "DESCRIBE"),
  Pattern({"inspect", "show", "get"}, References, "INSPECT") >>

StorageIntent(m) == FirstFit(StoragePatterns, m)

(* The object a reference means: "it" is the one last spoken of. *)
Referent(m, last) == IF m.about = "pronoun" THEN last ELSE m.name

-----------------------------------------------------------------------------
(* The merchants conversation: the verb gives the intent, a fetch if none  *)
(* does; the ontology gives the fields that are named.                     *)

Intents == <<
  Pattern({"create", "add", "register"}, {"merchant", "merchants", "text", "table"}, "CREATE"),
  Pattern({"change", "update", "set"}, {"merchant", "merchants", "text"}, "UPDATE"),
  Pattern({"delete", "remove"}, {"merchant", "merchants", "text", "reply"}, "DELETE") >>

BareIntent(m) == IF m.name = "create" THEN "CREATE" ELSE IF m.name = "delete" THEN "DELETE" ELSE "FETCH"
MerchantIntent(m) ==
  IF m.about = "reply" THEN BareIntent(m)
  ELSE IF FirstFit(Intents, m) = None THEN "FETCH" ELSE FirstFit(Intents, m)

(* How many fields the words of a message fit: "balance" is a ledger, an   *)
(* available and a settlement balance.                                     *)
Fields(m) == IF m.name = "balance" THEN 3 ELSE 0

(* evaluate_ambiguity: two exact matches tie, one is confident. *)
Ambiguous(candidates) == candidates > 1
=============================================================================
