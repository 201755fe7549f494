# Verification of MDC

TLA+ models of MDC (`src/mdc`), TLC runs that check them on small instances, and
TLAPS proofs of what matters most for every instance. `PROJECT.json` maps each
definition to the lines it translates, lists the runs, the hazards with their
lines, the findings and the theorems. Paths below are relative to
`src/mdc/src/mdc/` unless they begin with `src/`.

    tlc -workers 2 -config MCEventStore_care.cfg MCEventStore
    tlapm EventStoreProofs.tla      (and the other modules named ...Proofs)

## 1. The system

MDC is a database server and a command line over DuckDB files. One process
serves one data directory; FastAPI runs the synchronous endpoints in a thread
pool, so requests interleave wherever the code takes no lock.

| Component | State it keeps | Operations | Interacts with | What is hard |
|---|---|---|---|---|
| Event store `events/store.py`, `sealing.py` | sealed event and snapshot blocks, the key check; in memory the master key, a flag, a cache of stream tails, a lock | `create_stream`, `append`, `delete_stream`, `state_at`, `history`, `rotate_key` | a storage backend; the codec; one instance per database, made by the manager | readers without a lock; a storage call that fails between two writes; crashes; clocks that run back; rotation over records two keys opened |
| State codecs `events/codec.py` | none | `diff`, `apply`, `validate` | the event store | depth and size limits; what `diff` emits must validate |
| Database manager `databases/manager.py` | handles and event stores by name; `<name>.duckdb`, `<name>.schema.json` | `create`, `get`, `drop`, `drop_table`, `persist_schema`, `events`, `rotate_event_key` | everything that names a database | check-then-act on dicts and files without a lock; the schema sidecar is written after what it describes |
| Record engine `engine/data_engine.py`, `storage/duckdb_store.py` | rows | `create`, `create_many`, `read`, `update`, `delete`, `drop_collection`, migration | schema registry, storage | read-then-write without a transaction; batch failures |
| Object storage `storage_intelligence/router.py`, `index/object_index.py`, `api/service.py` | the index; bytes in HOT (memory), WARM/COLD (DuckDB), ARCHIVE (DNA) | `store`, `retrieve`, `delete`, `replace`, `move`, `optimize` | four tiers, one index | bytes and index change in separate calls; HOT is lost on restart |
| Models, matrices, documents, images `models/`, `matrix/`, `objects/` | several objects per upload | upload, `retrieve_tensor`, `move_model` | object storage | an upload or a move that stops half-way |
| DNA archive `dna/` | encrypted blocks in several copies, an index of them | `put`, `get`, `delete`, `rotate_key`, majority vote | object storage, key rotation | ties in the vote; rotation half-way |
| Key rotation command `app.py` `key_rotate`, `security/keys.py` | key file, staged key, backups | `mdc key rotate` | all databases' event stores and archives | killed anywhere and run again; keys that must never be lost |
| Conversation `conversation/`, `api/chat.py`, `cli/shell.py` | per session: current database, what "it" means, proposals and pending confirmations | one turn per message | language, manager, objects, import and export | a yes applied to something other than what was asked; others change the databases between turns |
| Language `nlp/`, `mce/`, `cql/`, `ontology/`, `llm/` | none | text in, command out | the conversation | three readers, tried in turn: which one takes a message |
| Import and export `portability/` | none; a plan while a request runs | eight writers, the readers, `prepare`, `apply` | manager, registry, engine, conversation | what names, types and values become on the way; a plan that is stale when applied |
| Accounts and tokens `security/`, `app.py` | `users.json`, `api_tokens.json` | issue, revoke, create, set role, delete; the start of a server | the API asks for a role on each request | read-modify-write by several processes; a truncated file |
| HTTP API `api/app.py`, command line `app.py` | none | authentication, permissions, one call per route | all of the above | the order of a permission and an effect |
| Storage strategy, classification, compression, monitoring | none, or counters | pure tables and heuristics over bytes | object storage | nothing a finite model tells apart |
| mdc-lite (`src/mdc-lite`, Rust), MemCell codec (`src/src`, C++) | files; none | put/get/delete; compress/decompress | none | rename on a crash; width limits |

What makes each correct: an event stream is an append-only log that every read
replays exactly; one writer at a time; rotation never loses a key nor leaves a
database behind; the index and the bytes of an object agree; the schema a
process loads describes the rows that are there; a confirmation acts on what it
was asked about; what is exported can be imported again; a token has the role it
was last given, and no account is undone by another process.

## 2. Modules

| Module | Models | Size |
|---|---|---|
| `EventLog` | the promise: each stream an append-only sequence of timed entries, base first, deleted only as a whole | abstract |
| `EventStore` | one event store over one database, all of `events/store.py` | 24 actions |
| `MCEventStore` | a codec (addition modulo the number of states) for TLC | |
| `EventStoreProofs` | theorems about `EventStore`, one that it implements `EventLog` | 7 theorems |
| `SecondWriter` | how a request gets its `EventStore` (`DatabaseManager.events`) and two stores at one stream | 5 actions |
| `SecondWriterProofs` | a theorem about `SecondWriter` where the store is shared | 1 theorem |
| `Databases` | one named database: manager, schema registry and sidecar, record engine, an import, as steps of requests that run beside each other | 27 actions |
| `MCDatabases` | the symmetries, for TLC | |
| `DatabasesProofs` | theorems about `Databases` | 6 theorems |
| `Objects` | object storage: router, index, service and models over four tiers | 19 actions |
| `MCObjects` | which tensors share an id, and the symmetries, for TLC | |
| `ObjectsProofs` | theorems about `Objects` | 5 theorems |
| `KeyRotation` | `mdc key rotate` over all databases, its key files, the operator | 18 actions |
| `KeyRotationProofs` | theorems about `KeyRotation` | 5 theorems |
| `Accounts` | token and account files, the commands that change them, servers and shells that start, the answer to a request | 14 actions |
| `AccountsProofs` | theorems about `Accounts` | 4 theorems |
| `Language` | what a message is taken for, and by which reader | operators |
| `Conversation` | a chat or shell session over `Language`, and everyone else | 4 actions, a handler per command |
| `ConversationProofs` | theorems about `Conversation` | 8 theorems |
| `Formats` | what each kind of file says of tables, columns and rows, written and read | operators |
| `Portability` | databases, exports and imports over `Formats` | 8 actions |
| `MCPortability` | tables, texts and files for TLC | |
| `PortabilityProofs` | theorems about `Portability` | 4 theorems |

The modules meet at seams named here. `EventStore` takes its storage as
reliable cells and `SecondWriter` asks who shares it; `KeyRotation` takes a
database's rotation as the order of writes that `EventStore` gives it;
`Databases` has an import as the steps of a request and its tables, `Portability`
what it brings; `Conversation` takes each operation on a database as done or refused,
which `Databases` splits into steps.

### EventStore

`evt[s][n]` and `snp[s][n]` are the blocks `evt:s:n` and `snp:s:n`: a block is
its content and the master key it was sealed under. Sealing binds a block to its
stream, kind and number by associated data (`sealing.py:29-48`); here that is
its place in the function, so a block opens exactly when the keys agree.
`keycheck` is the block that tells a wrong key from a tampered record.
`master`, `verified`, `tail` are `_master`, `_key_verified`, `_tails`; `config`
is the key a new process is given.

`job` is what the holder of `_lock` is in the middle of. Each storage call that
writes is a step, so a call may fail (`Abort`) or the process die (`Crash`)
between any two: between an event and its snapshot, between two blocks of a
deletion, between two records of a rotation, between the key check and the base
of a database's first stream. `cursors` are calls of `_rebuild` in progress, of
readers without the lock and of the appender that lost its cached tail; each
opens base, snapshot and events in separate steps. In-memory work between two
storage calls is part of the step.

`truth` is a history variable: what each acknowledged event left behind. No
guard reads it.

Abstracted: the content of states and changes (small sets and the operator
`Apply`, which may refuse), ciphertexts, notes, sizes, ids. The cache evicts
*some* other stream, of which least-recently-used is one case; rotation
re-seals streams in any order where the code goes by name. Both are supersets of
what the code does.

### SecondWriter

`EventStore` has one lock holder. That is right once the database's store is
shared. `SecondWriter` models the moment before: `DatabaseManager.events` looks
in a dict and later puts a new store there. An append is reduced to the three
accesses another store could get between: read the tail, check the slot, put.
`OpenedSpec` starts later: the database's store has been made, and is shared.

### KeyRotation

A sealed record is the key that opens it, and a database's rotation is its
storage writes in order: records, key check, archive blocks. `disk` holds the
key files: in use, staged, and one backup per key rotated away. `write_key_file`
is two steps, truncate and write. `pending` is the rotation the operator has to
see through; `kept` are keys the operator has in files of their own. The server
(writing streams, deleting them, archiving objects) runs between rotations. The
starting database may hold streams from before key checks existed.

### Objects

`index[o]` is the entry `index:o`, reduced to its tier and the content its
checksum stands for; `blocks[b][l]` are the bytes of a backend at a location,
which is the content's type and the object's id. WARM and COLD are one backend,
HOT is the process's memory. A request of `ObjectService` or `ModelStore` is a
list of router calls (`req[t].todo`): a replacement is a delete and a store, the
upload of a model a store per block and one of the manifest, the move of a model
a read and a move of the manifest and then, from what `index.search` finds, a
move per block. Each router call takes a step per call of a backend or of the
index, in the code's order: store is put, register; delete is look up, erase,
unindex; move is look up, get, put, erase, register. A request may raise after
any step and the process may end at any; then HOT is empty and every entry in
`index` is still there. `lost` is a history variable: what was in HOT at the
last restart.

A tensor's block is known by the model and by what is left of the tensor's name
when `_` stands for `:` and `.` (`model_store.py:87`): `Flat` says which tensors
that makes the same. The later of two such tensors replaces the earlier one's
bytes and entry, and reading the earlier finds nothing; the model keeps it, and
the properties say what is true all the same (`StandsFor`: of tensors that share
an id, one is there). All tensors of an upload get one tier, because
`select_tier` looks at the access profile and at whether the type changes, which
is the same for all.

Ids are made by the server and never reused by an upload. PUT may make up the id
of a plain object; it, DELETE, a read, a move and an optimization take any id that
was given out, a model's and a block's too (`api/app.py`, `/objects/{id}`), so that
a request can take a block away from a model that is listed. `named` remembers which
blocks somebody asked to delete or replace: nothing else may. Upload may choose any
tier, which the strategy tables restrict. Content that claims to be a model and
does not parse, and a model file that is PUT, is stored like a plain object and is
not told apart from one; moving the second as a model would fail before it changes
anything.

### Databases

`file`, `sidecar` and `handle` are what `DatabaseManager` has of a database:
`<name>.duckdb`, `<name>.schema.json` and the entry in `_handles`; `reg[h]` is
the registry behind handle `h`, because two requests that open a database for
the first time build one each. `req[th]` is a request with the stage it is at,
what it has looked up (`seen`), the snapshot of the registry it is about to
write (`dump`), the tables it is to make (`make`), those it has rows for and has not
written yet (`left`), and the one it is writing (`into`). Every stage is an action: look the handle up, connect, publish,
define tables in memory, snapshot the registry, truncate the sidecar, write it;
check that ids are free, then insert in a transaction; read the matching records,
then write them back one by one, each whole; prepare an import, then apply it; close, unregister,
unlink, unlink the sidecar. A DuckDB transaction is one step because
`DuckDBStore` holds a lock around it. An import is of one or more tables: it makes
those that are missing, persists once, and then checks and inserts table by table, a
transaction for each (`portability/apply.py:125-131`), so that one that fails at its
second table leaves the rows of the first. `Crash` ends the process between any two
steps.

A dropped table that is created again is another table: a table is the
number of the request that made it. A row names the table it was meant for, the request
that wrote it and the updates whose values it has: `update` merges its values into what
it read before (`engine/data_engine.py:118-138`), so one that writes over another's
shows. Abstracted: columns and values, filters (an update matches all records of its
table), tables of an import that bring no row. `tables`, `rows`, `edited`, `dead`,
`erased` and `failed` are history variables: what was committed, and what callers were told.

### Language and Conversation

A message is its verb, what it is about, a name and perhaps a database; how a
sentence is matched character by character is left out, the order in which the
patterns and the three readers get it is kept. A turn of the conversation is one
step, `Chat` or `Shell`, and a handler is a definition that says what it leaves
of the session and of what exists, and what question its reply asks. `session`
has the fields of `StorageConversationState` and of the merchants conversation.
`Others` is every other session and REST client: they make and remove anything
between two turns. `asked` and `answer` are what the person at the other side
sees: the question in the reply shown last, and what was said to it and with which
role. An attachment is answered with a reply of its own that asks nothing, while a
proposed deletion or design goes on waiting: that question is then `behind`, and
`Waiting` is the question of the reply to the last message. A table, a stream or a
database may be made anew under the name of one that is gone.

### Formats and Portability

A file is what it says: cells, statements, sections, entities. How it is laid
out in characters is left out; what becomes of names, types and values is kept,
since that is what the round trip is about. A name is a stem and one of three
styles (an identifier in lower case, one with capitals, one with a space), which
is what `SafeIdentifier` tells apart; a value is a type and the text `str()`
gives. Readers answer with a set: one plan, or none for `ImportFormatError`.
`Portability` fills a database through the REST routes, exports it in any way,
lets a person write a file, and imports whatever there is into any database; an
import is one step (`Databases` has its steps), in which the plan is checked and
then applied through the registry's casts.

### Accounts

Each file is the set of its entries, `Missing`, or `Torn` after it was truncated
and before it is written. A process goes through `changing` (the file is loaded
and changed in memory), `truncating` and `writing`. A starting server asks for a
first account when there is none, waits at its prompt, then revokes the token of
the page and issues it anew from the entries that revocation loaded. `Answer` is
what a running server says to a token and a permission: it reads the file on
each request. `handed`, `revoked` and `accounts` are history variables.

## 3. What is checked

| Run | Checks | Result |
|---|---|---|
| `care` | 1 stream, events 0..3, a snapshot every 2nd, times 0..1, 1 reader, 3 states, 2 changes | `ReadsAreExact`, `Coherent`, `AppendsExtendTheLog`, and the blocks refine `EventLog` (`IsAnEventLog`); 86,845 states |
| `faults` | 2 streams, cache of 1, 2 keys, events 0..1, a snapshot at each | `NothingUpdatedInPlace`, `KeyCheckIsLast` with every failure allowed; 2,302,892 states |
| `stale_snapshot` | as `care`, a deletion may stop half-way | `ReadsAreExact` **violated** |
| `second_writer` | 2 threads, the first use of a database's events | `NothingOverwritten` **violated** |
| `rotation` | 2 databases, 2 records, 1 archived block each, 3 keys, 2 mishaps (a death or a wrong key) | `NoKeyLost`, `NeverRefused`, `WrongKeyIsHarmless`, `AllUnderTheKeyInUse`, `RotationsFinish`; 447,813 states |
| `same_command` | every interruption answered by the same command | `NoKeyLost` **violated** |
| `objects` | 2 requests at a time, 3 in all; 1 plain object, 1 model of 3 tensors, 2 with one id, 2 contents, 4 tiers; symmetry | `IndexIsTrue`, `ModelsAreWhole`, `LastCopyIsKept`; 810,968 states |
| `databases` | 2 requests at a time, 3 in all beside what was there, 2 restarts; 2 tables, 2 ids; symmetry | `TablesSurvive`, `RowsAreKept`, `GoneStaysGone`, `NothingHalfWritten`; 782,930 states |
| `conversation` | 1 session, chat or shell, 1 database beside the default, 3 things made | `DropsAreConfirmed`, `YesIsHonoured`, `QuestionsDoNotLinger`, `OneQuestion`, `ReferencesAreLocal`, `WorksSomewhere`; 87,297 states |
| `portability` | 4 databases, 4 table names in 3 styles, tables and rows up to 3, every kind of file | `ExportsComeBack`, `TypedColumnsSurviveCsv`, `ImportsOnlyAdd`, `TwiceIsOnce`, `NeverHalf`; 459,419 states |
| `lossless` | 2 tables or rows | `GuardedCellsAreRestored` **violated** |
| `accounts` | 2 processes, 4 starts, 1 death, 3 tokens, 2 roles and 2 users | `AnswersAreRight`, `AccountsAreKept`, `OnlyTheFirstIsAsked`; 1,328,002 states |

Why the bounds are enough. *care*: four events with a snapshot at 2 give every
relation a replay meets: no snapshot, a snapshot below, at and past the target,
an event after the snapshot; two times give a clock that runs back, equal times
and a back-filled time; the change operator tells any two states apart, so a
replay from a wrong base or with a change missing shows. *faults* trades length
for a second stream (eviction) and a second key (a record under each, the key
check under either). *rotation*: two records and two databases are the least
for a run that stops within a database and one that stops between two; three
keys are two rotations or one and a wrong key; two mishaps are a death and a
death of its rerun. *objects*: three requests are an upload, a change that stops
half-way and one that meets what it left; two contents of one type share a
location, so a stale copy would be taken for the new one; the model has three
tensors, two that share an id and one that does not. Threads and texts are
symmetric. *databases*: three
requests are a creation, a drop and a creation anew, or two that race and one that
meets what they left; two tables show a sidecar written from a registry that
lacks the other's table, and an import that fails between its two; two restarts are
one in the middle of a write and one after what came next. Nothing names or orders
requests at the same time, tables or ids, so they are symmetric.
*conversation*: three things are a database, a table
and a row in it, or a thing, its loss to others and one made anew under the same
name, which is all that a stale proposal needs. *portability*: the table names
are one of each style and two that collide once made safe; the texts are those
that a cell may take for something else (`+7`, `007`, the empty text, `nan`, `-inf`). An
import is explored when it goes to one of the four databases, names tables of
`TableNames`, brings at most `MaxRows` rows to a table, and `Ids` has an id for each
of them (`Within`); the first and the second cut nothing off here. One file
is kept per behaviour. REST makes no required column and takes texts, so required
columns and explicit nulls come into an exported database by an import before the
export (`BringDraft`), of scripts, documents and backups that people wrote. *accounts*: two
processes are a reader and a writer of one file; four starts are a server, a
revocation, an issue and a restart of the server.

`CHECK_DEADLOCK FALSE`: stores, operators and processes may rest, and the bounds end
every behaviour. `conversation` has deadlock checked: a message is always answered.

Every property is tried against a bug: `PROJECT.json` names for each an operator
marked "Fault" that, put in place of the definition it stands beside, must make
TLC report that property violated.

### What the four violations say

They are findings with their lines in `PROJECT.json`.

1. A deletion that stops after the event blocks and before the snapshots
   (`events/store.py:240`) leaves snapshots that a stream created later under
   the same name believes.
2. Two requests that are the first to use a database's events get an
   `EventStore` each (`databases/manager.py:189`) and can overwrite an
   acknowledged event: `_put` checks, then puts.
3. `--generate` rerun after an interruption truncates the only copy of the key
   records are already sealed under (`app.py:329`, `keys.py:102`).
4. A text that looks like a formula is guarded when it is written to a CSV and
   unguarded when it is read (`portability/writers.py:152`), but types are
   inferred afterwards: the text `+7` comes back as the integer 7, where
   `src/mdc/README.md` calls the round trip lossless.

### Fairness and assumptions

`EventStore` has no liveness property: every operation is a straight line. Its
safety is stated of three specifications. `Spec` has no restriction. `CareSpec`
adds `DeletesFinish` (no deletion stops half-way; finding 1 is what happens
otherwise) and `DeletesUnobserved` (no replay of a stream runs while it is
deleted: `state_at` takes no lock, and a replay that listed the events before
finds them gone or, worse, replaced by a new stream's). Neither is defended by
the code; they are requirements on a deployment. `CarelessDeletes` keeps only
the second.

`Objects!CareSpec` makes two assumptions the code does not enforce: a request
that has erased bytes goes on to tell the index (`IndexFollows`), and no two
requests change one object at the same time (`OneWriterEach`; reads run beside
changes). `Objects!Spec` has neither: there a request that stops between erasing
an object's bytes and updating the index (`storage_intelligence/router.py:140`,
`:164`) leaves an entry with nothing behind it.

`Databases!CareSpec` makes three, none enforced by the code.

* `InTurn` says which requests run beside each other (`Compatible`). Structural ones
  (create, drop, drop a table) run alone, and so does the first opening of a database: two
  that open it build a registry each, and what the loser makes is lost. Requests that
  make tables overlap if the tables differ: nothing stands between the check that
  a name is free and the definition, so of two that make one table the second
  replaces the first's. An update runs beside no other update and no deletion of rows of its table: it
  writes back what it had read, which loses the other's values (`engine/data_engine.py:118`)
  or brings the row back. Inserts, imports of rows and deletions of rows run beside each
  other, and beside everything else that is not structural.
* `SnapshotsInTurn`: no two requests are writing the sidecar at once. They may run
  beside each other up to there and from there, and each may read a registry with
  the other's table in it or without; only the writes are one after the other. Without
  it the older snapshot may be written last, and a table that was acknowledged is
  gone at the next start (`databases/manager.py:110`).
* `DropsFinish`: the process is not stopped between the unlinks of a drop, which
  would leave the sidecar to the next database of that name
  (`databases/manager.py:166`).

The process may stop anywhere else, also while it overwrites the sidecar:
the file is then empty, and `TablesSurvive` says what the code makes of that, which is that
the database does not open any more instead of opening without its tables. TLC finds each of
the three needed: with any of them left out one of the properties fails. Under `InTurn` no request meets a connection that
another closed, so those branches of the model are reached in `Spec` only.

An import is atomic for each of its tables and not as a whole. `NothingHalfWritten`
says that much: what a request that raised leaves are whole batches. The two races above,
the overlap of two first openings and the emptied sidecar are in `Databases!Spec` and are
listed as hazards.

`Accounts!CareSpec` makes one: no two processes are between the load and the
save of one file (`OneAtATime`). A server that waits at its prompt is not among
them; that it may wait for ever is why `UserStore` loads again.

`KeyRotation` has a starting state and a server that never empty a database
while its key is being switched (`SparesLastStream`): a database whose last
stream is deleted keeps the old key check through the rotation
(`events/store.py:336`) and refuses the new key.

Three behaviours the conversation's properties are stated around. An attachment's
reply does not drop a question, not even when it switches the database, though the
comment at `conversation/db_interpreter.py:51` has every switch clear "any pending
confirmation" (`api/chat.py:147` clears one of three): a yes after it answers the
question before it. The properties allow that question and no older one. A message that
is blank leaves a pending deletion of an object as it is, and a merchant's
pending confirmation outlives turns that the other readers take
(`cql/interpreter.py:82`, `api/chat.py:171`). `QuestionsDoNotLinger` is about
the proposals of `db_interpreter`, which do not.

`ExportsComeBack` states what an export can carry (`Tidy`, `InSql`): names that
are lower case identifiers, tables with columns, in a script no `nan` or infinity and no null
in a required column. Other databases export, and come back renamed or are
refused; the run has them.

`KeyRotation!Spec` assumes weak fairness of `Command` (the command is one thread
that runs on unless it dies) and of `CarefulOperator` (an interrupted rotation is
taken up again the way the command's own messages say, some day). Deaths and
wrong keys are bounded by `MaxMishaps` and are not fair. The server's actions
are not fair either: nothing depends on them.

## 4. What is proved

`EventStoreProofs`, for any sets of streams, keys, readers, states and changes,
any codec and any bounds. Its assumptions are the named ones of `EventStore`:
bounds are natural numbers, the codec returns a state or refuses, `None` is
nothing else, the appender is no reader.

* `TypeCorrect`: `Spec => []TypeOK`. One step per action, one lemma per operator
  that builds a record (`AdvanceType`, `RememberType`, `StartReplayType`).
* `AlwaysCoherent`: `CareSpec => []Coherent`. `Coherent` is the inductive
  invariant. `ReadsAreExact` is not inductive: that a replay ends right depends
  on the snapshot it took, which depends on the tail the append had cached, which
  depends on what that append's own replay had ended with. `Coherent` says that
  the log, every snapshot, every cached tail and every replay on its way agree
  with `truth`, for streams not being deleted. The work is in one lemma per kind
  of change: `StreamKept` (a step that leaves a stream's blocks alone keeps what
  is said of it), `CursorKept` (a log that only grows keeps a replay true),
  `CursorAdvanced`, `CursorMoved` (each step of a replay), `AppendCoherent`,
  `SnapshotCoherent`, `RotationKeepsContent`.
* `ReadsCorrect`: `CareSpec => []ReadsAreExact`, from `Coherent` and that times
  never run back along the log.
* `AppendsCorrect`: `CareSpec => AppendsExtendTheLog`; only `AppendEvent` adds
  an event after the base (`OnlyAppendAdds`), and it builds on a tail that is true.
* `NeverUpdated`: `Spec => NothingUpdatedInPlace`, with every failure allowed.
* `KeyCheckIsRight`: `Spec => KeyCheckIsLast`, from `RotationPlanned`: while a
  rotation runs, every record of a listed stream opens with the old or the new
  key, so when none is left under the old one all open with the new.

* `ImplementsEventLog`: `CareSpec => IsAnEventLog`, that is, `EventStore` implements
  the abstract `EventLog` under the refinement mapping `Log`. The length of a log
  is a choice over its blocks, which means something only where a log has an end
  (`Whole`: where there is a base there is a last event with none after it). That
  is kept without induction: an append moves the end by one (`AppendLogs`), a
  deletion takes the whole stream out of the log when it begins (`DeleteLogs`) and
  nothing of its blocks, which go in any order, is seen before the last is gone
  (`DeleteHidden`), a rotation keeps what the blocks say (`RotateLogs`), every
  other step maps to a stutter. `LogEnds`, `LogSame`, `LogFirst` and `LogNext` are the lemmas
  about the mapping.

`SecondWriterProofs`, for any number of threads and events:

* `OneStoreSuffices`: `OpenedSpec => [](NothingOverwritten /\ NobodyRefused)`. The
  other half of finding 2: once the store is shared, its lock is enough. No
  acknowledged event is overwritten, and no append finds its place taken, so
  `ConcurrencyError` is never raised between threads. The invariant is that one
  thread at a time is within an append, holding the lock of the store everybody
  has, that the log has no gap, and that a tail the store remembers is its end.

`KeyRotationProofs`, for any number of databases, records, archived blocks, keys
and mishaps. It assumes that there is at least one database and that the values
that stand for "no file", "empty file" and the two key files are no keys.

* `TypeCorrect`: `Spec => []TypeOK`. Types alone are not inductive: a command that
  is run again reads the old key from the key file, and that it is not an empty
  file follows from where the rotation was.
* `KeysSurvive`: `Spec => []NoKeyLost`. `RerunsGoThrough`: `Spec =>
  []NeverRefused`. `NothingLeftBehind`: `Spec => []AllUnderTheKeyInUse`.
  `WrongKeyRefused`: `Spec => WrongKeyIsHarmless`.

All five follow from one inductive invariant, `IInv`. Its idea is the frontier: a
rotation that is under way, whether its command runs or died, has a database `c`
such that all before it are `Done`, all after it `Untouched`, and `c` is `Midway`
(`Frontier`). Whoever runs the command again starts at the first database and
passes over those that are done, so a run is at or before the frontier
(`RightRun`); a run with a wrong key is too, and since what holds the pending key
lies between it and the frontier (`HolderIsNear`) it has nothing of its own to
re-seal and is stopped there (`WrongRun`). Around that, where the keys are:
until everything is done the old one is in the key file (`Before`), from the
replacement of the key file on the new one is staged (`From`). Each of the
command's steps has a lemma that says where it leaves the frontier
(`RightStreams`, `RightArchive`, `WrongStreams`, `WrongArchive`,
`WriteKeyFileRests`).

`AccountsProofs`, for any processes, names, roles and bounds. It assumes the named
assumptions of `Accounts`: bounds are natural numbers, there is a name, `None` is
no role and no operation.

* `TypeCorrect`: `Spec => []TypeOK`, with processes that die anywhere and interfere.
* `AccountsKept`: `CareSpec => []AccountsAreKept`. `AnswersCorrect`: `CareSpec =>
  []AnswersAreRight`. `FirstOnly`: `CareSpec => OnlyTheFirstIsAsked`. The
  condition of `CareSpec` is that no two processes are between the load and the
  save of one file; without it the last to save undoes the other's change. The
  invariant says what follows from it: one process at a time holds a file
  (`OneHolds`); the file and what its holder is about to save agree with what the
  operations that returned have left, or with that and the operation in hand
  (`UsersAgree`, `TokensAgree`). That a server gives a token the right role needs
  one thing more: no token has two entries and a new one is fresh.

`ObjectsProofs`, for any requests at the same time, objects, models, blocks of a
model and contents, and any sharing of ids among tensors. It assumes that there is
at least one tensor to a model, that plain objects, models and blocks are told apart
and that `None` is nothing else.

* `TypeCorrect`: `Spec => []TypeOK`, with requests that interfere and stop
  anywhere. Types are inductive only with what a request knows at each stage of a
  call (`RightRequest`) and with two facts about contents (`Suits`): only a model's entry
  says `AI_MODEL`, so a move never looks for the blocks of something else, and a
  tensor is stored under an id of its name.
* `IndexTrue`: `CareSpec => []IndexIsTrue`. `ModelsWhole`: `CareSpec =>
  []ModelsAreWhole`. `LastCopyKept`: `CareSpec => LastCopyIsKept`.

These follow from one inductive invariant, `IInv`. For each call on its way it
says what the call may take for granted of its object although it looked long ago
(`Careful`): the entry it read is still the entry, what it holds are the bytes
the entry stands for, what it has put is there. For the calls still to come it
says that a store finds its object out of the index, because it is new or is
deleted first, or finds there a tensor of the same upload, in the same tier, that
shares the id, and that a manifest finds its tensors in the index or stored before
it (`InOrder`, `Clear`). For the objects it adds to `IndexIsTrue` that where an
entry points there is what it stands for or nothing (`Exact`), and for the blocks
that only requests which named them delete or replace them (`NamedRight`). `SoundKept` carries all
of it over the steps of other requests, which change other objects;
`QuietStep` and `ChangeStep` are the two kinds of steps; `StillUnsettled` keeps
the exception of `IndexIsTrue` true until the request it is about moves on.

`ConversationProofs`, for any names, rows, objects and bounds, and anything that
other sessions do between two turns. It assumes that no database is called `""`
or `/reset`.

* `TypeCorrect`, `QuestionsAreFresh`, `OneAtATime`, `ReferencesLocal`: the four
  invariants under `Spec`. `OnlyConfirmedDrops`, `YesDeletes`, `AlwaysSomewhere`:
  the three action properties.

The invariant ties each thing that waits for an answer to the question in the reply
to the last message, which an attachment's reply moves `behind`, and says of what is remembered ("it", the last entity) that it is of the
current database; what is remembered may be gone, because others remove things
between turns, so every handler is shown to look again. `YesDeletes` has a
hypothesis that the model showed to be needed: `cancel` drops a question before
its answer is compared with a name, so a database of that name cannot be dropped
by its name in the chat.

`DatabasesProofs`, for any requests at the same time, tables, record ids and
bounds. It assumes the named assumptions of `Databases`: the kinds of requests are
those the code has, there is at least one request, and the values that stand for
"nothing there" and "torn file" are no files, registries, handles or rows.

* `TypeCorrect`: `Spec => []TypeOK`, with requests that interfere in any way and a
  process that ends anywhere. Types are inductive only with which kinds of
  requests come to a stage and what a request has looked up when it gets there
  (`RightRequest`): a delete that reaches the sidecar has the number of its table,
  a write has a snapshot to write.
* `CareTablesSurvive`: `CareSpec => []TablesSurvive`. `CareRowsAreKept`: `CareSpec
  => []RowsAreKept`. `CareGoneStaysGone`: `CareSpec => []GoneStaysGone`.
  `CareNothingHalfWritten`: `CareSpec => []NothingHalfWritten`.

The four follow from one inductive invariant, `IInv` (`Inductive`), and from `Windows`,
which is what `SnapshotsInTurn` comes to: one writer of the sidecar at a time. None of
the four is inductive alone, because what callers were told depends on registries, files and
half-done requests that have to agree. `Taking` says which requests are beside
each other; `Requested` says of each that what it looked up long ago is
still so: one that has opened the database still has its handle (`Opening`), the tables
it makes are in the registry once it has defined them (`Shape`), a dropped
table has no rows left and no one else has its number (`Dropping`), the records an
update read are still as it read them (`OnRows`). `Snapshots` is the heart of
`TablesSurvive`: a snapshot being written is the registry except for tables
whose makers have yet to take theirs (`Unread`), and the sidecar is the registry
except for tables whose makers have yet to write (`Unwritten`); so a table
is in the sidecar by the time its maker returns, whoever wrote it there. `Stored` says
which files there are and when a sidecar may be empty. A table's number is the request
that made it, so that a new table is no old one again needs numbers that are the
request's own (`OwnNumber`) and bounded by the requests there were (`Bounds`).
`NoneDead` and `RowsRight` are the halves of "gone stays gone", and `RowsRight` also
has what `NothingHalfWritten` needs: a batch is the request's own and of one table, and
a table leaves `left` only when its batch is in. `Earlier` is about rows from before there was a registry, which
the first opening turns into a table. Lemmas carry this over the kinds of steps:
`LookingStep` for a step that only looks, `AloneRequested` for one that runs alone,
`TablesBeside` and `RowsStep` for one that changes tables or rows beside others.

`PortabilityProofs`, for any tables, columns, texts, files, record ids and bounds.
It assumes that the bounds are natural numbers, that there are finitely many table
names, and that `None` is no id and no list of columns. The first three theorems
hold for any plan: nothing is assumed of the readers. The fourth is about one of them.

* `NothingHalfImported`: `Spec => []NeverHalf`. `PreparedIsWritten` is what it rests
  on: the checks of `PrepareImport`, made one by one against the tables as they
  will be, leave the record engine nothing to refuse, because the columns they
  were made against are those of the table the rows then go to (`PreparedTable`) and
  because cleaning a row changes neither its id nor how many there are (`CleanRows`).
* `RowsFit`: `Spec => []TypeOK`. The invariant is that every table of every database
  is `Typed`: its rows are a list and fit its columns. `TableGrows` is the
  step: rows that fit, under ids neither in the table nor another's, leave
  a table that fits. What the engine adds is of that kind (`ManyCreated`), because
  validation casts each value to its column's type or raises (`CoercedHasType`,
  `ValidatedFits`), repeated ids are refused, and generated ones are fresh.
* `NothingLostByImport`: `Spec => ImportsOnlyAdd`, from the same invariant: tables an
  import makes are not there before (`Conflicts`), and rows go after those that are
  there (`AppliedSound`).
* `BackupsReturn`: `Spec => BackupsComeBack`, the part of `ExportsComeBack` about
  native files, for tables and rows of any number and any text, nulls included: the
  import is accepted, and makes the same tables, columns, types and rows under the
  same ids. `Kept` is the invariant: the file there is was written from
  `source`, whose tables are listed once each and fit. Then `BackupRead` (what the
  reader makes of it), `BackupPrepared` (no check finds anything: the plan defines
  nothing twice, repeats no id, and every value is of its column's type), `RowBack`
  (neither cleaning nor validation changes a row) and `FilledOnce`, `RowsBack` (the
  rows are written as they were). The hypotheses are `Tidy` and `Dated`: that a date
  is read back from its text, which is of the texts and not of this code; TLC finds
  every exported table to be `Dated`.

Only model-checked: liveness (`RotationsFinish`), which the prover does not reach,
and what depends on what the other readers and writers of `Formats` make of each
other (`ExportsComeBack` for scripts, documents and diagrams, `TypedColumnsSurviveCsv`,
`TwiceIsOnce`): they fold over lines, statements and entities, and what a fold gives
is induction over data. Every invariant that a run checks is proved.

## 5. Not modelled, and the plan

What could be added, in this order:

1. Documents and images in `Objects` (the original and a record about it, stored
   one after the other), deletion of a model (which leaves its blocks), matrices,
   two requests that change one object.
2. Pure algorithms: `PathOps` (`events/codec.py`: applying a diff gives the new
   state), the majority vote of `dna/ecc.py`, delta and bit packing of MemCell at
   their width limits.
3. Proofs: that a backup imported twice changes nothing the second time.
4. The first start of two processes without a key file; mdc-lite's rename.

Left out, with reasons:

* The characters of a file or a message: tokenising, quoting, sentence matching,
  spreadsheets. They are conversions of text, better tested with texts.
* The dialogue that asks for the missing fields of a new merchant, the answers
  to queries and their filters: they change nothing but counters of the session.
* Classification, compression, storage strategy: heuristics and tables over
  bytes; `Objects` lets an upload choose any tier, which is more than they do.
* Monitoring: counters and a publisher that may drop a sample by design.
* Passwords, hashes and ciphers: a hash is told apart from another and a sealed
  block opens under its key; nothing more is said of them.
* The routes that call one operation of a component, and the formatting of replies.
