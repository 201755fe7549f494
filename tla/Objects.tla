------------------------------ MODULE Objects ------------------------------
(***************************************************************************)
(* Object storage: StorageRouter over its tiers, ObjectIndex, and the      *)
(* requests of ObjectService and ModelStore.  A request is a list of       *)
(* router calls; a router call is a few calls of a backend or of the       *)
(* index, each a step, so other requests, a failure or the end of the      *)
(* process may come between any two.  HOT is memory and goes with the      *)
(* process.                                                                *)
(*                                                                         *)
(* Content is a type, which the classifier gives it and which is part of   *)
(* its location, and a text; its checksum is the content itself.  A tensor *)
(* of a model is known by its number and is one block.                     *)
(* Compression and encoding are undone on the way back and left out.       *)
(* Definitions marked "Fault" are the bugs the properties are tried        *)
(* against; nothing in the specification uses them.                        *)
(***************************************************************************)
EXTENDS Integers, SequencesExt

CONSTANTS
  Threads,      \* requests that run at the same time
  Plain,        \* ids of objects stored as one block
  Models,       \* ids of AI models
  BlockCount,   \* tensors of a model
  Flat,         \* Flat[i]: what is left of the i-th tensor's name in its id
  Types, Texts, \* what plain content is made of
  MaxRequests,  \* bound: requests explored
  None          \* absent

Tiers == {"HOT", "WARM", "COLD", "ARCHIVE"}
Backends == {"memory", "durable", "dna"}

BackendOf(tier) ==
  CASE tier = "HOT" -> "memory"
    [] tier \in {"WARM", "COLD"} -> "durable"
    [] tier = "ARCHIVE" -> "dna"

(* WARM and COLD share a backend, and the bytes of an object moved between *)
(* them are where they belong.                                             *)

(* Fault: every tier is taken for a backend of its own. *)
SameTier(a, b) == a = b
SameBackend(a, b) == BackendOf(a) = BackendOf(b)

(* An id has "_" for every ":" and "." of the tensor's name, so that two   *)
(* tensors may have one id: the block is that of the last one stored.      *)
BlockId(m, i) == <<m, Flat[i]>>
BlockIds(m) == {BlockId(m, i) : i \in 1 .. BlockCount}
Blocks == UNION {BlockIds(m) : m \in Models}
Objects == Plain \cup Models \cup Blocks

Contents == [type : Types, text : Texts]
Manifest == [type |-> "AI_MODEL", text |-> None]
Tensor(i) == [type |-> "TENSOR", text |-> i]
Tensors == {Tensor(i) : i \in 1 .. BlockCount}
AllContents == Contents \cup {Manifest} \cup Tensors
Locations == (Types \cup {"AI_MODEL", "TENSOR"}) \X Objects

Entry == [tier : Tiers, sum : AllContents]

ASSUME BoundAssumption == BlockCount \in Nat \ {0} /\ MaxRequests \in Nat
ASSUME FlatAssumption == Flat \in [1 .. BlockCount -> 1 .. BlockCount]
ASSUME NamesAssumption ==
  /\ Plain \cap Models = {}
  /\ Blocks \cap (Plain \cup Models) = {}
  /\ {"AI_MODEL", "TENSOR"} \cap Types = {}
ASSUME NoneAssumption == None \notin Tiers \cup AllContents \cup Entry

VARIABLES
  index,      \* index[o]: the entry index:o, [tier, sum], or None
  blocks,     \* blocks[b][l]: the bytes of backend b at location l, or None
  req,        \* the request of each thread: calls still to make, and how
              \* far the first of them is
  fresh,      \* ids not given to anything yet
  requests,   \* requests begun
  lost,       \* history: objects in HOT when a process ended
  named       \* history: blocks somebody asked to delete or replace

vars == <<index, blocks, req, fresh, requests, lost, named>>

Idle == [todo |-> << >>, stage |-> "idle", entry |-> None, held |-> None]

Init ==
  /\ index = [o \in Objects |-> None]
  /\ blocks = [b \in Backends |-> [l \in Locations |-> None]]
  /\ req = [t \in Threads |-> Idle]
  /\ fresh = Objects
  /\ requests = 0
  /\ lost = {}
  /\ named = {}

Location(o, content) == <<content.type, o>>
Stored(o, entry) == blocks[BackendOf(entry.tier)][Location(o, entry.sum)]

-----------------------------------------------------------------------------
(* Calls of the router, as the entries of a request's list.                *)

Call(op, o, content, tier) == [op |-> op, o |-> o, content |-> content, tier |-> tier]
StoreCall(o, content, tier) == Call("store", o, content, tier)
ReadCall(o) == Call("read", o, None, None)
ReadManifest(m) == Call("read", m, Manifest, None)
DeleteCall(o) == Call("delete", o, None, None)
MoveCall(o, tier) == Call("move", o, None, tier)

(* A model's blocks are looked up in the index, then moved or, if it is    *)
(* for one tensor, read.                                                   *)
ListAll(m, tier) == Call("list", m, None, tier)
ListTensor(m, i) == Call("list", m, Tensor(i), None)

Doing(t, op, stage) ==
  req[t].stage = stage /\ Head(req[t].todo).op = op
Current(t) == Head(req[t].todo)

(* The calls that are left, from the start of the next. *)

(* Fault: a request without calls goes on. *)
NeverDone(calls) == [Idle EXCEPT !.todo = calls, !.stage = "start"]
From(calls) == IF calls = << >> THEN Idle ELSE [Idle EXCEPT !.todo = calls, !.stage = "start"]

Continue(t, calls) == req' = [req EXCEPT ![t] = From(calls)]

Begin(t, calls) ==
  /\ req[t] = Idle
  /\ requests < MaxRequests
  /\ requests' = requests + 1
  /\ Continue(t, calls)
  /\ UNCHANGED <<index, blocks, lost>>

Return(t) == Continue(t, Tail(req[t].todo))
Raise(t) == req' = [req EXCEPT ![t] = Idle]

-----------------------------------------------------------------------------
(* Requests.                                                               *)

Upload(t, o, content, tier) ==
  /\ o \in fresh
  /\ Begin(t, <<StoreCall(o, content, tier)>>)
  /\ fresh' = fresh \ {o} /\ UNCHANGED named

(* ModelStore.store_model: the blocks of every tensor, then the manifest.  *)

(* Fault: the manifest goes first. *)
ManifestFirst(m, tensors, tier) == << StoreCall(m, Manifest, tier) >> \o tensors
BlocksFirst(m, tensors, tier) == Append(tensors, StoreCall(m, Manifest, tier))

UploadModel(t, m, blockTier, tier) ==
  /\ m \in fresh
  /\ LET tensors == [i \in 1 .. BlockCount |-> StoreCall(BlockId(m, i), Tensor(i), blockTier)]
     IN Begin(t, BlocksFirst(m, tensors, tier))
  /\ fresh' = fresh \ ({m} \cup BlockIds(m)) /\ UNCHANGED named

(* The ids of models and blocks are made by the server. *)
Known(o) == o \in Plain \/ o \notin fresh

(* PUT: what is there is deleted, then the content is stored. *)
Replace(t, o, content, tier) ==
  /\ Known(o)
  /\ Begin(t, IF index[o] # None
              THEN <<DeleteCall(o), StoreCall(o, content, tier)>>
              ELSE <<StoreCall(o, content, tier)>>)
  /\ fresh' = fresh \ {o}
  /\ named' = named \cup ({o} \cap Blocks)

Delete(t, o) ==
  /\ Known(o)
  /\ Begin(t, <<DeleteCall(o)>>)
  /\ named' = named \cup ({o} \cap Blocks) /\ UNCHANGED fresh
Read(t, o) == Begin(t, <<ReadCall(o)>>) /\ UNCHANGED <<fresh, named>>
ReadTensor(t, m, i) ==
  Begin(t, <<ReadManifest(m), ListTensor(m, i)>>) /\ UNCHANGED <<fresh, named>>

(* A model is moved with its blocks: the manifest is read and moved first. *)
Move(t, o, tier) ==
  /\ index[o] # None
  /\ Begin(t, IF index[o].sum.type = "AI_MODEL"
              THEN <<ReadManifest(o), MoveCall(o, tier), ListAll(o, tier)>>
              ELSE <<MoveCall(o, tier)>>)
  /\ UNCHANGED <<fresh, named>>

(* Archiving and restoring by chat move one entry, a model's manifest too. *)
ArchiveOrRestore(t, o, tier) == Begin(t, <<MoveCall(o, tier)>>) /\ UNCHANGED <<fresh, named>>

(* optimize: the object is read to be profiled, and moved if another tier  *)
(* is recommended than the one it had when the request began.              *)
Optimize(t, o, tier) ==
  /\ index[o] # None
  /\ Begin(t, IF tier = index[o].tier
              THEN <<ReadCall(o)>>
              ELSE <<ReadCall(o), MoveCall(o, tier)>>)
  /\ UNCHANGED <<fresh, named>>

-----------------------------------------------------------------------------
(* Steps of a call.                                                        *)

(* _require_entry, and what the entry alone decides. *)
Lookup(t) ==
  LET call == Current(t)
      entry == index[call.o]
      found(stage) == req' = [req EXCEPT ![t].stage = stage, ![t].entry = entry]
  IN /\ \E op \in {"read", "delete", "move"} : Doing(t, op, "start")
     /\ \/ entry = None /\ Raise(t)
        \/ entry # None /\ call.op # "move" /\ found("found")
        \/ /\ entry # None /\ call.op = "move"
           /\ \/ entry.tier = call.tier /\ Return(t)
              \/ /\ entry.tier # call.tier
                 /\ found(IF SameBackend(entry.tier, call.tier) THEN "indexing" ELSE "found")
     /\ UNCHANGED <<index, blocks, fresh, requests, lost, named>>

(* The bytes are fetched; a read also compares their checksum, and that of *)
(* a manifest raises if they are none.                                     *)
Get(t) ==
  LET call == Current(t)
      entry == req[t].entry
      bytes == Stored(call.o, entry)
  IN /\ Doing(t, "read", "found") \/ Doing(t, "move", "found")
     /\ \/ bytes = None /\ Raise(t)                         \* ObjectUnavailableError
        \/ /\ bytes # None /\ call.op = "read"
           /\ IF bytes = entry.sum /\ call.content \in {None, bytes}
              THEN Return(t) ELSE Raise(t)                \* DataIntegrityError
        \/ /\ bytes # None /\ call.op = "move"
           /\ req' = [req EXCEPT ![t].stage = "held", ![t].held = bytes]
     /\ UNCHANGED <<index, blocks, fresh, requests, lost, named>>

(* Fault: a move puts the bytes where they were. *)
OldBackend(t) == BackendOf(IF Current(t).op = "move" THEN req[t].entry.tier ELSE Current(t).tier)
NewBackend(t) == BackendOf(Current(t).tier)

Put(t) ==
  LET call == Current(t)
      bytes == IF call.op = "store" THEN call.content ELSE req[t].held
      place == IF call.op = "store" THEN bytes ELSE req[t].entry.sum
  IN /\ Doing(t, "store", "start") \/ Doing(t, "move", "held")
     /\ blocks' = [blocks EXCEPT ![NewBackend(t)][Location(call.o, place)] = bytes]
     /\ req' = [req EXCEPT ![t].stage = IF call.op = "store" THEN "indexing" ELSE "put"]
     /\ UNCHANGED <<index, fresh, requests, lost, named>>

Erase(t) ==
  LET call == Current(t)
      entry == req[t].entry
  IN /\ Doing(t, "delete", "found") \/ Doing(t, "move", "put")
     /\ blocks' = [blocks EXCEPT ![BackendOf(entry.tier)][Location(call.o, entry.sum)] = None]
     /\ req' = [req EXCEPT ![t].stage = "indexing"]
     /\ UNCHANGED <<index, fresh, requests, lost, named>>

(* index.register, the end of store and of move. *)
Register(t) ==
  LET call == Current(t)
      sum == IF call.op = "store" THEN call.content ELSE req[t].entry.sum
  IN /\ Doing(t, "store", "indexing") \/ Doing(t, "move", "indexing")
     /\ index' = [index EXCEPT ![call.o] = [tier |-> call.tier, sum |-> sum]]
     /\ lost' = lost \ {call.o}
     /\ Return(t)
     /\ UNCHANGED <<blocks, fresh, requests, named>>

Unindex(t) ==
  /\ Doing(t, "delete", "indexing")
  /\ index' = [index EXCEPT ![Current(t).o] = None]
  /\ Return(t)
  /\ UNCHANGED <<blocks, fresh, requests, lost, named>>

(* index.search: the blocks of the model, or of one tensor, that are       *)
(* indexed as such, in some order.                                         *)
ListBlocks(t) ==
  LET call == Current(t)
      listed(b) == /\ index[b] # None /\ index[b].sum.type = "TENSOR"
                   /\ call.content \in {None, index[b].sum}
      each(b) == IF call.tier = None THEN ReadCall(b) ELSE MoveCall(b, call.tier)
  IN /\ Doing(t, "list", "start")
     /\ \E ids \in SetToSeqs({b \in BlockIds(call.o) : listed(b)}) :
          Continue(t, [i \in DOMAIN ids |-> each(ids[i])] \o Tail(req[t].todo))
     /\ UNCHANGED <<index, blocks, fresh, requests, lost, named>>

-----------------------------------------------------------------------------
(* A call of a backend or of the index raises, or anything else does.      *)
Abort(t) ==
  /\ req[t] # Idle
  /\ Raise(t)
  /\ UNCHANGED <<index, blocks, fresh, requests, lost, named>>

(* The process ends, with whatever it was doing, and a new one starts. *)
Restart ==
  /\ \E o \in Objects : index[o] # None
  /\ blocks' = [blocks EXCEPT !["memory"] = [l \in Locations |-> None]]
  /\ req' = [t \in Threads |-> Idle]
  /\ lost' = {o \in Objects : index[o] # None /\ index[o].tier = "HOT"}
  /\ UNCHANGED <<index, fresh, requests, named>>

Request(t) ==
  \/ \E o \in Plain, content \in Contents, tier \in Tiers : Upload(t, o, content, tier)
  \/ \E m \in Models, blockTier \in Tiers, tier \in Tiers : UploadModel(t, m, blockTier, tier)
  \/ \E o \in Objects :
       \/ Delete(t, o) \/ Read(t, o)
       \/ \E content \in Contents, tier \in Tiers : Replace(t, o, content, tier)
       \/ \E tier \in Tiers : Move(t, o, tier) \/ Optimize(t, o, tier)
       \/ \E tier \in {"WARM", "ARCHIVE"} : ArchiveOrRestore(t, o, tier)
  \/ \E m \in Models, i \in 1 .. BlockCount : ReadTensor(t, m, i)
Step(t) == Lookup(t) \/ Get(t) \/ Put(t) \/ Erase(t) \/ Register(t) \/ Unindex(t) \/ ListBlocks(t)

Next == Restart \/ \E t \in Threads : Request(t) \/ Step(t) \/ Abort(t)
Spec == Init /\ [][Next]_vars

-----------------------------------------------------------------------------
(* Two things the router does not defend against: a request that stops     *)
(* after it erased an object's bytes and before it told the index, and two *)
(* requests that change one object at a time.                              *)

Unsettled(t) ==
  /\ Doing(t, "move", "indexing") \/ Doing(t, "delete", "indexing")
  /\ Stored(Current(t).o, req[t].entry) = None

IndexFollows == \A t \in Threads :
  Unsettled(t) /\ req'[t] # req[t] => index'[Current(t).o] # index[Current(t).o]

(* A request for a model is for its blocks too. *)
Changes(t) ==
  LET calls == req[t].todo
      changing(call) == call.op \in {"store", "delete"} \/ call.tier # None
      changed == {calls[i].o : i \in {j \in DOMAIN calls : changing(calls[j])}}
  IN changed \cup UNION {BlockIds(m) : m \in Models \cap changed}
OneWriterEach == \A t, u \in Threads : t # u => Changes(t) \cap Changes(u) = {}

CareNext == Next /\ IndexFollows /\ OneWriterEach'
CareSpec == Init /\ [][CareNext]_vars

-----------------------------------------------------------------------------
Calls == [op : {"store", "read", "delete", "move", "list"}, o : Objects,
          content : AllContents \cup {None}, tier : Tiers \cup {None}]
Stages == {"idle", "start", "found", "held", "put", "indexing"}

(* Every variable has its type. *)
TypeOK ==
  /\ index \in [Objects -> Entry \cup {None}]
  /\ blocks \in [Backends -> [Locations -> AllContents \cup {None}]]
  /\ \A t \in Threads :
       /\ req[t].todo \in Seq(Calls) /\ req[t].stage \in Stages
       /\ req[t].entry \in Entry \cup {None} /\ req[t].held \in AllContents \cup {None}
       /\ req[t].todo = << >> <=> req[t] = Idle
  /\ fresh \in SUBSET Objects
  /\ requests \in 0 .. MaxRequests
  /\ lost \in SUBSET Objects
  /\ named \in SUBSET Blocks

(* What an entry stands for: its content or, where tensors share an id,    *)
(* that of any of them.                                                    *)
Sharing(i) == {j \in 1 .. BlockCount : Flat[j] = Flat[i]}
StandsFor(content) ==
  IF content.type = "TENSOR" THEN {Tensor(j) : j \in Sharing(content.text)} ELSE {content}

(* The index says where the bytes are: at every moment, for every object   *)
(* but one whose erased bytes a request is about to tell the index of, the *)
(* bytes the entry stands for are in the backend of its tier, whatever     *)
(* restarts, failures and moves came before, unless a restart found the    *)
(* object in HOT.  Of a block that tensors share, the entry may be that of *)
(* one and the bytes those of the other, if an upload stopped between.     *)
IndexIsTrue ==
  \A o \in Objects : index[o] # None =>
    \/ Stored(o, index[o]) \in StandsFor(index[o].sum)
    \/ index[o].tier = "HOT" /\ o \in lost
    \/ \E t \in Threads : Unsettled(t) /\ Current(t).o = o

(* An upload that stops half-way leaves no model that lists tensors it     *)
(* does not have, and nothing later takes a tensor away from a listed      *)
(* model but a request that names its block.  Of tensors that share an id, *)
(* one is there.                                                           *)
HasTensor(m, i) ==
  LET b == BlockId(m, i) IN index[b] # None /\ index[b].sum \in StandsFor(Tensor(i))
ModelsAreWhole ==
  \A m \in Models : index[m] # None /\ index[m].sum = Manifest =>
    \A i \in 1 .. BlockCount : HasTensor(m, i) \/ BlockId(m, i) \in named

(* The backends that hold what an object's entry stands for. *)
Copies(o) ==
  IF index[o] = None THEN {}
  ELSE {b \in Backends : blocks[b][Location(o, index[o].sum)] \in StandsFor(index[o].sum)}

(* Nothing but its deletion takes away the last copy of an object, at no   *)
(* point of a move, except the end of the process when that copy was in    *)
(* memory.                                                                 *)
LastCopyIsKept ==
  [][\A o \in Objects : Copies(o) # {} /\ Copies(o)' = {} =>
       \/ Copies(o) = {"memory"} /\ \A t \in Threads : req'[t] = Idle
       \/ \E t \in Threads : /\ Doing(t, "delete", "found") \/ Doing(t, "delete", "indexing")
                             /\ Current(t).o = o]_vars
=============================================================================
